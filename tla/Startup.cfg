SPECIFICATION Spec
CONSTANTS
    Files <- MCFiles
    Main = "main"
    Denoted <- MCDenoted
    Broken = {"b"}
    Libraries <- MCLibraries
    ModuleCommands <- MCModuleCommands
    HasPreinit = {"test1"}
    HasInit = {"test1"}
    Users = {"root", "nobody"}
    Groups = {"nogroup"}
    Environments <- MCEnvironments
    MaxConf = 14
INVARIANTS TypeOK EveryDirectiveHandled FilesIncluded LastDirectiveWins
INVARIANTS StringsAlive RunsAsConfigured TestIsHarmless
PROPERTY StartupEnds
CHECK_DEADLOCK FALSE
