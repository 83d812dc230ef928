------------------------------- MODULE Startup -------------------------------
(***************************************************************************)
(* From main to fpx_server_cycle: the configuration is read, modules are   *)
(* set up, directives are checked or processed one by one (an include      *)
(* appends to the list that is being walked, an import adds a module), the *)
(* core module and then the others are initialised, and the pool of the    *)
(* configuration is destroyed.  A file is the sequence of its directives   *)
(* (ConfigText shows how they are cut), a value is good or "bad" (Values   *)
(* shows which are), binding succeeds or fails (Listen shows how).         *)
(***************************************************************************)
EXTENDS CommandLine, FiniteSets, SequencesExt

CONSTANTS
    Files, Main,    \* regular files, and the one the command line names
    Denoted,        \* path in an include -> [kind, files]
    Broken,         \* files that end in a syntax error or cannot be read
    Libraries,      \* path in an import -> [kind, module]
    ModuleCommands, \* imported module -> command -> numbers of arguments
    HasPreinit,     \* imported modules with a preinit function
    HasInit,        \* imported modules with an init function
    Users, Groups,  \* names the system knows
    Environments,   \* [argv, euid, egid, text]: what main starts from
    MaxConf         \* bound on the number of directives

ASSUME FilesAssumption == Main \in Files /\ Broken \subseteq Files \ {Main}
ASSUME BoundAssumption == MaxConf \in Nat

\* A directive as it stands in a file.
Directives == [name : STRING, argc : Nat, arg : STRING]

\* What an include or an import names is something the system knows of, if
\* only as missing, and the main file is within the bound.
ASSUME PathsAssumption ==
    /\ Denoted \in [DOMAIN Denoted -> [kind : STRING, files : Seq(Files)]]
    /\ Libraries \in [DOMAIN Libraries -> [kind : STRING, module : DOMAIN ModuleCommands]]

ASSUME TextAssumption ==
    \A e \in Environments :
        /\ e.argv \in Seq(Seq(STRING))
        /\ e.text \in [Files -> Seq(Directives)]
        /\ Len(e.text[Main]) <= MaxConf
        /\ \A f \in Files : \A k \in DOMAIN e.text[f] :
              /\ e.text[f][k].name = "include" => e.text[f][k].arg \in DOMAIN Denoted
              /\ e.text[f][k].name = "import" => e.text[f][k].arg \in DOMAIN Libraries

VARIABLES
    env,            \* one of the Environments
    phase,          \* where main is
    conf_list,      \* directives, each with the pool that holds its words
    node,           \* the directive or module looked at, 0 for none
    modules,        \* server->modules
    module,         \* cntx and preinited of every module
    server,         \* settings, strings with their memory; listeners
    live,           \* pools not destroyed
    euid, egid,     \* effective user and group
    bound,          \* number of listeners open
    reads,          \* history: files read, in order
    done            \* history: directives handled or checked

vars == <<env, phase, conf_list, node, modules, module, server, live, euid, egid,
          bound, reads, done>>

confVars == <<conf_list, reads>>
moduleVars == <<modules, module>>
osVars == <<euid, egid, bound>>

(***************************************************************************)
(* The tables of the program.                                              *)
(***************************************************************************)
core == "core"

\* fpx_core_cmd: the directives of the core module and their arguments.
CoreCommands ==
    [include |-> {1}, import |-> {1}, listen |-> {1}, log |-> {2, 3},
     daemon |-> {1}, workdir |-> {1}, priority |-> {1}, user |-> {1}, group |-> {1}]

AllModules == {core} \cup DOMAIN ModuleCommands

Commands(m) == IF m = core THEN CoreCommands ELSE ModuleCommands[m]

\* Literals of the program: memory that is never given back.
Default == [val |-> "default", mem |-> "static"]

Settings == [daemon |-> TRUE, workdir |-> Default, user |-> Default,
             group |-> Default, listeners |-> 0]

NULL == "NULL"

NewModule == [cntx |-> NULL, preinited |-> FALSE]

Stopped == {"exit0", "exit1", "checked", "refused"}

opts == fpx_parse_argv(env.argv)

Init ==
    /\ env \in Environments
    /\ phase = "start"
    /\ conf_list = <<>> /\ node = 0
    /\ modules = <<>> /\ module = [m \in AllModules |-> NewModule]
    /\ server = Settings /\ live = {}
    /\ euid = env.euid /\ egid = env.egid /\ bound = 0
    /\ reads = <<>> /\ done = {}

\* On to the next part of main, or out of it: nothing else changes.
Goto(p) ==
    /\ phase' = p
    /\ UNCHANGED <<env, node, server, live, done, confVars, moduleVars, osVars>>

(***************************************************************************)
(* main, up to the modules.                                                *)
(***************************************************************************)
CreatePools ==
    /\ phase = "start"
    /\ \/ ~opts.valid /\ Goto("exit1")
       \/ opts.valid /\ (opts.show_version \/ opts.show_help) /\ Goto("exit0")
       \/ /\ opts.valid /\ ~opts.show_version /\ ~opts.show_help
          /\ phase' = "read"
          /\ live' = {"pool", "ptemp"}
          /\ UNCHANGED <<env, node, server, done, confVars, moduleVars, osVars>>

\* The directives of file f, their words allocated from pool mem.
Parsed(f, mem) == [k \in DOMAIN env.text[f] |->
                      [name |-> env.text[f][k].name, argc |-> env.text[f][k].argc,
                       arg |-> env.text[f][k].arg, mem |-> mem]]

fpx_config_read ==
    /\ phase = "read"
    /\ \/ Goto("exit1")
       \/ /\ conf_list' = Parsed(Main, "ptemp")
          /\ reads' = <<Main>>
          /\ phase' = "modules"
          /\ UNCHANGED <<env, node, server, live, done, moduleVars, osVars>>

\* fpx_preinit_modules stops at the first module that is preinitialised.
ToPreinit_All(mods) == DOMAIN mods

ToPreinit(mods) == {k \in DOMAIN mods : \A j \in 1..k : ~module[mods[j]].preinited}

\* A module without a preinit function gets the context of the one before.
fpx_preinit_modules(mods) ==
    LET cntx[k \in 0..Len(mods)] ==
            IF k = 0 THEN NULL
            ELSE IF mods[k] \in HasPreinit \cup {core} THEN mods[k] ELSE cntx[k - 1]
        new == {mods[k] : k \in ToPreinit(mods)}
    IN  /\ module' = [m \in AllModules |->
                         IF m \in new
                         THEN [cntx |-> cntx[CHOOSE k \in DOMAIN mods : mods[k] = m],
                               preinited |-> TRUE]
                         ELSE module[m]]
        /\ server' = IF core \in new THEN [Settings EXCEPT !.listeners = server.listeners]
                     ELSE server

First(s) == IF s = <<>> THEN 0 ELSE 1

fpx_setup_prelinked_modules ==
    /\ phase = "modules"
    /\ modules' = <<core>>
    /\ fpx_preinit_modules(<<core>>)
    /\ node' = First(conf_list)
    /\ phase' = IF opts.test_config THEN "check" ELSE "process"
    /\ UNCHANGED <<env, live, done, confVars, osVars>>

(***************************************************************************)
(* Looking up a directive and its arguments.                               *)
(***************************************************************************)
Providers(name) == {k \in DOMAIN modules : name \in DOMAIN Commands(modules[k])}

\* fpx_find_module_by_command and fpx_find_command_in_modules.
Provider(name) == modules[CHOOSE k \in Providers(name) : \A j \in Providers(name) : k <= j]

\* fpx_check_directive_arguments: from the first bit other than TAKE0 to the
\* last one, gaps included.
ArgumentsOK(d) ==
    LET takes == Commands(Provider(d.name))[d.name]
        least == IF takes \subseteq {0} THEN 0
                 ELSE CHOOSE t \in takes \ {0} : \A u \in takes \ {0} : t <= u
        most  == CHOOSE t \in takes : \A u \in takes : u <= t
    IN  least <= d.argc /\ d.argc <= most

Accepted(d) == Providers(d.name) # {} /\ ArgumentsOK(d)

Advance_Cached == node' = IF node < Len(conf_list) THEN node + 1 ELSE 0

Advance_PastEnd == node' = IF conf_list' = <<>> THEN 0 ELSE node + 1

Advance_FromHead ==
    node' = IF conf_list' # conf_list THEN 1
            ELSE IF node < Len(conf_list) THEN node + 1 ELSE 0

\* fpx_list_foreach reads the next node after the handler has run.
Advance == node' = IF node < Len(conf_list') THEN node + 1 ELSE 0

Current == conf_list[node]

(***************************************************************************)
(* include.  A directory is opened and nothing of it is read; the errors   *)
(* of the files that match a mask are not looked at; without a match the   *)
(* result is whatever errno holds.  The new words live in server->pool.    *)
(***************************************************************************)
fpx_check_absolute_path(path) == Denoted[path].kind # "relative"

fpx_is_path_has_wildcard(path) == Denoted[path].kind = "mask"

\* fpx_file_info_by_path; the type of a path it fails for is not set.
IsFile(path) == Denoted[path].kind = "file"

fpx_dir_open(path) == Denoted[path].kind = "dir"

Matches_First(path) == SelectSeq(Denoted[path].files, LAMBDA f : f = Denoted[path].files[1])

\* fpx_glob_open and fpx_glob_read, one path after the other.
Matches(path) == Denoted[path].files

FilesRead(path) ==
    IF fpx_is_path_has_wildcard(path) THEN Matches(path)
    ELSE IF IsFile(path) THEN Denoted[path].files ELSE <<>>

\* Opening and reading may fail for any path; these may also succeed.
Includable(path) ==
    /\ fpx_check_absolute_path(path)
    /\ \/ fpx_is_path_has_wildcard(path)
       \/ IsFile(path) /\ \A k \in DOMAIN FilesRead(path) : FilesRead(path)[k] \notin Broken
       \/ fpx_dir_open(path)

\* The bound of the model; in the code the list grows while memory lasts.
Room ==
    LET files == FilesRead(Current.arg)
    IN  Current.name = "include" =>
            Len(conf_list) + Len(FlattenSeq([k \in DOMAIN files |-> env.text[files[k]]])) <= MaxConf

fpx_config_read_included(path) ==
    LET files == FilesRead(path)
        new   == FlattenSeq([k \in DOMAIN files |-> Parsed(files[k], "pool")])
    IN  /\ Includable(path)
        /\ conf_list' = conf_list \o new
        /\ reads' = reads \o files

(***************************************************************************)
(* fpx_config_process and the handlers.                                    *)
(***************************************************************************)
Handled ==
    /\ done' = done \cup {node}
    /\ Advance
    /\ UNCHANGED <<env, phase, live, osVars>>

Include ==
    /\ Current.name = "include"
    /\ fpx_config_read_included(Current.arg)
    /\ Handled /\ UNCHANGED <<server, moduleVars>>

\* fpx_add_module refuses a module that is in the list.
Plugged(m) == \E k \in DOMAIN modules : modules[k] = m

\* An absolute path, dlopen, dlsym and fpx_add_module.
Importable(lib) == Libraries[lib].kind = "ok" /\ ~Plugged(Libraries[lib].module)

fpx_load_module ==
    /\ Current.name = "import" /\ Importable(Current.arg)
    /\ modules' = Append(modules, Libraries[Current.arg].module)
    /\ fpx_preinit_modules(modules')
    /\ UNCHANGED confVars
    /\ Handled

\* listen, log and the standard handlers write a field of the server; those
\* that the start-up does not read (priority, the logs) are left out.
Stored(d) ==
    CASE d.name = "listen" -> [server EXCEPT !.listeners = @ + 1]
      [] d.name = "daemon" -> [server EXCEPT !.daemon = (d.arg = "on")]
      [] d.name \in {"workdir", "user", "group"} ->
             [server EXCEPT ![d.name] = [val |-> d.arg, mem |-> d.mem]]
      [] OTHER -> server

Set ==
    /\ Provider(Current.name) = core
    /\ Current.name \notin {"include", "import"} /\ Current.arg # "bad"
    /\ server' = Stored(Current)
    /\ UNCHANGED confVars
    /\ Handled /\ UNCHANGED moduleVars

\* A handler of an imported module, with the context the module has.
ModuleDirective ==
    /\ Provider(Current.name) # core
    /\ UNCHANGED confVars
    /\ Handled /\ UNCHANGED <<server, moduleVars>>

\* A bad value, no memory for a listener, a failing system call or module.
HandlerFails ==
    /\ \/ Current.name \in {"include", "import", "listen"}
       \/ Current.arg = "bad"
       \/ Provider(Current.name) # core
    /\ Goto("exit1")

fpx_config_process ==
    /\ phase = "process" /\ node # 0
    /\ \/ ~Accepted(Current) /\ Goto("exit1")
       \/ /\ Accepted(Current) /\ Room
          /\ Include \/ fpx_load_module \/ Set \/ ModuleDirective \/ HandlerFails

(***************************************************************************)
(* -t: fpx_config_check runs only the include handler; main destroys the   *)
(* pools and ends with status 0 whatever the outcome.                      *)
(***************************************************************************)
CheckStops(p) ==
    /\ phase' = p
    /\ live' = {}
    /\ UNCHANGED <<env, node, server, done, confVars, moduleVars, osVars>>

Checked_Handled ==
    \/ Current.name # "include" /\ UNCHANGED <<confVars, moduleVars>> /\ Handled /\ server' = Stored(Current)
    \/ Include

Checked ==
    \/ Current.name # "include" /\ UNCHANGED <<server, confVars, moduleVars>> /\ Handled
    \/ Include

fpx_config_check ==
    /\ phase = "check"
    /\ \/ node = 0 /\ CheckStops("checked")
       \/ node # 0 /\ ~Accepted(Current) /\ CheckStops("refused")
       \/ node # 0 /\ Accepted(Current) /\ Current.name = "include" /\ Room /\ CheckStops("refused")
       \/ node # 0 /\ Accepted(Current) /\ Room /\ Checked

ProcessEnds_FreesConfig ==
    /\ phase = "process" /\ node = 0
    /\ phase' = "bind"
    /\ live' = live \ {"ptemp"}
    /\ UNCHANGED <<env, node, server, done, confVars, moduleVars, osVars>>

ProcessEnds == phase = "process" /\ node = 0 /\ Goto("bind")

(***************************************************************************)
(* fpx_init_modules: fpx_core_init, then the imported modules.             *)
(***************************************************************************)
BindListeners ==
    /\ phase = "bind"
    /\ \/ Goto("exit1")
       \/ /\ server.listeners > 0
          /\ bound' = server.listeners
          /\ phase' = "workdir"
          /\ UNCHANGED <<env, node, server, live, euid, egid, done, confVars, moduleVars>>

fpx_process_set_workdir == phase = "workdir" /\ (Goto("user") \/ Goto("exit1"))

\* "Not root, OK": without privileges the directive is ignored.
fpx_process_set_user ==
    /\ phase = "user"
    /\ \/ (server.user = Default \/ euid # "root") /\ Goto("group")
       \/ server.user # Default /\ euid = "root" /\ Goto("exit1")
       \/ /\ server.user # Default /\ euid = "root" /\ server.user.val \in Users
          /\ euid' = server.user.val
          /\ phase' = "group"
          /\ UNCHANGED <<env, node, server, live, egid, bound, done, confVars, moduleVars>>

\* setgid is permitted to root, and to anyone for the group it already has.
Permitted(g) == euid = "root" \/ g = egid

GroupFails_Ignored == Goto("logger")

GroupFails == Goto("exit1")

fpx_process_set_group ==
    /\ phase = "group"
    /\ \/ (server.group = Default \/ egid # "root") /\ Goto("logger")
       \/ server.group # Default /\ egid = "root" /\ GroupFails
       \/ /\ server.group # Default /\ egid = "root" /\ server.group.val \in Groups
          /\ Permitted(server.group.val)
          /\ egid' = server.group.val
          /\ phase' = "logger"
          /\ UNCHANGED <<env, node, server, live, euid, bound, done, confVars, moduleVars>>

fpx_logger_start == phase = "logger" /\ (Goto("daemon") \/ Goto("exit1"))

\* The core module is the first of the list; the others follow.
fpx_process_become_daemon ==
    /\ phase = "daemon"
    /\ \/ server.daemon /\ Goto("exit1")
       \/ /\ phase' = "init"
          /\ node' = IF Len(modules) > 1 THEN 2 ELSE 0
          /\ UNCHANGED <<env, server, live, done, confVars, moduleVars, osVars>>

\* A module without an init function counts as initialised.
fpx_init_modules ==
    /\ phase = "init" /\ node # 0
    /\ \/ /\ node' = IF node < Len(modules) THEN node + 1 ELSE 0
          /\ UNCHANGED <<env, phase, server, live, done, confVars, moduleVars, osVars>>
       \/ modules[node] \in HasInit /\ Goto("exit1")

\* The pool of the configuration goes, the logger becomes the global one.
InitEnds ==
    /\ phase = "init" /\ node = 0
    /\ live' = live \ {"ptemp"}
    /\ phase' = "cycle"
    /\ UNCHANGED <<env, node, server, done, confVars, moduleVars, osVars>>

fpx_server_cycle == phase = "cycle" /\ UNCHANGED vars

Next ==
    \/ CreatePools \/ fpx_config_read \/ fpx_setup_prelinked_modules
    \/ fpx_config_process \/ ProcessEnds \/ fpx_config_check
    \/ BindListeners \/ fpx_process_set_workdir \/ fpx_process_set_user
    \/ fpx_process_set_group \/ fpx_logger_start \/ fpx_process_become_daemon
    \/ fpx_init_modules \/ InitEnds \/ fpx_server_cycle

\* One thread runs main; the system calls it makes return.
Spec == Init /\ [][Next]_vars /\ WF_vars(Next)

(***************************************************************************)
(* Properties.                                                             *)
(***************************************************************************)
Memory == {"static", "pool", "ptemp"}

Running == {"bind", "workdir", "user", "group", "logger", "daemon", "init", "cycle"}

\* The state of main stays in its types; in particular the node is one of
\* the list that is being walked.
TypeOK ==
    /\ env \in Environments
    /\ phase \in Stopped \cup Running \cup {"start", "read", "modules", "check", "process"}
    /\ Len(conf_list) <= MaxConf
    /\ \A k \in DOMAIN conf_list : conf_list[k].mem \in Memory /\ conf_list[k].argc \in Nat
    /\ node \in 0..(IF phase = "init" THEN Len(modules) ELSE Len(conf_list))
    /\ \A k \in DOMAIN modules : modules[k] \in AllModules
    /\ module \in [AllModules -> [cntx : AllModules \cup {NULL}, preinited : BOOLEAN]]
    /\ \A s \in {"workdir", "user", "group"} : server[s].mem \in Memory
    /\ server.daemon \in BOOLEAN /\ server.listeners \in 0..MaxConf /\ bound \in 0..MaxConf
    /\ live \subseteq Memory /\ done \subseteq 1..MaxConf

Accepting == Running \cup {"checked"}

\* Once the configuration is accepted every directive in the list has been
\* handled (checked with -t), those that an include appended while the list
\* was being walked as well.
EveryDirectiveHandled == phase \in Accepting => done = DOMAIN conf_list

\* The directives are those of the main file, then those of the files that
\* the includes name, in the order of the includes; a file counts with what
\* it holds before its first error.
FilesIncluded ==
    phase \in Accepting =>
        /\ conf_list = FlattenSeq([k \in DOMAIN reads |->
                          Parsed(reads[k], IF k = 1 THEN "ptemp" ELSE "pool")])
        /\ reads = <<Main>> \o
              FlattenSeq([k \in DOMAIN conf_list |->
                  IF conf_list[k].name = "include" /\ Denoted[conf_list[k].arg].kind # "dir"
                  THEN Denoted[conf_list[k].arg].files ELSE <<>>])

\* The value of setting s after the directives handled so far.
Latest(s, default) ==
    LET given == {k \in done : conf_list[k].name = s}
    IN  IF given = {} THEN default
        ELSE conf_list[CHOOSE k \in given : \A j \in given : j <= k].arg

\* A setting has the value of the last directive that gives it, whatever
\* was included or imported in between; every listen adds a listener.
LastDirectiveWins ==
    phase = "process" \/ phase \in Running =>
        /\ \A s \in {"workdir", "user", "group"} : server[s].val = Latest(s, Default.val)
        /\ server.daemon = (Latest("daemon", "on") = "on")
        /\ server.listeners = Cardinality({k \in done : conf_list[k].name = "listen"})

\* The strings that the part of main now running reads are in memory that
\* has not been given back: the words of the directives still to handle,
\* the directory, the user and the group.
StringsAlive ==
    /\ phase \in {"check", "process"} /\ node # 0 =>
          \A k \in node..Len(conf_list) : conf_list[k].mem \in live
    /\ phase \in {"workdir", "user", "group"} => server[phase].mem \in live \cup {"static"}

\* A server that runs has given up what it was told to give up: started as
\* root with a user directive it runs as that user, started in the group
\* of root with a group directive it runs in that group.
RunsAsConfigured ==
    phase = "cycle" =>
        /\ env.euid = "root" /\ server.user # Default => euid = server.user.val
        /\ env.egid = "root" /\ server.group # Default => egid = server.group.val

\* Asked to test the configuration the program changes nothing: no setting,
\* no module, no socket, no identity, and it never gets to run.
TestIsHarmless ==
    AsksForTest(env.argv) =>
        /\ phase \notin Running \cup {"process"}
        /\ server = Settings /\ modules \in {<<>>, <<core>>}
        /\ bound = 0 /\ euid = env.euid /\ egid = env.egid

\* The files that file f includes, in one step and in any number of steps.
Includes(f) ==
    UNION {{Denoted[d.arg].files[k] : k \in DOMAIN Denoted[d.arg].files} :
               d \in {env.text[f][k] : k \in {j \in DOMAIN env.text[f] : env.text[f][j].name = "include"}}}

Reached ==
    LET within[n \in 0..Cardinality(Files)] ==
            [f \in Files |-> IF n = 0 THEN Includes(f)
                             ELSE within[n - 1][f] \cup UNION {within[n - 1][g] : g \in Includes(f)}]
    IN  within[Cardinality(Files)]

\* The start-up ends, in the server cycle or with an exit status, unless a
\* file includes itself.
StartupEnds ==
    (\A f \in Files : f \notin Reached[f]) ~> (phase \in Stopped \cup {"cycle"})

\* Every file of a directory that is included is read.
DirectoriesIncluded ==
    phase \in Accepting =>
        \A k \in DOMAIN conf_list : conf_list[k].name = "include" =>
            \A j \in DOMAIN Denoted[conf_list[k].arg].files :
                \E r \in DOMAIN reads : reads[r] = Denoted[conf_list[k].arg].files[j]
=============================================================================
