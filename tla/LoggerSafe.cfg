SPECIFICATION Spec
CONSTANTS
  Callers = {main, thread}
  Worker = worker
  NoThread = none
  Slots = 2
  DaemonModes = {TRUE, FALSE}
  WriteFails = TRUE
  CallLevels = {4}
  LogLevels = {1, 4}
  MaxLogs = 2
  MaxCalls = 2
  MaxErrors = 1
INVARIANTS TypeOK NoTornRead BacklogIntact SlotsConserved
PROPERTIES ImplementsChannel
CHECK_DEADLOCK FALSE
SYMMETRY CallersSymmetry
