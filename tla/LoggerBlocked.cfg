SPECIFICATION FairSpec
CONSTANTS
  Callers = {main, thread}
  Worker = worker
  NoThread = none
  Slots = 2
  DaemonModes = {FALSE}
  WriteFails = FALSE
  CallLevels = {4}
  LogLevels = {1}
  MaxLogs = 1
  MaxCalls = 1
  MaxErrors = 0
PROPERTIES CallsReturn
CHECK_DEADLOCK FALSE
