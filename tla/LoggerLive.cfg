SPECIFICATION FairSpec
CONSTANTS
  Callers = {main, thread}
  Worker = worker
  NoThread = none
  Slots = 2
  DaemonModes = {FALSE}
  WriteFails = TRUE
  CallLevels = {4}
  LogLevels = {1}
  MaxLogs = 1
  MaxCalls = 2
  MaxErrors = 1
PROPERTIES CallsReturnUnlessBlocked WrittenUnlessBlocked
CHECK_DEADLOCK FALSE
