CONSTANTS
  Task = {a, b}
  NoTask = NoTask
SPECIFICATION FairSpec
CHECK_DEADLOCK FALSE
PROPERTY SetReturns
