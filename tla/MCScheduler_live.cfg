CONSTANTS
  m = m
  a = a
  b = b
  c = c
  k = k
  Task = {m, a, b}
  MainTask = m
  NoTask = NoTask
  KEvent = {}
  NoEvent = NoEvent
  MayWait <- JoinWaits
  MAX_TASKS = 3
  TickMod = 4
  MaxSleep = 1
  HoldBound = 1
SPECIFICATION FairSpec
PROPERTIES ReadyRuns TerminatedFreed SleepEnds
