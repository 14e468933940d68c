CONSTANTS
  m = m
  a = a
  b = b
  c = c
  k = k
  Task = {m, a, b, c}
  MainTask = m
  NoTask = NoTask
  KEvent = {k}
  NoEvent = NoEvent
  MayWait <- KernelWaits
  MAX_TASKS = 3
  TickMod = 4
  MaxSleep = 1
  HoldBound = 1
SPECIFICATION Spec
INVARIANTS TableExact CurrentExact NoLostWakeup NoAssertionFails
PROPERTIES NoEarlyWake Implements
SYMMETRY Others
