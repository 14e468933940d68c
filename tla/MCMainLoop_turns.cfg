CONSTANTS
  Task = {m, a, b, c}
  NoTask = NoTask
  Main = m
SPECIFICATION FairSpec
INVARIANTS WakeupPending WaiterExact
PROPERTIES LoopTurns ShutdownEnds LostOnlyInWindow
