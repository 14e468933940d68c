CONSTANTS
  Timer = {t1, t2, t3}
  NoTimer = NoTimer
  Dangling = Dangling
  TickMod = 14
  Delay <- Short
  HoldBound = 2
  LateBound = 4
SPECIFICATION FairSpec
INVARIANT OnTime
PROPERTIES Elapses PollReturns
