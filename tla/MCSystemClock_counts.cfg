CONSTANTS
  WordMod = 16
  FRQ = 6
  HZ = 3
  Zone <- Zones
  NewTime <- Before2038
  LateBound = 5
  CounterBound = 45
SPECIFICATION Spec
CHECK_DEADLOCK FALSE
INVARIANTS NoTickLost UptimeExact UniversalTimeUntil2038
PROPERTY LocalTimeMonotone
