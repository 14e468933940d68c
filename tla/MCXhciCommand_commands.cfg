CONSTANTS
  TRBCount = 5
  Serials = 5
  MaxSilent = 2
SPECIFICATION FairSpec
INVARIANTS RingsExact OwnResult
PROPERTY CommandReturns
