CONSTANTS
  Keys = {"Caps", "A"}
  Mods = {"Alt"}
SPECIFICATION FairSpec
INVARIANTS KeysOnce RequestsKept
PROPERTY LampsShowLocks
CHECK_DEADLOCK FALSE
