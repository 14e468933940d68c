CONSTANTS
  MAX_CRITICAL_LEVEL = 4
  MaxNest = 2
  Pages = 2
  MaxFailed = 1
SPECIFICATION Spec
INVARIANTS SectionsExclude LevelKept PagesExact
