SPECIFICATION FairSpec
CONSTANTS
  t1 = t1  t2 = t2
  Ids = {t1}
  Cadences <- AllCadences
  Lists <- Edits
  Zones = {0}
  Window = 1
  MaxTime = 4
  Budget <- SyncBudget
  Never = never
  None = none
INVARIANTS
  FiredOnce
  FailureAckedOnce
PROPERTIES
  DueIsResolved
CHECK_DEADLOCK FALSE
