SPECIFICATION Spec
CONSTANTS
  t1 = t1  t2 = t2
  Ids = {t1}
  Cadences <- AllCadences
  Lists <- Moment
  Zones = {0, 1}
  Window = 1
  MaxTime = 4
  Budget <- ZonesBudget
  Never = never
  None = none
INVARIANTS
  FiredOnce
CHECK_DEADLOCK FALSE
