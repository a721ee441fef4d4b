SPECIFICATION Spec
CONSTANTS
  t1 = t1  t2 = t2
  Ids = {t1, t2}
  Cadences <- AllCadences
  Lists <- Both
  Zones = {0}
  Window = 1
  MaxTime = 4
  Budget <- QuietBudget
  Never = never
  None = none
INVARIANTS
  TypeOK
  FiredOnce
PROPERTIES
  NextOnlyForward
CHECK_DEADLOCK FALSE
