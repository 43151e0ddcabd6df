SPECIFICATION Spec
CONSTANTS
  Loader = {cli, planner}
  Absent = Absent
  Garbled = Garbled
  Binary = Binary
  Misshapen = Misshapen
  DamageKinds = {Garbled, Binary, Misshapen}
  MaxSaves = 4
  MaxFailures = 2
  MaxCrashes = 2
  MaxDamages = 1
INVARIANTS NeverTorn AckedIsDurable OneGenerationBack LoadIsFresh SpareCoversDamage
PROPERTIES NeverBackwards RefinesRegister
CHECK_DEADLOCK FALSE
