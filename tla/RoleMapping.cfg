\* Two callers map roles of one user; one rebind, one edit.
CONSTANTS
  Realms = {ra, rb}
  a = a
  b = b
  Names = {a, b}
  Callers = {c1, c2}
  Plans <- SomePlans
  MaxRoles = 2
  Null = Null
  Undefined = Undefined
  Pending = Pending
  Failed = Failed
  MaxIncarnation = 2
  RebindsOverlap = FALSE
  MaxRetargets = 1
  MaxEdits = 1
SPECIFICATION Spec
SYMMETRY TargetSymmetry
INVARIANTS
  TypeOK
  ReturnedMeansMapped
  MapsOneRealm
PROPERTIES
  ChangesFollowPlan
