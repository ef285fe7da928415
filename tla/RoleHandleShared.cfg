\* Two callers share the handle; it is retargeted while neither is at work.
CONSTANTS
  Realms = {ra, rb}
  Names = {a, b}
  Ids = {i1, i2}
  Callers = {c1, c2}
  Ops = {"getById", "delete", "ensure", "listRealmComposites"}
  Undefined = Undefined
  Null = Null
  Pending = Pending
  Failed = Failed
  Done = Done
  Unissued = Unissued
  Gone = Gone
  NoCall = NoCall
  OverlapRetarget = FALSE
  MaxGen = 1
SPECIFICATION Spec
SYMMETRY CallerSymmetry
INVARIANTS
  TypeOK
  WriteMatchesLookup
  ServedRoleIsCurrent
PROPERTIES
  KeepsContract
