\* Every operation of one caller on every kind of handle, which may be
\* retargeted meanwhile; and two callers on the kinds that differ most.
CONSTANTS
  Kinds = {"client", "clientScope", "identityProvider", "organization", "workflow", "component", "flow", "group", "user", "realm"}
  Realms = {ra, rb}
  Names = {a, b}
  c1 = c1
  c2 = c2
  i1 = i1
  i2 = i2
  Ids = {i1, i2}
  Callers = {c1, c2}
  Usages <- SoloAndShared
  Null = Null
  Undefined = Undefined
  Pending = Pending
  Failed = Failed
  Done = Done
  Unissued = Unissued
  Gone = Gone
  MaxEdits = 1
SPECIFICATION Spec
SYMMETRY TargetSymmetry
INVARIANTS
  TypeOK
  WritesHitTarget
PROPERTIES
  NothingCreatedTwice
  LookedUpUpdatesKeepEdits
  WritesAreServed
