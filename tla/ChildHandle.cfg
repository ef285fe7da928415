\* One caller with every operation on every kind of child, another that renews
\* the parent, one retarget, one edit.
CONSTANTS
  Kinds = {"clientRole", "clientMapper", "scopeMapper", "idpMapper", "childGroup", "nestedGroup"}
  Realms = {ra, rb}
  ParentNames = {p, q}
  ChildNames = {a, b}
  ParentIds = {i, j}
  ChildIds = {k}
  c1 = c1
  c2 = c2
  Callers = {c1, c2}
  Usages <- AllUsages
  Null = Null
  Undefined = Undefined
  Pending = Pending
  Failed = Failed
  Done = Done
  Unissued = Unissued
  Gone = Gone
  Attempts = 2
SPECIFICATION Spec
SYMMETRY TargetSymmetry
INVARIANTS
  TypeOK
  WritesUnderParent
  ServedUnderParent
PROPERTIES
  VersionTracksTarget
