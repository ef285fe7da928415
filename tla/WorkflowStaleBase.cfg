\* One caller updates a workflow that another administrator edits.
CONSTANTS
  Kinds = {"workflow"}
  Realms = {ra, rb}
  Names = {a, b}
  c1 = c1
  c2 = c2
  i1 = i1
  i2 = i2
  Ids = {i1, i2}
  Callers = {c1, c2}
  Usages <- OnlySolo
  Null = Null
  Undefined = Undefined
  Pending = Pending
  Failed = Failed
  Done = Done
  Unissued = Unissued
  Gone = Gone
  MaxEdits = 1
SPECIFICATION Spec
SYMMETRY TargetSymmetry
PROPERTY
  UpdatesKeepEdits
