\* A rebind while a lookup is awaited.
CONSTANTS
  Realms = {ra, rb}
  Names = {a, b}
  Ids = {i1, i2}
  Callers = {c1}
  Ops = {"get"}
  Undefined = Undefined
  Null = Null
  Pending = Pending
  Failed = Failed
  Done = Done
  Unissued = Unissued
  Gone = Gone
  NoCall = NoCall
  OverlapRetarget = TRUE
  MaxGen = 2
SPECIFICATION Spec
PROPERTY
  OnlyRebindRenames
