\* Every entry and option; aborts and rejections at every moment.
CONSTANTS
  Options <- AnyOptions
  Omitted = Omitted
  None = None
SPECIFICATION FairSpec
INVARIANTS
  TypeOK
  MutationRunsOnce
  ThrowsLastError
PROPERTIES
  NoReplay
  CallSettles
\* The call settles once.
CHECK_DEADLOCK FALSE
