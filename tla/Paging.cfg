\* Any endpoint, and a list that changes up to twice while it is fetched; and all
\* options for single pages around the bounds of a small range of safe integers.
CONSTANTS
  r1 = r1
  r2 = r2
  r3 = r3
  r4 = r4
  Rows <- FourRows
  Lists <- UpToThree
  Options <- AnyOptions
  Caps = {1, 2}
  OffsetIgnored = {FALSE, TRUE}
  LastPageKnown = {FALSE, TRUE}
  MaxEdits = 2
  MaxSafe = 7
  DefaultSize = 3
  Fraction = Fraction
  Values <- SomeValues
  Undefined = Undefined
  Rejected = Rejected
  None = None
SPECIFICATION PagingSpec
INVARIANTS
  TypeOK
  CompleteOrCut
  NothingSkipped
  PagesFollow
  RowsAreSafe
  StopsAtLimit
PROPERTIES
  AbortStops
  CallEnds
\* The call ends once, and a caller whose page is refused stops.
CHECK_DEADLOCK FALSE
