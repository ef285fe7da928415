\* Two callers; username and password are rotated while they are resolved.
CONSTANTS
  Callers = {c1, c2}
  Parts = {"username", "password"}
  None = None
  MaxGets = 2
  MaxRotations = 1
  MaxExpiries = 1
  MaxFaults = 1
SPECIFICATION FairSpec
INVARIANTS
  TypeOK
  SingleFlight
  ResolvedAgain
PROPERTIES
  NeverWithoutToken
  AllServed
\* Callers stop once they have their tokens.
CHECK_DEADLOCK FALSE
