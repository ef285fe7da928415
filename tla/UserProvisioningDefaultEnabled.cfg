\* The caller relies on accounts being enabled by default.
CONSTANTS
  Callers = {c1}
  FirstOps = {"create", "ensure"}
  Inputs <- DefaultWithPassword
  Omitted = Omitted
  None = None
  MaxFaults = 1
  LostAnswers = FALSE
  Crashes = FALSE
  OtherAdmins = FALSE
SPECIFICATION Spec
INVARIANT
  SuccessMeansProvisioned
\* Callers stop once they are done.
CHECK_DEADLOCK FALSE
