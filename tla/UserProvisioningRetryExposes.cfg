\* The account survives the failure of its password and of its cleanup, and the
\* caller retries.
CONSTANTS
  Callers = {c1}
  FirstOps = {"create"}
  Inputs <- EnabledWithPassword
  Omitted = Omitted
  None = None
  MaxFaults = 3
  LostAnswers = FALSE
  Crashes = FALSE
  OtherAdmins = FALSE
SPECIFICATION Spec
INVARIANT
  FailedResetExposesNone
\* Callers stop once they are done.
CHECK_DEADLOCK FALSE
