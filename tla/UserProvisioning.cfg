\* Two callers provision one account and retry through failures, lost answers,
\* crashes and the changes of other administrators.
CONSTANTS
  Callers = {c1, c2}
  FirstOps = {"create", "update", "ensure"}
  Inputs <- Given
  Omitted = Omitted
  None = None
  MaxFaults = 3
  LostAnswers = TRUE
  Crashes = TRUE
  OtherAdmins = TRUE
SPECIFICATION FairSpec
INVARIANTS
  TypeOK
  OnlyUpdatesExpose
  SuccessMeansProvisioned
  ConfirmedReportsAreTrue
PROPERTY
  RetriesConverge
\* Callers stop once they are done.
CHECK_DEADLOCK FALSE
