--------------------------- MODULE UserProvisioning -------------------------
(***************************************************************************)
(* Provisioning one user account with a password (src/src/user.ts, create, *)
(* update and ensure).  An account that gets a password is created         *)
(* disabled, the password is set, and only then is the account enabled;    *)
(* when the password cannot be set the account is deleted again, as far as *)
(* that succeeds.                                                          *)
(*                                                                         *)
(* Every await is a place where a call can be overtaken by another caller, *)
(* where the calling process can die, and where the answer of a request    *)
(* can be an error although the server carried the request out.  Each      *)
(* caller has a handle of its own for the one username, and calls again    *)
(* with ensure() and the same data when a call did not succeed.            *)
(***************************************************************************)
EXTENDS Naturals

CONSTANTS
  Callers,            \* processes that provision the account
  FirstOps,           \* what a caller calls first, a subset of Ops
  Inputs,             \* the data callers pass: [password, enabled] records
  Omitted,            \* the enabled field is not in the data
  None,               \* no account, no representation, no report
  MaxFaults,          \* bound on failed, lost and crashed steps
  LostAnswers,        \* may a request be applied and yet answered by an error?
  Crashes,            \* may a caller die between two steps?
  OtherAdmins         \* do other administrators delete and disable the account?

Ops == {"create", "update", "ensure"}
Input == [password : BOOLEAN, enabled : BOOLEAN \union {Omitted}]

VARIABLES
  account,            \* the server's account under the username, or None
  lastId,             \* the last user id the server issued
  call,               \* what each caller is doing
  data,               \* what each caller was asked to establish
  faults,             \* faults so far
  interfered          \* have other administrators changed the account?

vars == <<account, lastId, call, data, faults, interfered>>

\* What made an account as enabled as it is: the update of update() or of
\* ensure(), the creation of either create() or ensure(), their enable step, or
\* somebody else.
Steps == Ops \union {"enable", "admin"}

\* An account: whether it can be used, whether the password the callers
\* supply is set, whether its creation is to be followed by a password, and
\* which step of which caller enabled it.
Account == [id : Nat, enabled : BOOLEAN, password : BOOLEAN, guarded : BOOLEAN,
            by : Steps, who : Callers \union {None}]

\* UserPasswordProvisioningError, reduced to what it says of the account.
Report == [persists : BOOLEAN, enabled : BOOLEAN \union {None},
           passwordApplied : BOOLEAN, initial : BOOLEAN]

ASSUME UserProvisioningAssumption ==
  /\ FirstOps \subseteq Ops
  /\ Inputs \subseteq Input
  /\ Omitted \notin BOOLEAN
  /\ None \notin BOOLEAN \union Nat \union Account \union Report
  /\ MaxFaults \in Nat
  /\ {LostAnswers, Crashes, OtherAdmins} \subseteq BOOLEAN

Places == {"idle", "lookup", "create", "update", "password", "cleanup", "enable", "final"}

Idle(status, report) ==
  [op |-> None, pc |-> "idle", one |-> None, id |-> None,
   status |-> status, report |-> report]

Init ==
  /\ account \in {None} \union
       {[id |-> 0, enabled |-> e, password |-> FALSE, guarded |-> FALSE,
         by |-> "admin", who |-> None] : e \in BOOLEAN}
  /\ lastId = 0
  /\ call = [p \in Callers |-> Idle("new", None)]
  /\ data \in [Callers -> Inputs]
  /\ faults = 0
  /\ interfered = FALSE

-----------------------------------------------------------------------------
(* What the data ask for                                                   *)

\* Fault: the default is left to the server.
DesiredAsGiven(d) == d.enabled

\* "rest.enabled ?? true"
DesiredEnabled(d) == IF d.enabled = Omitted THEN TRUE ELSE d.enabled

\* Fault: the account is created as it is to end up.
CreatedAsDesired(d) == DesiredEnabled(d)

\* The enabled field of the creation payload.
CreatedEnabled(d) == IF d.password THEN FALSE ELSE DesiredEnabled(d)

\* Fault: the merge lets the representation read win over the data.
MergedKeepsOld(d, one) == one.enabled

\* The update payload is the representation read, overlaid with the fields the
\* caller passed.
MergedEnabled(d, one) == IF d.enabled = Omitted THEN one.enabled ELSE d.enabled

-----------------------------------------------------------------------------
(* Requests and faults                                                     *)

At(p, pc) == call[p].pc = pc

\* The call goes on: "one" is the representation its get() found, and "id"
\* the account it writes to.
Go(p, pc, one, id) ==
  call' = [call EXCEPT ![p] = [op |-> call[p].op, pc |-> pc, one |-> one, id |-> id,
                               status |-> "running", report |-> None]]

Enter(p, pc) == Go(p, pc, call[p].one, call[p].id)

Return(p) == call' = [call EXCEPT ![p] = Idle("ok", None)]
Throw(p)  == call' = [call EXCEPT ![p] = Idle("threw", None)]
ThrowReport(p, persists, enabled, passwordApplied, initial) ==
  call' = [call EXCEPT ![p] = Idle("threw",
            [persists |-> persists, enabled |-> enabled,
             passwordApplied |-> passwordApplied, initial |-> initial])]

Fault == faults < MaxFaults /\ faults' = faults + 1

\* The account with another state and, if it is enabled, what enabled it.
Changed(enabled, password, by, who) ==
  [id |-> account.id, enabled |-> enabled, password |-> password,
   guarded |-> account.guarded, by |-> by, who |-> who]

Holds(id) == account # None /\ account.id = id

\* The server's part of a mutation: it succeeds and the account changes as
\* "change" says, or it is refused, or its answer is lost.
Succeeds(possible, change) ==
  possible /\ account' = change /\ UNCHANGED faults
Fails(possible, change) ==
  \/ ~possible /\ UNCHANGED <<account, faults>>
  \/ Fault /\ UNCHANGED account
  \/ LostAnswers /\ possible /\ Fault /\ account' = change

-----------------------------------------------------------------------------
(* The operations, one step per awaited request                            *)

Begin(p) ==
  /\ At(p, "idle")
  /\ call[p].status # "ok"
  /\ \E op \in (IF call[p].status = "new" THEN FirstOps ELSE {"ensure"}) :
       call' = [call EXCEPT ![p] = [op |-> op, pc |-> "lookup", one |-> None, id |-> None,
                                    status |-> "running", report |-> None]]
  /\ UNCHANGED <<account, lastId, data, faults, interfered>>

\* Fault: ensure() is taken for create().
LookupNeverUpdates(p) ==
  /\ At(p, "lookup")
  /\ IF account # None THEN Throw(p) ELSE Enter(p, "create")
  /\ UNCHANGED <<account, lastId, data, faults, interfered>>

\* get(): what is found decides what create, update and ensure do next.
LookupAnswered(p) ==
  /\ At(p, "lookup")
  /\ IF \/ call[p].op = "create" /\ account # None
        \/ call[p].op = "update" /\ account = None
     THEN Throw(p)
     ELSE Go(p, IF account = None THEN "create" ELSE "update", account, None)
  /\ UNCHANGED <<account, lastId, data, faults, interfered>>

LookupFailed(p) ==
  /\ At(p, "lookup") \/ At(p, "final")
  /\ Fault
  /\ Throw(p)
  /\ UNCHANGED <<account, lastId, data, interfered>>

NewAccount(p) ==
  [id |-> lastId + 1, enabled |-> CreatedEnabled(data[p]), password |-> FALSE,
   guarded |-> data[p].password, by |-> "create", who |-> p]

\* Without a password the account is complete once it is created.
Created(p) ==
  /\ At(p, "create")
  /\ Succeeds(account = None, NewAccount(p))
  /\ lastId' = lastId + 1
  /\ Go(p, IF data[p].password THEN "password" ELSE "final", call[p].one, lastId + 1)
  /\ UNCHANGED <<data, interfered>>

CreateFailed(p) ==
  /\ At(p, "create")
  /\ Fails(account = None, NewAccount(p))
  /\ lastId' = IF account' # account THEN lastId + 1 ELSE lastId
  /\ Throw(p)
  /\ UNCHANGED <<data, interfered>>

\* The update of update(), and of ensure() where it found an account.
Merged(p) ==
  IF MergedEnabled(data[p], call[p].one)
  THEN Changed(TRUE, account.password, call[p].op, p)
  ELSE Changed(FALSE, account.password, account.by, account.who)

\* The profile of an existing account is written before its password.
Updated(p) ==
  /\ At(p, "update")
  /\ Succeeds(Holds(call[p].one.id), Merged(p))
  /\ Go(p, IF data[p].password THEN "password" ELSE "final", call[p].one, call[p].one.id)
  /\ UNCHANGED <<lastId, data, interfered>>

UpdateFailed(p) ==
  /\ At(p, "update")
  /\ Fails(Holds(call[p].one.id), Merged(p))
  /\ Throw(p)
  /\ UNCHANGED <<lastId, data, interfered>>

IsInitial(p) == call[p].one = None

WithPassword == Changed(account.enabled, TRUE, account.by, account.who)

PasswordSet(p) ==
  /\ At(p, "password")
  /\ Succeeds(Holds(call[p].id), WithPassword)
  /\ Enter(p, IF IsInitial(p) /\ DesiredEnabled(data[p]) THEN "enable" ELSE "final")
  /\ UNCHANGED <<lastId, data, interfered>>

\* A new account is removed again; the update of an existing one stays.
PasswordFailed(p) ==
  /\ At(p, "password")
  /\ Fails(Holds(call[p].id), WithPassword)
  /\ IF IsInitial(p)
     THEN Enter(p, "cleanup")
     ELSE ThrowReport(p, TRUE, MergedEnabled(data[p], call[p].one), FALSE, FALSE)
  /\ UNCHANGED <<lastId, data, interfered>>

CleanedUp(p) ==
  /\ At(p, "cleanup")
  /\ Succeeds(Holds(call[p].id), None)
  /\ ThrowReport(p, FALSE, None, FALSE, TRUE)
  /\ UNCHANGED <<lastId, data, interfered>>

\* Fault: the rollback is reported without regard to its own failure.
CleanupFailedSilently(p) ==
  /\ At(p, "cleanup")
  /\ Fails(Holds(call[p].id), None)
  /\ ThrowReport(p, FALSE, None, FALSE, TRUE)
  /\ UNCHANGED <<lastId, data, interfered>>

CleanupFailed(p) ==
  /\ At(p, "cleanup")
  /\ Fails(Holds(call[p].id), None)
  /\ ThrowReport(p, TRUE, FALSE, FALSE, TRUE)
  /\ UNCHANGED <<lastId, data, interfered>>

NowEnabled(p) == Changed(TRUE, account.password, "enable", p)

EnabledLast(p) ==
  /\ At(p, "enable")
  /\ Succeeds(Holds(call[p].id), NowEnabled(p))
  /\ Enter(p, "final")
  /\ UNCHANGED <<lastId, data, interfered>>

EnableFailed(p) ==
  /\ At(p, "enable")
  /\ Fails(Holds(call[p].id), NowEnabled(p))
  /\ ThrowReport(p, TRUE, FALSE, TRUE, TRUE)
  /\ UNCHANGED <<lastId, data, interfered>>

\* The trailing get().
FinalAnswered(p) ==
  /\ At(p, "final")
  /\ Return(p)
  /\ UNCHANGED <<account, lastId, data, faults, interfered>>

-----------------------------------------------------------------------------
(* The environment                                                         *)

\* The process dies between two steps and is started again.
Crash(p) ==
  /\ Crashes
  /\ ~At(p, "idle")
  /\ Fault
  /\ Throw(p)
  /\ UNCHANGED <<account, lastId, data, interfered>>

AdminDeletes ==
  /\ OtherAdmins
  /\ account # None
  /\ Fault
  /\ account' = None
  /\ interfered' = TRUE
  /\ UNCHANGED <<lastId, call, data>>

AdminDisables ==
  /\ OtherAdmins
  /\ account # None /\ account.enabled
  /\ Fault
  /\ account' = Changed(FALSE, account.password, account.by, account.who)
  /\ interfered' = TRUE
  /\ UNCHANGED <<lastId, call, data>>

-----------------------------------------------------------------------------
Step(p) ==
  \/ Begin(p) \/ LookupAnswered(p) \/ LookupFailed(p)
  \/ Created(p) \/ CreateFailed(p) \/ Updated(p) \/ UpdateFailed(p)
  \/ PasswordSet(p) \/ PasswordFailed(p) \/ CleanedUp(p) \/ CleanupFailed(p)
  \/ EnabledLast(p) \/ EnableFailed(p) \/ FinalAnswered(p)

Next == (\E p \in Callers : Step(p) \/ Crash(p)) \/ AdminDeletes \/ AdminDisables

Spec == Init /\ [][Next]_vars

\* Requests are answered, callbacks run, and a caller whose call threw calls
\* ensure() again.
FairSpec == Spec /\ \A p \in Callers : WF_vars(Step(p))

-----------------------------------------------------------------------------
(* Properties                                                              *)

Call == [op : Ops \union {None}, pc : Places, one : Account \union {None},
         id : Nat \union {None}, status : {"new", "running", "ok", "threw"},
         report : Report \union {None}]

\* Every variable keeps its type.
TypeOK ==
  /\ account \in Account \union {None}
  /\ lastId \in Nat
  /\ call \in [Callers -> Call]
  /\ data \in [Callers -> Inputs]
  /\ faults \in 0..MaxFaults
  /\ interfered \in BOOLEAN

\* An account that was created for a password can be used without one.
Exposed == account # None /\ account.guarded /\ account.enabled /\ ~account.password

\* The creating branch of create() and ensure() never exposes an account,
\* whatever fails, dies or overlaps between its steps: what exposes one is the
\* update of update(), or of an ensure() that found the account, a retry's
\* included (user.ts:459, 506).  Where the caller of that update supplied a
\* password, it is not told that all is well: its call is still on the way to
\* the password, or threw.
OnlyUpdatesExpose ==
  Exposed =>
    /\ account.by \in {"update", "ensure"}
    /\ data[account.who].password =>
         call[account.who].status # "ok" /\ ~At(account.who, "final")

\* user.ts:388 and user.mdx:56-57: "a password-reset failure can never leave an
\* enabled, usable account"; not even once callers retry with ensure(), explicit
\* updates left aside.
FailedResetExposesNone ==
  \A p \in Callers :
    call[p].report # None /\ ~call[p].report.passwordApplied =>
      ~(Exposed /\ account.by # "update")

Provisioned(p) ==
  /\ account # None
  /\ account.enabled = DesiredEnabled(data[p])
  /\ data[p].password => account.password

\* No call is under way and none is to be repeated.
Resting == \A p \in Callers : call[p].status \in {"new", "ok"}

SameData == \A p, q \in Callers : data[p] = data[q]

\* Callers that retry with ensure() and the same data until a call succeeds
\* leave the account as the data ask, with the password, and enabled unless
\* the data say otherwise, although each may have rolled back, or updated, what
\* another was about to finish (user.mdx, "Retrying with ensure() and the same
\* enabled input updates and enables the existing user").  Nothing is claimed
\* of an account that other administrators made or changed.
SuccessMeansProvisioned ==
  Resting /\ SameData /\ ~interfered /\ (account # None => account.by # "admin") =>
    \A p \in Callers : call[p].status = "ok" => Provisioned(p)

Alone(p) == \A q \in Callers \ {p} : call[q].status = "new"

\* What the error says on the strength of an answer holds even when answers
\* get lost: "not persisting" only after a confirmed deletion, "password
\* applied" only after a confirmed reset.
ConfirmedReportsAreTrue ==
  \A p \in Callers : call[p].report # None /\ Alone(p) /\ ~interfered =>
    LET report == call[p].report
    IN  /\ ~report.persists => account = None
        /\ report.passwordApplied => account # None /\ account.password

\* Retrying gets there: faults come to an end, so every caller's retries do.
RetriesConverge == <>[](\A p \in Callers : call[p].status = "ok")
=============================================================================
