------------------------ MODULE UserProvisioningProofs ----------------------
(***************************************************************************)
(* Theorems about UserProvisioning, for any callers, data and faults.      *)
(*                                                                         *)
(* The argument: ids are issued upwards and every caller holds only ids    *)
(* that were issued, so an account created now is no account some caller   *)
(* has set a password on or is about to enable.  An account is therefore   *)
(* enabled by the last step of the caller that created it, after that      *)
(* caller set its password, or else by an update; and the caller of that   *)
(* update is not done before the password is set (ToldInv).                *)
(*                                                                         *)
(* A report is true because a caller that nobody crosses knows, at each    *)
(* place, what became of the account it made (TruthInv).  A success means  *)
(* the account is as asked because whatever is still missing of it is owed *)
(* by a caller on its way, or by the retry of one that failed (AskedInv).  *)
(***************************************************************************)
EXTENDS UserProvisioning, TLAPS

\* What is true of the account "a" when "last" is the last id issued.
AccountOK(a, last) ==
  /\ a \in Account \union {None}
  /\ a # None => a.id \in 0..last
  /\ a # None /\ a.guarded /\ a.enabled =>
       a.by \in {"enable", "update", "ensure"} /\ (a.by = "enable" => a.password)

\* What is true of a caller: it holds ids that were issued, and is about to
\* enable an account only after it has set its password.
CallOK(c, a, last) ==
  /\ c \in Call
  /\ c.id # None => c.id \in 0..last
  /\ c.one # None => c.one.id \in 0..last
  /\ c.pc = "lookup" => c.op \in Ops
  /\ c.pc = "update" => c.one # None /\ c.op \in {"update", "ensure"}
  /\ c.pc = "enable" /\ a # None /\ a.id = c.id => a.password

GuardInv ==
  /\ lastId \in Nat
  /\ AccountOK(account, lastId)
  /\ call \in [Callers -> Call]
  /\ \A p \in Callers : CallOK(call[p], account, lastId)
  /\ data \in [Callers -> Inputs]
  /\ faults \in 0..MaxFaults

\* The account "b" may follow: it is gone, it is the same one with a password
\* if there was one, or it has an id never issued before.
Follows(b, last) ==
  /\ last \in Nat /\ last >= lastId
  /\ \/ b = None
     \/ account # None /\ b.id = account.id /\ (account.password => b.password)
     \/ b.id > lastId

Fits(b, last) == AccountOK(b, last) /\ Follows(b, last)

-----------------------------------------------------------------------------
(* Calls and accounts                                                      *)

\* What was true of a caller stays true when the account is followed.
LEMMA CallStays ==
  ASSUME GuardInv, NEW b, NEW last, Fits(b, last), NEW c, CallOK(c, account, lastId)
  PROVE  CallOK(c, b, last)
  <1>1. /\ c.id # None => c.id \in 0..lastId
        /\ c.one # None => c.one.id \in 0..lastId
        /\ lastId \in Nat /\ last \in Nat /\ last >= lastId
    BY DEF CallOK, GuardInv, Fits, Follows
  <1>2. /\ c.id # None => c.id \in 0..last
        /\ c.one # None => c.one.id \in 0..last
    BY <1>1
  <1>3. ASSUME c.pc = "enable", b # None, b.id = c.id PROVE b.password
    <2>1. c.id # None
      BY <1>3, UserProvisioningAssumption DEF Fits, AccountOK, Account
    <2>2. ~(b.id > lastId)
      BY <2>1, <1>1, <1>3
    <2>3. account # None /\ b.id = account.id /\ (account.password => b.password)
      BY <1>3, <2>2 DEF Fits, Follows
    <2> QED
      BY <2>3, <1>3 DEF CallOK
  <1> QED
    BY <1>2, <1>3, Zenon DEF CallOK

\* A step of one caller, in terms of where it leaves the account and the call.
LEMMA StepFits ==
  ASSUME GuardInv, NEW p \in Callers, NEW c,
         call' = [call EXCEPT ![p] = c],
         Fits(account', lastId'), CallOK(c, account', lastId'),
         UNCHANGED data, faults' \in 0..MaxFaults
  PROVE  GuardInv'
  <1>1. lastId' \in Nat /\ AccountOK(account', lastId')
    BY DEF Fits, Follows
  <1>2. call' \in [Callers -> Call]
    BY DEF GuardInv, CallOK
  <1>3. ASSUME NEW q \in Callers PROVE CallOK(call'[q], account', lastId')
    <2>1. CASE q = p
      BY <2>1 DEF GuardInv
    <2>2. CASE q # p
      <3>1. call'[q] = call[q] /\ CallOK(call[q], account, lastId)
        BY <2>2 DEF GuardInv
      <3> QED
        BY <3>1, CallStays
    <2> QED
      BY <2>1, <2>2
  <1> QED
    BY <1>1, <1>2, <1>3 DEF GuardInv, AccountOK, CallOK

LEMMA FitsSame ==
  ASSUME GuardInv PROVE Fits(account, lastId)
  BY DEF GuardInv, Fits, Follows, AccountOK

LEMMA FitsGone ==
  ASSUME GuardInv PROVE Fits(None, lastId)
  BY DEF GuardInv, Fits, Follows, AccountOK

\* A new account that is to get a password is created disabled.
LEMMA FitsNew ==
  ASSUME GuardInv, NEW p \in Callers PROVE Fits(NewAccount(p), lastId + 1)
  <1>1. data[p] \in Input
    BY UserProvisioningAssumption DEF GuardInv
  <1>2. CreatedEnabled(data[p]) \in BOOLEAN /\ (data[p].password => ~CreatedEnabled(data[p]))
    BY <1>1 DEF Input, CreatedEnabled, DesiredEnabled
  <1>3. NewAccount(p) \in Account
    BY <1>1, <1>2 DEF NewAccount, Account, Steps, Ops, Input, GuardInv
  <1> QED
    BY <1>2, <1>3 DEF NewAccount, Fits, Follows, AccountOK, GuardInv

LEMMA FitsChanged ==
  ASSUME GuardInv, account # None, NEW enabled \in BOOLEAN, NEW password \in BOOLEAN,
         NEW by \in Steps, NEW who \in Callers \union {None},
         account.password => password,
         account.guarded /\ enabled =>
           by \in {"enable", "update", "ensure"} /\ (by = "enable" => password)
  PROVE  Fits(Changed(enabled, password, by, who), lastId)
  <1>1. Changed(enabled, password, by, who) \in Account
    BY DEF Changed, Account, GuardInv, AccountOK
  <1> QED
    BY <1>1 DEF Changed, Fits, Follows, AccountOK, GuardInv

LEMMA ChangedIsAccount ==
  ASSUME GuardInv, account # None, NEW enabled \in BOOLEAN, NEW password \in BOOLEAN,
         NEW by \in Steps, NEW who \in Callers \union {None}
  PROVE  Changed(enabled, password, by, who) # None
  <1>1. Changed(enabled, password, by, who) \in Account
    BY DEF Changed, Account, GuardInv, AccountOK
  <1> QED
    BY <1>1, UserProvisioningAssumption

LEMMA AccountFields ==
  ASSUME GuardInv, account # None
  PROVE  /\ account.enabled \in BOOLEAN /\ account.password \in BOOLEAN
         /\ account.by \in Steps /\ account.who \in Callers \union {None}
         /\ account.guarded /\ account.enabled =>
              account.by \in {"enable", "update", "ensure"} /\ (account.by = "enable" => account.password)
  BY DEF GuardInv, AccountOK, Account

LEMMA MergedIsBoolean ==
  ASSUME GuardInv, NEW p \in Callers, call[p].one # None
  PROVE  MergedEnabled(data[p], call[p].one) \in BOOLEAN
  <1>1. data[p] \in Input /\ call[p].one \in Account
    BY UserProvisioningAssumption DEF GuardInv, Call
  <1> QED
    BY <1>1 DEF Input, Account, MergedEnabled

\* The update of a caller writes what MergedEnabled says, and signs it.
LEMMA MergedFields ==
  ASSUME GuardInv, NEW p \in Callers, account # None, call[p].pc = "update"
  PROVE  LET e == MergedEnabled(data[p], call[p].one)
         IN  /\ Fits(Merged(p), lastId)
             /\ Merged(p) # None /\ Merged(p).id = account.id /\ Merged(p).enabled = e
             /\ Merged(p).password = account.password
             /\ e => Merged(p).by = call[p].op /\ Merged(p).who = p
             /\ ~e => Merged(p).by = account.by
  <1> DEFINE e == MergedEnabled(data[p], call[p].one)
             op == call[p].op
             on == Changed(TRUE, account.password, op, p)
             off == Changed(FALSE, account.password, account.by, account.who)
  <1>1. call[p].one # None /\ op \in {"update", "ensure"} /\ op \in Steps
    BY DEF GuardInv, CallOK, Steps, Ops
  <1>2. e \in BOOLEAN
    BY <1>1, MergedIsBoolean
  <1>3. CASE e
    <2>1. e = TRUE /\ Merged(p) = on
      BY <1>2, <1>3 DEF Merged
    <2> HIDE DEF op
    <2>2. Fits(on, lastId)
      BY <1>1, AccountFields, FitsChanged
    <2>3. on # None
      BY <1>1, AccountFields, ChangedIsAccount
    <2>4. /\ on.id = account.id /\ on.enabled = TRUE
          /\ on.password = account.password /\ on.by = op /\ on.who = p
      BY DEF Changed
    <2> HIDE DEF e, on
    <2> QED
      BY <2>1, <2>2, <2>3, <2>4 DEF e, op
  <1>4. CASE ~e
    <2>1. e = FALSE /\ Merged(p) = off
      BY <1>2, <1>4 DEF Merged
    <2>2. Fits(off, lastId)
      BY AccountFields, FitsChanged
    <2>3. off # None
      BY AccountFields, ChangedIsAccount
    <2>4. /\ off.id = account.id /\ off.enabled = FALSE
          /\ off.password = account.password /\ off.by = account.by
      BY DEF Changed
    <2> HIDE DEF e, off
    <2> QED
      BY <2>1, <2>2, <2>3, <2>4 DEF e
  <1> QED
    BY <1>3, <1>4

\* What setting the password, and enabling last, leave in the account.
LEMMA StepFields ==
  ASSUME GuardInv, account # None, NEW p \in Callers
  PROVE  /\ WithPassword # None /\ NowEnabled(p) # None
         /\ WithPassword.id = account.id /\ NowEnabled(p).id = account.id
         /\ WithPassword.enabled = account.enabled /\ NowEnabled(p).enabled = TRUE
         /\ WithPassword.password = TRUE /\ NowEnabled(p).password = account.password
         /\ WithPassword.by = account.by /\ NowEnabled(p).who = p
  <1>1. WithPassword # None
    BY AccountFields, ChangedIsAccount DEF WithPassword
  <1>2. NowEnabled(p) # None
    BY AccountFields, ChangedIsAccount DEF NowEnabled, Steps
  <1> QED
    BY <1>1, <1>2 DEF WithPassword, NowEnabled, Changed

LEMMA FitsWithPassword ==
  ASSUME GuardInv, account # None PROVE Fits(WithPassword, lastId)
  BY AccountFields, FitsChanged DEF WithPassword

\* The caller that enables the account has set the password of that account.
LEMMA FitsNowEnabled ==
  ASSUME GuardInv, NEW p \in Callers, call[p].pc = "enable", Holds(call[p].id)
  PROVE  Fits(NowEnabled(p), lastId)
  <1>1. account # None /\ account.password
    BY DEF GuardInv, CallOK, Holds
  <1> QED
    BY <1>1, AccountFields, FitsChanged DEF NowEnabled, Steps

LEMMA AfterSucceeds ==
  ASSUME GuardInv, NEW possible, NEW change, Succeeds(possible, change)
  PROVE  possible /\ account' = change /\ faults' \in 0..MaxFaults
  BY DEF Succeeds, GuardInv

LEMMA AfterFails ==
  ASSUME GuardInv, NEW possible \in BOOLEAN, NEW change, Fails(possible, change)
  PROVE  /\ account' = account \/ (possible /\ account' = change)
         /\ faults' \in 0..MaxFaults
  BY UserProvisioningAssumption DEF Fails, Fault, GuardInv

LEMMA HoldsIsBoolean ==
  ASSUME NEW id PROVE Holds(id) \in BOOLEAN
  BY DEF Holds

-----------------------------------------------------------------------------
(* The steps                                                               *)

LEMMA InitGuard ==
  ASSUME Init PROVE GuardInv
  <1>1. AccountOK(account, lastId)
    <2>1. CASE account = None
      BY <2>1 DEF AccountOK
    <2>2. CASE account # None
      <3>1. PICK e \in BOOLEAN :
              account = [id |-> 0, enabled |-> e, password |-> FALSE, guarded |-> FALSE,
                         by |-> "admin", who |-> None]
        BY <2>2 DEF Init
      <3>2. account \in Account /\ account.id = 0 /\ account.guarded = FALSE
        BY <3>1 DEF Account, Steps
      <3>3. lastId = 0
        BY DEF Init
      <3> QED
        BY <3>2, <3>3 DEF AccountOK
    <2> QED
      BY <2>1, <2>2
  <1>2. Idle("new", None) \in Call
    BY DEF Idle, Call, Places
  <1>3. \A p \in Callers : CallOK(call[p], account, lastId)
    BY <1>2 DEF Init, CallOK, Idle
  <1> QED
    BY <1>1, <1>2, <1>3, UserProvisioningAssumption DEF Init, GuardInv

\* The records a call moves to are calls.
LEMMA Settled ==
  ASSUME NEW status \in {"new", "ok", "threw"}, NEW report \in Report \union {None},
         NEW a, NEW last
  PROVE  CallOK(Idle(status, report), a, last)
  BY DEF Idle, Call, Places, CallOK

LEMMA Running ==
  ASSUME GuardInv, NEW p \in Callers, NEW pc \in Places \ {"lookup"},
         NEW one \in Account \union {None}, NEW id \in Nat \union {None},
         NEW a, NEW last,
         id # None => id \in 0..last,
         one # None => one.id \in 0..last,
         pc = "update" => one # None /\ call[p].op \in {"update", "ensure"},
         pc = "enable" /\ a # None /\ a.id = id => a.password
  PROVE  CallOK([op |-> call[p].op, pc |-> pc, one |-> one, id |-> id,
                 status |-> "running", report |-> None], a, last)
  BY DEF GuardInv, Call, CallOK

\* A call that returns or throws, wherever it leaves the account.
LEMMA SettledFits ==
  ASSUME GuardInv, NEW p \in Callers, Fits(account', lastId'),
         NEW status \in {"ok", "threw"}, NEW report \in Report \union {None},
         call' = [call EXCEPT ![p] = Idle(status, report)],
         UNCHANGED data, faults' \in 0..MaxFaults
  PROVE  GuardInv'
  <1>1. CallOK(Idle(status, report), account', lastId')
    BY Settled
  <1> QED
    BY <1>1, StepFits

\* A call that goes on, wherever it leaves the account.
LEMMA GoFits ==
  ASSUME GuardInv, NEW p \in Callers, Fits(account', lastId'),
         NEW pc \in Places \ {"lookup"},
         NEW one \in Account \union {None}, NEW id \in Nat \union {None},
         id # None => id \in 0..lastId',
         one # None => one.id \in 0..lastId',
         pc = "update" => one # None /\ call[p].op \in {"update", "ensure"},
         pc = "enable" /\ account' # None /\ account'.id = id => account'.password,
         Go(p, pc, one, id),
         UNCHANGED data, faults' \in 0..MaxFaults
  PROVE  GuardInv'
  <1> DEFINE c == [op |-> call[p].op, pc |-> pc, one |-> one, id |-> id,
                   status |-> "running", report |-> None]
  <1>1. CallOK(c, account', lastId')
    BY Running
  <1>2. call' = [call EXCEPT ![p] = c]
    BY DEF Go
  <1> HIDE DEF c
  <1> QED
    BY <1>1, <1>2, StepFits

LEMMA CallFields ==
  ASSUME GuardInv, NEW p \in Callers
  PROVE  /\ call[p].one \in Account \union {None} /\ call[p].id \in Nat \union {None}
         /\ call[p].one # None => call[p].one.id \in 0..lastId
         /\ call[p].id # None => call[p].id \in 0..lastId
         /\ call[p].pc = "update" => call[p].one # None
         /\ lastId \in Nat
  BY DEF GuardInv, CallOK, Call

\* A call that goes on with what it has found so far.
LEMMA EnterFits ==
  ASSUME GuardInv, NEW p \in Callers, Fits(account', lastId'),
         NEW pc \in Places \ {"lookup", "update"}, Enter(p, pc),
         pc = "enable" /\ account' # None /\ account'.id = call[p].id => account'.password,
         UNCHANGED <<lastId, data>>, faults' \in 0..MaxFaults
  PROVE  GuardInv'
  <1> DEFINE one == call[p].one
             id == call[p].id
  <1>1. /\ one \in Account \union {None} /\ id \in Nat \union {None}
        /\ one # None => one.id \in 0..lastId'
        /\ id # None => id \in 0..lastId'
    BY CallFields
  <1>2. Go(p, pc, one, id)
    BY DEF Enter
  <1>3. pc = "enable" /\ account' # None /\ account'.id = id => account'.password
    OBVIOUS
  <1> HIDE DEF one, id
  <1> QED
    BY <1>1, <1>2, <1>3, GoFits

LEMMA BeginGuard ==
  ASSUME GuardInv, NEW p \in Callers, Begin(p) PROVE GuardInv'
  <1>1. PICK op \in Ops :
          call' = [call EXCEPT ![p] = [op |-> op, pc |-> "lookup", one |-> None, id |-> None,
                                       status |-> "running", report |-> None]]
    BY UserProvisioningAssumption DEF Begin, Ops
  <1> DEFINE c == [op |-> op, pc |-> "lookup", one |-> None, id |-> None,
                   status |-> "running", report |-> None]
  <1>2. CallOK(c, account, lastId)
    BY DEF CallOK, Call, Places
  <1>3. UNCHANGED <<account, lastId, data, faults>> /\ Fits(account', lastId')
    BY FitsSame DEF Begin
  <1>4. CallOK(c, account', lastId') /\ call' = [call EXCEPT ![p] = c] /\ faults' \in 0..MaxFaults
    BY <1>1, <1>2, <1>3 DEF GuardInv
  <1> HIDE DEF c
  <1> QED
    BY <1>3, <1>4, StepFits

\* A lookup comes back to an operation, and create() does not go on to update.
LEMMA LookupOps ==
  ASSUME GuardInv, NEW p \in Callers, LookupAnswered(p), account # None, ~Throw(p)
  PROVE  call[p].op \in {"update", "ensure"}
  BY DEF LookupAnswered, GuardInv, CallOK, Call, At, Ops

LEMMA LookupGuard ==
  ASSUME GuardInv, NEW p \in Callers, LookupAnswered(p) PROVE GuardInv'
  <1>1. /\ UNCHANGED <<account, lastId, data>> /\ faults' \in 0..MaxFaults
        /\ Fits(account', lastId')
    BY FitsSame DEF LookupAnswered, GuardInv
  <1>2. CASE Throw(p)
    BY <1>1, <1>2, SettledFits DEF Throw
  <1>3. CASE ~Throw(p) /\ Go(p, IF account = None THEN "create" ELSE "update", account, None)
    <2> DEFINE pc == IF account = None THEN "create" ELSE "update"
    <2>1. /\ pc \in Places \ {"lookup"} /\ pc # "enable"
          /\ pc = "update" => account # None /\ call[p].op \in {"update", "ensure"}
          /\ account \in Account \union {None}
          /\ account # None => account.id \in 0..lastId'
      BY <1>1, <1>3, LookupOps DEF Places, GuardInv, AccountOK
    <2>2. Go(p, pc, account, None)
      BY <1>3
    <2> HIDE DEF pc
    <2> QED
      BY <1>1, <2>1, <2>2, GoFits
  <1> QED
    BY <1>2, <1>3 DEF LookupAnswered

LEMMA LookupFailedGuard ==
  ASSUME GuardInv, NEW p \in Callers, LookupFailed(p) \/ Crash(p) PROVE GuardInv'
  <1>1. /\ UNCHANGED <<account, lastId, data>> /\ faults' \in 0..MaxFaults /\ Throw(p)
    BY UserProvisioningAssumption DEF LookupFailed, Crash, Fault, GuardInv
  <1>2. Fits(account', lastId')
    BY <1>1, FitsSame
  <1> QED
    BY <1>1, <1>2, SettledFits DEF Throw

LEMMA CreatedGuard ==
  ASSUME GuardInv, NEW p \in Callers, Created(p) PROVE GuardInv'
  <1>1. account' = NewAccount(p) /\ faults' \in 0..MaxFaults /\ UNCHANGED data
        /\ lastId' = lastId + 1
    BY AfterSucceeds DEF Created
  <1>2. Fits(account', lastId')
    BY <1>1, FitsNew
  <1> DEFINE pc == IF data[p].password THEN "password" ELSE "final"
  <1>3. pc \in Places /\ pc \notin {"lookup", "update", "enable"} /\ Go(p, pc, call[p].one, lastId + 1)
    BY DEF Created, Places
  <1>4. /\ call[p].one \in Account \union {None}
        /\ call[p].one # None => call[p].one.id \in 0..lastId'
        /\ lastId + 1 \in Nat /\ lastId + 1 \in 0..lastId'
    BY <1>1, CallFields
  <1> HIDE DEF pc
  <1> QED
    BY <1>1, <1>2, <1>3, <1>4, GoFits

LEMMA CreateFailedGuard ==
  ASSUME GuardInv, NEW p \in Callers, CreateFailed(p) PROVE GuardInv'
  <1>1. /\ account' = account \/ (account = None /\ account' = NewAccount(p))
        /\ faults' \in 0..MaxFaults /\ UNCHANGED data /\ Throw(p)
        /\ lastId' = IF account' # account THEN lastId + 1 ELSE lastId
    BY AfterFails DEF CreateFailed
  <1>2. Fits(account', lastId')
    <2>1. CASE account' = account
      BY <2>1, <1>1, FitsSame
    <2>2. CASE account' # account
      BY <2>2, <1>1, FitsNew
    <2> QED
      BY <2>1, <2>2
  <1> QED
    BY <1>1, <1>2, SettledFits DEF Throw

\* An update is sent for the account found.
LEMMA HeldOne ==
  ASSUME GuardInv, NEW p \in Callers, call[p].pc = "update", Holds(call[p].one.id)
  PROVE  Fits(Merged(p), lastId)
  BY CallFields, MergedFields DEF Holds

LEMMA UpdatedGuard ==
  ASSUME GuardInv, NEW p \in Callers, Updated(p) PROVE GuardInv'
  <1>1. account' = Merged(p) /\ Holds(call[p].one.id) /\ faults' \in 0..MaxFaults
        /\ UNCHANGED <<data, lastId>> /\ call[p].pc = "update"
    BY AfterSucceeds DEF Updated, At
  <1>2. Fits(account', lastId')
    BY <1>1, HeldOne
  <1> DEFINE pc == IF data[p].password THEN "password" ELSE "final"
             id == call[p].one.id
  <1>3. pc \in Places /\ pc \notin {"lookup", "update", "enable"} /\ Go(p, pc, call[p].one, id)
    BY DEF Updated, Places
  <1>4. /\ call[p].one \in Account \union {None}
        /\ call[p].one # None => call[p].one.id \in 0..lastId'
        /\ id \in Nat /\ id \in 0..lastId'
    BY <1>1, CallFields
  <1> HIDE DEF pc, id
  <1> QED
    BY <1>1, <1>2, <1>3, <1>4, GoFits

LEMMA UpdateFailedGuard ==
  ASSUME GuardInv, NEW p \in Callers, UpdateFailed(p) PROVE GuardInv'
  <1>1. /\ account' = account \/ (Holds(call[p].one.id) /\ account' = Merged(p))
        /\ faults' \in 0..MaxFaults /\ UNCHANGED <<data, lastId>> /\ Throw(p)
        /\ call[p].pc = "update"
    BY AfterFails, HoldsIsBoolean DEF UpdateFailed, At
  <1>2. Fits(account', lastId')
    BY <1>1, HeldOne, FitsSame
  <1> QED
    BY <1>1, <1>2, SettledFits DEF Throw

LEMMA PasswordSetGuard ==
  ASSUME GuardInv, NEW p \in Callers, PasswordSet(p) PROVE GuardInv'
  <1>1. account' = WithPassword /\ Holds(call[p].id) /\ faults' \in 0..MaxFaults
        /\ UNCHANGED <<data, lastId>>
    BY AfterSucceeds DEF PasswordSet
  <1>2. Fits(account', lastId') /\ account'.password
    BY <1>1, FitsWithPassword DEF Holds, WithPassword, Changed
  <1>3. PICK pc \in Places \ {"lookup", "update"} : Enter(p, pc)
    BY DEF PasswordSet, Places
  <1> QED
    BY <1>1, <1>2, <1>3, EnterFits

LEMMA PasswordFailedGuard ==
  ASSUME GuardInv, NEW p \in Callers, PasswordFailed(p) PROVE GuardInv'
  <1>1. /\ account' = account \/ (Holds(call[p].id) /\ account' = WithPassword)
        /\ faults' \in 0..MaxFaults /\ UNCHANGED <<data, lastId>>
    BY AfterFails, HoldsIsBoolean DEF PasswordFailed
  <1>2. Fits(account', lastId')
    BY <1>1, FitsWithPassword, FitsSame DEF Holds
  <1>3. CASE IsInitial(p) /\ Enter(p, "cleanup")
    BY <1>1, <1>2, <1>3, EnterFits DEF Places
  <1>4. CASE /\ ~IsInitial(p)
             /\ ThrowReport(p, TRUE, MergedEnabled(data[p], call[p].one), FALSE, FALSE)
    <2> DEFINE report == [persists |-> TRUE, enabled |-> MergedEnabled(data[p], call[p].one),
                          passwordApplied |-> FALSE, initial |-> FALSE]
    <2>1. report \in Report
      BY <1>4, MergedIsBoolean DEF Report, IsInitial
    <2>2. call' = [call EXCEPT ![p] = Idle("threw", report)]
      BY <1>4 DEF ThrowReport
    <2> HIDE DEF report
    <2> QED
      BY <1>1, <1>2, <2>1, <2>2, SettledFits
  <1> QED
    BY <1>3, <1>4 DEF PasswordFailed

\* The reports of a failed initial provisioning.
LEMMA ReportFits ==
  ASSUME GuardInv, NEW p \in Callers, Fits(account', lastId'),
         NEW persists \in BOOLEAN, NEW enabled \in BOOLEAN \union {None},
         NEW passwordApplied \in BOOLEAN,
         ThrowReport(p, persists, enabled, passwordApplied, TRUE),
         UNCHANGED data, faults' \in 0..MaxFaults
  PROVE  GuardInv'
  <1> DEFINE report == [persists |-> persists, enabled |-> enabled,
                        passwordApplied |-> passwordApplied, initial |-> TRUE]
  <1>1. report \in Report
    BY DEF Report
  <1>2. call' = [call EXCEPT ![p] = Idle("threw", report)]
    BY DEF ThrowReport
  <1> HIDE DEF report
  <1> QED
    BY <1>1, <1>2, SettledFits

LEMMA CleanupGuard ==
  ASSUME GuardInv, NEW p \in Callers, CleanedUp(p) \/ CleanupFailed(p) PROVE GuardInv'
  <1>1. /\ account' = account \/ account' = None
        /\ faults' \in 0..MaxFaults /\ UNCHANGED <<data, lastId>>
        /\ \/ ThrowReport(p, FALSE, None, FALSE, TRUE)
           \/ ThrowReport(p, TRUE, FALSE, FALSE, TRUE)
    BY AfterSucceeds, AfterFails, HoldsIsBoolean DEF CleanedUp, CleanupFailed
  <1>2. Fits(account', lastId')
    BY <1>1, FitsSame, FitsGone
  <1> QED
    BY <1>1, <1>2, ReportFits

LEMMA EnabledGuard ==
  ASSUME GuardInv, NEW p \in Callers, EnabledLast(p) PROVE GuardInv'
  <1>1. account' = NowEnabled(p) /\ Holds(call[p].id) /\ call[p].pc = "enable"
        /\ faults' \in 0..MaxFaults /\ UNCHANGED <<data, lastId>> /\ Enter(p, "final")
    BY AfterSucceeds DEF EnabledLast, At
  <1>2. Fits(account', lastId')
    BY <1>1, FitsNowEnabled
  <1> QED
    BY <1>1, <1>2, EnterFits DEF Places

LEMMA EnableFailedGuard ==
  ASSUME GuardInv, NEW p \in Callers, EnableFailed(p) PROVE GuardInv'
  <1>1. /\ account' = account \/ (Holds(call[p].id) /\ account' = NowEnabled(p))
        /\ faults' \in 0..MaxFaults /\ UNCHANGED <<data, lastId>> /\ call[p].pc = "enable"
        /\ ThrowReport(p, TRUE, FALSE, TRUE, TRUE)
    BY AfterFails, HoldsIsBoolean DEF EnableFailed, At
  <1>2. Fits(account', lastId')
    BY <1>1, FitsNowEnabled, FitsSame
  <1> QED
    BY <1>1, <1>2, ReportFits

LEMMA FinalGuard ==
  ASSUME GuardInv, NEW p \in Callers, FinalAnswered(p) PROVE GuardInv'
  <1>1. /\ UNCHANGED <<account, lastId, data>> /\ faults' \in 0..MaxFaults
        /\ Fits(account', lastId')
    BY FitsSame DEF FinalAnswered, GuardInv
  <1> QED
    BY <1>1, SettledFits DEF FinalAnswered, Return

LEMMA AdminGuard ==
  ASSUME GuardInv, AdminDeletes \/ AdminDisables PROVE GuardInv'
  <1>1. UNCHANGED <<lastId, call, data>> /\ faults' \in 0..MaxFaults /\ account # None
    <2>1. UNCHANGED <<lastId, call, data>> /\ account # None /\ Fault
      BY DEF AdminDeletes, AdminDisables
    <2>2. faults' \in 0..MaxFaults
      BY <2>1, UserProvisioningAssumption DEF Fault, GuardInv
    <2> QED
      BY <2>1, <2>2
  <1>2. Fits(account', lastId')
    <2>1. CASE AdminDeletes
      BY <2>1, FitsGone DEF AdminDeletes
    <2>2. CASE AdminDisables
      <3>1. Fits(Changed(FALSE, account.password, account.by, account.who), lastId)
        BY <1>1, AccountFields, FitsChanged
      <3> QED
        BY <2>2, <3>1 DEF AdminDisables
    <2> QED
      BY <2>1, <2>2
  <1>3. \A p \in Callers : CallOK(call[p], account', lastId')
    BY <1>2, CallStays DEF GuardInv
  <1> QED
    BY <1>1, <1>2, <1>3 DEF GuardInv, Fits, Follows, AccountOK, CallOK

LEMMA NextGuard ==
  ASSUME GuardInv, [Next]_vars PROVE GuardInv'
  <1>1. ASSUME NEW p \in Callers, Step(p) \/ Crash(p) PROVE GuardInv'
    BY <1>1, BeginGuard, LookupGuard, LookupFailedGuard, CreatedGuard, CreateFailedGuard,
       UpdatedGuard, UpdateFailedGuard, PasswordSetGuard, PasswordFailedGuard, CleanupGuard,
       EnabledGuard, EnableFailedGuard, FinalGuard
       DEF Step
  <1>2. CASE AdminDeletes \/ AdminDisables
    BY <1>2, AdminGuard
  <1>3. CASE UNCHANGED vars
    BY <1>3 DEF vars, GuardInv, AccountOK, CallOK
  <1> QED
    BY <1>1, <1>2, <1>3 DEF Next

LEMMA GuardTypes ==
  ASSUME GuardInv, interfered \in BOOLEAN PROVE TypeOK
  BY DEF GuardInv, AccountOK, TypeOK

\* Where the steps of a call leave it, and the calls they leave alone.
LEMMA GoneTo ==
  ASSUME GuardInv, NEW p \in Callers, NEW pc, NEW one, NEW id, Go(p, pc, one, id)
  PROVE  /\ \A q \in Callers : q # p => call'[q] = call[q]
         /\ call'[p] = [op |-> call[p].op, pc |-> pc, one |-> one, id |-> id,
                        status |-> "running", report |-> None]
         /\ call'[p].pc = pc /\ call'[p].id = id /\ call'[p].one = one
         /\ call'[p].status = "running" /\ call'[p].report = None
  BY DEF GuardInv, Go

LEMMA EnteredAt ==
  ASSUME GuardInv, NEW p \in Callers, NEW pc, Enter(p, pc)
  PROVE  /\ \A q \in Callers : q # p => call'[q] = call[q]
         /\ call'[p].pc = pc /\ call'[p].id = call[p].id /\ call'[p].one = call[p].one
         /\ call'[p].status = "running" /\ call'[p].report = None
  BY DEF GuardInv, Go, Enter

LEMMA EndedWith ==
  ASSUME GuardInv, NEW p \in Callers, NEW status, NEW report,
         call' = [call EXCEPT ![p] = Idle(status, report)]
  PROVE  /\ \A q \in Callers : q # p => call'[q] = call[q]
         /\ call'[p].pc = "idle" /\ call'[p].one = None /\ call'[p].id = None
         /\ call'[p].status = status /\ call'[p].report = report
  BY DEF GuardInv, Idle

LEMMA ReportedAs ==
  ASSUME GuardInv, NEW p \in Callers,
         NEW persists, NEW enabled, NEW passwordApplied, NEW initial,
         ThrowReport(p, persists, enabled, passwordApplied, initial)
  PROVE  /\ \A q \in Callers : q # p => call'[q] = call[q]
         /\ call'[p].pc = "idle" /\ call'[p].one = None /\ call'[p].id = None
         /\ call'[p].status = "threw"
         /\ call'[p].report.persists = persists
         /\ call'[p].report.passwordApplied = passwordApplied
  BY DEF GuardInv, ThrowReport, Idle

\* A step of a caller moves that caller only, and leaves it no longer new.
LEMMA OneCallerMoves ==
  ASSUME GuardInv, NEW p \in Callers, Step(p) \/ Crash(p)
  PROVE  /\ \A q \in Callers : q # p => call'[q] = call[q]
         /\ call'[p].status # "new"
         /\ UNCHANGED <<data, interfered>>
  <1>1. UNCHANGED <<data, interfered>>
    BY DEF Step, Crash, Begin, LookupAnswered, LookupFailed, Created, CreateFailed,
       Updated, UpdateFailed, PasswordSet, PasswordFailed, CleanedUp, CleanupFailed,
       EnabledLast, EnableFailed, FinalAnswered
  <1>2. ASSUME NEW pc, Enter(p, pc)
        PROVE  call'[p].status # "new" /\ \A q \in Callers : q # p => call'[q] = call[q]
    BY <1>2, EnteredAt
  <1>3. CASE Begin(p)
    BY <1>3 DEF Begin, GuardInv
  <1>4. CASE LookupAnswered(p) \/ Created(p) \/ Updated(p)
    BY <1>4 DEF LookupAnswered, Created, Updated, Go, Throw, Idle, GuardInv
  <1>5. CASE PasswordSet(p) \/ EnabledLast(p)
    BY <1>2, <1>5 DEF PasswordSet, EnabledLast
  <1>6. CASE \/ LookupFailed(p) \/ Crash(p) \/ CreateFailed(p) \/ UpdateFailed(p)
             \/ FinalAnswered(p)
    BY <1>6, EndedWith
       DEF LookupFailed, Crash, CreateFailed, UpdateFailed, FinalAnswered, Throw, Return
  <1>7. CASE PasswordFailed(p) \/ CleanedUp(p) \/ CleanupFailed(p) \/ EnableFailed(p)
    <2>1. CASE Enter(p, "cleanup")
      BY <1>1, <1>2, <2>1
    <2>2. CASE ~Enter(p, "cleanup")
      BY <1>7, <2>2
         DEF PasswordFailed, CleanedUp, CleanupFailed, EnableFailed, ThrowReport, Idle,
             GuardInv
    <2> QED
      BY <2>1, <2>2
  <1> QED
    BY <1>1, <1>3, <1>4, <1>5, <1>6, <1>7 DEF Step

-----------------------------------------------------------------------------
(* Who is told what of an exposed account                                  *)

\* The caller whose update exposed the account is not done, if it is to set the
\* password.
ToldInv ==
  Exposed =>
    /\ account.who \in Callers
    /\ data[account.who].password =>
         call[account.who].status # "ok" /\ ~At(account.who, "final")

\* A caller's step leaves the account, hides it, or answers for it.
LEMMA StepExposes ==
  ASSUME GuardInv, NEW p \in Callers, Step(p) \/ Crash(p)
  PROVE  account' = account \/ ~Exposed' \/ account'.who = p
  <1>1. CASE UNCHANGED account \/ account' = None
    BY <1>1 DEF Exposed
  <1>2. CASE account' = NewAccount(p)
    BY <1>2 DEF NewAccount
  <1>3. CASE account # None /\ call[p].pc = "update" /\ account' = Merged(p)
    <2>1. MergedEnabled(data[p], call[p].one) => Merged(p).who = p
      BY <1>3, MergedFields
    <2>2. ~MergedEnabled(data[p], call[p].one) => ~Merged(p).enabled
      BY <1>3, MergedFields
    <2> QED
      BY <1>3, <2>1, <2>2 DEF Exposed
  <1>4. CASE account # None /\ account' = WithPassword
    <2>1. account'.password = TRUE
      BY <1>4, StepFields
    <2> QED
      BY <2>1 DEF Exposed
  <1>5. CASE account # None /\ account' = NowEnabled(p)
    <2>1. account'.who = p
      BY <1>5, StepFields
    <2> QED
      BY <2>1
  <1>6. \A id : Holds(id) => account # None
    BY DEF Holds
  <1>7. CASE Created(p) \/ CreateFailed(p)
    BY <1>1, <1>2, <1>7, AfterSucceeds, AfterFails DEF Created, CreateFailed
  <1>8. CASE Updated(p) \/ UpdateFailed(p)
    BY <1>1, <1>3, <1>6, <1>8, AfterSucceeds, AfterFails, HoldsIsBoolean
       DEF Updated, UpdateFailed, At
  <1>9. CASE PasswordSet(p) \/ PasswordFailed(p)
    BY <1>1, <1>4, <1>6, <1>9, AfterSucceeds, AfterFails, HoldsIsBoolean
       DEF PasswordSet, PasswordFailed
  <1>10. CASE EnabledLast(p) \/ EnableFailed(p)
    BY <1>1, <1>5, <1>6, <1>10, AfterSucceeds, AfterFails, HoldsIsBoolean
       DEF EnabledLast, EnableFailed
  <1>11. CASE CleanedUp(p) \/ CleanupFailed(p)
    BY <1>1, <1>11, AfterSucceeds, AfterFails, HoldsIsBoolean DEF CleanedUp, CleanupFailed
  <1>12. CASE Begin(p) \/ LookupAnswered(p) \/ LookupFailed(p) \/ FinalAnswered(p) \/ Crash(p)
    BY <1>1, <1>12 DEF Begin, LookupAnswered, LookupFailed, FinalAnswered, Crash
  <1> QED
    BY <1>7, <1>8, <1>9, <1>10, <1>11, <1>12 DEF Step

\* A caller gets to its end without a password to set, past the password, or
\* from the last place before it.
LEMMA StepTells ==
  ASSUME GuardInv, NEW p \in Callers, Step(p) \/ Crash(p)
  PROVE  \/ call'[p].status # "ok" /\ call'[p].pc # "final"
         \/ ~data[p].password
         \/ ~Exposed'
         \/ call[p].pc = "final" /\ UNCHANGED account
  <1>1. CASE Throw(p)
    <2>1. call'[p].pc = "idle" /\ call'[p].status = "threw"
      BY <1>1, EndedWith DEF Throw
    <2> QED
      BY <2>1
  <1>2. ASSUME NEW pc, NEW one, NEW id, pc # "final", Go(p, pc, one, id)
        PROVE  call'[p].status # "ok" /\ call'[p].pc # "final"
    BY <1>2, GoneTo
  <1>3. ASSUME NEW persists, NEW enabled, NEW passwordApplied, NEW initial,
               ThrowReport(p, persists, enabled, passwordApplied, initial)
        PROVE  call'[p].status # "ok" /\ call'[p].pc # "final"
    BY <1>3, ReportedAs
  <1>4. CASE Begin(p)
    BY <1>4 DEF Begin, GuardInv
  <1>5. CASE LookupAnswered(p) \/ LookupFailed(p) \/ Crash(p) \/ CreateFailed(p) \/ UpdateFailed(p)
    BY <1>1, <1>2, <1>5 DEF LookupAnswered, LookupFailed, Crash, CreateFailed, UpdateFailed
  <1>6. CASE Created(p) \/ Updated(p)
    BY <1>2, <1>6 DEF Created, Updated
  <1>7. CASE PasswordSet(p) \/ EnabledLast(p)
    <2>1. account' = WithPassword \/ (account' = NowEnabled(p) /\ call[p].pc = "enable")
      BY <1>7, AfterSucceeds DEF PasswordSet, EnabledLast, At
    <2>2. Holds(call[p].id) /\ account # None
      BY <1>7, AfterSucceeds DEF PasswordSet, EnabledLast, Holds
    <2>3. CASE account' = WithPassword
      <3>1. account'.password = TRUE
        BY <2>2, <2>3, StepFields
      <3> QED
        BY <3>1 DEF Exposed
    <2>4. CASE account' = NowEnabled(p) /\ call[p].pc = "enable"
      <3>1. account.password
        BY <2>2, <2>4 DEF GuardInv, CallOK, Holds
      <3>2. account'.password = account.password
        BY <2>2, <2>4, StepFields
      <3> QED
        BY <3>1, <3>2 DEF Exposed
    <2> QED
      BY <2>1, <2>3, <2>4
  <1>8. CASE PasswordFailed(p) \/ CleanedUp(p) \/ CleanupFailed(p) \/ EnableFailed(p)
    BY <1>2, <1>3, <1>8 DEF PasswordFailed, CleanedUp, CleanupFailed, EnableFailed, Enter
  <1>9. CASE FinalAnswered(p)
    BY <1>9 DEF FinalAnswered, At
  <1> QED
    BY <1>4, <1>5, <1>6, <1>7, <1>8, <1>9 DEF Step

LEMMA NextTold ==
  ASSUME GuardInv, GuardInv', ToldInv, [Next]_vars PROVE ToldInv'
  <1>1. ASSUME NEW p \in Callers, Step(p) \/ Crash(p) PROVE ToldInv'
    <2> SUFFICES ASSUME Exposed' PROVE ToldInv'
      BY DEF ToldInv
    <2>1. UNCHANGED data /\ \A q \in Callers : q # p => call'[q] = call[q]
      BY <1>1, OneCallerMoves
    <2>2. CASE account'.who = p
      <3>1. CASE call[p].pc = "final" /\ UNCHANGED account
        <4>1. account' = account /\ Exposed /\ account.who = p
          BY <2>2, <3>1 DEF Exposed
        <4>2. ~data[p].password
          BY <3>1, <4>1 DEF ToldInv, At
        <4> QED
          BY <2>1, <2>2, <4>2 DEF ToldInv
      <3>2. CASE ~(call[p].pc = "final" /\ UNCHANGED account)
        BY <1>1, <2>1, <2>2, <3>2, StepTells DEF ToldInv, At
      <3> QED
        BY <3>1, <3>2
    <2>3. CASE account' = account /\ account'.who # p
      BY <2>1, <2>3 DEF ToldInv, Exposed, At
    <2> QED
      BY <1>1, <2>2, <2>3, StepExposes
  <1>2. CASE AdminDeletes
    BY <1>2 DEF AdminDeletes, ToldInv, Exposed
  <1>3. CASE AdminDisables
    <2>1. account # None /\ account' = Changed(FALSE, account.password, account.by, account.who)
      BY <1>3 DEF AdminDisables
    <2>2. account'.enabled = FALSE
      BY <2>1 DEF Changed
    <2> QED
      BY <2>2 DEF ToldInv, Exposed
  <1>4. CASE UNCHANGED vars
    BY <1>4 DEF vars, ToldInv, Exposed, At
  <1> QED
    BY <1>1, <1>2, <1>3, <1>4 DEF Next

-----------------------------------------------------------------------------
(* The theorems                                                            *)

LEMMA InterferedIsBoolean ==
  ASSUME interfered \in BOOLEAN, [Next]_vars PROVE interfered' \in BOOLEAN
  BY DEF Next, vars, Step, Crash, AdminDeletes, AdminDisables, Begin, LookupAnswered,
     LookupFailed, Created, CreateFailed, Updated, UpdateFailed, PasswordSet,
     PasswordFailed, CleanedUp, CleanupFailed, EnabledLast, EnableFailed, FinalAnswered

LEMMA Guarded == Spec => [](GuardInv /\ interfered \in BOOLEAN)
  <1>1. Init => GuardInv /\ interfered \in BOOLEAN
    BY InitGuard DEF Init
  <1>2. GuardInv /\ interfered \in BOOLEAN /\ [Next]_vars =>
          (GuardInv /\ interfered \in BOOLEAN)'
    BY NextGuard, InterferedIsBoolean
  <1> QED
    BY <1>1, <1>2, PTL DEF Spec

\* Every variable of the provisioning keeps its type, for all callers and data.
THEOREM TypeCorrect == Spec => []TypeOK
  <1>1. GuardInv /\ interfered \in BOOLEAN => TypeOK
    BY GuardTypes
  <1> QED
    BY <1>1, Guarded, PTL

\* user.ts create() and ensure(): whatever requests fail, lose their answers or
\* overlap, and wherever a process dies, an account created for a password is
\* enabled without one by an update only, and the caller of that update, if it
\* supplied a password, is not told of a success.
THEOREM OnlyUpdatesDoExpose == Spec => []OnlyUpdatesExpose
  <1>1. Init => ToldInv
    BY DEF Init, ToldInv, Exposed
  <1>2. GuardInv /\ GuardInv' /\ ToldInv /\ [Next]_vars => ToldInv'
    BY NextTold
  <1>3. GuardInv /\ ToldInv => OnlyUpdatesExpose
    BY DEF GuardInv, AccountOK, ToldInv, OnlyUpdatesExpose, Exposed
  <1> QED
    BY <1>1, <1>2, <1>3, Guarded, PTL DEF Spec

-----------------------------------------------------------------------------
(* What an error reports                                                   *)

\* What a lone caller knows of the account: its report tells the truth, and
\* the account it is about to enable is there.
Knows(p) ==
  Alone(p) /\ ~interfered =>
    /\ call[p].report # None =>
         /\ ~call[p].report.persists => account = None
         /\ call[p].report.passwordApplied => account # None /\ account.password
    /\ call[p].pc = "enable" => Holds(call[p].id)

TruthInv == \A p \in Callers : Knows(p)

\* A caller that acts ends what every other caller knew.
LEMMA ActingTells ==
  ASSUME GuardInv, TruthInv, NEW p \in Callers, Step(p) \/ Crash(p),
         Alone(p) /\ ~interfered /\ Knows(p) => Knows(p)'
  PROVE  TruthInv'
  <1>1. ASSUME NEW q \in Callers, q # p PROVE ~Alone(q)'
    BY <1>1, OneCallerMoves DEF Alone
  <1>2. Alone(p)' => Alone(p)
    BY OneCallerMoves DEF Alone
  <1>3. interfered' = interfered
    BY OneCallerMoves
  <1> QED
    BY <1>1, <1>2, <1>3 DEF TruthInv, Knows

LEMMA StepTruth ==
  ASSUME GuardInv, TruthInv, NEW p \in Callers, Step(p) \/ Crash(p)
  PROVE  TruthInv'
  <1> SUFFICES ASSUME Alone(p), ~interfered, Knows(p) PROVE Knows(p)'
    BY ActingTells
  <1>1. CASE Begin(p)
    BY <1>1 DEF Knows, Begin, GuardInv
  <1>2. CASE Return(p) \/ Throw(p)
    <2>1. call'[p].report = None /\ call'[p].pc = "idle"
      BY <1>2, EndedWith DEF Return, Throw
    <2> QED
      BY <2>1 DEF Knows
  <1>3. ASSUME NEW pc, NEW one, NEW id, pc # "enable", Go(p, pc, one, id)
        PROVE  Knows(p)'
    <2>1. call'[p].report = None /\ call'[p].pc = pc
      BY <1>3, GoneTo
    <2> QED
      BY <1>3, <2>1 DEF Knows
  <1>4. CASE LookupAnswered(p) \/ Created(p) \/ Updated(p) \/ EnabledLast(p)
    BY <1>2, <1>3, <1>4 DEF LookupAnswered, Created, Updated, EnabledLast, Enter
  <1>5. CASE PasswordSet(p)
    <2>1. account' = WithPassword /\ Holds(call[p].id)
      BY <1>5, AfterSucceeds DEF PasswordSet
    <2>2. PICK pc : Enter(p, pc)
      BY <1>5 DEF PasswordSet
    <2>3. call'[p].report = None /\ call'[p].id = call[p].id
      BY <2>2, EnteredAt
    <2>4. account' # None /\ account'.id = call[p].id
      <3>1. account # None /\ account.id = call[p].id
        BY <2>1 DEF Holds
      <3> QED
        BY <2>1, <3>1, StepFields
    <2> QED
      BY <2>3, <2>4 DEF Knows, Holds
  <1>6. ASSUME NEW persists, NEW enabled, NEW passwordApplied, NEW initial,
               ThrowReport(p, persists, enabled, passwordApplied, initial),
               ~persists => account' = None,
               passwordApplied => account' # None /\ account'.password
        PROVE  Knows(p)'
    BY <1>6, ReportedAs DEF Knows
  <1>7. CASE PasswordFailed(p)
    BY <1>3, <1>6, <1>7 DEF PasswordFailed, Enter
  <1>8. CASE CleanedUp(p) \/ CleanupFailed(p)
    BY <1>6, <1>8, AfterSucceeds, HoldsIsBoolean DEF CleanedUp, CleanupFailed
  <1>9. CASE EnableFailed(p)
    <2>1. call[p].pc = "enable" /\ Holds(call[p].id)
      BY <1>9 DEF EnableFailed, At, Knows
    <2>2. account # None /\ account.password
      BY <2>1 DEF GuardInv, CallOK, Holds
    <2>3. account' = account \/ account' = NowEnabled(p)
      BY <1>9, AfterFails, HoldsIsBoolean DEF EnableFailed
    <2>4. account' # None /\ account'.password
      BY <2>2, <2>3, StepFields
    <2> QED
      BY <1>6, <1>9, <2>4 DEF EnableFailed
  <1> QED
    BY <1>1, <1>2, <1>4, <1>5, <1>7, <1>8, <1>9
       DEF Step, Crash, LookupFailed, CreateFailed, UpdateFailed, FinalAnswered

LEMMA NextTruth ==
  ASSUME GuardInv, TruthInv, [Next]_vars PROVE TruthInv'
  <1>1. CASE AdminDeletes \/ AdminDisables
    BY <1>1 DEF AdminDeletes, AdminDisables, TruthInv, Knows
  <1>2. CASE UNCHANGED vars
    BY <1>2 DEF vars, TruthInv, Knows, Alone, Holds
  <1> QED
    BY <1>1, <1>2, StepTruth DEF Next

\* user.ts, UserPasswordProvisioningError: while no other caller and no
\* administrator has acted, what the error says on the strength of an answer
\* is so, whichever answers got lost before.
THEOREM ReportsAreTrue == Spec => []ConfirmedReportsAreTrue
  <1>1. Init => TruthInv
    BY DEF Init, TruthInv, Knows, Idle
  <1>2. GuardInv /\ TruthInv /\ [Next]_vars => TruthInv'
    BY NextTruth
  <1>3. TruthInv => ConfirmedReportsAreTrue
    BY DEF TruthInv, Knows, ConfirmedReportsAreTrue
  <1> QED
    BY <1>1, <1>2, <1>3, Guarded, PTL DEF Spec

-----------------------------------------------------------------------------
(* What success means                                                      *)

\* A caller that sets a password says whether the account is to be enabled:
\* where it relies on the default, a retry does not establish it.
EnabledGiven == \A d \in Inputs : d.password => d.enabled # Omitted

\* What is true of an account, and of a caller, when all callers ask for "d"
\* and nobody else has changed the account.  Where the data leave the enabled
\* field out, an account stays as it was made.
AccountAsked(a, d) ==
  d.enabled = Omitted /\ a # None /\ ~a.enabled => a.by = "admin"

CallAsked(c, a, d) ==
  /\ c.pc = "create" => c.one = None
  /\ c.pc \in {"password", "cleanup", "enable"} => d.password
  /\ c.pc = "enable" => DesiredEnabled(d)
  /\ d.enabled = Omitted /\ c.one # None /\ a # None /\ a.id = c.one.id =>
       a.enabled = c.one.enabled
  /\ c.pc = "password" /\ a # None /\ a.id = c.id =>
       a.enabled = DesiredEnabled(d) \/ (c.one = None /\ ~a.enabled)

Asked == \A p \in Callers : AccountAsked(account, data[p]) /\ CallAsked(call[p], account, data[p])

\* A caller that failed, or is not done, has yet to establish the account; one
\* that is done, or only reads it back, claims that it is established.
Owes(p)   == call[p].pc # "final" /\ call[p].status \in {"running", "threw"}
Claims(p) == call[p].pc = "final" \/ call[p].status = "ok"
Backed    == (\E p \in Callers : Owes(p)) \/ \A p \in Callers : Claims(p) => Provisioned(p)

\* The inductive invariant.
AskedInv ==
  SameData /\ ~interfered =>
    Asked /\ ((account # None => account.by # "admin") => Backed)

\* How a caller's step may leave the account: as enabled as it was, or as
\* enabled as the data ask.
Evolves(b, d) ==
  \/ b = None
  \/ b.id > lastId
  \/ /\ account # None /\ b.id = account.id
     /\ b.enabled = account.enabled \/ (d.enabled # Omitted /\ b.enabled = DesiredEnabled(d))

LEMMA AskedStays ==
  ASSUME GuardInv, NEW q \in Callers, NEW d, CallAsked(call[q], account, d),
         NEW b \in Account \union {None}, Evolves(b, d)
  PROVE  CallAsked(call[q], b, d)
  <1>1. /\ call[q].one # None => call[q].one.id \in 0..lastId
        /\ call[q].pc = "password" => call[q].id \in Nat \union {None}
        /\ call[q].id # None => call[q].id \in 0..lastId
        /\ lastId \in Nat
    BY CallFields
  <1>2. ASSUME b # None, d.enabled = Omitted, call[q].one # None, b.id = call[q].one.id
        PROVE  b.enabled = call[q].one.enabled
    <2>1. ~(b.id > lastId)
      BY <1>1, <1>2
    <2> QED
      BY <1>2, <2>1 DEF Evolves, CallAsked
  <1>3. ASSUME b # None, call[q].pc = "password", b.id = call[q].id
        PROVE  b.enabled = DesiredEnabled(d) \/ (call[q].one = None /\ ~b.enabled)
    <2>1. b.id \in Nat /\ None \notin Nat
      BY <1>3, UserProvisioningAssumption DEF Account
    <2>2. ~(b.id > lastId)
      BY <1>1, <1>3, <2>1
    <2> QED
      BY <1>3, <2>2 DEF Evolves, CallAsked
  <1> QED
    BY <1>2, <1>3 DEF CallAsked

\* The changes the callers make to the account.
ChangeOK(b, d) == Evolves(b, d) /\ AccountAsked(b, d)

LEMMA DataFields ==
  ASSUME EnabledGiven, GuardInv, NEW p \in Callers
  PROVE  /\ data[p].password \in BOOLEAN
         /\ data[p].enabled \in BOOLEAN \union {Omitted}
         /\ data[p].password => data[p].enabled # Omitted
         /\ DesiredEnabled(data[p]) \in BOOLEAN
         /\ data[p].enabled = Omitted => DesiredEnabled(data[p]) = TRUE
         /\ data[p].enabled # Omitted => DesiredEnabled(data[p]) = data[p].enabled
  <1>1. data[p] \in Inputs /\ data[p] \in Input
    BY UserProvisioningAssumption DEF GuardInv
  <1> QED
    BY <1>1 DEF EnabledGiven, Input, DesiredEnabled

LEMMA ChangeSame ==
  ASSUME GuardInv, Asked, NEW p \in Callers PROVE ChangeOK(account, data[p])
  BY DEF Asked, ChangeOK, Evolves

LEMMA ChangeGone ==
  ASSUME NEW d PROVE ChangeOK(None, d)
  BY DEF ChangeOK, Evolves, AccountAsked

LEMMA ChangeNew ==
  ASSUME EnabledGiven, GuardInv, NEW p \in Callers PROVE ChangeOK(NewAccount(p), data[p])
  <1>1. NewAccount(p).id = lastId + 1 /\ NewAccount(p).enabled = CreatedEnabled(data[p])
    BY DEF NewAccount
  <1>2. data[p].enabled = Omitted => CreatedEnabled(data[p]) = TRUE
    BY DataFields DEF CreatedEnabled
  <1>3. lastId \in Nat
    BY DEF GuardInv
  <1> QED
    BY <1>1, <1>2, <1>3 DEF ChangeOK, Evolves, AccountAsked

LEMMA ChangeMerged ==
  ASSUME EnabledGiven, GuardInv, Asked, NEW p \in Callers, call[p].pc = "update",
         Holds(call[p].one.id)
  PROVE  /\ ChangeOK(Merged(p), data[p])
         /\ Merged(p) # None /\ Merged(p).id = account.id
         /\ \/ Merged(p).enabled = DesiredEnabled(data[p])
            \/ Merged(p).by = "admin" /\ data[p].enabled = Omitted
  <1> DEFINE e == MergedEnabled(data[p], call[p].one)
  <1>1. call[p].one # None /\ account # None /\ account.id = call[p].one.id
    BY CallFields DEF Holds
  <1>2. e \in BOOLEAN
    BY <1>1, MergedIsBoolean
  <1>3. data[p].enabled # Omitted => e = DesiredEnabled(data[p])
    BY DataFields DEF MergedEnabled
  <1>4. data[p].enabled = Omitted => e = account.enabled /\ (~e => account.by = "admin")
    BY <1>1 DEF MergedEnabled, Asked, CallAsked, AccountAsked
  <1>5. data[p].enabled = Omitted => DesiredEnabled(data[p]) = TRUE
    BY DataFields
  <1>6. /\ Merged(p) # None /\ Merged(p).id = account.id /\ Merged(p).enabled = e
        /\ ~e => Merged(p).by = account.by
    BY <1>1, MergedFields
  <1> HIDE DEF e
  <1>7. Evolves(Merged(p), data[p])
    BY <1>1, <1>3, <1>4, <1>6 DEF Evolves
  <1>8. AccountAsked(Merged(p), data[p])
    BY <1>4, <1>6 DEF AccountAsked
  <1>9. e = DesiredEnabled(data[p]) \/ (Merged(p).by = "admin" /\ data[p].enabled = Omitted)
    BY <1>2, <1>3, <1>4, <1>5, <1>6
  <1> QED
    BY <1>6, <1>7, <1>8, <1>9 DEF ChangeOK

LEMMA ChangeWithPassword ==
  ASSUME GuardInv, Asked, NEW p \in Callers, Holds(call[p].id)
  PROVE  /\ ChangeOK(WithPassword, data[p])
         /\ WithPassword # None /\ WithPassword.id = account.id
         /\ WithPassword.enabled = account.enabled
         /\ WithPassword.password = TRUE
  <1>1. account # None /\ account.enabled \in BOOLEAN
    BY AccountFields DEF Holds
  <1>2. /\ WithPassword # None /\ WithPassword.id = account.id
        /\ WithPassword.enabled = account.enabled
        /\ WithPassword.password = TRUE /\ WithPassword.by = account.by
    BY <1>1, StepFields
  <1> QED
    BY <1>1, <1>2 DEF ChangeOK, Evolves, AccountAsked, Asked

LEMMA ChangeNowEnabled ==
  ASSUME EnabledGiven, GuardInv, Asked, NEW p \in Callers, call[p].pc = "enable",
         Holds(call[p].id)
  PROVE  /\ ChangeOK(NowEnabled(p), data[p])
         /\ NowEnabled(p) # None
         /\ NowEnabled(p).enabled = DesiredEnabled(data[p])
         /\ NowEnabled(p).password = TRUE
  <1>1. account # None /\ account.password \in BOOLEAN /\ account.password
    BY AccountFields DEF GuardInv, CallOK, Holds
  <1>2. /\ NowEnabled(p) # None /\ NowEnabled(p).id = account.id
        /\ NowEnabled(p).enabled = TRUE /\ NowEnabled(p).password = account.password
    BY <1>1, StepFields
  <1>3. data[p].password /\ DesiredEnabled(data[p])
    BY DEF Asked, CallAsked
  <1>4. DesiredEnabled(data[p]) = TRUE /\ data[p].enabled # Omitted
    BY <1>3, DataFields
  <1> QED
    BY <1>1, <1>2, <1>4 DEF ChangeOK, Evolves, AccountAsked

\* A step of a caller: it leaves the account and the call as the data ask, and
\* the caller owing, unless the account is established.
StepAsked(p) ==
  /\ ChangeOK(account', data[p])
  /\ CallAsked(call'[p], account', data[p])
  /\ \/ Owes(p)'
     \/ account' # None /\ account'.by = "admin"
     \/ Provisioned(p)'
     \/ call[p].pc = "final" /\ UNCHANGED account

\* A call that threw owes, and holds nothing.
LEMMA ThrewAsked ==
  ASSUME GuardInv, NEW p \in Callers, ChangeOK(account', data[p]),
         call'[p].pc = "idle", call'[p].one = None, call'[p].status = "threw"
  PROVE  StepAsked(p)
  BY DEF StepAsked, CallAsked, Owes

LEMMA FailedAsked ==
  ASSUME EnabledGiven, GuardInv, Asked, NEW p \in Callers,
         \/ LookupFailed(p) \/ Crash(p) \/ CreateFailed(p) \/ UpdateFailed(p)
         \/ CleanedUp(p) \/ CleanupFailed(p) \/ EnableFailed(p)
  PROVE  StepAsked(p)
  <1>1. call'[p].pc = "idle" /\ call'[p].one = None /\ call'[p].status = "threw"
    <2>1. CASE Throw(p)
      BY <2>1, EndedWith DEF Throw
    <2>2. CASE ~Throw(p)
      BY <2>2 DEF LookupFailed, Crash, CreateFailed, UpdateFailed, CleanedUp, CleanupFailed,
                  EnableFailed, ThrowReport, Idle, GuardInv
    <2> QED
      BY <2>1, <2>2
  <1>2. ChangeOK(account', data[p])
    <2>1. CASE UNCHANGED account
      BY <2>1, ChangeSame
    <2>2. CASE CreateFailed(p) /\ account' = NewAccount(p)
      BY <2>2, ChangeNew
    <2>3. CASE UpdateFailed(p) /\ Holds(call[p].one.id) /\ account' = Merged(p)
      BY <2>3, ChangeMerged DEF UpdateFailed, At
    <2>4. CASE account' = None
      BY <2>4, ChangeGone
    <2>5. CASE EnableFailed(p) /\ Holds(call[p].id) /\ account' = NowEnabled(p)
      BY <2>5, ChangeNowEnabled DEF EnableFailed, At
    <2> QED
      BY <2>1, <2>2, <2>3, <2>4, <2>5, AfterSucceeds, AfterFails, HoldsIsBoolean
         DEF LookupFailed, Crash, CreateFailed, UpdateFailed, CleanedUp, CleanupFailed,
             EnableFailed
  <1> QED
    BY <1>1, <1>2, ThrewAsked

LEMMA BeginAsked ==
  ASSUME GuardInv, Asked, NEW p \in Callers, Begin(p) PROVE StepAsked(p)
  <1>1. /\ call'[p].pc = "lookup" /\ call'[p].one = None /\ call'[p].status = "running"
        /\ UNCHANGED account
    BY DEF Begin, GuardInv
  <1> QED
    BY <1>1, ChangeSame DEF StepAsked, CallAsked, Owes

LEMMA LookupAsked ==
  ASSUME EnabledGiven, GuardInv, Asked, NEW p \in Callers, LookupAnswered(p)
  PROVE  StepAsked(p)
  <1>1. UNCHANGED account /\ ChangeOK(account', data[p])
    BY ChangeSame DEF LookupAnswered
  <1>2. CASE Throw(p)
    BY <1>1, <1>2, EndedWith, ThrewAsked DEF Throw
  <1>3. CASE Go(p, IF account = None THEN "create" ELSE "update", account, None)
    <2>1. /\ call'[p].pc = IF account = None THEN "create" ELSE "update"
          /\ call'[p].one = account /\ call'[p].status = "running"
      BY <1>3 DEF Go, GuardInv
    <2> QED
      BY <1>1, <2>1 DEF StepAsked, CallAsked, Owes
  <1> QED
    BY <1>2, <1>3 DEF LookupAnswered

LEMMA CreatedAsked ==
  ASSUME EnabledGiven, GuardInv, Asked, NEW p \in Callers, Created(p) PROVE StepAsked(p)
  <1>1. account' = NewAccount(p) /\ call[p].pc = "create" /\ UNCHANGED data
    BY AfterSucceeds DEF Created, At
  <1>2. call[p].one = None
    BY <1>1 DEF Asked, CallAsked
  <1>3. /\ call'[p].pc = IF data[p].password THEN "password" ELSE "final"
        /\ call'[p].one = None /\ call'[p].status = "running"
    BY <1>2 DEF Created, Go, GuardInv
  <1>4. /\ account'.enabled = CreatedEnabled(data[p]) /\ account' # None
    <2>1. NewAccount(p) \in Account /\ NewAccount(p).enabled = CreatedEnabled(data[p])
      <3>1. CreatedEnabled(data[p]) \in BOOLEAN /\ data[p].password \in BOOLEAN
        BY DataFields DEF CreatedEnabled
      <3> QED
        BY <3>1 DEF NewAccount, Account, Steps, Ops, GuardInv
    <2> QED
      BY <1>1, <2>1, UserProvisioningAssumption
  <1>5. CASE data[p].password
    <2>1. ~account'.enabled
      BY <1>4, <1>5 DEF CreatedEnabled
    <2> QED
      BY <1>1, <1>3, <1>5, <2>1, ChangeNew DEF StepAsked, CallAsked, Owes
  <1>6. CASE ~data[p].password
    <2>1. Provisioned(p)'
      BY <1>1, <1>4, <1>6 DEF CreatedEnabled, Provisioned
    <2> QED
      BY <1>1, <1>3, <1>6, <2>1, ChangeNew DEF StepAsked, CallAsked
  <1> QED
    BY <1>5, <1>6

LEMMA UpdatedAsked ==
  ASSUME EnabledGiven, GuardInv, Asked, NEW p \in Callers, Updated(p) PROVE StepAsked(p)
  <1>1. /\ account' = Merged(p) /\ Holds(call[p].one.id) /\ call[p].pc = "update"
        /\ UNCHANGED data
    BY AfterSucceeds DEF Updated, At
  <1>2. /\ call'[p].pc = IF data[p].password THEN "password" ELSE "final"
        /\ call'[p].one = call[p].one /\ call'[p].status = "running"
    BY DEF Updated, Go, GuardInv
  <1>3. /\ ChangeOK(account', data[p]) /\ account' # None /\ account'.id = account.id
        /\ \/ account'.enabled = DesiredEnabled(data[p])
           \/ account'.by = "admin" /\ data[p].enabled = Omitted
    BY <1>1, ChangeMerged
  <1>4. CallAsked(call[p], account', data[p])
    <2>1. account' \in Account \union {None}
      BY UpdatedGuard DEF GuardInv, AccountOK
    <2>2. CallAsked(call[p], account, data[p]) /\ Evolves(account', data[p])
      BY <1>3 DEF Asked, ChangeOK
    <2> QED
      BY <2>1, <2>2, AskedStays
  <1>5. CASE data[p].password
    <2>1. account'.enabled = DesiredEnabled(data[p])
      BY <1>3, <1>5, DataFields
    <2> QED
      BY <1>2, <1>3, <1>4, <1>5, <2>1 DEF StepAsked, CallAsked, Owes
  <1>6. CASE ~data[p].password
    <2>1. account'.by = "admin" \/ Provisioned(p)'
      BY <1>1, <1>3, <1>6 DEF Provisioned
    <2> QED
      BY <1>2, <1>3, <1>4, <1>6, <2>1 DEF StepAsked, CallAsked
  <1> QED
    BY <1>5, <1>6

LEMMA PasswordSetAsked ==
  ASSUME EnabledGiven, GuardInv, Asked, NEW p \in Callers, PasswordSet(p)
  PROVE  StepAsked(p)
  <1>1. /\ account' = WithPassword /\ Holds(call[p].id) /\ call[p].pc = "password"
        /\ UNCHANGED data
    BY AfterSucceeds DEF PasswordSet, At
  <1>2. /\ call'[p].pc = IF IsInitial(p) /\ DesiredEnabled(data[p]) THEN "enable" ELSE "final"
        /\ call'[p].one = call[p].one /\ call'[p].status = "running"
    BY DEF PasswordSet, Enter, Go, GuardInv
  <1>3. /\ ChangeOK(account', data[p]) /\ account' # None /\ account'.id = account.id
        /\ account'.enabled = account.enabled /\ account'.password = TRUE
    BY <1>1, ChangeWithPassword
  <1>4. data[p].password /\ CallAsked(call[p], account, data[p])
    BY <1>1 DEF Asked, CallAsked
  <1>5. CallAsked(call'[p], account', data[p])
    BY <1>1, <1>2, <1>3, <1>4 DEF CallAsked, Holds
  <1>6. CASE IsInitial(p) /\ DesiredEnabled(data[p])
    BY <1>2, <1>3, <1>5, <1>6 DEF StepAsked, Owes
  <1>7. CASE ~(IsInitial(p) /\ DesiredEnabled(data[p]))
    <2>1. \/ account.enabled = DesiredEnabled(data[p])
          \/ call[p].one = None /\ ~account.enabled
      BY <1>1, <1>4 DEF CallAsked, Holds
    <2>2. account.enabled \in BOOLEAN /\ DesiredEnabled(data[p]) \in BOOLEAN
      BY <1>1, AccountFields, DataFields DEF Holds
    <2>3. account'.enabled = DesiredEnabled(data[p])
      BY <1>3, <1>7, <2>1, <2>2 DEF IsInitial
    <2>4. Provisioned(p)'
      BY <1>1, <1>3, <2>3 DEF Provisioned
    <2> QED
      BY <1>3, <1>5, <2>4 DEF StepAsked
  <1> QED
    BY <1>6, <1>7

LEMMA PasswordFailedAsked ==
  ASSUME EnabledGiven, GuardInv, Asked, NEW p \in Callers, PasswordFailed(p)
  PROVE  StepAsked(p)
  <1>1. /\ call[p].pc = "password"
        /\ account' = account \/ (Holds(call[p].id) /\ account' = WithPassword)
    BY AfterFails, HoldsIsBoolean DEF PasswordFailed, At
  <1>2. ChangeOK(account', data[p])
    BY <1>1, ChangeSame, ChangeWithPassword
  <1>3. CASE Enter(p, "cleanup")
    <2>1. call'[p].pc = "cleanup" /\ call'[p].one = call[p].one /\ call'[p].status = "running"
      BY <1>3 DEF Enter, Go, GuardInv
    <2>2. data[p].password
      BY <1>1 DEF Asked, CallAsked
    <2>3. data[p].enabled # Omitted
      BY <2>2, DataFields
    <2> QED
      BY <1>2, <2>1, <2>2, <2>3 DEF StepAsked, CallAsked, Owes
  <1>4. CASE ~Enter(p, "cleanup")
    <2>1. call'[p].pc = "idle" /\ call'[p].one = None /\ call'[p].status = "threw"
      BY <1>4 DEF PasswordFailed, ThrowReport, Idle, GuardInv
    <2> QED
      BY <1>2, <2>1, ThrewAsked
  <1> QED
    BY <1>3, <1>4

LEMMA EnabledAsked ==
  ASSUME EnabledGiven, GuardInv, Asked, NEW p \in Callers, EnabledLast(p)
  PROVE  StepAsked(p)
  <1>1. /\ account' = NowEnabled(p) /\ Holds(call[p].id) /\ call[p].pc = "enable"
        /\ UNCHANGED data
    BY AfterSucceeds DEF EnabledLast, At
  <1>2. call'[p].pc = "final" /\ call'[p].one = call[p].one
    BY DEF EnabledLast, Enter, Go, GuardInv
  <1>3. /\ ChangeOK(account', data[p]) /\ account' # None
        /\ account'.enabled = DesiredEnabled(data[p]) /\ account'.password = TRUE
    BY <1>1, ChangeNowEnabled
  <1>4. data[p].password
    BY <1>1 DEF Asked, CallAsked
  <1>5. data[p].enabled # Omitted
    BY <1>4, DataFields
  <1>6. Provisioned(p)'
    BY <1>1, <1>3 DEF Provisioned
  <1> QED
    BY <1>2, <1>3, <1>5, <1>6 DEF StepAsked, CallAsked

LEMMA FinalAsked ==
  ASSUME GuardInv, Asked, NEW p \in Callers, FinalAnswered(p) PROVE StepAsked(p)
  <1>1. /\ call'[p].pc = "idle" /\ call'[p].one = None
        /\ call[p].pc = "final" /\ UNCHANGED account
    BY EndedWith DEF FinalAnswered, Return, At
  <1> QED
    BY <1>1, ChangeSame DEF StepAsked, CallAsked

LEMMA EveryStepAsked ==
  ASSUME EnabledGiven, GuardInv, Asked, NEW p \in Callers, Step(p) \/ Crash(p)
  PROVE  StepAsked(p)
  BY FailedAsked, BeginAsked, LookupAsked, CreatedAsked, UpdatedAsked, PasswordSetAsked,
     PasswordFailedAsked, EnabledAsked, FinalAsked
     DEF Step

\* A caller's step leaves every caller, and the claims, as asked.
LEMMA CallerAsked ==
  ASSUME EnabledGiven, GuardInv, GuardInv', AskedInv, NEW p \in Callers, Step(p) \/ Crash(p)
  PROVE  AskedInv'
  <1>1. /\ \A q \in Callers : q # p => call'[q] = call[q]
        /\ UNCHANGED <<data, interfered>>
    BY OneCallerMoves
  <1> SUFFICES ASSUME SameData, ~interfered
               PROVE  Asked' /\ ((account' # None => account'.by # "admin") => Backed')
    BY <1>1 DEF AskedInv, SameData
  <1>2. Asked /\ ((account # None => account.by # "admin") => Backed)
    BY DEF AskedInv
  <1>3. StepAsked(p)
    BY <1>2, EveryStepAsked
  <1>4. ASSUME NEW q \in Callers
        PROVE  AccountAsked(account', data'[q]) /\ CallAsked(call'[q], account', data'[q])
    <2>1. data'[q] = data[p] /\ data[q] = data[p]
      BY <1>1 DEF SameData
    <2>2. CASE q = p
      BY <1>3, <2>1, <2>2 DEF StepAsked, ChangeOK
    <2>3. CASE q # p
      <3>1. account' \in Account \union {None}
        BY DEF GuardInv, AccountOK
      <3>2. CallAsked(call[q], account, data[p])
        BY <1>2, <2>1 DEF Asked
      <3>3. CallAsked(call[q], account', data[p])
        BY <1>3, <3>1, <3>2, AskedStays DEF StepAsked, ChangeOK
      <3> QED
        BY <1>1, <1>3, <2>1, <2>3, <3>3 DEF StepAsked, ChangeOK
    <2> QED
      BY <2>2, <2>3
  <1>5. ASSUME account' # None => account'.by # "admin" PROVE Backed'
    <2>1. CASE Owes(p)'
      BY <2>1 DEF Backed
    <2>2. CASE Provisioned(p)'
      <3>1. \A q \in Callers : data'[q] = data'[p]
        BY <1>1 DEF SameData
      <3> QED
        BY <2>2, <3>1 DEF Backed, Provisioned
    <2>3. CASE call[p].pc = "final" /\ UNCHANGED account
      <3>1. Backed
        BY <1>2, <1>5, <2>3
      <3>2. ASSUME NEW r \in Callers, Owes(r) PROVE Backed'
        BY <1>1, <2>3, <3>2 DEF Owes, Backed
      <3>3. ASSUME \A q \in Callers : Claims(q) => Provisioned(q) PROVE Backed'
        <4>1. Claims(p)
          BY <2>3 DEF Claims
        <4>2. \A q \in Callers : Provisioned(q)' <=> Provisioned(q)
          BY <1>1, <2>3 DEF Provisioned
        <4>3. \A q \in Callers : Claims(q)' => Claims(q)
          BY <1>1, <4>1 DEF Claims
        <4> QED
          BY <3>3, <4>2, <4>3 DEF Backed
      <3> QED
        BY <3>1, <3>2, <3>3 DEF Backed
    <2> QED
      BY <1>3, <1>5, <2>1, <2>2, <2>3 DEF StepAsked
  <1> QED
    BY <1>4, <1>5 DEF Asked

LEMMA NextAsked ==
  ASSUME EnabledGiven, GuardInv, GuardInv', AskedInv, [Next]_vars PROVE AskedInv'
  <1>1. CASE AdminDeletes \/ AdminDisables
    BY <1>1 DEF AdminDeletes, AdminDisables, AskedInv
  <1>2. CASE UNCHANGED vars
    BY <1>2 DEF vars, AskedInv, SameData, Asked, Backed, Owes, Claims, Provisioned
  <1> QED
    BY <1>1, <1>2, CallerAsked DEF Next

LEMMA InitAsked ==
  ASSUME Init PROVE AskedInv
  <1>1. \A p \in Callers : call[p] = Idle("new", None)
    BY DEF Init
  <1>2. account # None => account.by = "admin"
    BY DEF Init
  <1> QED
    BY <1>1, <1>2
       DEF AskedInv, Asked, AccountAsked, CallAsked, Backed, Owes, Claims, Idle

\* user.mdx, "Retrying with ensure()": whatever fails, whoever overtakes whom
\* and whatever is rolled back, callers with the same data that have all
\* succeeded leave the account as the data ask, if those who set a password
\* also say whether the account is to be enabled.
THEOREM SuccessProvisions ==
  ASSUME EnabledGiven
  PROVE  Spec => []SuccessMeansProvisioned
  <1>1. Init => AskedInv
    BY InitAsked
  <1>2. GuardInv /\ GuardInv' /\ AskedInv /\ [Next]_vars => AskedInv'
    BY NextAsked
  <1>3. AskedInv => SuccessMeansProvisioned
    BY DEF AskedInv, SuccessMeansProvisioned, Resting, Backed, Owes, Claims
  <1> QED
    BY <1>1, <1>2, <1>3, Guarded, PTL DEF Spec
=============================================================================
