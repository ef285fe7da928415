-------------------------------- MODULE Retry -------------------------------
(***************************************************************************)
(* The retry loop every admin request of the library goes through          *)
(* (src/src/utils/retry.ts): retry, and its entries for mutations and for  *)
(* reads.  The operation settles in its own time and may have been carried *)
(* out although it is rejected; the signal may be aborted at any moment,   *)
(* between two callbacks included; the sleeper may be the caller's.        *)
(***************************************************************************)
EXTENDS Naturals

CONSTANTS
  Options,            \* the options callers pass: see OptionsType
  Omitted,            \* an option that was not passed
  None                \* no error yet

Entries == {"retry", "retryTransientAdminError", "retryTransientAdminReadError"}

\* What the operation rejects with: which call of it did, whether the classifier
\* lets it be tried again (a response with status 429, 502, 503 or 504), and
\* whether it is an Error or any other value.
Errors == [call : Nat \ {0}, transient : BOOLEAN, isError : BOOLEAN]

OptionsType ==
  [entry : Entries, attempts : Nat, idempotent : BOOLEAN \union {Omitted},
   baseDelay : Nat, maxDelay : Nat \union {Omitted}, factor : Nat, jitter : BOOLEAN,
   sleeper : {"default", "custom"}]

ASSUME RetryAssumption ==
  /\ Options \subseteq OptionsType
  /\ Omitted \notin BOOLEAN \union Nat
  /\ None \notin Errors

VARIABLES
  options,            \* what was passed
  pc,                 \* where the loop is
  attempt,            \* the loop counter
  calls,              \* how often the operation was called
  applied,            \* how often the server carried it out
  lastError,          \* the last error of the operation
  delay,              \* what the sleeper was asked to wait
  aborted,            \* AbortSignal.aborted
  thrown              \* what the call threw: see Thrown

vars == <<options, pc, attempt, calls, applied, lastError, delay, aborted, thrown>>

Places == {"start", "calling", "caught", "sleeping", "woken", "returned", "threw"}

\* What a caller can tell from what is thrown: which error's message it has, which
\* one its cause holds, whether the classifier lets it be tried again, and whether
\* its cause is marked cancelled.  (The errors of the operation bear no such mark
\* of their own, and a reason to abort has no response.)
Thrown == [message : Errors \union {None}, carried : Errors \union {None},
           transient : BOOLEAN, cancelled : BOOLEAN]

Settled == pc \in {"returned", "threw"}

Init ==
  /\ options \in Options
  /\ pc = "start"
  /\ attempt = 0
  /\ calls = 0
  /\ applied = 0
  /\ lastError = None
  /\ delay = 0
  /\ aborted \in BOOLEAN
  /\ thrown = None

-----------------------------------------------------------------------------
(* Options                                                                 *)

\* Fault: the entry for mutations lets retry's callers decide by the classifier.
MutationsReplayed ==
  options.entry # "retry" \/ options.idempotent = TRUE

\* Reads are idempotent; everything else only when the caller says so.
Idempotent ==
  options.entry = "retryTransientAdminReadError" \/ options.idempotent = TRUE

MaxDelay == IF options.maxDelay = Omitted THEN 800 ELSE options.maxDelay

Smaller(a, b) == IF a < b THEN a ELSE b

Exponential(k, cap) == Smaller(options.baseDelay * options.factor ^ k, cap)

\* computeDelay: full jitter is anything below the exponential delay.
Delays(k) ==
  LET most == Exponential(k, MaxDelay)
  IN  IF options.jitter /\ most > 0 THEN 0..(most - 1) ELSE {most}

Valid == options.attempts >= 1 /\ options.factor >= 1

-----------------------------------------------------------------------------
(* The loop                                                                *)

\* The error of the operation itself.
Itself(error) ==
  [message |-> error, carried |-> None, transient |-> error.transient, cancelled |-> FALSE]

\* withAbortCause makes a new Error.  It takes over the message of an Error, but
\* neither its class nor its response; any other value becomes part of its cause.
WithAbortCause(error) ==
  [message |-> IF error.isError THEN error ELSE None,
   carried |-> IF error.isError THEN None ELSE error,
   transient |-> FALSE, cancelled |-> TRUE]

\* The reason of the abort, the rejection of a sleeper, a RangeError.
Other == [message |-> None, carried |-> None, transient |-> FALSE, cancelled |-> FALSE]

Throws(what) ==
  /\ pc' = "threw"
  /\ thrown' = what
  /\ UNCHANGED <<options, attempt, calls, applied, lastError, delay, aborted>>

\* getAbortError tells of the abort where no operation has failed.
ThrowsAborted == Throws(IF lastError = None THEN Other ELSE WithAbortCause(lastError))

Calls(k) ==
  /\ pc' = "calling"
  /\ attempt' = k
  /\ calls' = calls + 1
  /\ UNCHANGED <<options, applied, lastError, delay, aborted, thrown>>

Begins ==
  /\ pc = "start"
  /\ IF ~Valid THEN Throws(Other)
     ELSE IF aborted THEN ThrowsAborted
     ELSE Calls(0)

\* Fault: the signal is not looked at after the wait.
TurnsRegardless == pc = "woken" /\ Calls(attempt + 1)

\* The next turn of the loop; the last attempt never sleeps.
Turns ==
  /\ pc = "woken"
  /\ IF aborted THEN ThrowsAborted ELSE Calls(attempt + 1)

Succeeds ==
  /\ pc = "calling"
  /\ pc' = "returned"
  /\ applied' = applied + 1
  /\ UNCHANGED <<options, attempt, calls, lastError, delay, aborted, thrown>>

\* The operation is rejected; a gateway that gave up may have passed it on.
Fails ==
  /\ pc = "calling"
  /\ pc' = "caught"
  /\ \E transient, isError \in BOOLEAN :
       /\ lastError' = [call |-> calls, transient |-> transient, isError |-> isError]
       /\ applied' \in IF transient THEN {applied, applied + 1} ELSE {applied}
  /\ UNCHANGED <<options, attempt, calls, delay, aborted, thrown>>

\* Fault: the attempts are counted from one and compared as if from zero.
CanRetryOnceMore == Idempotent /\ attempt < options.attempts /\ lastError.transient

CanRetry == Idempotent /\ attempt + 1 < options.attempts /\ lastError.transient

Sleeps ==
  /\ pc = "caught"
  /\ CanRetry /\ ~aborted
  /\ pc' = "sleeping"
  /\ delay' \in Delays(attempt)
  /\ UNCHANGED <<options, attempt, calls, applied, lastError, aborted, thrown>>

GivesUp ==
  /\ pc = "caught"
  /\ ~CanRetry \/ aborted
  /\ IF aborted THEN ThrowsAborted ELSE Throws(Itself(lastError))

\* The abort listener of the default sleeper clears the timer.
TimerCleared == options.sleeper = "default" /\ aborted /\ delay > 0

Wakes ==
  /\ pc = "sleeping"
  /\ ~TimerCleared
  /\ pc' = "woken"
  /\ UNCHANGED <<options, attempt, calls, applied, lastError, delay, aborted, thrown>>

\* Fault: an aborted sleep throws what the sleeper threw.
SleepRejectedBare ==
  /\ pc = "sleeping"
  /\ TimerCleared \/ options.sleeper = "custom"
  /\ Throws(Other)

\* Fault: the listener clears the timer and leaves the promise pending.
SleepLeftPending ==
  /\ pc = "sleeping"
  /\ options.sleeper = "custom"
  /\ IF aborted THEN ThrowsAborted ELSE Throws(Other)

\* The default sleeper rejects once its timer is cleared; a sleeper of the
\* caller's may reject for reasons of its own.
SleepRejected ==
  /\ pc = "sleeping"
  /\ TimerCleared \/ options.sleeper = "custom"
  /\ IF aborted THEN ThrowsAborted ELSE Throws(Other)

Abort ==
  /\ ~aborted
  /\ ~Settled
  /\ aborted' = TRUE
  /\ UNCHANGED <<options, pc, attempt, calls, applied, lastError, delay, thrown>>

-----------------------------------------------------------------------------
Step == Begins \/ Turns \/ Succeeds \/ Fails \/ Sleeps \/ GivesUp \/ Wakes \/ SleepRejected

Next == Step \/ Abort

Spec == Init /\ [][Next]_vars

\* The operation and the sleeper settle.
FairSpec == Spec /\ WF_vars(Step)

-----------------------------------------------------------------------------
(* Properties                                                              *)

\* What the sleeper can have been asked to wait after the calls made so far.
Waits == {0} \union UNION {Delays(k - 1) : k \in 1..calls}

\* Every variable keeps its type; no operation is called more often than the
\* attempts allow, nor carried out more often than it was called.
TypeOK ==
  /\ options \in Options
  /\ pc \in Places
  /\ attempt \in Nat /\ delay \in Waits
  /\ calls \in 0..options.attempts /\ applied \in 0..calls
  /\ lastError \in Errors \union {None}
  /\ aborted \in BOOLEAN
  /\ thrown \in Thrown \union {None}

\* A mutation nobody called idempotent reaches the server once at most,
\* whatever its answers (retry.ts, "Non-idempotent mutations are not retried").
MutationRunsOnce ==
  options.entry # "retryTransientAdminReadError" /\ options.idempotent # TRUE =>
    calls <= 1 /\ applied <= 1

\* A permanent failure is never replayed, nor anything after an abort.
NoReplay ==
  [][calls' > calls => (lastError # None => lastError.transient) /\ ~aborted]_vars

\* Of a call that throws once its operation has failed, the caller can tell
\* whether it was cancelled, and what the operation failed with last: never with
\* an earlier error.  A cancelled call shows the message of that error, or holds
\* it in its cause, and nobody who classifies it tries it again: its status is
\* lost, although the comment on withAbortCause has the error preserved.  One that
\* was not cancelled throws that very error, unless the caller's sleeper rejected.
ThrowsLastError ==
  thrown # None /\ calls > 0 =>
    /\ lastError.call = calls
    /\ thrown.cancelled <=> aborted
    /\ aborted =>
         /\ ~thrown.transient
         /\ IF lastError.isError THEN thrown.message = lastError ELSE thrown.carried = lastError
    /\ ~aborted /\ options.sleeper = "default" => thrown = Itself(lastError)

\* retry.ts:164: "The original operation error is therefore preserved across
\* cancellation".  No run checks it, as the code does not do so.
CancelPreservesError ==
  thrown # None /\ calls > 0 /\ aborted => thrown.transient = lastError.transient

\* Every call settles.
CallSettles == <>Settled
=============================================================================
