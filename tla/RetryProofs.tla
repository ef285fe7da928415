----------------------------- MODULE RetryProofs ----------------------------
(***************************************************************************)
(* Theorems about Retry, for any set of options: any number of attempts,   *)
(* any delays, either sleeper.                                             *)
(*                                                                         *)
(* The argument: the loop counter is one less than the number of calls     *)
(* made, and the loop gets to a second turn only through the wait, which   *)
(* it enters only when one more attempt is allowed.  LoopInv says so at    *)
(* every place of the loop; the properties read it off.                    *)
(***************************************************************************)
EXTENDS Retry, TLAPS

\* The last error may be tried again; it is the one of the last call.
Transient == lastError \in Errors /\ lastError.transient
LastFailed == lastError \in Errors /\ lastError.call = calls

\* What is true of the loop at each of its places.
AtPlace ==
  /\ pc = "start" => calls = 0 /\ applied = 0 /\ attempt = 0 /\ lastError = None
  /\ pc = "calling" => calls = attempt + 1 /\ applied <= attempt
                       /\ (IF attempt = 0 THEN lastError = None ELSE Transient)
  /\ pc = "caught" => calls = attempt + 1 /\ LastFailed
  /\ pc \in {"sleeping", "woken"} => calls = attempt + 1 /\ LastFailed /\ CanRetry
  /\ pc # "threw" => thrown = None

\* What ThrowsLastError demands of what is thrown.
Tells(what) ==
  /\ lastError.call = calls
  /\ what.cancelled <=> aborted
  /\ aborted =>
       /\ ~what.transient
       /\ IF lastError.isError THEN what.message = lastError ELSE what.carried = lastError
  /\ ~aborted /\ options.sleeper = "default" => what = Itself(lastError)

\* Only a call that may be replayed is past its first attempt.
Replays == calls > 1 => Idempotent

\* The inductive invariant.
LoopInv ==
  /\ TypeOK
  /\ AtPlace
  /\ Replays
  /\ ThrowsLastError

-----------------------------------------------------------------------------
(* Operators                                                               *)

\* What is thrown is of the type of thrown.
LEMMA ThrownFits ==
  /\ Other \in Thrown
  /\ \A error \in Errors : Itself(error) \in Thrown /\ WithAbortCause(error) \in Thrown
  BY DEF Thrown, Errors, Other, Itself, WithAbortCause

\* Another call leaves every wait possible that was.
LEMMA WaitsGrow ==
  ASSUME calls \in Nat, calls' \in Nat, calls' >= calls, UNCHANGED options,
         NEW d \in Waits
  PROVE  d \in Waits'
<1>1. \A k : Delays(k)' = Delays(k)
  BY DEF Delays, Exponential, MaxDelay
<1>2. CASE d = 0
  BY <1>2 DEF Waits
<1>3. ASSUME NEW k \in 1..calls, d \in Delays(k - 1) PROVE d \in Waits'
  BY <1>1, <1>3 DEF Waits
<1> QED
  BY <1>2, <1>3 DEF Waits

-----------------------------------------------------------------------------
(* The invariant                                                           *)

LEMMA InitLoop == Init => LoopInv
<1> SUFFICES ASSUME Init PROVE LoopInv
  OBVIOUS
<1>1. options.attempts \in Nat
  BY RetryAssumption DEF Init, OptionsType
<1>2. TypeOK
  BY <1>1 DEF Init, TypeOK, Places, Waits
<1> QED
  BY <1>1, <1>2 DEF Init, LoopInv, AtPlace, Replays, ThrowsLastError

\* Throwing keeps the invariant, if what is thrown tells of the last error.
LEMMA ThrowsLoop ==
  ASSUME LoopInv, NEW what \in Thrown, Throws(what), calls > 0 => Tells(what)
  PROVE  LoopInv'
<1>1. TypeOK'
  <2>1. delay' \in Waits'
    BY WaitsGrow DEF LoopInv, TypeOK, Throws
  <2> QED
    BY <2>1 DEF LoopInv, TypeOK, Throws, Places
<1>2. ThrowsLastError'
  BY DEF Throws, Tells, Itself, ThrowsLastError
<1>3. AtPlace'
  BY DEF AtPlace, Throws
<1> QED
  BY <1>1, <1>2, <1>3 DEF LoopInv, Replays, Idempotent, Throws

\* So does an abort noticed by the loop.
LEMMA AbortedLoop ==
  ASSUME LoopInv, ThrowsAborted, aborted, calls > 0 => LastFailed, calls = 0 => lastError = None
  PROVE  LoopInv'
<1>1. CASE lastError = None
  <2>1. ~(calls > 0)
    BY <1>1, RetryAssumption DEF LastFailed
  <2> QED
    BY <1>1, <2>1, ThrownFits, ThrowsLoop DEF ThrowsAborted
<1>2. CASE lastError # None
  <2>1. lastError \in Errors /\ WithAbortCause(lastError) \in Thrown
    BY <1>2, ThrownFits DEF LoopInv, TypeOK
  <2>2. calls > 0 => Tells(WithAbortCause(lastError))
    BY <2>1 DEF LastFailed, Tells, WithAbortCause, Errors
  <2>3. Throws(WithAbortCause(lastError))
    BY <1>2 DEF ThrowsAborted
  <2> QED
    BY <2>1, <2>2, <2>3, ThrowsLoop
<1> QED
  BY <1>1, <1>2

\* A turn of the loop.
LEMMA CallsLoop ==
  ASSUME LoopInv, NEW k \in Nat, Calls(k), k < options.attempts,
         k = calls, applied <= k, k >= attempt, thrown = None, k > 0 => Idempotent,
         IF k = 0 THEN lastError = None ELSE Transient
  PROVE  LoopInv'
<1>1. options.attempts \in Nat /\ calls \in Nat /\ attempt \in Nat /\ applied \in Nat
  BY RetryAssumption DEF LoopInv, TypeOK, OptionsType
<1>2. delay' \in Waits'
  BY <1>1, WaitsGrow DEF LoopInv, TypeOK, Calls
<1>3. TypeOK'
  BY <1>1, <1>2 DEF LoopInv, TypeOK, Calls, Places
<1>4. AtPlace'
  BY <1>1 DEF AtPlace, Transient, Calls
<1> QED
  BY <1>1, <1>3, <1>4 DEF LoopInv, Replays, ThrowsLastError, Idempotent, Calls

LEMMA BeginsLoop == ASSUME LoopInv, Begins PROVE LoopInv'
<1>1. pc = "start" /\ calls = 0 /\ applied = 0 /\ attempt = 0 /\ lastError = None
      /\ thrown = None
  BY DEF Begins, LoopInv, AtPlace, TypeOK
<1>2. CASE ~Valid /\ Throws(Other)
  <2>1. ~(calls > 0)
    BY <1>1
  <2> QED
    BY <1>2, <2>1, ThrownFits, ThrowsLoop
<1>3. CASE Valid /\ aborted /\ ThrowsAborted
  BY <1>1, <1>3, AbortedLoop
<1>4. CASE Valid /\ Calls(0)
  <2>1. 0 < options.attempts
    BY <1>4, RetryAssumption DEF LoopInv, TypeOK, OptionsType, Valid
  <2> QED
    BY <1>1, <1>4, <2>1, CallsLoop
<1> QED
  BY <1>2, <1>3, <1>4 DEF Begins

LEMMA TurnsLoop == ASSUME LoopInv, Turns PROVE LoopInv'
<1>1. /\ pc = "woken" /\ calls = attempt + 1 /\ thrown = None /\ attempt \in Nat
      /\ Idempotent /\ attempt + 1 < options.attempts /\ Transient /\ LastFailed
  BY DEF Turns, LoopInv, AtPlace, TypeOK, Transient, LastFailed, CanRetry
<1>2. CASE aborted /\ ThrowsAborted
  BY <1>1, <1>2, AbortedLoop
<1>3. CASE Calls(attempt + 1)
  <2>1. applied <= attempt + 1
    BY <1>1 DEF LoopInv, TypeOK
  <2> QED
    BY <1>1, <1>3, <2>1, CallsLoop
<1> QED
  BY <1>2, <1>3 DEF Turns

\* The operation answers.
LEMMA SettlesLoop == ASSUME LoopInv, Succeeds \/ Fails PROVE LoopInv'
<1>1. /\ calls = attempt + 1 /\ applied <= attempt /\ thrown = None
      /\ attempt \in Nat /\ applied \in Nat
  BY DEF LoopInv, AtPlace, TypeOK, Succeeds, Fails
<1>2. delay' \in Waits'
  BY WaitsGrow DEF LoopInv, TypeOK, Succeeds, Fails
<1>3. CASE Succeeds
  <2>1. TypeOK'
    BY <1>1, <1>2, <1>3 DEF LoopInv, TypeOK, Places, Succeeds
  <2> QED
    BY <1>1, <1>3, <2>1 DEF LoopInv, AtPlace, Replays, Idempotent, ThrowsLastError, Succeeds
<1>4. CASE Fails
  <2>1. LastFailed' /\ applied' \in {applied, applied + 1}
    BY <1>1, <1>4 DEF Fails, LastFailed, Errors
  <2>2. TypeOK'
    BY <1>1, <1>2, <1>4, <2>1 DEF LoopInv, TypeOK, Places, LastFailed, Fails
  <2> QED
    BY <1>1, <1>4, <2>1, <2>2
       DEF LoopInv, AtPlace, Replays, Idempotent, ThrowsLastError, Fails
<1> QED
  BY <1>3, <1>4

LEMMA SleepsLoop == ASSUME LoopInv, Sleeps \/ Wakes PROVE LoopInv'
<1>1. calls = attempt + 1 /\ thrown = None /\ attempt \in Nat /\ CanRetry
  BY DEF LoopInv, AtPlace, TypeOK, Sleeps, Wakes
<1>2. delay' \in Waits'
  <2>1. CASE Sleeps
    <3>1. Delays(attempt)' = Delays(attempt)
      BY <2>1 DEF Sleeps, Delays, Exponential, MaxDelay
    <3>2. delay' \in Delays(calls - 1)' /\ calls' \in 1..calls'
      BY <1>1, <2>1, <3>1 DEF Sleeps
    <3> QED
      BY <3>2 DEF Waits
  <2>2. CASE Wakes
    BY <2>2, WaitsGrow DEF LoopInv, TypeOK, Wakes
  <2> QED
    BY <2>1, <2>2
<1>3. TypeOK'
  BY <1>2 DEF LoopInv, TypeOK, Places, Sleeps, Wakes
<1> QED
  BY <1>1, <1>3
     DEF LoopInv, AtPlace, LastFailed, Replays, Idempotent, CanRetry, ThrowsLastError,
         Sleeps, Wakes

LEMMA GivesUpLoop == ASSUME LoopInv, GivesUp PROVE LoopInv'
<1>1. LastFailed /\ calls = attempt + 1 /\ attempt \in Nat
  BY DEF LoopInv, AtPlace, TypeOK, GivesUp
<1>2. CASE aborted /\ ThrowsAborted
  BY <1>1, <1>2, AbortedLoop
<1>3. CASE ~aborted /\ Throws(Itself(lastError))
  <2>1. Itself(lastError) \in Thrown
    BY <1>1, ThrownFits DEF LastFailed
  <2>2. Tells(Itself(lastError))
    BY <1>1, <1>3 DEF LastFailed, Tells, Itself
  <2> QED
    BY <1>3, <2>1, <2>2, ThrowsLoop
<1> QED
  BY <1>2, <1>3 DEF GivesUp

LEMMA SleepRejectedLoop == ASSUME LoopInv, SleepRejected PROVE LoopInv'
<1>1. LastFailed /\ calls = attempt + 1 /\ attempt \in Nat
  BY DEF LoopInv, AtPlace, TypeOK, SleepRejected
<1>2. CASE aborted /\ ThrowsAborted
  BY <1>1, <1>2, AbortedLoop
<1>3. CASE ~aborted /\ Throws(Other)
  <2>1. options.sleeper # "default"
    BY <1>3 DEF SleepRejected, TimerCleared
  <2>2. Tells(Other)
    BY <1>1, <1>3, <2>1 DEF LastFailed, Tells, Other
  <2> QED
    BY <1>3, <2>2, ThrownFits, ThrowsLoop
<1> QED
  BY <1>2, <1>3 DEF SleepRejected

LEMMA AbortLoop == ASSUME LoopInv, Abort PROVE LoopInv'
<1>1. thrown = None
  BY DEF LoopInv, AtPlace, Abort, Settled
<1>2. delay' \in Waits'
  BY WaitsGrow DEF LoopInv, TypeOK, Abort
<1>3. TypeOK'
  BY <1>2 DEF LoopInv, TypeOK, Abort
<1> QED
  BY <1>1, <1>3
     DEF LoopInv, AtPlace, Transient, LastFailed, Replays, Idempotent, CanRetry,
         ThrowsLastError, Settled, Abort

LEMMA StutterLoop == ASSUME LoopInv, UNCHANGED vars PROVE LoopInv'
<1>1. delay' \in Waits'
  BY WaitsGrow DEF LoopInv, TypeOK, vars
<1>2. TypeOK'
  BY <1>1 DEF LoopInv, TypeOK, vars
<1> QED
  BY <1>2 DEF LoopInv, AtPlace, Transient, LastFailed, Replays, Idempotent, CanRetry,
              ThrowsLastError, Itself, vars

LEMMA NextLoop == LoopInv /\ [Next]_vars => LoopInv'
  BY BeginsLoop, TurnsLoop, SettlesLoop, SleepsLoop, GivesUpLoop, SleepRejectedLoop,
     AbortLoop, StutterLoop
     DEF Next, Step

LEMMA Looping == Spec => []LoopInv
  BY InitLoop, NextLoop, PTL DEF Spec

-----------------------------------------------------------------------------
(* The theorems                                                            *)

\* retry.ts: whatever options are passed, no call runs the operation more often
\* than they allow, and no wait is another than computeDelay's.
THEOREM TypeCorrect == Spec => []TypeOK
<1>1. LoopInv => TypeOK
  BY DEF LoopInv
<1> QED
  BY <1>1, Looping, PTL

\* "Non-idempotent mutations are not retried" (retry.ts): a mutation nobody
\* called idempotent reaches the server once at most.
THEOREM MutationOnce == Spec => []MutationRunsOnce
<1>1. LoopInv => MutationRunsOnce
  <2> SUFFICES ASSUME LoopInv, ~Idempotent PROVE calls <= 1 /\ applied <= 1
    BY DEF MutationRunsOnce, Idempotent
  <2>1. calls \in Nat /\ applied \in 0..calls
    BY RetryAssumption DEF LoopInv, TypeOK, OptionsType
  <2> QED
    BY <2>1 DEF LoopInv, Replays
<1> QED
  BY <1>1, Looping, PTL

\* withAbortCause, and retry's throws: what a call throws once its operation has
\* failed is marked cancelled exactly if it was, and shows the error of the last
\* call: that error itself when the call was not cancelled and the sleeper is the
\* default one, else its message, or the value it was, but not its status.
THEOREM CancelIsHonest == Spec => []ThrowsLastError
<1>1. LoopInv => ThrowsLastError
  BY DEF LoopInv
<1> QED
  BY <1>1, Looping, PTL

\* A call is repeated after a transient failure only, and never once aborted.
THEOREM ReplaysTransient == Spec => NoReplay
<1> DEFINE Allowed == (lastError # None => lastError.transient) /\ ~aborted
<1>1. LoopInv /\ [Next]_vars => [calls' > calls => Allowed]_vars
  <2> SUFFICES ASSUME LoopInv, Next, calls' > calls PROVE Allowed
    OBVIOUS
  <2>1. calls' # calls
    <3>1. calls \in Nat
      BY RetryAssumption DEF LoopInv, TypeOK, OptionsType
    <3> QED
      BY <3>1
  <2>2. (Begins \/ Turns) /\ ~aborted
    BY <2>1 DEF Next, Step, Begins, Turns, Throws, ThrowsAborted, Succeeds, Fails, Sleeps,
                GivesUp, Wakes, SleepRejected, Abort
  <2>3. CASE Begins
    BY <2>2, <2>3 DEF LoopInv, AtPlace, Begins
  <2>4. CASE Turns
    BY <2>2, <2>4 DEF LoopInv, AtPlace, CanRetry, Turns
  <2> QED
    BY <2>2, <2>3, <2>4
<1> QED
  BY <1>1, Looping, PTL DEF Spec, NoReplay
=============================================================================
