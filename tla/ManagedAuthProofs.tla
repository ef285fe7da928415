-------------------------- MODULE ManagedAuthProofs -------------------------
(***************************************************************************)
(* Theorems about ManagedAuth, for any callers, parts of the credential,   *)
(* rotations, expiries and faults.                                         *)
(*                                                                         *)
(* The argument: an attempt begins only when the slot is empty and empties *)
(* it only when it is over, so the one in the slot is the last that began. *)
(* The token an attempt stores is therefore younger than the token of any  *)
(* attempt before, and a caller that waited for one finds its token or a   *)
(* younger one.                                                            *)
(***************************************************************************)
EXTENDS ManagedAuth, TLAPS, SequenceTheorems

\* The slot holds the last attempt, or nothing.
SlotIsLast == authentication # None => authentication = Number

\* An attempt that worked has left a token that is its own or a younger one.
TokenStays ==
  \A a \in Attempts : flights[a].works => token # None /\ token.from >= a

\* An idle caller waits for nothing, and one that waits does so for an attempt
\* and has use for a token.
CallerWaits(c) ==
  IF c.pc = "idle" THEN c.on = None ELSE c.on \in Attempts /\ c.gets < MaxGets

Waits == \A p \in Callers : CallerWaits(caller[p])

\* What was current when an attempt began is current still, or was rotated.
NoneNewer ==
  \A a \in Attempts, x \in Parts : flights[a].since[x] <= current[x]

\* The inductive invariant.
FlightInv ==
  /\ TypeOK
  /\ SingleFlight
  /\ ResolvedAgain
  /\ SlotIsLast
  /\ TokenStays
  /\ Waits
  /\ NoneNewer

-----------------------------------------------------------------------------
(* Steps in terms of what they leave alone                                 *)

LEMMA InitFlight == Init => FlightInv
<1> SUFFICES ASSUME Init PROVE FlightInv
  OBVIOUS
<1>1. Number = 0 /\ Attempts = {} /\ flights \in Seq(Flight)
  BY DEF Init, Number, Attempts
<1>2. TypeOK
  BY <1>1, ManagedAuthAssumption DEF Init, TypeOK
<1> QED
  BY <1>1, <1>2
     DEF Init, FlightInv, SingleFlight, ResolvedAgain, SlotIsLast, TokenStays, Waits,
         CallerWaits, NoneNewer

\* The properties of the attempts depend on flights and the variables they name.
LEMMA NumberType ==
  ASSUME TypeOK
  PROVE  /\ Number \in Nat
         /\ Attempts = 1..Number
         /\ \A a \in Attempts : flights[a] \in Flight
  BY DEF TypeOK, Number, Attempts

\* A caller moves; nothing else does.
LEMMA CallerFlight ==
  ASSUME FlightInv, NEW p \in Callers, NEW c,
         caller' = [caller EXCEPT ![p] = c],
         c \in [pc : {"idle", "waiting"}, on : Attempts \union {None},
                got : Token \union {None}, gets : 0..MaxGets],
         CallerWaits(c),
         UNCHANGED <<current, authentication, flights, token, faults, expiries>>
  PROVE  FlightInv'
<1>1. TypeOK'
  BY DEF FlightInv, TypeOK, Attempts, Number
<1>2. Waits'
  BY DEF FlightInv, TypeOK, Waits, CallerWaits, Attempts, Number
<1> QED
  BY <1>1, <1>2
     DEF FlightInv, SingleFlight, ResolvedAgain, SlotIsLast, TokenStays, NoneNewer, Attempts,
         Number

\* One attempt moves: it stays the one it was, unless it is over now.
LEMMA ChangedFlight ==
  ASSUME FlightInv, NEW a \in Attempts, NEW f \in Flight,
         flights' = [flights EXCEPT ![a] = f]
  PROVE  /\ flights' \in Seq(Flight)
         /\ Number' = Number /\ Attempts' = Attempts
         /\ \A b \in Attempts : flights'[b] = IF b = a THEN f ELSE flights[b]
<1>1. flights \in Seq(Flight) /\ a \in 1..Len(flights)
  BY DEF FlightInv, TypeOK, Attempts, Number
<1> QED
  BY <1>1, ExceptSeq DEF Attempts, Number

\* An attempt moves on, with its slot, token and faults as they were.
LEMMA MovesFlight ==
  ASSUME FlightInv, NEW a \in Attempts, NEW f \in Flight,
         flights' = [flights EXCEPT ![a] = f],
         f.pc # "over" => flights[a].pc # "over",
         f.works => flights[a].works,
         f.since = flights[a].since,
         \A x \in Parts : f.credential[x] # None => f.credential[x] >= f.since[x],
         faults' \in 0..MaxFaults,
         UNCHANGED <<current, authentication, token, caller, expiries>>
  PROVE  FlightInv'
<1>1. /\ flights' \in Seq(Flight) /\ Number' = Number /\ Attempts' = Attempts
      /\ \A b \in Attempts : flights'[b] = IF b = a THEN f ELSE flights[b]
  BY ChangedFlight
<1>2. TypeOK'
  BY <1>1 DEF FlightInv, TypeOK
<1>3. SingleFlight' /\ SlotIsLast'
  BY <1>1 DEF FlightInv, SingleFlight, SlotIsLast
<1>4. ResolvedAgain'
  BY <1>1 DEF FlightInv, ResolvedAgain
<1>5. TokenStays'
  BY <1>1 DEF FlightInv, TokenStays
<1>6. Waits' /\ NoneNewer'
  BY <1>1 DEF FlightInv, Waits, CallerWaits, NoneNewer
<1> QED
  BY <1>2, <1>3, <1>4, <1>5, <1>6 DEF FlightInv

-----------------------------------------------------------------------------
(* The callers                                                             *)

LEMMA CallerFields ==
  ASSUME FlightInv, NEW p \in Callers
  PROVE  /\ caller[p] \in [pc : {"idle", "waiting"}, on : Attempts \union {None},
                           got : Token \union {None}, gets : 0..MaxGets]
         /\ caller[p].pc = "waiting" => caller[p].on \in Attempts /\ caller[p].gets < MaxGets
         /\ caller[p].pc = "idle" => caller[p].on = None
  BY DEF FlightInv, TypeOK, Waits, CallerWaits

LEMMA GotFlight ==
  ASSUME FlightInv, NEW p \in Callers, Got(p), caller[p].gets < MaxGets,
         UNCHANGED <<current, authentication, flights, token, faults, expiries>>
  PROVE  FlightInv'
<1> DEFINE c == [pc |-> "idle", on |-> None, got |-> token, gets |-> caller[p].gets + 1]
<1>1. caller[p].gets + 1 \in 0..MaxGets
  BY CallerFields, ManagedAuthAssumption
<1>2. /\ c \in [pc : {"idle", "waiting"}, on : Attempts \union {None},
                got : Token \union {None}, gets : 0..MaxGets]
      /\ CallerWaits(c)
  BY <1>1 DEF FlightInv, TypeOK, CallerWaits
<1>3. caller' = [caller EXCEPT ![p] = c]
  BY DEF Got
<1> HIDE DEF c
<1> QED
  BY <1>2, <1>3, CallerFlight

LEMMA WaitFlight ==
  ASSUME FlightInv, NEW p \in Callers, Joins(p) PROVE FlightInv'
<1> DEFINE c == [caller[p] EXCEPT !.pc = "waiting", !.on = authentication]
<1>1. authentication \in Attempts
  BY DEF Joins, FlightInv, TypeOK
<1>2. /\ c \in [pc : {"idle", "waiting"}, on : Attempts \union {None},
                got : Token \union {None}, gets : 0..MaxGets]
      /\ CallerWaits(c)
  BY <1>1, CallerFields DEF CallerWaits, Joins, Asks
<1>3. caller' = [caller EXCEPT ![p] = c]
  BY DEF Joins, Wait
<1> HIDE DEF c
<1> QED
  BY <1>2, <1>3, CallerFlight DEF Joins

LEMMA RunsFlight ==
  ASSUME FlightInv, NEW p \in Callers, Runs(p) PROVE FlightInv'
<1>1. CASE Got(p)
  BY <1>1, CallerFields, GotFlight DEF Runs
<1>2. CASE caller' = [caller EXCEPT ![p].pc = "idle", ![p].on = None]
  <2> DEFINE c == [caller[p] EXCEPT !.pc = "idle", !.on = None]
  <2>1. /\ c \in [pc : {"idle", "waiting"}, on : Attempts \union {None},
                  got : Token \union {None}, gets : 0..MaxGets]
        /\ CallerWaits(c)
    BY CallerFields DEF CallerWaits
  <2>2. caller' = [caller EXCEPT ![p] = c]
    BY <1>2
  <2> HIDE DEF c
  <2> QED
    BY <2>1, <2>2, CallerFlight DEF Runs
<1> QED
  BY <1>1, <1>2 DEF Runs

LEMMA StartsFlight ==
  ASSUME FlightInv, NEW p \in Callers, Starts(p) PROVE FlightInv'
<1> DEFINE f == [pc |-> "resolving", works |-> FALSE, credential |-> Unresolved,
                 since |-> current]
           c == [caller[p] EXCEPT !.pc = "waiting", !.on = Number + 1]
<1>1. f \in Flight
  BY ManagedAuthAssumption DEF Flight, Unresolved, FlightInv, TypeOK
<1>2. /\ flights' \in Seq(Flight) /\ Number \in Nat /\ Number' = Number + 1
      /\ Attempts' = Attempts \union {Number + 1}
      /\ \A b \in Attempts : flights'[b] = flights[b]
      /\ flights'[Number + 1] = f
  <2>1. flights' = Append(flights, f) /\ flights \in Seq(Flight)
    BY DEF Starts, FlightInv, TypeOK
  <2> HIDE DEF f
  <2>2. /\ Number \in Nat /\ flights' \in Seq(Flight) /\ Number' = Number + 1
        /\ flights'[Number + 1] = f
        /\ \A b \in Attempts : flights'[b] = flights[b]
    BY <1>1, <2>1, AppendProperties DEF Number, Attempts
  <2> QED
    BY <2>2 DEF Attempts
<1>3. c \in [pc : {"idle", "waiting"}, on : Attempts' \union {None},
             got : Token \union {None}, gets : 0..MaxGets]
  BY <1>2, CallerFields
<1>4. caller' = [caller EXCEPT ![p] = c]
  BY DEF Starts, Wait
<1>5. TypeOK'
  <2>1. caller' \in [Callers -> [pc : {"idle", "waiting"}, on : Attempts' \union {None},
                                 got : Token \union {None}, gets : 0..MaxGets]]
    <3> HIDE DEF c
    <3> QED BY <1>2, <1>3, <1>4 DEF FlightInv, TypeOK
  <2> QED
    BY <1>2, <2>1 DEF Starts, FlightInv, TypeOK
<1>6. /\ ~f.works /\ f.since = current
      /\ \A x \in Parts : f.credential[x] = None
  BY DEF Unresolved
<1>7. /\ current' = current /\ token' = token /\ authentication' = Number + 1
      /\ \A b \in Attempts : b # None /\ flights[b].pc = "over"
  BY ManagedAuthAssumption, <1>2
     DEF Starts, NoneUnderWay, FlightInv, SingleFlight, Attempts
<1> HIDE DEF f, c
<1>8. SingleFlight' /\ SlotIsLast'
  BY <1>2, <1>7 DEF SingleFlight, SlotIsLast
<1>9. ResolvedAgain'
  BY <1>2, <1>6 DEF FlightInv, ResolvedAgain
<1>10. TokenStays'
  BY <1>2, <1>6, <1>7 DEF FlightInv, TokenStays
<1>11. Waits'
  <2> USE DEF c
  <2>1. c.pc = "waiting" /\ c.on \in Attempts' /\ c.gets < MaxGets
    BY <1>2, CallerFields DEF Starts, Asks
  <2>2. \A q \in Callers \ {p} : caller'[q] = caller[q]
    BY <1>4 DEF FlightInv, TypeOK
  <2>3. caller'[p] = c
    BY <1>4 DEF FlightInv, TypeOK
  <2> HIDE DEF c
  <2> QED
    BY <1>2, <2>1, <2>2, <2>3 DEF FlightInv, Waits, CallerWaits
<1>12. NoneNewer'
  BY <1>2, <1>6, <1>7 DEF FlightInv, TypeOK, NoneNewer
<1> QED
  BY <1>5, <1>8, <1>9, <1>10, <1>11, <1>12 DEF FlightInv

-----------------------------------------------------------------------------
(* The attempts                                                            *)

LEMMA FlightFields ==
  ASSUME FlightInv, NEW a \in Attempts
  PROVE  /\ flights[a] \in Flight
         /\ \A x \in Parts : flights[a].credential[x] # None =>
              flights[a].credential[x] >= flights[a].since[x]
  BY NumberType DEF FlightInv, ResolvedAgain

\* A part resolved now is the one that is current, so it is no older than the
\* attempt.
LEMMA ResolvesFlight ==
  ASSUME FlightInv, NEW a, NEW x \in Parts, Resolves(a, x) PROVE FlightInv'
<1> DEFINE f == [flights[a] EXCEPT !.credential[x] = current[x]]
<1>1. a \in Attempts /\ flights[a].pc = "resolving" /\ flights[a] \in Flight
  BY FlightFields DEF Resolves, Flies
<1>2. current[x] \in Nat /\ current[x] >= flights[a].since[x]
  BY <1>1, ManagedAuthAssumption DEF FlightInv, TypeOK, NoneNewer
<1>3. f \in Flight
  BY <1>1, <1>2 DEF Flight
<1>4. /\ f.pc = "resolving" /\ f.works = flights[a].works /\ f.since = flights[a].since
      /\ \A y \in Parts :
           f.credential[y] = IF y = x THEN current[x] ELSE flights[a].credential[y]
  BY <1>1 DEF Flight
<1>5. flights' = [flights EXCEPT ![a] = f]
  BY DEF Resolves
<1>6. faults' \in 0..MaxFaults /\ UNCHANGED <<current, authentication, token, caller, expiries>>
  BY DEF Resolves, FlightInv, TypeOK
<1>7. \A y \in Parts : f.credential[y] # None => f.credential[y] >= f.since[y]
  BY <1>1, <1>2, <1>4, FlightFields
<1> HIDE DEF f
<1> QED
  BY <1>1, <1>3, <1>4, <1>5, <1>6, <1>7, MovesFlight

LEMMA RequestsFlight ==
  ASSUME FlightInv, NEW a, Requests(a) PROVE FlightInv'
<1> DEFINE f == [flights[a] EXCEPT !.pc = "requesting"]
<1>1. a \in Attempts /\ flights[a].pc = "resolving" /\ flights[a] \in Flight
  BY FlightFields DEF Requests, Flies
<1>2. /\ f \in Flight /\ f.works = flights[a].works
      /\ f.since = flights[a].since /\ f.credential = flights[a].credential
  BY <1>1 DEF Flight
<1>3. flights' = [flights EXCEPT ![a] = f]
  BY DEF Requests
<1>4. faults' \in 0..MaxFaults /\ UNCHANGED <<current, authentication, token, caller, expiries>>
  BY DEF Requests, FlightInv, TypeOK
<1> HIDE DEF f
<1> QED
  BY <1>1, <1>2, <1>3, <1>4, FlightFields, MovesFlight, ZenonT(60)

LEMMA FailsFlight ==
  ASSUME FlightInv, NEW a, Fails(a) PROVE FlightInv'
<1> DEFINE f == [flights[a] EXCEPT !.pc = "failed"]
<1>1. /\ a \in Attempts /\ flights[a].pc \in {"resolving", "requesting"}
      /\ flights[a] \in Flight
  BY FlightFields DEF Fails, Flies
<1>2. /\ f \in Flight /\ f.works = flights[a].works
      /\ f.since = flights[a].since /\ f.credential = flights[a].credential
  BY <1>1 DEF Flight
<1>3. flights' = [flights EXCEPT ![a] = f]
  BY DEF Fails
<1>4. faults' \in 0..MaxFaults /\ UNCHANGED <<current, authentication, token, caller, expiries>>
  BY ManagedAuthAssumption DEF Fails, Fault, FlightInv, TypeOK
<1> HIDE DEF f
<1> QED
  BY <1>1, <1>2, <1>3, <1>4, FlightFields, MovesFlight, ZenonT(60)

\* The token of the last attempt is no older than that of any other.
LEMMA SucceedsFlight ==
  ASSUME FlightInv, NEW a, Succeeds(a) PROVE FlightInv'
<1> DEFINE f == [flights[a] EXCEPT !.pc = "ok", !.works = TRUE]
<1>1. a \in Attempts /\ flights[a].pc = "requesting" /\ flights[a] \in Flight
  BY FlightFields DEF Succeeds, Flies
<1>2. /\ f \in Flight /\ f.pc = "ok"
      /\ f.since = flights[a].since /\ f.credential = flights[a].credential
  BY <1>1 DEF Flight
<1>3. flights' = [flights EXCEPT ![a] = f]
  BY <1>1 DEF Succeeds, Flight
<1> HIDE DEF f
<1>4. /\ flights' \in Seq(Flight) /\ Number' = Number /\ Attempts' = Attempts
      /\ \A b \in Attempts : flights'[b] = IF b = a THEN f ELSE flights[b]
  BY <1>1, <1>2, <1>3, ChangedFlight
<1>5. a = Number /\ Number \in Nat /\ Attempts = 1..Number
  BY <1>1, NumberType, ManagedAuthAssumption DEF FlightInv, SingleFlight, SlotIsLast
<1>6. token' \in Token /\ token' # None /\ token'.from = a
      /\ UNCHANGED <<current, authentication, caller, faults, expiries>>
  <2>1. token' = [from |-> a, live |-> TRUE] /\ a \in Nat
    BY <1>5 DEF Succeeds
  <2>2. token' \in Token /\ token'.from = a
    BY <2>1 DEF Token
  <2> QED
    BY <2>2, ManagedAuthAssumption DEF Succeeds
<1>7. TypeOK'
  BY <1>4, <1>6 DEF FlightInv, TypeOK
<1>8. SingleFlight' /\ SlotIsLast'
  BY <1>1, <1>4, <1>6 DEF FlightInv, SingleFlight, SlotIsLast
<1>9. ResolvedAgain' /\ NoneNewer'
  BY <1>1, <1>2, <1>4, <1>6 DEF FlightInv, ResolvedAgain, NoneNewer
<1>10. TokenStays'
  BY <1>4, <1>5, <1>6 DEF TokenStays
<1>11. Waits'
  BY <1>4, <1>6 DEF FlightInv, Waits, CallerWaits
<1> QED
  BY <1>7, <1>8, <1>9, <1>10, <1>11 DEF FlightInv

LEMMA ClearsFlight ==
  ASSUME FlightInv, NEW a, Clears(a) PROVE FlightInv'
<1> DEFINE f == [flights[a] EXCEPT !.pc = "over"]
<1>1. a \in Attempts /\ flights[a].pc # "over" /\ flights[a] \in Flight
  BY FlightFields DEF Clears, Flies
<1>2. /\ f \in Flight /\ f.pc = "over" /\ f.works = flights[a].works
      /\ f.since = flights[a].since /\ f.credential = flights[a].credential
  BY <1>1 DEF Flight
<1>3. flights' = [flights EXCEPT ![a] = f]
  BY DEF Clears
<1> HIDE DEF f
<1>4. /\ flights' \in Seq(Flight) /\ Number' = Number /\ Attempts' = Attempts
      /\ \A b \in Attempts : flights'[b] = IF b = a THEN f ELSE flights[b]
  BY <1>1, <1>2, <1>3, ChangedFlight
<1>5. authentication' = None /\ UNCHANGED <<current, token, caller, faults, expiries>>
  BY DEF Clears
<1>6. TypeOK'
  BY <1>4, <1>5 DEF FlightInv, TypeOK
<1>7. SingleFlight' /\ SlotIsLast'
  BY <1>1, <1>2, <1>4, <1>5 DEF FlightInv, SingleFlight, SlotIsLast
<1>8. ResolvedAgain' /\ NoneNewer' /\ TokenStays'
  BY <1>1, <1>2, <1>4, <1>5 DEF FlightInv, ResolvedAgain, NoneNewer, TokenStays
<1>9. Waits'
  BY <1>4, <1>5 DEF FlightInv, Waits, CallerWaits
<1> QED
  BY <1>6, <1>7, <1>8, <1>9 DEF FlightInv

-----------------------------------------------------------------------------
(* The server and time                                                     *)

LEMMA RotateFlight ==
  ASSUME FlightInv, NEW x \in Parts, Rotate(x) PROVE FlightInv'
<1>1. /\ current' \in [Parts -> 0..MaxRotations]
      /\ \A y \in Parts : current[y] \in Nat /\ current'[y] >= current[y]
  BY ManagedAuthAssumption DEF Rotate, FlightInv, TypeOK
<1>2. \A a \in Attempts : flights[a].since \in [Parts -> Nat]
  BY FlightFields DEF Flight
<1>3. UNCHANGED <<authentication, flights, token, caller, faults, expiries>>
      /\ Attempts' = Attempts /\ Number' = Number
  BY DEF Rotate, Attempts, Number
<1>4. TypeOK'
  BY <1>1, <1>3 DEF FlightInv, TypeOK
<1>5. NoneNewer'
  BY <1>1, <1>2, <1>3 DEF FlightInv, NoneNewer
<1> QED
  BY <1>3, <1>4, <1>5
     DEF FlightInv, SingleFlight, ResolvedAgain, SlotIsLast, TokenStays, Waits, CallerWaits

LEMMA ExpireFlight == ASSUME FlightInv, Expire PROVE FlightInv'
<1>1. token # None /\ token \in Token
  BY DEF Expire, NeedsToken, FlightInv, TypeOK
<1>2. token' \in Token /\ token' # None /\ token'.from = token.from
  BY <1>1, ManagedAuthAssumption DEF Expire, Token
<1>3. expiries' \in 0..MaxExpiries
  BY ManagedAuthAssumption DEF Expire, FlightInv, TypeOK
<1>4. UNCHANGED <<current, authentication, flights, caller, faults>>
      /\ Attempts' = Attempts /\ Number' = Number
  BY DEF Expire, Attempts, Number
<1>5. TypeOK'
  BY <1>2, <1>3, <1>4 DEF FlightInv, TypeOK
<1>6. TokenStays'
  BY <1>1, <1>2, <1>4 DEF FlightInv, TokenStays
<1> QED
  BY <1>4, <1>5, <1>6
     DEF FlightInv, SingleFlight, ResolvedAgain, SlotIsLast, NoneNewer, Waits, CallerWaits

LEMMA StutterFlight == ASSUME FlightInv, UNCHANGED vars PROVE FlightInv'
  BY DEF FlightInv, TypeOK, SingleFlight, ResolvedAgain, SlotIsLast, TokenStays, Waits,
         CallerWaits, NoneNewer, Attempts, Number, vars

LEMMA NextFlight == FlightInv /\ [Next]_vars => FlightInv'
<1> SUFFICES ASSUME FlightInv, [Next]_vars PROVE FlightInv'
  OBVIOUS
<1>1. ASSUME NEW p \in Callers, Call(p) PROVE FlightInv'
  <2>1. CASE TakesToken(p)
    BY <2>1, GotFlight DEF TakesToken, Asks
  <2> QED
    BY <1>1, <2>1, StartsFlight, WaitFlight, RunsFlight DEF Call
<1>2. ASSUME NEW a \in Attempts, Fly(a) PROVE FlightInv'
  BY <1>2, ResolvesFlight, RequestsFlight, SucceedsFlight, FailsFlight, ClearsFlight DEF Fly
<1> QED
  BY <1>1, <1>2, RotateFlight, ExpireFlight, StutterFlight DEF Next

LEMMA Flying == Spec => []FlightInv
  BY InitFlight, NextFlight, PTL DEF Spec

-----------------------------------------------------------------------------
(* The theorems                                                            *)

\* Every variable of the managed client keeps its type.
THEOREM TypeCorrect == Spec => []TypeOK
<1>1. FlightInv => TypeOK
  BY DEF FlightInv
<1> QED
  BY <1>1, Flying, PTL

\* "Concurrent requests share one authentication attempt" (managed-client.ts),
\* however many callers ask at once and whatever fails.
THEOREM OneAttemptAtATime == Spec => []SingleFlight
<1>1. FlightInv => SingleFlight
  BY DEF FlightInv
<1> QED
  BY <1>1, Flying, PTL

\* Every attempt resolves the credential anew: a part rotated before it began is
\* never used in its old version.
THEOREM AlwaysResolvedAgain == Spec => []ResolvedAgain
<1>1. FlightInv => ResolvedAgain
  BY DEF FlightInv
<1> QED
  BY <1>1, Flying, PTL

\* A caller that runs on has a token, and one no older than the attempt it
\* waited for, however attempts, expiries and other callers interleave.
THEOREM TokenForEveryCaller == Spec => NeverWithoutToken
<1> DEFINE Served(p) == caller'[p].gets > caller[p].gets =>
             /\ caller'[p].got # None
             /\ caller[p].on # None => caller'[p].got.from >= caller[p].on
<1>1. ASSUME FlightInv, Next, NEW p \in Callers PROVE Served(p)
  <2>1. caller[p].gets \in Nat
    BY <1>1, CallerFields, ManagedAuthAssumption
  <2>2. CASE caller'[p].gets = caller[p].gets
    BY <2>1, <2>2
  <2>3. CASE TakesToken(p) \/ (Runs(p) /\ Got(p))
    <3>1. caller'[p].got = token
      BY <2>3, <1>1 DEF TakesToken, Got, FlightInv, TypeOK
    <3>2. CASE TakesToken(p)
      BY <1>1, <3>1, <3>2, CallerFields DEF TakesToken, Asks, NeedsToken
    <3>3. CASE Runs(p) /\ Got(p) /\ flights[caller[p].on].works
      <4>1. caller[p].on \in Attempts
        BY <1>1, <3>3, CallerFields DEF Runs
      <4> QED
        BY <1>1, <3>1, <3>3, <4>1 DEF FlightInv, TokenStays
    <3>4. CASE Runs(p) /\ ~flights[caller[p].on].works
      BY <1>1, <3>4, <2>1, CallerFields DEF Runs, FlightInv, TypeOK
    <3> QED
      BY <2>3, <3>2, <3>3, <3>4
  <2>4. CASE ~(TakesToken(p) \/ (Runs(p) /\ Got(p)))
    <3>1. ASSUME NEW q \in Callers, Call(q) PROVE caller'[p].gets = caller[p].gets
      BY <1>1, <2>4, <3>1
         DEF Call, TakesToken, Starts, Joins, Runs, Got, Wait, FlightInv, TypeOK
    <3>2. ASSUME ~(\E q \in Callers : Call(q)) PROVE caller' = caller
      BY <1>1, <3>2 DEF Next, Fly, Resolves, Requests, Succeeds, Fails, Clears, Rotate, Expire
    <3> QED
      BY <2>2, <3>1, <3>2
  <2> QED
    BY <2>3, <2>4
<1>2. FlightInv /\ [Next]_vars => [\A p \in Callers : Served(p)]_vars
  BY <1>1
<1> QED
  BY <1>2, Flying, PTL DEF Spec, NeverWithoutToken
=============================================================================
