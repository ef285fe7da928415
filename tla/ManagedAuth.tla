----------------------------- MODULE ManagedAuth ----------------------------
(***************************************************************************)
(* The token provider of a managed client (src/src/managed-client.ts) over *)
(* simpleAuth (src/src/index.ts).  A request that finds no valid token     *)
(* joins the authentication under way, or starts one.  An authentication   *)
(* resolves every part of the credential anew, in parallel, requests a     *)
(* token with them, and clears the slot when it is over, whether it worked *)
(* or not; only then do the requests that waited for it run on.            *)
(*                                                                         *)
(* The credential is a version per part (a client secret, or a username    *)
(* and a password); the operators of the server rotate parts, one by one.  *)
(***************************************************************************)
EXTENDS Naturals, Sequences

CONSTANTS
  Callers,            \* concurrent requests of the application
  Parts,              \* the parts of the credential
  None,               \* undefined: no token, no authentication, not resolved
  MaxGets,            \* how many tokens each caller asks for
  MaxRotations,       \* bound on rotations
  MaxExpiries,        \* bound on the tokens that expire
  MaxFaults           \* bound on resolvers and requests that fail

Token == [from : Nat, live : BOOLEAN]

ASSUME ManagedAuthAssumption ==
  /\ None \notin Nat \union Token
  /\ {MaxGets, MaxRotations, MaxExpiries, MaxFaults} \subseteq Nat

VARIABLES
  current,            \* the version of each part the server accepts
  authentication,     \* the slot: the attempt under way, or None
  flights,            \* every attempt, in order: see Flight
  token,              \* client.core.accessToken, and whether it expired
  caller,             \* what each caller is doing
  faults, expiries    \* how often these happened

vars == <<current, authentication, flights, token, caller, faults, expiries>>

\* An attempt: where it is, the versions resolved, and the versions that were
\* current when it began.
Flight == [pc : {"resolving", "requesting", "ok", "failed", "over"},
           works : BOOLEAN,
           credential : [Parts -> Nat \union {None}],
           since : [Parts -> Nat]]

Init ==
  /\ current = [x \in Parts |-> 0]
  /\ authentication = None
  /\ flights = <<>>
  /\ token = None
  /\ caller = [p \in Callers |-> [pc |-> "idle", on |-> None, got |-> None, gets |-> 0]]
  /\ faults = 0
  /\ expiries = 0

Number   == Len(flights)
Attempts == 1..Number

-----------------------------------------------------------------------------
(* getAccessToken                                                          *)

\* "!accessToken || isTokenExpired()"
NeedsToken == ~(token # None /\ token.live)

Wait(p, attempt) ==
  caller' = [caller EXCEPT ![p].pc = "waiting", ![p].on = attempt]

Got(p) ==
  caller' = [caller EXCEPT ![p] = [pc |-> "idle", on |-> None, got |-> token,
                                   gets |-> caller[p].gets + 1]]

Asks(p) == caller[p].pc = "idle" /\ caller[p].gets < MaxGets

TakesToken(p) ==
  /\ Asks(p)
  /\ ~NeedsToken
  /\ Got(p)
  /\ UNCHANGED <<current, authentication, flights, token, faults, expiries>>

\* Fault: an authentication that is under way is not looked at.
NotUnderWay == TRUE

NoneUnderWay == authentication = None

\* Fault: what was resolved before is used again.
ResolvedBefore ==
  IF Number = 0 THEN [x \in Parts |-> None] ELSE flights[Number].credential

\* Nothing is resolved when an attempt begins.
Unresolved == [x \in Parts |-> None]

\* authenticate(), when the slot is empty.
Starts(p) ==
  /\ Asks(p)
  /\ NeedsToken
  /\ NoneUnderWay
  /\ flights' = Append(flights, [pc |-> "resolving", works |-> FALSE,
                                 credential |-> Unresolved, since |-> current])
  /\ authentication' = Number + 1
  /\ Wait(p, Number + 1)
  /\ UNCHANGED <<current, token, faults, expiries>>

Joins(p) ==
  /\ Asks(p)
  /\ NeedsToken
  /\ authentication # None
  /\ Wait(p, authentication)
  /\ UNCHANGED <<current, authentication, flights, token, faults, expiries>>

\* The await is over: whatever token is there now is returned, or the error
\* of the attempt is thrown and the application asks again.
Runs(p) ==
  /\ caller[p].pc = "waiting"
  /\ flights[caller[p].on].pc = "over"
  /\ IF flights[caller[p].on].works
     THEN Got(p)
     ELSE caller' = [caller EXCEPT ![p].pc = "idle", ![p].on = None]
  /\ UNCHANGED <<current, authentication, flights, token, faults, expiries>>

-----------------------------------------------------------------------------
(* One attempt                                                             *)

Flies(a, pc) == a \in Attempts /\ flights[a].pc = pc

Fault == faults < MaxFaults /\ faults' = faults + 1

\* A resolver answers with the version of that moment.
Resolves(a, x) ==
  /\ Flies(a, "resolving")
  /\ flights[a].credential[x] = None
  /\ flights' = [flights EXCEPT ![a].credential[x] = current[x]]
  /\ UNCHANGED <<current, authentication, token, caller, faults, expiries>>

\* All parts are resolved: the request goes out.
Requests(a) ==
  /\ Flies(a, "resolving")
  /\ \A x \in Parts : flights[a].credential[x] # None
  /\ flights' = [flights EXCEPT ![a].pc = "requesting"]
  /\ UNCHANGED <<current, authentication, token, caller, faults, expiries>>

\* Fault: an answer without a token is stored like any other.
SucceedsUnset(a) ==
  /\ Flies(a, "requesting")
  /\ flights[a].credential = current
  /\ flights' = [flights EXCEPT ![a].pc = "ok", ![a].works = TRUE]
  /\ token' = [from |-> None, live |-> TRUE]
  /\ UNCHANGED <<current, authentication, caller, faults, expiries>>

\* The server takes the credential that is current when it answers, and
\* simpleAuth stores the token before its promise resolves.
Succeeds(a) ==
  /\ Flies(a, "requesting")
  /\ flights[a].credential = current
  /\ flights' = [flights EXCEPT ![a].pc = "ok", ![a].works = TRUE]
  /\ token' = [from |-> a, live |-> TRUE]
  /\ UNCHANGED <<current, authentication, caller, faults, expiries>>

\* A resolver throws or returns nothing, the credential is out of date, or the
\* request fails.
Fails(a) ==
  /\ \/ Flies(a, "resolving") /\ Fault
     \/ Flies(a, "requesting") /\ Fault
     \/ Flies(a, "requesting") /\ flights[a].credential # current /\ UNCHANGED faults
  /\ flights' = [flights EXCEPT ![a].pc = "failed"]
  /\ UNCHANGED <<current, authentication, token, caller, expiries>>

\* Fault: the slot is cleared by success only.
ClearsOnSuccess(a) ==
  /\ Flies(a, "ok") \/ Flies(a, "failed")
  /\ authentication' = IF Flies(a, "ok") THEN None ELSE authentication
  /\ flights' = [flights EXCEPT ![a].pc = "over"]
  /\ UNCHANGED <<current, token, caller, faults, expiries>>

\* Fault: the error is caught where the slot is cleared.
ClearsSwallowing(a) ==
  /\ Flies(a, "ok") \/ Flies(a, "failed")
  /\ authentication' = None
  /\ flights' = [flights EXCEPT ![a].pc = "over", ![a].works = TRUE]
  /\ UNCHANGED <<current, token, caller, faults, expiries>>

\* The finally callback, a microtask of its own: a caller may still join.
Clears(a) ==
  /\ Flies(a, "ok") \/ Flies(a, "failed")
  /\ authentication' = None
  /\ flights' = [flights EXCEPT ![a].pc = "over"]
  /\ UNCHANGED <<current, token, caller, faults, expiries>>

-----------------------------------------------------------------------------
(* The server and time                                                     *)

Rotate(x) ==
  /\ current[x] < MaxRotations
  /\ current' = [current EXCEPT ![x] = @ + 1]
  /\ UNCHANGED <<authentication, flights, token, caller, faults, expiries>>

Expire ==
  /\ ~NeedsToken
  /\ expiries < MaxExpiries
  /\ expiries' = expiries + 1
  /\ token' = [token EXCEPT !.live = FALSE]
  /\ UNCHANGED <<current, authentication, flights, caller, faults>>

-----------------------------------------------------------------------------
Call(p) == TakesToken(p) \/ Starts(p) \/ Joins(p) \/ Runs(p)

Fly(a) == (\E x \in Parts : Resolves(a, x)) \/ Requests(a) \/ Succeeds(a) \/ Fails(a) \/ Clears(a)

Next ==
  \/ \E p \in Callers : Call(p)
  \/ \E a \in Attempts : Fly(a)
  \/ \E x \in Parts : Rotate(x)
  \/ Expire

Spec == Init /\ [][Next]_vars

\* Resolvers and requests settle, callbacks run, and callers ask again until
\* they have the tokens they need.
FairSpec ==
  /\ Spec
  /\ \A p \in Callers : WF_vars(Call(p))
  /\ WF_vars(\E a \in Attempts : Fly(a))

-----------------------------------------------------------------------------
(* Properties                                                              *)

\* Every variable keeps its type.
TypeOK ==
  /\ current \in [Parts -> 0..MaxRotations]
  /\ authentication \in Attempts \union {None}
  /\ flights \in Seq(Flight)
  /\ token \in Token \union {None}
  /\ caller \in [Callers -> [pc : {"idle", "waiting"}, on : Attempts \union {None},
                             got : Token \union {None}, gets : 0..MaxGets]]
  /\ faults \in 0..MaxFaults
  /\ expiries \in 0..MaxExpiries

\* At most one authentication is under way, and it is the one in the slot, so
\* no caller can start a second ("Concurrent requests share one authentication
\* attempt").
SingleFlight ==
  \A a \in Attempts : flights[a].pc # "over" => authentication = a

\* A caller never runs on without a token, and what it gets is no older than
\* the attempt it waited for: no late failure or older attempt replaces it.
NeverWithoutToken ==
  [][\A p \in Callers :
       caller'[p].gets > caller[p].gets =>
         /\ caller'[p].got # None
         /\ caller[p].on # None => caller'[p].got.from >= caller[p].on]_vars

\* An attempt uses no version older than its own beginning, so the secret that
\* was rotated before a failed attempt is picked up by the next (README.md,
\* "Credential resolver functions are called again").
ResolvedAgain ==
  \A a \in Attempts, x \in Parts :
    flights[a].credential[x] # None => flights[a].credential[x] >= flights[a].since[x]

\* Once rotations, expiries and failures come to an end, every caller gets its
\* tokens: a failed attempt leaves nothing behind that fails the next.
AllServed == <>(\A p \in Callers : caller[p].gets = MaxGets)
=============================================================================
