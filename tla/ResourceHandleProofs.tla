------------------------ MODULE ResourceHandleProofs ------------------------
(***************************************************************************)
(* Theorems about ResourceHandle, for any kinds, realms, names, ids,       *)
(* callers and usages.  The argument, in this order:                       *)
(*                                                                         *)
(*  - types.  TypeInv adds to TypeOK which operation gets to which place,  *)
(*    and what it has found, asks for and is answered there; an answer     *)
(*    of the server is of the realm, name or id that was asked for.  One   *)
(*    lemma per action (...Types) shows that it is kept.                   *)
(*                                                                         *)
(*  - where the handle is.  Until the handle is moved during a lookup that *)
(*    it keeps all the same (overtaken), what it serves is of its realm,   *)
(*    name and pinned id (CacheHere), and what the lookups under way will  *)
(*    leave there was asked for where the handle is now (LookupHere).  A   *)
(*    call nothing crossed keeps and writes what is there now (AloneKeeps, *)
(*    AloneAsks), for whoever moves the handle ends that it is alone; the  *)
(*    cache must be right even so, since later calls begin with it.        *)
(*    HereInv, one lemma per action (...Here).                             *)
(*                                                                         *)
(*  - what a step does.  Acts says how a step of a call, other than the    *)
(*    answer of the server, changes that call, the others and the handle,  *)
(*    so that what follows goes by effects (StepsAre), not by actions.     *)
(*                                                                         *)
(*  - what a call knows of the server.  FreshInv: the resource it looked   *)
(*    up is there still, but for later edits.  MissingInv: where it found  *)
(*    none there is none.  WrittenInv: once it wrote, that is there, and   *)
(*    is what it reads back.  All three end when somebody crosses it.      *)
(***************************************************************************)
EXTENDS ResourceHandle, TLAPS

-----------------------------------------------------------------------------
(* The inductive invariant: types                                          *)

LookingUp == {"lookup", "final"}

IsAnswer(a) == a \notin {{Pending}, {Failed}}

\* Which operations get to which place, and with what they found.
OpAt(c) ==
  /\ c.pc = "idle" => c = Idle
  /\ c.pc = "lookup" => c.op \in AllOps /\ c.found = Undefined
  /\ c.pc = "looked" => c.op \in AllOps \ {"getById"}
  /\ c.pc = "partner" => c.op \in {"link", "linkThenRead"}
  /\ c.pc = "final" => c.op \in ReadsBack
  /\ c.pc = "write" => c.op \in (AllOps \union {"profile"}) \ {"get", "getById"}
  /\ c.op = "profile" => kind = "realm"
  /\ c.pc \in {"looked", "partner", "write", "final"} /\ c.found = Undefined =>
       kind = "realm" /\ c.op \notin {"create", "update", "ensure", "delete", "discard", "rewrite"}
  /\ c.pc = "partner" => c.found # Null
  /\ c.pc = "write" /\ c.found = Null => c.op \in {"create", "ensure", "profile", "refresh"}
  /\ c.op = "rewrite" => kind # "realm"

\* What caller p asks for at each place ...
ReqAt(p, c) ==
  /\ c.pc \in {"idle", "looked"} <=> c.req = Null
  /\ c.pc \in LookingUp => c.req.kind \in {"list", "byId"}
  /\ c.pc \in LookingUp /\ c.req.kind = "byId" => c.req.id \in Ids
  /\ c.pc = "lookup" /\ c.req.kind = "byId" =>
       c.op = "getById" \/ Has("pinsId") \/ Has("asksTwice")
  /\ c.pc = "final" /\ c.req.kind = "byId" =>
       \/ Has("pinsId") \/ Has("asksTwice")
       \/ c.op = "update" /\ Has("readsUpdateById")
  /\ c.pc = "partner" => c.req.kind = "partner"
  /\ c.pc = "write" =>
       /\ c.req.kind \in {"create", "put", "del", "use"}
       /\ c.op \in {"create", "update", "ensure", "rewrite"} => c.req.kind \in {"create", "put"}
       /\ c.req.kind = "create" =>
            /\ c.op \in {"create", "ensure", "profile"} /\ c.found = Null
            /\ c.req.mine = p /\ c.req.id = Null
       /\ c.req.kind = "put" =>
            /\ c.op \in {"update", "ensure", "rewrite"} /\ c.found \in Rep
            /\ c.req.mine = p /\ c.req.id = c.found.id /\ c.req.other = c.found.other
            /\ Has("keyedByName") /\ ~Has("namedLive") => c.req.key = c.found.name
            /\ Has("namedLive") => c.req.name = c.found.name
       /\ c.req.kind \in {"del", "use"} =>
            c.req.id = Null \/ (c.found \in Rep /\ c.req.id = c.found.id)
       /\ c.req.kind # "create" => c.req.key \in Names

\* ... and what it is answered.
AnsAt(c) ==
  /\ c.pc \in {"idle", "looked"} => c.ans = {Pending}
  /\ IsAnswer(c.ans) /\ c.pc \in {"partner", "write"} => c.ans = {Done}
  /\ IsAnswer(c.ans) /\ c.pc \in LookingUp =>
       /\ c.ans \subseteq {x \in Rep : x.realm = c.req.realm}
       /\ c.req.kind = "byId" => \A x, y \in c.ans : x.id = c.req.id /\ x = y
       /\ c.req.kind = "list" /\ kind # "clientScope" => \A x \in c.ans : x.name = c.req.name
       /\ kind \notin MayShareName => \A x, y \in c.ans : x.name = y.name => x = y

Shape(p, c) ==
  /\ c \in Call /\ OpAt(c) /\ ReqAt(p, c) /\ AnsAt(c)
  /\ c.since <= edits
  /\ c.pc # "idle" => p \in Usages[usage].callers

IdentityOK ==
  /\ usage \in DOMAIN Usages /\ kind \in Kinds
  /\ realmName \in Realms /\ name \in Names
  /\ retargets \in 0..Usages[usage].retargets /\ realmGen \in 0..retargets
  /\ overtaken \in BOOLEAN
  /\ rep \in Rep \union {Null, Undefined}
  /\ pin \in IF Has("pinsId") THEN Ids \union {Null} ELSE {Null}
  /\ seen \in {RootVersion(g) : g \in 0..realmGen}

\* What the server holds: ids name their own resources, and most kinds take a
\* name once.
Sound(s) ==
  /\ s \in [Ids -> Rep \union {Unissued, Gone}]
  /\ \A i \in Ids : s[i] \in Rep => s[i].id = i
  /\ kind \notin MayShareName =>
       \A i, j \in Ids :
         s[i] \in Rep /\ s[j] \in Rep /\ s[i].realm = s[j].realm /\ s[i].name = s[j].name
           => i = j

CallsOK == call \in [Callers -> Call] /\ \A p \in Callers : Shape(p, call[p])

TypeInv == IdentityOK /\ Sound(store) /\ edits \in 0..MaxEdits /\ CallsOK

-----------------------------------------------------------------------------
(* The inductive invariant: what the handle and its calls keep is its own  *)

Ours(x) == x.name = name /\ x.realm = realmName /\ (pin \in Ids => x.id = pin)

\* An answer that came now would be dropped.
Dropped == Stale /\ ~Has("keepsLate")

CacheHere == ~overtaken /\ VisibleRep \in Rep => Ours(VisibleRep)

\* A call that the parent has overtaken is the only one there can be.
LoneWhenStale ==
  ~overtaken /\ Dropped =>
    \A p \in Callers : call[p].pc # "idle" => Usages[usage].callers \ {p} = {}

\* What a lookup under way will leave in the cache, it asked for where the
\* handle is now.
LookupHere(c) ==
  c.pc \in LookingUp /\ ~overtaken /\ ~Dropped =>
    c.req.realm = realmName /\ (c.req.kind = "list" => pin = Null)

\* And a call nothing crossed asks for, keeps and writes what is there now.
AloneAsks(c) ==
  c.alone /\ c.pc # "idle" =>
    /\ ~Dropped
    /\ c.pc \in LookingUp =>
         /\ c.req.realm = realmName /\ c.req.name = name
         /\ c.req.kind = "list" => pin = Null
    /\ c.pc = "write" => c.req.realm = realmName
    /\ c.pc = "write" /\ c.req.kind \in {"create", "put"} => c.req.name = name

AloneKeeps(c) ==
  /\ c.alone /\ c.pc \in {"looked", "partner", "write", "final"} /\ c.found \in Rep
  /\ ~(overtaken /\ UsesCache(c.op))
  => Ours(c.found)

HereInv ==
  /\ CacheHere /\ LoneWhenStale
  /\ \A p \in Callers : LookupHere(call[p]) /\ AloneAsks(call[p]) /\ AloneKeeps(call[p])

-----------------------------------------------------------------------------
(* The inductive invariants of the properties of steps                     *)

\* The server has x still, but for the edits made since.
Kept(x, since) ==
  /\ store[x.id] \in Rep
  /\ store[x.id].realm = x.realm /\ store[x.id].name = x.name
  /\ store[x.id].other = x.other \/ store[x.id].other > since

\* A call that nothing crossed, and that looked its resource up, has found what
\* the server has, but for later edits; and names it in what it writes.
FreshCall(c) ==
  c.alone /\ LooksUpFirst(c.op) =>
    /\ c.pc = "lookup" /\ IsAnswer(c.ans) => \A x \in c.ans : Kept(x, c.since)
    /\ c.pc = "looked" \/ (c.pc = "write" /\ c.ans = {Pending}) =>
         (c.found \in Rep => Kept(c.found, c.since))

KeyedCall(c) ==
  c.alone /\ c.pc = "write" /\ c.req.kind = "put" /\ Has("keyedByName") =>
    c.req.key = c.found.name

FreshInv == \A p \in Callers : FreshCall(call[p]) /\ KeyedCall(call[p])

\* A call that found nothing is right.
MissingCall(c) ==
  c.alone /\ kind \in MayShareName =>
    /\ c.pc = "lookup" /\ c.op # "getById" /\ c.ans = {} => Held(store, realmName, name) = {}
    /\ c.pc = "looked" \/ (c.pc = "write" /\ c.ans = {Pending}) =>
         (c.found = Null => Held(store, realmName, name) = {})

MissingInv == \A p \in Callers : MissingCall(call[p])

\* What caller p wrote is on the server: x is it.
Written(p, x) ==
  /\ x \in Rep /\ x.mine = p /\ x.realm = realmName /\ x.name = name
  /\ call[p].found \in Rep /\ ~Has("keyedByName") => x.id = call[p].found.id

\* What it reads back is that one.
ReadsWritten(p, i) ==
  /\ call[p].req.kind = "byId" => call[p].req.id = i
  /\ IsAnswer(call[p].ans) =>
       \E y \in call[p].ans : y.id = i /\ y.mine = p /\ y.name = name

Claims(p) ==
  /\ call[p].alone /\ call[p].op \in {"create", "update", "ensure", "rewrite"}
  /\ ~(overtaken /\ UsesCache(call[p].op)) /\ ~(pin \in Ids /\ call[p].found = Null)

WrittenCall(p) ==
  Claims(p) =>
    /\ call[p].pc = "write" /\ call[p].ans = {Done} => \E i \in Ids : Written(p, store[i])
    /\ call[p].pc = "final" => \E i \in Ids : Written(p, store[i]) /\ ReadsWritten(p, i)

WrittenInv == \A p \in Callers : WrittenCall(p)

-----------------------------------------------------------------------------
(* Types: records                                                          *)

\* The special values are told apart from each other and from resources.
LEMMA Marks ==
  /\ Null \notin Rep /\ Undefined \notin Rep /\ Unissued \notin Rep /\ Gone \notin Rep
  /\ Pending \notin Rep /\ Failed \notin Rep /\ Done \notin Rep
  /\ Null # Undefined /\ Null \notin Request /\ Null \notin Ids
  /\ Pending # Failed /\ Failed # Done /\ Done # Pending
  /\ \A a \in SUBSET Rep : IsAnswer(a) /\ a # {Done}
  /\ IsAnswer({Done}) /\ ~IsAnswer({Pending}) /\ ~IsAnswer({Failed})
<1>1. /\ Null \notin Rep /\ Undefined \notin Rep /\ Unissued \notin Rep /\ Gone \notin Rep
      /\ Pending \notin Rep /\ Failed \notin Rep /\ Done \notin Rep
      /\ Null # Undefined /\ Null \notin Request /\ Null \notin Ids
      /\ Pending # Failed /\ Failed # Done /\ Done # Pending
  BY ResourceHandleAssumption
<1>2. \A a \in SUBSET Rep : IsAnswer(a) /\ a # {Done}
  BY <1>1 DEF IsAnswer
<1> QED
  BY <1>1, <1>2 DEF IsAnswer

RequestKinds == {"list", "byId", "create", "put", "del", "use", "partner"}

LEMMA SendFields ==
  ASSUME IdentityOK,
         NEW k \in RequestKinds, NEW i \in Ids \union {Null}, NEW key \in Names \union {Null},
         NEW other \in 0..MaxEdits, NEW mine \in Callers \union {Null}
  PROVE  /\ Send(k, i, key, other, mine) \in Request
         /\ Send(k, i, key, other, mine) # Null
         /\ Send(k, i, key, other, mine).kind = k
         /\ Send(k, i, key, other, mine).realm = realmName
         /\ Send(k, i, key, other, mine).name = name
         /\ Send(k, i, key, other, mine).id = i
         /\ Send(k, i, key, other, mine).key = key
         /\ Send(k, i, key, other, mine).other = other
         /\ Send(k, i, key, other, mine).mine = mine
<1>1. Send(k, i, key, other, mine) \in Request
  BY DEF Send, Request, RequestKinds, IdentityOK
<1> QED
  BY <1>1, Marks DEF Send

\* A request with the place and kind of another one.
LEMMA RequestExcept ==
  ASSUME NEW req \in Request, NEW r \in Realms, NEW n \in Names, NEW key \in Names \union {Null},
         NEW i \in Ids
  PROVE  /\ [req EXCEPT !.realm = r, !.name = n, !.key = key] \in Request
         /\ [req EXCEPT !.kind = "byId", !.id = i] \in Request
  BY DEF Request

Places == {"idle", "lookup", "looked", "partner", "write", "final"}

LEMMA RepFields ==
  ASSUME NEW x \in Rep
  PROVE  /\ x.id \in Ids /\ x.realm \in Realms /\ x.name \in Names
         /\ x.other \in 0..MaxEdits /\ x.mine \in Callers \union {Null}
  BY DEF Rep

LEMMA CallFields ==
  ASSUME NEW c \in Call
  PROVE  /\ c.op \in AllOps \union {"profile", "none"} /\ c.pc \in Places
         /\ c.found \in Rep \union {Null, Undefined} /\ c.req \in Request \union {Null}
         /\ c.ans \in SUBSET (Rep \union {Pending, Failed, Done})
         /\ c.since \in 0..MaxEdits /\ c.alone \in BOOLEAN
  BY DEF Call, Places

LEMMA IdleShape ==
  ASSUME edits \in 0..MaxEdits, NEW p PROVE Shape(p, Idle)
<1>1. Idle \in Call
  BY Marks, ResourceHandleAssumption DEF Idle, Call
<1>2. /\ Idle.op = "none" /\ Idle.pc = "idle" /\ Idle.req = Null /\ Idle.ans = {Pending}
      /\ Idle.since = 0 /\ Idle.found = Undefined
  BY DEF Idle
<1>3. 0 <= edits
  OBVIOUS
<1> HIDE DEF Idle
<1>4. OpAt(Idle) /\ ReqAt(p, Idle) /\ AnsAt(Idle)
  BY <1>2, Marks DEF OpAt, ReqAt, AnsAt, LookingUp
<1> QED
  BY <1>1, <1>2, <1>3, <1>4 DEF Shape

\* What Disturb takes from a call under way.
Crossing(c) == [c EXCEPT !.alone = FALSE, !.since = 0]

LEMMA Crossed ==
  ASSUME NEW c \in Call
  PROVE  /\ Crossing(c) \in Call /\ Crossing(c).alone = FALSE /\ Crossing(c).since = 0
         /\ Crossing(c).op = c.op /\ Crossing(c).pc = c.pc /\ Crossing(c).found = c.found
         /\ Crossing(c).req = c.req /\ Crossing(c).ans = c.ans
<1>1. 0 \in 0..MaxEdits
  BY ResourceHandleAssumption
<1> QED
  BY <1>1 DEF Crossing, Call

LEMMA CrossedShape ==
  ASSUME edits \in 0..MaxEdits, NEW p, NEW c, Shape(p, c), c.pc # "idle"
  PROVE  Shape(p, Crossing(c))
<1>1. c \in Call
  BY DEF Shape
<1> DEFINE d == Crossing(c)
<1>2. /\ d \in Call /\ d.since = 0 /\ d.op = c.op /\ d.pc = c.pc /\ d.found = c.found
      /\ d.req = c.req /\ d.ans = c.ans
  BY <1>1, Crossed
<1>3. 0 <= edits
  BY ResourceHandleAssumption
<1> HIDE DEF d
<1>4. OpAt(d) /\ ReqAt(p, d) /\ AnsAt(d)
  BY <1>2 DEF Shape, OpAt, ReqAt, AnsAt
<1> QED
  BY <1>2, <1>3, <1>4 DEF Shape, d

\* Caller p goes on as r; the others stay as they were, or are no longer alone.
Goes(p, r) == \/ call' = [call EXCEPT ![p] = r]
              \/ call' = Disturb([call EXCEPT ![p] = r], {p})

LEMMA GoesParts ==
  ASSUME call \in [Callers -> Call], NEW p \in Callers, NEW r \in Call, Goes(p, r)
  PROVE  /\ call' \in [Callers -> Call] /\ call'[p] = r
         /\ \A q \in Callers \ {p} :
              \/ call'[q] = call[q]
              \/ call[q].pc # "idle" /\ call'[q] = Crossing(call[q])
<1> DEFINE moved == [call EXCEPT ![p] = r]
<1>1. /\ moved \in [Callers -> Call] /\ moved[p] = r
      /\ \A q \in Callers \ {p} : moved[q] = call[q]
  OBVIOUS
<1>2. call' = moved \/ call' = Disturb(moved, {p})
  BY DEF Goes
<1>3. \A q \in Callers : Crossing(call[q]) \in Call
  BY Crossed
<1> HIDE DEF moved
<1>4. CASE call' = Disturb(moved, {p})
  BY <1>1, <1>3, <1>4 DEF Disturb, Crossing
<1> QED
  BY <1>1, <1>2, <1>4

LEMMA DisturbParts ==
  ASSUME call \in [Callers -> Call], call' = Disturb(call, {})
  PROVE  /\ call' \in [Callers -> Call]
         /\ \A q \in Callers :
              \/ call[q].pc = "idle" /\ call'[q] = call[q]
              \/ call[q].pc # "idle" /\ call'[q] = Crossing(call[q])
<1>1. \A q \in Callers : Crossing(call[q]) \in Call
  BY Crossed
<1> QED
  BY <1>1 DEF Disturb, Crossing

\* The shape of a call does not depend on where the handle or the server is.
LEMMA ShapeStays ==
  ASSUME UNCHANGED <<usage, kind>>, edits \in Nat, edits' \in Nat, edits <= edits',
         NEW p, NEW c, Shape(p, c)
  PROVE  Shape(p, c)'
<1>1. c.since \in Nat
  BY CallFields, ResourceHandleAssumption DEF Shape
<1> QED
  BY <1>1 DEF Shape, OpAt, ReqAt, AnsAt, Has, LookingUp, IsAnswer

LEMMA GoesTypes ==
  ASSUME CallsOK, UNCHANGED <<usage, kind, edits>>, edits \in 0..MaxEdits,
         NEW p \in Callers, NEW r, Shape(p, r), Goes(p, r)
  PROVE  CallsOK'
<1>1. /\ call' \in [Callers -> Call] /\ call'[p] = r
      /\ \A q \in Callers \ {p} :
           \/ call'[q] = call[q]
           \/ call[q].pc # "idle" /\ call'[q] = Crossing(call[q])
  BY GoesParts DEF CallsOK, Shape
<1>2. edits \in Nat /\ edits' \in Nat /\ edits <= edits'
  BY ResourceHandleAssumption
<1>3. ASSUME NEW q \in Callers PROVE Shape(q, call'[q])
  <2>1. q # p => Shape(q, call[q]) /\ (call[q].pc # "idle" => Shape(q, Crossing(call[q])))
    BY CrossedShape DEF CallsOK
  <2> QED
    BY <1>1, <2>1
<1>4. \A q \in Callers : \A c : Shape(q, c) => Shape(q, c)'
  BY <1>2, ShapeStays
<1>5. \A q \in Callers : Shape(q, call[q])'
  BY <1>3, <1>4
<1> QED
  BY <1>1, <1>5 DEF CallsOK

-----------------------------------------------------------------------------
(* Types: the steps of the calls                                           *)

\* What a step of a call may do to the handle.
HandleTypes ==
  /\ UNCHANGED <<usage, kind, realmName, realmGen>>
  /\ retargets' \in 0..Usages[usage].retargets /\ realmGen <= retargets'
  /\ overtaken' \in BOOLEAN
  /\ name' \in Names /\ rep' \in Rep \union {Null, Undefined}
  /\ pin' \in IF Has("pinsId") THEN Ids \union {Null} ELSE {Null}
  /\ seen' \in {RootVersion(g) : g \in 0..realmGen}

LEMMA IdentityKept ==
  ASSUME IdentityOK, HandleTypes PROVE IdentityOK'
<1>1. Usages[usage].retargets \in Nat
  BY ResourceHandleAssumption DEF IdentityOK, Usage
<1>2. realmGen \in 0..retargets'
  BY <1>1 DEF IdentityOK, HandleTypes
<1> QED
  BY <1>2 DEF IdentityOK, HandleTypes, Has

\* A step of a call that leaves the server alone.
LEMMA StepTypes ==
  ASSUME TypeInv, HandleTypes, UNCHANGED <<store, edits>>,
         NEW p \in Callers, NEW r, Shape(p, r), Goes(p, r)
  PROVE  TypeInv'
<1>1. IdentityOK'
  BY IdentityKept DEF TypeInv
<1>2. CallsOK'
  BY GoesTypes DEF TypeInv, HandleTypes
<1>3. Sound(store)'
  BY DEF TypeInv, Sound, HandleTypes
<1> QED
  BY <1>1, <1>2, <1>3 DEF TypeInv

LEMMA Unmoved ==
  ASSUME TypeInv, UNCHANGED <<target, cache>> PROVE HandleTypes
<1>1. Usages[usage].retargets \in Nat
  BY ResourceHandleAssumption DEF TypeInv, IdentityOK, Usage
<1> QED
  BY <1>1 DEF TypeInv, IdentityOK, HandleTypes, target, cache

LEMMA Numbers ==
  ASSUME TypeInv
  PROVE  /\ MaxEdits \in Nat /\ edits \in Nat /\ edits \in 0..MaxEdits
         /\ realmGen \in Nat /\ retargets \in Nat /\ realmGen <= retargets
         /\ realmGen \in 0..realmGen
         /\ Usages[usage].retargets \in Nat
<1>1. MaxEdits \in Nat /\ Usages[usage].retargets \in Nat
  BY ResourceHandleAssumption DEF TypeInv, IdentityOK, Usage
<1> QED
  BY <1>1 DEF TypeInv, IdentityOK

LEMMA SeenTypes ==
  ASSUME TypeInv
  PROVE  /\ RootVersion(realmGen) \in {RootVersion(g) : g \in 0..realmGen}
         /\ VisibleRep \in Rep \union {Null, Undefined}
         /\ VisiblePin \in IF Has("pinsId") THEN Ids \union {Null} ELSE {Null}
  BY Numbers DEF TypeInv, IdentityOK, VisibleRep, VisiblePin

\* The parent's version is looked at, or not yet.
Looks == InvalidateParentCache \/ UNCHANGED <<rep, pin, seen>>

LEMMA LooksTypes ==
  ASSUME TypeInv, Looks, UNCHANGED <<usage, kind, realmName, realmGen, name>>,
         retargets' \in 0..Usages[usage].retargets, realmGen <= retargets',
         overtaken' \in BOOLEAN
  PROVE  HandleTypes
<1>1. /\ rep' \in Rep \union {Null, Undefined}
      /\ pin' \in IF Has("pinsId") THEN Ids \union {Null} ELSE {Null}
      /\ seen' \in {RootVersion(g) : g \in 0..realmGen}
  BY SeenTypes DEF Looks, InvalidateParentCache, TypeInv, IdentityOK
<1> QED
  BY <1>1 DEF HandleTypes, TypeInv, IdentityOK

LEMMA LooksUnmoved ==
  ASSUME TypeInv, Looks, UNCHANGED <<name, target>> PROVE HandleTypes
<1>1. retargets' \in 0..Usages[usage].retargets /\ realmGen <= retargets'
  BY Numbers DEF TypeInv, IdentityOK, target
<1> QED
  BY <1>1, LooksTypes DEF target, TypeInv, IdentityOK

LEMMA LooksAre ==
  /\ LookAtParent => Looks
  /\ InvalidateParentCache => Looks
  BY DEF LookAtParent, Looks

LEMMA FinishTypes ==
  ASSUME TypeInv, HandleTypes, UNCHANGED <<store, edits>>, NEW p \in Callers, Finish(p)
  PROVE  TypeInv'
<1>1. Shape(p, Idle)
  BY Numbers, IdleShape
<1>2. Goes(p, Idle)
  BY DEF Finish, Goes
<1> QED
  BY <1>1, <1>2, StepTypes

LEMMA ThrowTypes == ASSUME TypeInv, NEW p \in Callers, Throw(p) PROVE TypeInv'
  BY Unmoved, FinishTypes DEF Throw, server

LEMMA UsedTypes == ASSUME TypeInv, NEW p \in Callers, Used(p) PROVE TypeInv'
  BY Unmoved, FinishTypes DEF Used, server

LEMMA DeletedTypes == ASSUME TypeInv, NEW p \in Callers, Deleted(p) PROVE TypeInv'
<1>1. Finish(p) /\ UNCHANGED <<store, edits>>
  BY DEF Deleted, server
<1>2. retargets' \in 0..Usages[usage].retargets /\ realmGen <= retargets'
  BY Numbers DEF TypeInv, IdentityOK, Deleted, target
<1>3. seen' \in {RootVersion(g) : g \in 0..realmGen}
  BY SeenTypes DEF Deleted, TypeInv, IdentityOK
<1>4. HandleTypes
  BY <1>2, <1>3 DEF HandleTypes, TypeInv, IdentityOK, Deleted, target
<1> QED
  BY <1>1, <1>4, FinishTypes

-----------------------------------------------------------------------------
(* Types: requests                                                         *)

LEMMA LookupFields ==
  ASSUME TypeInv
  PROVE  /\ Lookup \in Request /\ Lookup # Null
         /\ Lookup.realm = realmName /\ Lookup.name = name
         /\ Lookup.kind \in {"list", "byId"}
         /\ Lookup.kind = "list" => VisiblePin = Null
         /\ Lookup.kind = "byId" => Has("pinsId") /\ Lookup.id \in Ids /\ Lookup.id = VisiblePin
<1>1. VisiblePin # Null => Has("pinsId") /\ VisiblePin \in Ids
  BY SeenTypes
<1>2. 0 \in 0..MaxEdits
  BY Numbers
<1>3. CASE VisiblePin # Null
  <2>1. Lookup = Send("byId", VisiblePin, Null, 0, Null)
    BY <1>3 DEF Lookup, ById
  <2> QED
    BY <1>1, <1>2, <1>3, <2>1, SendFields DEF RequestKinds, TypeInv
<1>4. CASE VisiblePin = Null
  <2>1. Lookup = Send("list", Null, Null, 0, Null)
    BY <1>4 DEF Lookup, List
  <2> QED
    BY <1>2, <1>4, <2>1, SendFields DEF RequestKinds, TypeInv
<1> QED
  BY <1>3, <1>4

LEMMA ByIdFields ==
  ASSUME TypeInv, NEW i \in Ids
  PROVE  /\ ById(i) \in Request /\ ById(i) # Null
         /\ ById(i).realm = realmName /\ ById(i).name = name
         /\ ById(i).kind = "byId" /\ ById(i).id = i
<1>1. 0 \in 0..MaxEdits
  BY Numbers
<1> QED
  BY <1>1, SendFields DEF ById, RequestKinds, TypeInv

LEMMA KeyTypes ==
  ASSUME TypeInv, NEW one, one \in Rep \/ Has("namedLive")
  PROVE  /\ Key(one) \in Names
         /\ Has("namedLive") => Key(one) = name
         /\ ~Has("namedLive") => Key(one) = one.name
  BY RepFields DEF Key, TypeInv, IdentityOK

LEMMA CreateFields ==
  ASSUME TypeInv, NEW p \in Callers
  PROVE  /\ Create(p) \in Request /\ Create(p) # Null
         /\ Create(p).realm = realmName /\ Create(p).name = name
         /\ Create(p).kind = "create" /\ Create(p).id = Null /\ Create(p).mine = p
<1>1. 0 \in 0..MaxEdits
  BY Numbers
<1> QED
  BY <1>1, SendFields DEF Create, RequestKinds, TypeInv

LEMMA PartnerFields ==
  ASSUME TypeInv
  PROVE  /\ Partner \in Request /\ Partner # Null
         /\ Partner.realm = realmName /\ Partner.kind = "partner"
<1>1. 0 \in 0..MaxEdits
  BY Numbers
<1> QED
  BY <1>1, SendFields DEF Partner, RequestKinds, TypeInv

LEMMA UseFields ==
  ASSUME TypeInv, NEW one, one \in Rep \/ (one = Undefined /\ Has("namedLive"))
  PROVE  /\ Use(one) \in Request /\ Use(one) # Null
         /\ Use(one).realm = realmName /\ Use(one).name = name
         /\ Use(one).kind = "use" /\ Use(one).key \in Names
         /\ Use(one).id = Null \/ (one \in Rep /\ Use(one).id = one.id)
<1>1. 0 \in 0..MaxEdits /\ Key(one) \in Names
  BY Numbers, KeyTypes
<1> DEFINE i == IF one = Undefined THEN Null ELSE one.id
           key == Key(one)
<1>2. i \in Ids \union {Null} /\ (i = Null \/ (one \in Rep /\ i = one.id))
  BY Marks, RepFields
<1>3. Use(one) = Send("use", i, key, 0, Null)
  BY DEF Use
<1> HIDE DEF i, key
<1>4. key \in Names
  BY <1>1 DEF key
<1> QED
  BY <1>1, <1>2, <1>3, <1>4, SendFields DEF RequestKinds, TypeInv

LEMMA DelFields ==
  ASSUME TypeInv, NEW one \in Rep
  PROVE  /\ Del(one) \in Request /\ Del(one) # Null
         /\ Del(one).realm = realmName /\ Del(one).name = name
         /\ Del(one).kind = "del" /\ Del(one).key \in Names /\ Del(one).id = one.id
<1> DEFINE key == Key(one)
<1>1. 0 \in 0..MaxEdits /\ key \in Names /\ one.id \in Ids
  BY Numbers, KeyTypes, RepFields
<1>2. Del(one) = Send("del", one.id, key, 0, Null)
  BY DEF Del
<1> HIDE DEF key
<1> QED
  BY <1>1, <1>2, SendFields DEF RequestKinds, TypeInv

LEMMA PutFields ==
  ASSUME TypeInv, NEW p \in Callers, NEW one \in Rep
  PROVE  /\ Put(p, one) \in Request /\ Put(p, one) # Null
         /\ Put(p, one).realm = realmName /\ Put(p, one).kind = "put"
         /\ Has("namedLive") => Put(p, one).name = one.name
         /\ ~Has("namedLive") => Put(p, one).name = name
         /\ Put(p, one).key = Key(one) /\ Put(p, one).key \in Names
         /\ Put(p, one).id = one.id /\ Put(p, one).other = one.other /\ Put(p, one).mine = p
<1> DEFINE key == Key(one)
           n == IF Has("namedLive") THEN one.name ELSE name
           sent == Send("put", one.id, key, one.other, p)
<1>1. key \in Names /\ one.id \in Ids /\ one.other \in 0..MaxEdits /\ n \in Names
  BY KeyTypes, RepFields DEF TypeInv, IdentityOK
<1>2. Put(p, one) = [sent EXCEPT !.name = n]
  BY DEF Put
<1>3. /\ sent \in Request /\ sent.kind = "put" /\ sent.realm = realmName
      /\ sent.id = one.id /\ sent.key = key /\ sent.other = one.other /\ sent.mine = p
  <2> HIDE DEF key
  <2> QED
    BY <1>1, SendFields DEF RequestKinds, TypeInv
<1> HIDE DEF sent, n
<1>4. /\ Put(p, one) \in Request /\ Put(p, one).name = n /\ Put(p, one).kind = "put"
      /\ Put(p, one).realm = realmName
      /\ Put(p, one).id = one.id /\ Put(p, one).key = key /\ Put(p, one).other = one.other
      /\ Put(p, one).mine = p
  <2> HIDE DEF key
  <2> QED
    BY <1>1, <1>2, <1>3 DEF Request
<1> QED
  BY <1>1, <1>4, Marks DEF n

-----------------------------------------------------------------------------
(* Types: operations                                                       *)

\* No method of the realm rewrites a representation it did not resolve.
LEMMA RealmShapes == "rewrite" \notin ShapesOf["realm"]
<1>1. "rewrite" \notin Range(RealmProfile)
  BY DEF RealmProfile, Range
<1>2. "rewrite" \notin Range(RealmSettings)
  BY DEF RealmSettings, Range
<1>3. "rewrite" \notin Range(RealmAccess)
  BY DEF RealmAccess, Range
<1>4. "rewrite" \notin Range(RealmSearches)
  BY DEF RealmSearches, Range
<1>5. "rewrite" \notin Range(RealmUserSearches)
  BY DEF RealmUserSearches, Range
<1>6. "rewrite" \notin Range(RealmOtherSearches)
  BY DEF RealmOtherSearches, Range
<1>7. "rewrite" \notin ShapesIn(RealmDependents)
  BY <1>1, <1>2, <1>3, <1>4, <1>5, <1>6 DEF ShapesIn, RealmDependents
<1> QED
  BY <1>7 DEF ShapesOf

\* A call that has sent a request, or has nothing to wait for.
New(op, pc, found, req, since, alone) ==
  [op |-> op, pc |-> pc, found |-> found, req |-> req, ans |-> {Pending},
   since |-> since, alone |-> alone]

LEMMA NewFields ==
  ASSUME NEW op \in AllOps \union {"profile", "none"}, NEW pc \in Places,
         NEW found \in Rep \union {Null, Undefined}, NEW req \in Request \union {Null},
         NEW since \in 0..MaxEdits, NEW alone \in BOOLEAN,
         NEW r, r = New(op, pc, found, req, since, alone)
  PROVE  /\ r \in Call /\ r.op = op /\ r.pc = pc /\ r.found = found /\ r.req = req
         /\ r.ans = {Pending} /\ r.since = since /\ r.alone = alone
  BY DEF New, Call, Places

LEMMA NewShape ==
  ASSUME TypeInv, NEW p, NEW r \in Call, r.ans = {Pending}, r.since <= edits,
         OpAt(r), ReqAt(p, r), r.pc # "idle" => p \in Usages[usage].callers
  PROVE  Shape(p, r)
  BY Marks DEF Shape, AnsAt

LEMMA ResolveTypes ==
  ASSUME TypeInv, NEW p \in Callers, p \in Usages[usage].callers,
         NEW op \in AllOps \ {"getById"}, ~(kind = "realm" /\ op = "rewrite"),
         NEW since \in 0..edits, NEW alone \in BOOLEAN, Resolve(p, op, since, alone)
  PROVE  TypeInv'
<1>1. HandleTypes /\ UNCHANGED <<store, edits>>
  BY LooksAre, LooksUnmoved DEF Resolve, server
<1>2. /\ since \in 0..MaxEdits /\ since <= edits
      /\ op \in AllOps /\ op # "getById" /\ op # "profile" /\ op # "none"
  BY Numbers DEF AllOps
<1>3. CASE ResolvesNothing(op)
  <2> DEFINE r == New(op, "looked", Undefined, Null, since, alone)
  <2>1. Goes(p, r)
    BY <1>3 DEF Resolve, New, Goes
  <2>2. /\ r \in Call /\ r.op = op /\ r.pc = "looked" /\ r.found = Undefined /\ r.req = Null
        /\ r.ans = {Pending} /\ r.since = since
    <3>1. /\ op \in AllOps \union {"profile", "none"} /\ "looked" \in Places
          /\ Undefined \in Rep \union {Null, Undefined} /\ Null \in Request \union {Null}
      BY <1>2 DEF Places
    <3> QED
      BY <1>2, <3>1 DEF New, Call
  <2> HIDE DEF r
  <2>3. kind = "realm" /\ op \in Shapes
    BY <1>3 DEF ResolvesNothing
  <2>4. OpAt(r) /\ ReqAt(p, r)
    BY <2>2, <2>3 DEF OpAt, ReqAt, Shapes, LookingUp
  <2>5. Shape(p, r)
    BY <1>2, <2>2, <2>4, NewShape
  <2> QED
    BY <1>1, <2>1, <2>5, StepTypes
<1>4. CASE ~ResolvesNothing(op) /\ UsesCache(op) /\ VisibleRep \in Rep
  <2> DEFINE one == VisibleRep
  <2> DEFINE r == New(op, "looked", one, Null, since, alone)
  <2>1. Goes(p, r)
    BY <1>4 DEF Resolve, New, Goes
  <2>2. one \in Rep
    BY <1>4
  <2> HIDE DEF one
  <2>3. /\ r \in Call /\ r.op = op /\ r.pc = "looked" /\ r.found = one /\ r.req = Null
        /\ r.ans = {Pending} /\ r.since = since
    BY <1>2, <2>2 DEF New, Call, Places
  <2> HIDE DEF r
  <2>4. OpAt(r) /\ ReqAt(p, r)
    BY <1>2, <2>2, <2>3, Marks DEF OpAt, ReqAt, LookingUp
  <2>5. Shape(p, r)
    BY <1>2, <2>3, <2>4, NewShape
  <2> QED
    BY <1>1, <2>1, <2>5, StepTypes
<1>5. CASE ~ResolvesNothing(op) /\ ~(UsesCache(op) /\ VisibleRep \in Rep)
  <2> DEFINE req == Lookup
  <2> DEFINE r == New(op, "lookup", Undefined, req, since, alone)
  <2>1. Goes(p, r)
    BY <1>5 DEF Resolve, New, Goes
  <2>2. /\ req \in Request /\ req # Null /\ req.kind \in {"list", "byId"}
        /\ req.kind = "byId" => Has("pinsId") /\ req.id \in Ids
    BY LookupFields
  <2> HIDE DEF req
  <2>3. /\ r \in Call /\ r.op = op /\ r.pc = "lookup" /\ r.found = Undefined /\ r.req = req
        /\ r.ans = {Pending} /\ r.since = since
    <3>1. /\ op \in AllOps \union {"profile", "none"} /\ "lookup" \in Places
          /\ Undefined \in Rep \union {Null, Undefined} /\ req \in Request \union {Null}
          /\ since \in 0..MaxEdits
      BY <1>2, <2>2 DEF Places
    <3>2. r = New(op, "lookup", Undefined, req, since, alone)
      OBVIOUS
    <3> HIDE DEF r
    <3> QED
      BY <3>1, <3>2 DEF New, Call
  <2> HIDE DEF r
  <2>4. OpAt(r) /\ ReqAt(p, r)
    BY <1>2, <2>2, <2>3, Marks DEF OpAt, ReqAt, LookingUp
  <2>5. Shape(p, r)
    BY <1>2, <2>3, <2>4, NewShape
  <2> QED
    BY <1>1, <2>1, <2>5, StepTypes
<1> QED
  BY <1>3, <1>4, <1>5

LEMMA BeginTypes ==
  ASSUME TypeInv, NEW p \in Callers, NEW op \in AllOps \ {"getById"}, Begin(p, op)
  PROVE  TypeInv'
<1>1. ~(kind = "realm" /\ op = "rewrite")
  BY RealmShapes DEF Begin, Shapes
<1>2. edits \in 0..edits
  BY Numbers
<1> QED
  BY <1>1, <1>2, ResolveTypes DEF Begin

LEMMA BeginGetByIdTypes ==
  ASSUME TypeInv, NEW p \in Callers, NEW i \in Ids, BeginGetById(p, i) PROVE TypeInv'
<1>1. /\ retargets' \in 0..Usages[usage].retargets /\ realmGen <= retargets'
      /\ UNCHANGED <<usage, kind, realmName, realmGen, overtaken, name, store, edits>>
  BY Numbers DEF BeginGetById, CountRetarget, server
<1>2. HandleTypes
  BY <1>1, LooksAre, LooksTypes DEF BeginGetById, TypeInv, IdentityOK
<1> DEFINE req == ById(i)
<1> DEFINE lone == TRUE
<1> DEFINE r == New("getById", "lookup", Undefined, req, edits, lone)
<1>3. Goes(p, r)
  BY DEF BeginGetById, New, Goes
<1> HIDE DEF lone
<1>4. req \in Request /\ req # Null /\ req.kind = "byId" /\ req.id \in Ids
  BY ByIdFields
<1> HIDE DEF req
<1>5. /\ r \in Call /\ r.op = "getById" /\ r.pc = "lookup" /\ r.found = Undefined
      /\ r.req = req /\ r.ans = {Pending} /\ r.since = edits
  <2>1. /\ "getById" \in AllOps \union {"profile", "none"} /\ "lookup" \in Places
        /\ Undefined \in Rep \union {Null, Undefined}
        /\ req \in Request \union {Null} /\ edits \in 0..MaxEdits
    BY <1>4, Numbers DEF Places, AllOps
  <2>2. lone \in BOOLEAN /\ r = New("getById", "lookup", Undefined, req, edits, lone)
    BY DEF lone
  <2> HIDE DEF r
  <2> QED
    BY <2>1, <2>2 DEF New, Call
<1> HIDE DEF r
<1>6. OpAt(r) /\ ReqAt(p, r)
  BY <1>4, <1>5, Marks DEF OpAt, ReqAt, LookingUp, AllOps
<1>7. edits <= edits /\ p \in Usages[usage].callers
  BY Numbers DEF BeginGetById
<1>8. Shape(p, r)
  BY <1>5, <1>6, <1>7, NewShape
<1> QED
  BY <1>1, <1>2, <1>3, <1>8, StepTypes

\* A call goes on to another place.
LEMMA MoveTypes ==
  ASSUME TypeInv, HandleTypes, UNCHANGED <<store, edits>>, NEW p \in Callers, call[p].pc # "idle",
         NEW op \in AllOps \union {"profile", "none"}, NEW pc \in Places \ {"idle"},
         NEW found \in Rep \union {Null, Undefined}, NEW req \in Request \union {Null},
         Goes(p, New(op, pc, found, req, call[p].since, call[p].alone)),
         \A r : r.op = op /\ r.pc = pc /\ r.found = found /\ r.req = req
                  => OpAt(r) /\ ReqAt(p, r)
  PROVE  TypeInv'
<1>1. /\ call[p].since \in 0..MaxEdits /\ call[p].alone \in BOOLEAN /\ call[p].since <= edits
      /\ p \in Usages[usage].callers
  BY CallFields DEF TypeInv, CallsOK, Shape
<1> DEFINE r == New(op, pc, found, req, call[p].since, call[p].alone)
<1>2. /\ r \in Call /\ r.op = op /\ r.pc = pc /\ r.found = found /\ r.req = req
      /\ r.ans = {Pending} /\ r.since = call[p].since
  BY <1>1, NewFields
<1> HIDE DEF r
<1>3. OpAt(r) /\ ReqAt(p, r)
  BY <1>2
<1>4. Shape(p, r)
  BY <1>1, <1>2, <1>3, NewShape
<1> QED
  BY <1>4, StepTypes DEF r

-----------------------------------------------------------------------------
(* Types: the server                                                       *)

LEMMA LiveAre ==
  ASSUME Sound(store), NEW x
  PROVE  x \in Live(store) <=> x \in Rep /\ x.id \in Ids /\ store[x.id] = x
BY RepFields DEF Live, Sound

\* Resources of a kind that takes a name once are told apart by it.
LEMMA LiveByName ==
  ASSUME Sound(store), kind \notin MayShareName,
         NEW x \in Live(store), NEW y \in Live(store), x.realm = y.realm, x.name = y.name
  PROVE  x = y
BY LiveAre DEF Sound

LEMMA SoundExcept ==
  ASSUME Sound(store), NEW i \in Ids, NEW y \in Rep, y.id = i,
         kind \notin MayShareName =>
           \A x \in Live(store) : x.realm = y.realm /\ x.name = y.name => x.id = i
  PROVE  Sound([store EXCEPT ![i] = y])
<1> DEFINE s == [store EXCEPT ![i] = y]
<1>1. s \in [Ids -> Rep \union {Unissued, Gone}]
  BY DEF Sound
<1>2. s[i] = y /\ \A j \in Ids : j # i => s[j] = store[j]
  BY DEF Sound
<1>3. \A j \in Ids : store[j] \in Rep => store[j] \in Live(store) /\ store[j].id = j
  BY LiveAre DEF Sound
<1> HIDE DEF s
<1>4. \A j \in Ids : s[j] \in Rep => s[j].id = j
  BY <1>2 DEF Sound
<1>5. ASSUME kind \notin MayShareName, NEW j \in Ids, NEW k \in Ids,
             s[j] \in Rep, s[k] \in Rep, s[j].realm = s[k].realm, s[j].name = s[k].name
      PROVE  j = k
  BY <1>2, <1>3, <1>5 DEF Sound
<1> QED
  BY <1>1, <1>4, <1>5 DEF Sound, s

LEMMA SoundWithout ==
  ASSUME Sound(store), NEW i \in Ids PROVE Sound([store EXCEPT ![i] = Gone])
BY Marks DEF Sound

LEMMA RecordFields ==
  ASSUME NEW i \in Ids, NEW r \in Realms, NEW n \in Names, NEW other \in 0..MaxEdits,
         NEW mine \in Callers \union {Null}
  PROVE  /\ Record(i, r, n, other, mine) \in Rep
         /\ Record(i, r, n, other, mine).id = i /\ Record(i, r, n, other, mine).realm = r
         /\ Record(i, r, n, other, mine).name = n /\ Record(i, r, n, other, mine).other = other
         /\ Record(i, r, n, other, mine).mine = mine
BY DEF Record, Rep

LEMMA RequestFields ==
  ASSUME NEW req \in Request
  PROVE  /\ req.kind \in RequestKinds /\ req.realm \in Realms /\ req.name \in Names
         /\ req.id \in Ids \union {Null} /\ req.key \in Names \union {Null}
         /\ req.other \in 0..MaxEdits /\ req.mine \in Callers \union {Null}
BY DEF Request, RequestKinds

LEMMA AddressedAre ==
  ASSUME Sound(store), NEW req \in Request, NEW x \in Addressed(req)
  PROVE  /\ x \in Live(store) /\ x \in Rep /\ x.id \in Ids /\ store[x.id] = x
         /\ x.realm = req.realm
         /\ IF ByKey(req) THEN x.name = req.key ELSE x.id = req.id
BY LiveAre DEF Addressed

\* What a mutation leaves is sound; and one resource at most is new in it.
LEMMA AppliedSound ==
  ASSUME TypeInv, NEW req \in Request, NEW s \in Applied(req) PROVE Sound(s)
<1>1. /\ Sound(store) /\ 0 \in 0..MaxEdits
      /\ req.realm \in Realms /\ req.name \in Names /\ req.other \in 0..MaxEdits
      /\ req.mine \in Callers \union {Null}
  BY Numbers, RequestFields DEF TypeInv
<1>2. NameFree(req.realm, req.name) /\ kind \notin MayShareName =>
        \A x \in Live(store) : ~(x.realm = req.realm /\ x.name = req.name)
  BY DEF NameFree, Held
<1>3. CASE req.kind = "create"
  <2> DEFINE i == CHOOSE i \in FreshIds : TRUE
             y == Record(i, req.realm, req.name, 0, req.mine)
  <2>1. FreshIds # {} /\ NameFree(req.realm, req.name) /\ s = [store EXCEPT ![i] = y]
    BY <1>3 DEF Applied
  <2>2. i \in Ids
    BY <2>1 DEF FreshIds
  <2> HIDE DEF i
  <2>3. y \in Rep /\ y.id = i /\ y.realm = req.realm /\ y.name = req.name
    BY <1>1, <2>2, RecordFields
  <2> HIDE DEF y
  <2> QED
    BY <1>1, <1>2, <2>1, <2>2, <2>3, SoundExcept
<1>4. CASE req.kind = "put"
  <2>1. PICK x \in Addressed(req) :
          /\ x.name = req.name \/ NameFree(req.realm, req.name)
          /\ s = [store EXCEPT ![x.id] = Record(x.id, req.realm, req.name, req.other, req.mine)]
    BY <1>4 DEF Applied
  <2>2. /\ x \in Live(store) /\ x.id \in Ids /\ store[x.id] = x /\ x.realm = req.realm
    BY <1>1, AddressedAre
  <2> DEFINE y == Record(x.id, req.realm, req.name, req.other, req.mine)
  <2>3. y \in Rep /\ y.id = x.id /\ y.realm = req.realm /\ y.name = req.name
    BY <1>1, <2>2, RecordFields
  <2>4. kind \notin MayShareName =>
          \A z \in Live(store) : z.realm = req.realm /\ z.name = req.name => z.id = x.id
    BY <1>1, <1>2, <2>1, <2>2, LiveByName
  <2>5. s = [store EXCEPT ![x.id] = y]
    BY <2>1
  <2> HIDE DEF y
  <2> QED
    BY <1>1, <2>2, <2>3, <2>4, <2>5, SoundExcept
<1>5. CASE req.kind = "del"
  <2>1. PICK x \in Addressed(req) : s = [store EXCEPT ![x.id] = Gone]
    BY <1>5 DEF Applied
  <2>2. x.id \in Ids
    BY <1>1, AddressedAre
  <2> QED
    BY <1>1, <2>1, <2>2, SoundWithout
<1>6. CASE req.kind \notin {"create", "put", "del"}
  BY <1>1, <1>6 DEF Applied
<1> QED
  BY <1>3, <1>4, <1>5, <1>6

\* The answers by the kind of the request.
LEMMA OutcomesAre ==
  ASSUME TypeInv, NEW req \in Request, NEW outcome \in Outcomes(req), outcome[2] # {Failed}
  PROVE  /\ req.kind = "list" =>
              /\ outcome[1] = store
              /\ kind = "clientScope" =>
                   outcome[2] = {x \in Live(store) : x.realm = req.realm}
              /\ kind # "clientScope" => outcome[2] = Held(store, req.realm, req.name)
         /\ req.kind = "byId" =>
              /\ outcome[1] = store
              /\ outcome[2] = {x \in Live(store) : x.realm = req.realm /\ x.id = req.id}
         /\ req.kind = "partner" => outcome[1] = store /\ outcome[2] = {Done}
         /\ req.kind \in {"create", "put", "del", "use"} =>
              outcome[1] \in Applied(req) /\ outcome[2] = {Done}
<1>1. outcome # <<store, {Failed}>>
  OBVIOUS
<1>2. req.kind \in RequestKinds
  BY RequestFields
<1> QED
  BY <1>1, <1>2 DEF Outcomes, RequestKinds

LEMMA OutcomesSound ==
  ASSUME TypeInv, NEW req \in Request, NEW outcome \in Outcomes(req)
  PROVE  /\ Sound(outcome[1])
         /\ outcome[2] = {Failed} =>
              outcome[1] = store \/ outcome[1] \in Applied(req)
<1>1. outcome[1] = store \/ outcome[1] \in Applied(req)
  BY DEF Outcomes
<1> QED
  BY <1>1, AppliedSound DEF TypeInv

\* The answer to a request under way.
LEMMA AnswerShape ==
  ASSUME TypeInv, NEW p \in Callers, call[p].pc \notin {"idle", "looked"},
         NEW outcome \in Outcomes(call[p].req), NEW r, r = [call[p] EXCEPT !.ans = outcome[2]]
  PROVE  /\ Shape(p, r) /\ outcome[2] # {Pending}
         /\ r.op = call[p].op /\ r.pc = call[p].pc /\ r.found = call[p].found
         /\ r.req = call[p].req /\ r.since = call[p].since /\ r.alone = call[p].alone
         /\ r.ans = outcome[2]
<1> DEFINE req == call[p].req
           a == outcome[2]
<1>1. Shape(p, call[p]) /\ call[p] \in Call
  BY DEF TypeInv, CallsOK
<1>2. /\ req \in Request
      /\ req.kind \in RequestKinds /\ req.realm \in Realms /\ req.name \in Names
  BY <1>1, CallFields, RequestFields DEF Shape, ReqAt
<1>3. /\ call[p].pc \in LookingUp => req.kind \in {"list", "byId"}
      /\ call[p].pc = "partner" => req.kind = "partner"
      /\ call[p].pc = "write" => req.kind \in {"create", "put", "del", "use"}
      /\ call[p].pc \in {"lookup", "partner", "write", "final"}
  BY <1>1, CallFields DEF Shape, ReqAt, Places
<1>4. a # {Failed} =>
        /\ req.kind = "list" /\ kind = "clientScope" =>
             a = {x \in Live(store) : x.realm = req.realm}
        /\ req.kind = "list" /\ kind # "clientScope" => a = Held(store, req.realm, req.name)
        /\ req.kind = "byId" =>
             a = {x \in Live(store) : x.realm = req.realm /\ x.id = req.id}
        /\ req.kind \in {"create", "put", "del", "use", "partner"} => a = {Done}
  BY <1>2, OutcomesAre
<1>5. Sound(store) /\ \A x \in Live(store) : x \in Rep /\ store[x.id] = x
  BY LiveAre DEF TypeInv
<1>6. \A x \in Held(store, req.realm, req.name) :
        x \in Live(store) /\ x.realm = req.realm /\ x.name = req.name
  BY DEF Held
<1> HIDE DEF a, req
<1>7. ASSUME a # {Failed}, req.kind \in {"list", "byId"}
      PROVE  /\ a \subseteq {x \in Rep : x.realm = req.realm}
             /\ req.kind = "byId" => \A x, y \in a : x.id = req.id /\ x = y
             /\ req.kind = "list" /\ kind # "clientScope" => \A x \in a : x.name = req.name
             /\ kind \notin MayShareName => \A x, y \in a : x.name = y.name => x = y
  <2>1. /\ a \subseteq {x \in Live(store) : x.realm = req.realm}
        /\ req.kind = "byId" => \A x \in a : x.id = req.id
        /\ req.kind = "list" /\ kind # "clientScope" => \A x \in a : x.name = req.name
    BY <1>4, <1>6, <1>7
  <2>2. /\ a \subseteq {x \in Rep : x.realm = req.realm}
        /\ req.kind = "byId" => \A x, y \in a : x.id = req.id /\ x = y
        /\ kind \notin MayShareName => \A x, y \in a : x.name = y.name => x = y
    BY <1>5, <2>1, LiveByName
  <2> QED
    BY <2>1, <2>2
<1>8. /\ a \in SUBSET (Rep \union {Pending, Failed, Done}) /\ a # {Pending}
      /\ a # {Failed} /\ req.kind \in {"create", "put", "del", "use", "partner"} => a = {Done}
      /\ a # {Failed} /\ req.kind \in {"list", "byId"} =>
           /\ a \subseteq {x \in Rep : x.realm = req.realm}
           /\ req.kind = "byId" => \A x, y \in a : x.id = req.id /\ x = y
           /\ req.kind = "list" /\ kind # "clientScope" => \A x \in a : x.name = req.name
           /\ kind \notin MayShareName => \A x, y \in a : x.name = y.name => x = y
  <2>1. a \in SUBSET (Rep \union {Pending, Failed, Done}) /\ a # {Pending}
    <3>1. a = {Failed} \/ a = {Done} \/ a \in SUBSET Rep
      BY <1>2, <1>4, <1>7 DEF RequestKinds
    <3> QED
      BY <3>1, Marks DEF IsAnswer
  <2> QED
    BY <1>4, <1>7, <2>1
<1>9. /\ r \in Call /\ r.op = call[p].op /\ r.pc = call[p].pc /\ r.found = call[p].found
      /\ r.req = call[p].req /\ r.since = call[p].since /\ r.alone = call[p].alone
      /\ r.ans = a
  BY <1>1, <1>8 DEF Call, a
<1>10. OpAt(r)
  BY <1>1, <1>9 DEF Shape, OpAt
<1>11. ReqAt(p, r)
  BY <1>1, <1>9 DEF Shape, ReqAt
<1>12. AnsAt(r)
  BY <1>3, <1>8, <1>9 DEF AnsAt, IsAnswer, LookingUp, req
<1>13. Shape(p, r)
  BY <1>1, <1>9, <1>10, <1>11, <1>12 DEF Shape
<1> QED
  BY <1>8, <1>9, <1>13 DEF a

LEMMA ServeTypes == ASSUME TypeInv, NEW p \in Callers, Serve(p) PROVE TypeInv'
<1>1. PICK outcome \in Outcomes(call[p].req) :
        LET answered == [call EXCEPT ![p].ans = outcome[2]]
        IN  /\ store' = outcome[1]
            /\ call' = IF outcome[1] = store THEN answered ELSE Disturb(answered, {p})
  BY DEF Serve
<1> DEFINE r == [call[p] EXCEPT !.ans = outcome[2]]
<1>2. Goes(p, r)
  BY <1>1 DEF Goes
<1>3. Shape(p, r)
  BY AnswerShape DEF Serve
<1> HIDE DEF r
<1>4. UNCHANGED <<usage, kind, edits>> /\ HandleTypes
  BY Unmoved DEF Serve, target
<1>5. CallsOK'
  BY <1>2, <1>3, <1>4, GoesTypes DEF TypeInv
<1>6. IdentityOK'
  BY <1>4, IdentityKept DEF TypeInv
<1>7. call[p].req \in Request
  BY CallFields DEF TypeInv, CallsOK, Shape, ReqAt, Serve
<1>8. Sound(outcome[1])
  BY <1>7, OutcomesSound
<1>9. Sound(store)'
  BY <1>1, <1>4, <1>8 DEF Sound
<1> QED
  BY <1>4, <1>5, <1>6, <1>9 DEF TypeInv

\* A call that asks once more, in its place.
LEMMA AgainTypes ==
  ASSUME TypeInv, HandleTypes, UNCHANGED <<store, edits>>, NEW p \in Callers,
         call[p].pc \notin {"idle", "looked"}, NEW req \in Request,
         Goes(p, [call[p] EXCEPT !.req = req, !.ans = {Pending}]),
         \A r : /\ r.op = call[p].op /\ r.pc = call[p].pc /\ r.found = call[p].found
                /\ r.req = req
                => ReqAt(p, r)
  PROVE  TypeInv'
<1> DEFINE r == [call[p] EXCEPT !.req = req, !.ans = {Pending}]
<1>1. Shape(p, call[p]) /\ call[p] \in Call
  BY DEF TypeInv, CallsOK, Shape
<1>2. /\ r \in Call /\ r.op = call[p].op /\ r.pc = call[p].pc /\ r.found = call[p].found
      /\ r.req = req /\ r.ans = {Pending} /\ r.since = call[p].since
  BY <1>1 DEF Call
<1> HIDE DEF r
<1>3. OpAt(r)
  BY <1>1, <1>2 DEF Shape, OpAt
<1>4. ReqAt(p, r)
  BY <1>2
<1>5. Shape(p, r)
  BY <1>1, <1>2, <1>3, <1>4, NewShape DEF Shape
<1> QED
  BY <1>5, StepTypes DEF r

\* What a call that sends again asks for.
LEMMA ResendGoes ==
  ASSUME TypeInv, NEW p \in Callers, Resend(p)
  PROVE  LET old == call[p].req
             key == IF Has("namedLive") THEN name ELSE old.key
             req == Reread(old)
         IN  /\ old \in Request /\ key \in Names \union {Null}
             /\ req \in Request /\ req.kind = old.kind /\ req.id = old.id /\ req.key = key
             /\ req.realm = realmName /\ req.name = name
             /\ req.mine = old.mine /\ req.other = old.other
             /\ Goes(p, [call[p] EXCEPT !.req = req, !.ans = {Pending}])
<1> DEFINE old == call[p].req
           key == IF Has("namedLive") THEN name ELSE old.key
           req == Reread(old)
<1>1. Shape(p, call[p]) /\ call[p] \in Call /\ call[p].ans = {Pending}
  BY DEF TypeInv, CallsOK, Shape, Resend
<1>2. old \in Request
  BY <1>1, CallFields DEF Shape, ReqAt, Resend
<1>3. realmName \in Realms /\ name \in Names /\ key \in Names \union {Null}
  BY <1>2, RequestFields DEF TypeInv, IdentityOK
<1>4. /\ req \in Request /\ req.kind = old.kind /\ req.id = old.id /\ req.key = key
      /\ req.realm = realmName /\ req.name = name
      /\ req.mine = old.mine /\ req.other = old.other
  <2>0. req = [old EXCEPT !.realm = realmName, !.name = name, !.key = key]
    BY DEF Reread
  <2> HIDE DEF key, old, req
  <2>1. req \in Request
    BY <1>2, <1>3, <2>0 DEF Request
  <2> QED
    BY <1>2, <1>3, <2>0, <2>1 DEF Request
<1>5. Goes(p, [call[p] EXCEPT !.req = req, !.ans = {Pending}])
  <2> DEFINE c == [call[p] EXCEPT !.req = req]
  <2>1. call' = [call EXCEPT ![p] = c]
    BY DEF Resend
  <2>2. c = [call[p] EXCEPT !.req = req, !.ans = {Pending}]
    <3> HIDE DEF req
    <3> QED
      BY <1>1, <1>4 DEF Call
  <2> HIDE DEF req, c
  <2> QED
    BY <2>1, <2>2 DEF Goes
<1> QED
  BY <1>2, <1>3, <1>4, <1>5

LEMMA ResendTypes == ASSUME TypeInv, NEW p \in Callers, Resend(p) PROVE TypeInv'
<1> DEFINE old == call[p].req
           key == IF Has("namedLive") THEN name ELSE old.key
           req == Reread(old)
<1>1. Shape(p, call[p]) /\ call[p].ans = {Pending}
  BY SMTT(30) DEF TypeInv, CallsOK, Shape, Resend
<1>2. old \in Request /\ key \in Names \union {Null}
  BY ResendGoes
<1>3. name \in Names
  BY SMTT(30) DEF TypeInv, IdentityOK
<1>4. /\ req \in Request /\ req.kind = old.kind /\ req.id = old.id /\ req.key = key
      /\ req.mine = old.mine /\ req.other = old.other
  BY ResendGoes, ZenonT(60)
<1>5. Goes(p, [call[p] EXCEPT !.req = req, !.ans = {Pending}])
  BY ResendGoes
<1>6. Rereads(old) /\ old.kind \in {"list", "byId", "use"}
  BY <1>2, RequestFields DEF Resend, Rereads
<1> HIDE DEF req
<1>7. ASSUME NEW r, r.op = call[p].op, r.pc = call[p].pc, r.found = call[p].found, r.req = req
      PROVE  ReqAt(p, r)
  <2>1. req # Null /\ old # Null
    BY <1>2, <1>4, Marks
  <2> HIDE DEF old
  <2>2. ReqAt(p, call[p]) /\ call[p].req = old
    BY <1>1 DEF Shape, old
  <2>3. call[p].pc = "write" => key \in Names
    BY <1>6, <2>2, <1>3 DEF ReqAt, TypeInv, IdentityOK
  <2> HIDE DEF key
  <2> QED
    BY <1>4, <1>6, <1>7, <2>1, <2>2, <2>3 DEF ReqAt, LookingUp
<1>8. HandleTypes /\ UNCHANGED <<store, edits>> /\ call[p].pc \notin {"idle", "looked"}
  BY Unmoved DEF Resend, server
<1> QED
  BY <1>4, <1>5, <1>7, <1>8, AgainTypes

LEMMA TakenIs ==
  ASSUME TypeInv, NEW p \in Callers, Answered(p, LookingUp)
  PROVE  /\ Matches(p) \subseteq call[p].ans /\ call[p].ans \subseteq Rep
         /\ \/ Matches(p) = {} /\ Taken(p) = Null
            \/ Matches(p) # {} /\ Taken(p) \in Matches(p) /\ Taken(p) \in Rep
<1>1. call[p].ans \subseteq Rep
  BY DEF TypeInv, CallsOK, Shape, AnsAt, Answered, IsAnswer, LookingUp
<1>2. Matches(p) \subseteq call[p].ans
  BY DEF Matches
<1> QED
  BY <1>1, <1>2 DEF Taken

LEMMA LookingUpIs == LookingUp = {"lookup", "final"}
BY DEF LookingUp

LEMMA ReadByIdGoes ==
  ASSUME TypeInv, NEW p \in Callers, ReadById(p)
  PROVE  LET old == call[p].req
             req == [old EXCEPT !.kind = "byId", !.id = Taken(p).id]
         IN  /\ call[p].pc \in LookingUp /\ Has("asksTwice")
             /\ Taken(p) \in call[p].ans /\ Taken(p) \in Rep
             /\ req \in Request /\ req # Null /\ req.kind = "byId"
             /\ req.id = Taken(p).id /\ req.id \in Ids
             /\ req.realm = old.realm /\ req.name = old.name
             /\ Goes(p, [call[p] EXCEPT !.req = req, !.ans = {Pending}])
<1> DEFINE old == call[p].req
           one == Taken(p)
           req == [old EXCEPT !.kind = "byId", !.id = one.id]
<1>1. Shape(p, call[p]) /\ call[p] \in Call /\ call[p].pc \in LookingUp
  BY LookingUpIs DEF TypeInv, CallsOK, Shape, ReadById, Answered
<1>2. old \in Request /\ Has("asksTwice")
  BY <1>1, CallFields DEF Shape, ReqAt, LookingUp, ReadById, AsksAgain
<1>3. one \in Rep /\ one.id \in Ids /\ one \in call[p].ans
  BY TakenIs, LookingUpIs, RepFields DEF ReadById, AsksAgain
<1>4. Goes(p, [call[p] EXCEPT !.req = req, !.ans = {Pending}])
  BY DEF Goes, ReadById
<1> HIDE DEF one
<1>5. /\ req \in Request /\ req.kind = "byId" /\ req.id = one.id
      /\ req.realm = old.realm /\ req.name = old.name
  <2> HIDE DEF old
  <2> QED
    BY <1>2, <1>3 DEF Request
<1> QED
  BY <1>1, <1>2, <1>3, <1>4, <1>5, Marks DEF one

LEMMA ReadByIdTypes == ASSUME TypeInv, NEW p \in Callers, ReadById(p) PROVE TypeInv'
<1> DEFINE req == [call[p].req EXCEPT !.kind = "byId", !.id = Taken(p).id]
<1>1. /\ Shape(p, call[p]) /\ call[p].pc \in LookingUp /\ Has("asksTwice")
      /\ req \in Request /\ req # Null /\ req.kind = "byId" /\ req.id \in Ids
      /\ Goes(p, [call[p] EXCEPT !.req = req, !.ans = {Pending}])
  BY ReadByIdGoes DEF TypeInv, CallsOK
<1> HIDE DEF req
<1>2. ASSUME NEW r, r.op = call[p].op, r.pc = call[p].pc, r.found = call[p].found, r.req = req
      PROVE  ReqAt(p, r)
  BY <1>1, <1>2 DEF Shape, ReqAt, LookingUp
<1>3. HandleTypes /\ UNCHANGED <<store, edits>> /\ call[p].pc \notin {"idle", "looked"}
  BY <1>1, Unmoved DEF ReadById, server, LookingUp
<1> QED
  BY <1>1, <1>2, <1>3, AgainTypes, ZenonT(60)

LEMMA GotIs ==
  ASSUME NEW one \in Rep \union {Null}
  PROVE  Got(one) \in Rep \union {Null} /\ (Got(one) \in Rep => Got(one) = one)
BY Marks DEF Got

LEMMA GetReturnsTypes == ASSUME TypeInv, NEW p \in Callers, GetReturns(p) PROVE TypeInv'
<1>1. /\ Answered(p, LookingUp) /\ WriteBack(p, Taken(p))
      /\ overtaken' = (overtaken \/ (pin' # pin /\ \E q \in Callers \ {p} : call[q].pc # "idle"))
      /\ UNCHANGED <<usage, kind, realmName, realmGen, retargets, store, edits>>
  BY DEF GetReturns, server, LookingUp
<1>2. Shape(p, call[p]) /\ call[p] \in Call /\ call[p].pc \in LookingUp
  BY <1>1 DEF TypeInv, CallsOK, Shape, Answered
<1> DEFINE one == Taken(p)
<1>3. one \in Rep \union {Null} /\ (one # Null => one.name \in Names)
  BY <1>1, TakenIs, RepFields
<1>4. call[p].req.kind = "byId" => call[p].req.id \in Ids
  BY <1>2 DEF Shape, ReqAt
<1>5. HandleTypes
  <2>1. name' \in Names /\ rep' \in Rep \union {Null, Undefined}
    BY <1>1, <1>3 DEF WriteBack, TypeInv, IdentityOK
  <2>2. pin' \in IF Has("pinsId") THEN Ids \union {Null} ELSE {Null}
    BY <1>1, <1>4 DEF WriteBack, TypeInv, IdentityOK
  <2>3. seen' \in {RootVersion(g) : g \in 0..realmGen}
    BY <1>1, SeenTypes DEF WriteBack
  <2>4. retargets' \in 0..Usages[usage].retargets /\ realmGen <= retargets'
    BY <1>1, Numbers DEF TypeInv, IdentityOK
  <2>5. overtaken' \in BOOLEAN
    BY <1>1
  <2> QED
    BY <1>1, <2>1, <2>2, <2>3, <2>4, <2>5 DEF HandleTypes
<1>6. CASE call[p].pc = "final" \/ call[p].op \in {"get", "getById"}
  <2>1. Goes(p, Idle)
    BY <1>6 DEF GetReturns, Goes
  <2>2. Shape(p, Idle)
    BY Numbers, IdleShape
  <2> QED
    BY <1>1, <1>5, <2>1, <2>2, StepTypes
<1>7. CASE ~(call[p].pc = "final" \/ call[p].op \in {"get", "getById"})
  <2> DEFINE found == Got(one)
             op == call[p].op
  <2>1. Goes(p, New(op, "looked", found, Null, call[p].since, call[p].alone))
    BY <1>7 DEF GetReturns, Goes, Move, New
  <2>2. found \in Rep \union {Null}
    BY <1>3, GotIs
  <2>3. /\ op \in AllOps \union {"profile", "none"} /\ op \in AllOps \ {"getById"}
        /\ op = "profile" => kind = "realm"
        /\ op = "rewrite" => kind # "realm"
    BY <1>2, <1>7 DEF Shape, OpAt, LookingUp
  <2>4. "looked" \in Places \ {"idle"} /\ call[p].pc # "idle" /\ Null \in Request \union {Null}
    BY <1>2 DEF Places, LookingUp
  <2> HIDE DEF found, one
  <2>5. ASSUME NEW r, r.op = op, r.pc = "looked", r.found = found, r.req = Null
        PROVE  OpAt(r) /\ ReqAt(p, r)
    BY <2>2, <2>3, <2>5, Marks DEF OpAt, ReqAt, LookingUp
  <2> HIDE DEF op
  <2>6. found \in Rep \union {Null, Undefined}
    BY <2>2
  <2>7. op \in AllOps \union {"profile", "none"}
    BY <2>3
  <2> QED
    BY <1>1, <1>5, <2>1, <2>4, <2>5, <2>6, <2>7, MoveTypes
<1> QED
  BY <1>6, <1>7

-----------------------------------------------------------------------------
(* Types: what follows the lookup                                          *)

\* A call at a place, seen by its parts.
LEMMA PartsAt ==
  ASSUME TypeInv, NEW p \in Callers
  PROVE  /\ OpAt(call[p]) /\ ReqAt(p, call[p]) /\ AnsAt(call[p]) /\ call[p] \in Call
         /\ call[p].op \in AllOps \union {"profile", "none"} /\ call[p].pc \in Places
         /\ call[p].found \in Rep \union {Null, Undefined}
         /\ call[p].req \in Request \union {Null}
         /\ call[p].since <= edits /\ call[p].since \in 0..edits /\ call[p].alone \in BOOLEAN
         /\ call[p].pc # "idle" => p \in Usages[usage].callers
<1>1. Shape(p, call[p]) /\ call[p] \in Call
  BY DEF TypeInv, CallsOK, Shape
<1>2. call[p].since \in 0..edits
  BY <1>1, Numbers, CallFields DEF Shape
<1> QED
  BY <1>1, <1>2, CallFields DEF Shape

\* What each operation sends once it knows the resource.
LEMMA NextRequestIs ==
  ASSUME TypeInv, NEW p \in Callers, call[p].pc = "looked",
         NEW req \in NextRequest(p, call[p].op, call[p].found)
  PROVE  LET one == call[p].found
             op  == call[p].op
         IN  /\ req \in Request /\ req.realm = realmName
             /\ \/ /\ op \in {"create", "ensure"} /\ one = Null /\ req = Create(p)
                \/ /\ op \in {"update", "ensure", "rewrite"} /\ one \in Rep /\ req = Put(p, one)
                \/ /\ op \in {"delete", "discard"} /\ one \in Rep /\ req = Del(one)
                \/ /\ op \in {"use", "pages", "useThenRead", "refresh"} /\ one # Null
                   /\ one \in Rep \/ (one = Undefined /\ Has("namedLive"))
                   /\ req = Use(one)
                \/ /\ op \in {"link", "linkThenRead"} /\ one # Null /\ req = Partner
<1> DEFINE one == call[p].found
           op  == call[p].op
<1>1. /\ op \in AllOps \ {"getById"} /\ one \in Rep \union {Null, Undefined}
      /\ one = Undefined =>
           /\ kind = "realm"
           /\ op \notin {"create", "update", "ensure", "delete", "discard", "rewrite"}
  BY PartsAt DEF OpAt
<1>2. kind = "realm" => Has("namedLive")
  BY DEF Has, Traits, RealmTraits
<1>3. req \in NextRequest(p, op, one)
  OBVIOUS
<1> HIDE DEF one, op
<1>4. \/ op \in {"create", "ensure"} /\ one = Null /\ req = Create(p)
      \/ op \in {"update", "ensure", "rewrite"} /\ one # Null /\ req = Put(p, one)
      \/ op \in {"delete", "discard"} /\ one # Null /\ req = Del(one)
      \/ op \in {"use", "pages", "useThenRead", "refresh"} /\ one # Null /\ req = Use(one)
      \/ op \in {"link", "linkThenRead"} /\ one # Null /\ req = Partner
  BY <1>1, <1>3 DEF NextRequest, AllOps
<1>5. op \in {"update", "ensure", "rewrite", "delete", "discard"} /\ one # Null => one \in Rep
  BY <1>1
<1>6. one # Null => one \in Rep \/ (one = Undefined /\ Has("namedLive"))
  BY <1>1, <1>2
<1>7. CASE op \in {"create", "ensure"} /\ one = Null /\ req = Create(p)
  BY <1>7, CreateFields DEF one, op
<1>8. CASE op \in {"update", "ensure", "rewrite"} /\ one # Null /\ req = Put(p, one)
  BY <1>5, <1>8, PutFields DEF one, op
<1>9. CASE op \in {"delete", "discard"} /\ one # Null /\ req = Del(one)
  BY <1>5, <1>9, DelFields DEF one, op
<1>10. CASE op \in {"use", "pages", "useThenRead", "refresh"} /\ one # Null /\ req = Use(one)
  BY <1>6, <1>10, UseFields DEF one, op
<1>11. CASE op \in {"link", "linkThenRead"} /\ one # Null /\ req = Partner
  BY <1>11, PartnerFields DEF one, op
<1> QED
  BY <1>4, <1>7, <1>8, <1>9, <1>10, <1>11

\* The parts of a request that ReqAt speaks of, by what is sent.
LEMMA SentParts ==
  ASSUME TypeInv, NEW p \in Callers, call[p].pc = "looked",
         NEW req \in NextRequest(p, call[p].op, call[p].found)
  PROVE  LET one == call[p].found
             op  == call[p].op
         IN  /\ req \in Request /\ req # Null /\ req.realm = realmName
             /\ req.kind = "partner" => op \in {"link", "linkThenRead"} /\ one # Null
             /\ req.kind # "partner" =>
                  /\ op \in AllOps \ {"get", "getById"}
                  /\ one = Null => op \in {"create", "ensure"}
                  /\ req.kind \in {"create", "put", "del", "use"}
                  /\ op \in {"create", "update", "ensure", "rewrite"} =>
                       req.kind \in {"create", "put"}
                  /\ req.kind = "create" =>
                       /\ op \in {"create", "ensure"} /\ one = Null
                       /\ req.mine = p /\ req.id = Null
                  /\ req.kind = "put" =>
                       /\ op \in {"update", "ensure", "rewrite"} /\ one \in Rep
                       /\ req.mine = p /\ req.id = one.id /\ req.other = one.other
                       /\ ~Has("namedLive") => req.key = one.name
                       /\ Has("namedLive") => req.name = one.name
                  /\ req.kind \in {"del", "use"} =>
                       req.id = Null \/ (one \in Rep /\ req.id = one.id)
                  /\ req.kind # "create" => req.key \in Names
                  /\ req.kind \in {"create", "put"} /\ (Has("namedLive") => one = Null) => req.name = name
<1> DEFINE one == call[p].found
           op  == call[p].op
<1>1. req \in Request /\ req.realm = realmName /\ req # Null
  BY NextRequestIs, Marks
<1>2. one \in Rep \union {Null, Undefined}
  BY PartsAt
<1>3. \/ op \in {"create", "ensure"} /\ one = Null /\ req = Create(p)
      \/ op \in {"update", "ensure", "rewrite"} /\ one \in Rep /\ req = Put(p, one)
      \/ op \in {"delete", "discard"} /\ one \in Rep /\ req = Del(one)
      \/ op \in {"use", "pages", "useThenRead", "refresh"} /\ one # Null
         /\ (one \in Rep \/ (one = Undefined /\ Has("namedLive"))) /\ req = Use(one)
      \/ op \in {"link", "linkThenRead"} /\ one # Null /\ req = Partner
  BY NextRequestIs
<1> HIDE DEF one, op
<1>4. CASE op \in {"create", "ensure"} /\ one = Null /\ req = Create(p)
  BY <1>1, <1>4, CreateFields DEF one, op, AllOps
<1>5. CASE op \in {"update", "ensure", "rewrite"} /\ one \in Rep /\ req = Put(p, one)
  BY <1>1, <1>5, PutFields, KeyTypes, Marks DEF one, op, AllOps
<1>6. CASE op \in {"delete", "discard"} /\ one \in Rep /\ req = Del(one)
  BY <1>1, <1>6, DelFields, Marks DEF one, op, AllOps
<1>7. CASE op \in {"use", "pages", "useThenRead", "refresh"} /\ one # Null
         /\ (one \in Rep \/ (one = Undefined /\ Has("namedLive"))) /\ req = Use(one)
  BY <1>1, <1>7, UseFields DEF one, op, AllOps
<1>8. CASE op \in {"link", "linkThenRead"} /\ one # Null /\ req = Partner
  BY <1>1, <1>8, PartnerFields DEF one, op, AllOps
<1> QED
  BY <1>3, <1>4, <1>5, <1>6, <1>7, <1>8

LEMMA ResumeTypes == ASSUME TypeInv, NEW p \in Callers, Resume(p) PROVE TypeInv'
<1> DEFINE one == call[p].found
           op  == call[p].op
<1>1. /\ call[p].pc = "looked" /\ call[p].pc # "idle" /\ HandleTypes /\ UNCHANGED <<store, edits>>
  BY Unmoved DEF Resume, server
<1>2. CASE Finish(p)
  BY <1>1, <1>2, FinishTypes
<1>3. ASSUME NEW req \in NextRequest(p, op, one),
             call' = Move(p, IF req.kind = "partner" THEN "partner" ELSE "write", one, req)
      PROVE  TypeInv'
  <2> DEFINE pc == IF req.kind = "partner" THEN "partner" ELSE "write"
  <2>1. Goes(p, New(op, pc, one, req, call[p].since, call[p].alone))
    BY <1>3 DEF Goes, Move, New
  <2>2. /\ op \in AllOps \union {"profile", "none"} /\ one \in Rep \union {Null, Undefined}
        /\ OpAt(call[p])
    BY PartsAt
  <2>3. /\ req \in Request /\ req # Null
        /\ req.kind = "partner" => op \in {"link", "linkThenRead"} /\ one # Null
        /\ req.kind # "partner" =>
             /\ op \in AllOps \ {"get", "getById"}
             /\ one = Null => op \in {"create", "ensure"}
             /\ req.kind \in {"create", "put", "del", "use"}
             /\ op \in {"create", "update", "ensure", "rewrite"} => req.kind \in {"create", "put"}
             /\ req.kind = "create" =>
                  op \in {"create", "ensure"} /\ one = Null /\ req.mine = p /\ req.id = Null
             /\ req.kind = "put" =>
                  /\ op \in {"update", "ensure", "rewrite"} /\ one \in Rep
                  /\ req.mine = p /\ req.id = one.id /\ req.other = one.other
                  /\ ~Has("namedLive") => req.key = one.name
                  /\ Has("namedLive") => req.name = one.name
             /\ req.kind \in {"del", "use"} => req.id = Null \/ (one \in Rep /\ req.id = one.id)
             /\ req.kind # "create" => req.key \in Names
    BY <1>1, SentParts
  <2>4. /\ op \in AllOps \ {"getById"}
        /\ op = "rewrite" => kind # "realm"
        /\ one = Undefined =>
             kind = "realm" /\ op \notin {"create", "update", "ensure", "delete", "discard", "rewrite"}
        /\ op = "profile" => kind = "realm"
    BY <1>1, <2>2 DEF OpAt
  <2> HIDE DEF op, one
  <2>5. pc \in Places \ {"idle"}
    BY DEF Places
  <2>6. ASSUME NEW r, r.op = op, r.pc = pc, r.found = one, r.req = req
        PROVE  OpAt(r) /\ ReqAt(p, r)
    <3>1. CASE req.kind = "partner"
      BY <2>3, <2>4, <2>6, <3>1 DEF OpAt, ReqAt, LookingUp
    <3>2. CASE req.kind # "partner"
      BY <2>3, <2>4, <2>6, <3>2 DEF OpAt, ReqAt, LookingUp
    <3> QED
      BY <3>1, <3>2
  <2>7. req \in Request \union {Null}
    BY <2>3
  <2> HIDE DEF pc
  <2> QED
    BY <1>1, <2>1, <2>2, <2>5, <2>6, <2>7, MoveTypes
<1> QED
  BY <1>2, <1>3 DEF Resume

\* A dependent request about what was found.
LEMMA UseTypes ==
  ASSUME TypeInv, HandleTypes, UNCHANGED <<store, edits>>, NEW p \in Callers,
         call[p].pc \in {"partner", "write"},
         NEW op \in AllOps \union {"profile"},
         op \notin {"get", "getById", "create", "update", "ensure", "rewrite", "delete", "discard"},
         NEW one \in Rep \union {Undefined}, one = Undefined \/ op = "profile" => kind = "realm",
         Goes(p, New(op, "write", call[p].found, Use(one), call[p].since, call[p].alone)),
         call[p].found = Undefined => kind = "realm",
         call[p].found = Null => op \in {"profile", "refresh"},
         one \in Rep => one = call[p].found
  PROVE  TypeInv'
<1> DEFINE req == Use(one)
           found == call[p].found
<1>1. kind = "realm" => Has("namedLive")
  BY DEF Has, Traits, RealmTraits
<1>2. /\ req \in Request /\ req # Null /\ req.kind = "use" /\ req.key \in Names
      /\ req.id = Null \/ (one \in Rep /\ req.id = one.id)
  BY <1>1, UseFields
<1>3. found \in Rep \union {Null, Undefined}
  BY PartsAt
<1> HIDE DEF req, found
<1>4. ASSUME NEW r, r.op = op, r.pc = "write", r.found = found, r.req = req
      PROVE  OpAt(r) /\ ReqAt(p, r)
  BY <1>2, <1>4 DEF OpAt, ReqAt, LookingUp, found
<1>5. /\ "write" \in Places \ {"idle"} /\ req \in Request \union {Null}
      /\ op \in AllOps \union {"profile", "none"} /\ call[p].pc # "idle"
  BY <1>2 DEF Places
<1>6. Goes(p, New(op, "write", found, req, call[p].since, call[p].alone))
  BY DEF req, found
<1> QED
  BY <1>3, <1>4, <1>5, <1>6, MoveTypes

LEMMA PartnerResolvedTypes ==
  ASSUME TypeInv, NEW p \in Callers, PartnerResolved(p) PROVE TypeInv'
<1>1. /\ call[p].pc = "partner" /\ HandleTypes /\ UNCHANGED <<store, edits>>
  BY Unmoved DEF PartnerResolved, Answered, server
<1>2. /\ call[p].op \in {"link", "linkThenRead"}
      /\ call[p].found \in Rep \union {Undefined} /\ call[p].found # Null
      /\ call[p].found = Undefined => kind = "realm"
  BY <1>1, PartsAt DEF OpAt
<1>3. Goes(p, New(call[p].op, "write", call[p].found, Use(call[p].found),
                  call[p].since, call[p].alone))
  BY DEF PartnerResolved, Goes, Move, New
<1>4. call[p].op \in AllOps \union {"profile"}
  BY <1>2 DEF AllOps
<1> QED
  BY <1>1, <1>2, <1>3, <1>4, UseTypes

LEMMA NextPageTypes == ASSUME TypeInv, NEW p \in Callers, NextPage(p) PROVE TypeInv'
<1>1. /\ call[p].pc = "write" /\ call[p].op = "pages" /\ HandleTypes /\ UNCHANGED <<store, edits>>
  BY Unmoved DEF NextPage, Answered, server
<1>2. /\ call[p].found \in Rep \union {Undefined} /\ call[p].found # Null
      /\ call[p].found = Undefined => kind = "realm"
  BY <1>1, PartsAt DEF OpAt
<1>3. Goes(p, New(call[p].op, "write", call[p].found, Use(call[p].found),
                  call[p].since, call[p].alone))
  BY DEF NextPage, Goes, Move, New
<1>4. call[p].op \in AllOps \union {"profile"}
  BY <1>1 DEF AllOps
<1> QED
  BY <1>1, <1>2, <1>3, <1>4, UseTypes

LEMMA EnsureProfileGoes ==
  ASSUME TypeInv, NEW p \in Callers, EnsureProfile(p)
  PROVE  \E op \in {"profile", "refresh"} :
           /\ kind = "realm"
           /\ Goes(p, New(op, "write", call[p].found, Use(Undefined), call[p].since, call[p].alone))
<1>1. PICK op \in {"profile", "refresh"} :
        /\ call' = [Move(p, "write", call[p].found, Use(Undefined)) EXCEPT ![p].op = op]
        /\ kind = "realm"
  <2>1. call[p].op = "profile" => kind = "realm"
    BY PartsAt DEF OpAt
  <2> QED
    BY <2>1 DEF EnsureProfile
<1>2. Goes(p, New(op, "write", call[p].found, Use(Undefined), call[p].since, call[p].alone))
  <2> DEFINE u == Use(Undefined)
             rec == New(call[p].op, "write", call[p].found, u, call[p].since, call[p].alone)
             as == New(op, "write", call[p].found, u, call[p].since, call[p].alone)
             moved == [call EXCEPT ![p] = rec]
  <2>1. [rec EXCEPT !.op = op] = as
    BY DEF New
  <2>2. moved[p] = rec /\ DOMAIN moved = Callers /\ DOMAIN call = Callers
        /\ \A q \in Callers \ {p} : moved[q] = call[q]
    BY DEF TypeInv, CallsOK
  <2>3. Move(p, "write", call[p].found, u) = moved
    BY DEF Move, New
  <2> HIDE DEF u, rec, as, moved
  <2>4. call' = [moved EXCEPT ![p].op = op]
    BY <1>1, <2>3 DEF u
  <2>5. call' = [moved EXCEPT ![p] = as]
    BY <2>1, <2>2, <2>4
  <2>6. call' = [call EXCEPT ![p] = as]
    BY <2>2, <2>5 DEF moved
  <2> QED
    BY <2>6 DEF Goes, as, u
<1> QED
  BY <1>1, <1>2

LEMMA EnsureProfileTypes ==
  ASSUME TypeInv, NEW p \in Callers, EnsureProfile(p) PROVE TypeInv'
<1>1. /\ call[p].pc = "write" /\ HandleTypes /\ UNCHANGED <<store, edits>>
  BY Unmoved DEF EnsureProfile, Answered, server
<1>2. PICK op \in {"profile", "refresh"} :
        /\ kind = "realm"
        /\ Goes(p, New(op, "write", call[p].found, Use(Undefined), call[p].since, call[p].alone))
  BY EnsureProfileGoes
<1>3. /\ op \in AllOps \union {"profile"} /\ Undefined \in Rep \union {Undefined}
      /\ Undefined \notin Rep
  BY Marks DEF AllOps
<1> QED
  BY <1>1, <1>2, <1>3, UseTypes

LEMMA ReadBackTypes == ASSUME TypeInv, NEW p \in Callers, ReadBack(p) PROVE TypeInv'
<1>1. /\ call[p].pc = "write" /\ call[p].op \in ReadsBack /\ HandleTypes
      /\ UNCHANGED <<store, edits>>
  BY LooksAre, LooksUnmoved DEF ReadBack, Answered, server
<1> DEFINE op == call[p].op
           found == call[p].found
<1>2. CASE UsesCache("get") /\ VisibleRep \in Rep
  <2>1. Goes(p, Idle)
    BY <1>2 DEF ReadBack, Goes
  <2>2. Shape(p, Idle)
    BY Numbers, IdleShape
  <2> QED
    BY <1>1, <2>1, <2>2, StepTypes
<1>3. CASE ~(UsesCache("get") /\ VisibleRep \in Rep)
  <2> DEFINE req == IF Has("readsUpdateById") /\ op = "update" THEN ById(found.id) ELSE Lookup
  <2>1. Goes(p, New(op, "final", found, req, call[p].since, call[p].alone))
    BY <1>3 DEF ReadBack, Goes, Move, New
  <2>2. /\ OpAt(call[p]) /\ op \in AllOps \union {"profile", "none"}
        /\ found \in Rep \union {Null, Undefined}
        /\ found = Undefined =>
             kind = "realm" /\ op \notin {"create", "update", "ensure", "delete", "discard", "rewrite"}
        /\ found = Null => op # "update"
        /\ op = "rewrite" => kind # "realm"
    BY <1>1, PartsAt DEF OpAt
  <2>3. /\ req \in Request /\ req # Null /\ req.kind \in {"list", "byId"}
        /\ req.kind = "byId" =>
             /\ req.id \in Ids
             /\ Has("pinsId") \/ (op = "update" /\ Has("readsUpdateById"))
    <3>1. CASE Has("readsUpdateById") /\ op = "update"
      <4>1. found.id \in Ids /\ req = ById(found.id)
        BY <2>2, <3>1, RepFields
      <4> HIDE DEF req, op, found
      <4> QED
        BY <3>1, <4>1, ByIdFields
    <3>2. CASE ~(Has("readsUpdateById") /\ op = "update")
      <4>1. req = Lookup
        BY <3>2
      <4> HIDE DEF req, op
      <4> QED
        BY <4>1, LookupFields
    <3> QED
      BY <3>1, <3>2
  <2> HIDE DEF req, op, found
  <2>4. ASSUME NEW r, r.op = op, r.pc = "final", r.found = found, r.req = req
        PROVE  OpAt(r) /\ ReqAt(p, r)
    <3>1. op \in ReadsBack
      BY <1>1 DEF op
    <3> QED
      BY <2>2, <2>3, <2>4, <3>1 DEF OpAt, ReqAt, LookingUp, ReadsBack
  <2>5. /\ "final" \in Places \ {"idle"} /\ req \in Request \union {Null} /\ call[p].pc # "idle"
    BY <1>1, <2>3 DEF Places
  <2> QED
    BY <1>1, <2>1, <2>2, <2>4, <2>5, MoveTypes
<1> QED
  BY <1>2, <1>3

LEMMA ReadDependentTypes ==
  ASSUME TypeInv, NEW p \in Callers, ReadDependent(p) PROVE TypeInv'
<1>1. /\ p \in Usages[usage].callers /\ call[p].since \in 0..edits /\ call[p].alone \in BOOLEAN
  BY PartsAt DEF ReadDependent, Answered
<1>2. "use" \in AllOps \ {"getById"} /\ "use" # "rewrite"
  BY DEF AllOps
<1> QED
  BY <1>1, <1>2, ResolveTypes DEF ReadDependent

-----------------------------------------------------------------------------
(* Types: retargeting and other administrators                             *)

\* The calls under way are crossed by a step of nobody's.
LEMMA CrossedTypes ==
  ASSUME CallsOK, UNCHANGED <<usage, kind>>, edits \in 0..MaxEdits, edits' \in Nat, edits <= edits',
         call' = Disturb(call, {}) \/ call' = call
  PROVE  CallsOK'
<1>1. /\ call' \in [Callers -> Call]
      /\ \A q \in Callers : \/ call'[q] = call[q]
                            \/ call[q].pc # "idle" /\ call'[q] = Crossing(call[q])
  <2>1. CASE call' = call
    BY <2>1 DEF CallsOK
  <2>2. CASE call' = Disturb(call, {})
    BY <2>2, DisturbParts DEF CallsOK
  <2> QED
    BY <2>1, <2>2
<1>2. edits \in Nat
  BY ResourceHandleAssumption
<1>3. ASSUME NEW q \in Callers PROVE Shape(q, call'[q])
  BY <1>1, CrossedShape DEF CallsOK
<1>4. \A q \in Callers : \A c : Shape(q, c) => Shape(q, c)'
  BY <1>2, ShapeStays
<1>5. \A q \in Callers : Shape(q, call[q])'
  BY <1>3, <1>4
<1> QED
  BY <1>1, <1>5 DEF CallsOK

LEMMA RebindTypes == ASSUME TypeInv, NEW n \in Names, Rebind(n) PROVE TypeInv'
<1>1. /\ UNCHANGED <<usage, kind, realmName, realmGen, overtaken, seen, store, edits>>
      /\ name' = n /\ rep' = Undefined /\ pin' = Null /\ call' = Disturb(call, {})
      /\ retargets' = retargets + 1 /\ retargets < Usages[usage].retargets
  BY DEF Rebind, CountRetarget, server
<1>2. retargets' \in 0..Usages[usage].retargets /\ realmGen \in 0..retargets'
  BY <1>1, Numbers DEF TypeInv, IdentityOK
<1>3. IdentityOK'
  BY <1>1, <1>2 DEF TypeInv, IdentityOK, Has
<1>4. edits' \in Nat /\ edits <= edits'
  BY <1>1, Numbers
<1>5. CallsOK'
  BY <1>1, <1>4, CrossedTypes DEF TypeInv
<1> QED
  BY <1>1, <1>3, <1>5 DEF TypeInv, Sound

LEMMA RebindRealmTypes == ASSUME TypeInv, NEW r \in Realms, RebindRealm(r) PROVE TypeInv'
<1>1. /\ UNCHANGED <<usage, kind, name, rep, pin, seen, store, edits>>
      /\ realmName' = r /\ realmGen' = realmGen + 1 /\ call' = Disturb(call, {})
      /\ retargets' = retargets + 1 /\ retargets < Usages[usage].retargets
      /\ overtaken' \in BOOLEAN
  BY DEF RebindRealm, CountRetarget, server, cache
<1>2. /\ retargets' \in 0..Usages[usage].retargets /\ realmGen' \in 0..retargets'
      /\ 0..realmGen \subseteq 0..realmGen'
  BY <1>1, Numbers DEF TypeInv, IdentityOK
<1>3. seen' \in {RootVersion(g) : g \in 0..realmGen'}
  BY <1>1, <1>2 DEF TypeInv, IdentityOK
<1>4. IdentityOK'
  BY <1>1, <1>2, <1>3 DEF TypeInv, IdentityOK, Has
<1>5. edits' \in Nat /\ edits <= edits'
  BY <1>1, Numbers
<1>6. CallsOK'
  BY <1>1, <1>5, CrossedTypes DEF TypeInv
<1> QED
  BY <1>1, <1>4, <1>6 DEF TypeInv, Sound

LEMMA AdminSound ==
  ASSUME TypeInv, edits + 1 \in 0..MaxEdits, NEW i \in Ids, AdminEdits(i) \/ AdminReplaces(i)
  PROVE  Sound(store')
<1>1. Sound(store) /\ store[i] \in Rep \union {Unissued, Gone}
  BY DEF TypeInv, Sound
<1>2. CASE AdminEdits(i)
  <2> DEFINE y == [store[i] EXCEPT !.other = edits + 1]
  <2>1. store[i] \in Rep /\ store' = [store EXCEPT ![i] = y]
    BY <1>2 DEF AdminEdits
  <2>2. /\ y \in Rep /\ y.id = store[i].id /\ y.realm = store[i].realm /\ y.name = store[i].name
    BY <2>1 DEF Rep
  <2>3. store[i].id = i /\ store[i] \in Live(store)
    BY <1>1, <2>1, LiveAre DEF Sound
  <2> HIDE DEF y
  <2>4. kind \notin MayShareName =>
          \A x \in Live(store) : x.realm = y.realm /\ x.name = y.name => x.id = i
    BY <1>1, <2>2, <2>3, LiveByName
  <2> QED
    BY <1>1, <2>1, <2>2, <2>3, <2>4, SoundExcept
<1>3. ASSUME NEW r \in Realms, NEW n \in Names,
             store[i] = Unissued, NameFree(r, n),
             store' = [store EXCEPT ![i] = Record(i, r, n, edits + 1, Null)]
      PROVE  Sound(store')
  <2> DEFINE y == Record(i, r, n, edits + 1, Null)
  <2>1. y \in Rep /\ y.id = i /\ y.realm = r /\ y.name = n
    BY RecordFields
  <2>2. store' = [store EXCEPT ![i] = y]
    BY <1>3
  <2> HIDE DEF y
  <2>3. kind \notin MayShareName =>
          \A x \in Live(store) : x.realm = y.realm /\ x.name = y.name => x.id = i
    BY <1>3, <2>1 DEF NameFree, Held
  <2> QED
    BY <1>1, <2>1, <2>2, <2>3, SoundExcept
<1>4. ASSUME NEW n \in Names, store[i] \in Rep, NameFree(store[i].realm, n),
             store' = [store EXCEPT ![i] =
                         Record(i, store[i].realm, n, edits + 1, store[i].mine)]
      PROVE  Sound(store')
  <2> DEFINE y == Record(i, store[i].realm, n, edits + 1, store[i].mine)
  <2>1. y \in Rep /\ y.id = i /\ y.realm = store[i].realm /\ y.name = n
    BY <1>4, RepFields, RecordFields
  <2>2. store' = [store EXCEPT ![i] = y]
    BY <1>4
  <2> HIDE DEF y
  <2>3. kind \notin MayShareName =>
          \A x \in Live(store) : x.realm = y.realm /\ x.name = y.name => x.id = i
    BY <1>4, <2>1 DEF NameFree, Held
  <2> QED
    BY <1>1, <2>1, <2>2, <2>3, SoundExcept
<1>5. CASE store' = [store EXCEPT ![i] = Gone]
  BY <1>1, <1>5, SoundWithout
<1> QED
  BY <1>2, <1>3, <1>4, <1>5 DEF AdminReplaces

LEMMA AdminTypes == ASSUME TypeInv, Admin PROVE TypeInv'
<1>1. /\ UNCHANGED <<usage, kind, realmName, realmGen, retargets, overtaken, name, rep, pin, seen>>
      /\ edits < MaxEdits /\ edits' = edits + 1
  BY DEF Admin, target, cache
<1>2. PICK i \in Ids : AdminEdits(i) \/ AdminReplaces(i)
  BY DEF Admin
<1>3. edits' \in 0..MaxEdits /\ edits' \in Nat /\ edits <= edits' /\ edits + 1 \in 0..MaxEdits
  BY <1>1, Numbers
<1>4. IdentityOK'
  BY <1>1 DEF TypeInv, IdentityOK, Has
<1>5. call' = call \/ call' = Disturb(call, {})
  BY <1>2 DEF AdminEdits, AdminReplaces
<1>6. CallsOK'
  BY <1>1, <1>3, <1>5, CrossedTypes DEF TypeInv
<1>7. Sound(store)'
  <2>1. Sound(store')
    BY <1>2, <1>3, AdminSound
  <2> QED
    BY <1>1, <2>1 DEF Sound
<1> QED
  BY <1>3, <1>4, <1>6, <1>7 DEF TypeInv

-----------------------------------------------------------------------------
(* Types: the theorem                                                      *)

LEMMA InitTypes == ASSUME Init PROVE TypeInv
<1>1. MaxEdits \in Nat /\ 0 \in 0..MaxEdits
  BY ResourceHandleAssumption
<1>2. Usages[usage] \in Usage
  BY ResourceHandleAssumption DEF Init
<1>3. IdentityOK
  <2>1. 0 \in 0..Usages[usage].retargets /\ 0 \in 0..0
    BY <1>2 DEF Usage
  <2>2. seen \in {RootVersion(g) : g \in 0..realmGen}
    BY <2>1 DEF Init
  <2>3. kind \in Kinds /\ realmGen \in 0..retargets /\ pin = Null
    BY <2>1 DEF Init
  <2> QED
    BY <2>1, <2>2, <2>3 DEF Init, IdentityOK
<1>4. Sound(store)
  <2>1. PICK held \in [Ids -> Identity \union {Unissued}] :
          /\ \A i, j \in Ids :
               i # j /\ held[i] = held[j] => held[i] = Unissued \/ kind \in MayShareName
          /\ store = [i \in Ids |-> IF i \notin Usages[usage].ids THEN Gone
                                    ELSE IF held[i] = Unissued THEN Unissued
                                    ELSE Record(i, held[i].realm, held[i].name, 0, Null)]
    BY DEF Init
  <2>2. ASSUME NEW i \in Ids
        PROVE  \/ store[i] = Gone
               \/ store[i] = Unissued
               \/ /\ store[i] \in Rep /\ store[i].id = i /\ held[i] \in Identity
                  /\ store[i].realm = held[i].realm /\ store[i].name = held[i].name
                  /\ held[i] # Unissued
    <3>1. held[i] \in Identity => held[i].realm \in Realms /\ held[i].name \in Names
      BY DEF Identity
    <3>2. CASE i \in Usages[usage].ids /\ held[i] # Unissued
      <4>1. held[i] \in Identity /\ store[i] = Record(i, held[i].realm, held[i].name, 0, Null)
        BY <2>1, <3>2
      <4> QED
        BY <1>1, <3>1, <3>2, <4>1, RecordFields
    <3> QED
      BY <2>1, <3>2
  <2>3. \A i \in Ids : store[i] \in Rep \union {Unissued, Gone} /\ (store[i] \in Rep => store[i].id = i)
    BY <2>2, Marks
  <2>4. store \in [Ids -> Rep \union {Unissued, Gone}]
    BY <2>1, <2>3
  <2>5. ASSUME kind \notin MayShareName, NEW i \in Ids, NEW j \in Ids,
               store[i] \in Rep, store[j] \in Rep,
               store[i].realm = store[j].realm, store[i].name = store[j].name
        PROVE  i = j
    <3>1. held[i] \in Identity /\ held[j] \in Identity /\ held[i] # Unissued
      BY <2>2, <2>5, Marks
    <3>2. held[i].realm = held[j].realm /\ held[i].name = held[j].name
      BY <2>2, <2>5, Marks
    <3>3. held[i] = held[j]
      BY <3>1, <3>2 DEF Identity
    <3> QED
      BY <2>1, <2>5, <3>1, <3>3
  <2> QED
    BY <2>3, <2>4, <2>5 DEF Sound
<1>5. CallsOK
  <2>1. call = [p \in Callers |-> Idle] /\ edits = 0
    BY DEF Init
  <2>2. \A p \in Callers : Shape(p, Idle)
    BY <1>1, <2>1, IdleShape
  <2> QED
    BY <2>1, <2>2 DEF CallsOK, Shape
<1> QED
  BY <1>1, <1>3, <1>4, <1>5 DEF TypeInv, Init

LEMMA StutterTypes == ASSUME TypeInv, UNCHANGED vars PROVE TypeInv'
<1>1. IdentityOK'
  BY DEF TypeInv, IdentityOK, vars, Has
<1>2. edits' \in Nat /\ edits <= edits'
  BY Numbers DEF vars
<1>3. CallsOK'
  BY <1>2, CrossedTypes DEF TypeInv, vars
<1> QED
  BY <1>1, <1>3 DEF TypeInv, Sound, vars

LEMMA NextTypes == ASSUME TypeInv, [Next]_vars PROVE TypeInv'
<1>1. ASSUME NEW n \in Names, Rebind(n) PROVE TypeInv'
  BY <1>1, RebindTypes
<1>2. ASSUME NEW r \in Realms, RebindRealm(r) PROVE TypeInv'
  BY <1>2, RebindRealmTypes
<1>3. ASSUME NEW p \in Callers, NEW op \in AllOps \ {"getById"}, Begin(p, op) PROVE TypeInv'
  BY <1>3, BeginTypes
<1>4. ASSUME NEW p \in Callers, NEW i \in Ids, BeginGetById(p, i) PROVE TypeInv'
  BY <1>4, BeginGetByIdTypes
<1>5. ASSUME NEW p \in Callers, Serve(p) \/ Resend(p) PROVE TypeInv'
  BY <1>5, ServeTypes, ResendTypes
<1>6. ASSUME NEW p \in Callers, Step(p) PROVE TypeInv'
  BY <1>6, ThrowTypes, ReadByIdTypes, GetReturnsTypes, ResumeTypes, PartnerResolvedTypes,
     EnsureProfileTypes, ReadBackTypes, ReadDependentTypes, NextPageTypes, DeletedTypes, UsedTypes
     DEF Step
<1>7. CASE Admin
  BY <1>7, AdminTypes
<1>8. CASE UNCHANGED vars
  BY <1>8, StutterTypes
<1> QED
  BY <1>1, <1>2, <1>3, <1>4, <1>5, <1>6, <1>7, <1>8 DEF Next

LEMMA TypesHold == ASSUME TypeInv PROVE TypeOK
BY Numbers DEF TypeInv, IdentityOK, Sound, CallsOK, TypeOK

\* Every variable keeps its type, whoever uses the handle and however it is
\* moved: a cached representation is a resource or one of the two blanks, a
\* version seen is one the realm has had, and an id names its own resource.
THEOREM TypeCorrect == Spec => []TypeOK
<1>1. Init => TypeInv
  BY InitTypes
<1>2. TypeInv /\ [Next]_vars => TypeInv'
  BY NextTypes
<1>3. TypeInv => TypeOK
  BY TypesHold
<1> QED
  BY <1>1, <1>2, <1>3, PTL DEF Spec

-----------------------------------------------------------------------------
(* Where the handle and its calls are: what a step leaves                  *)

\* The calls other than p's stay, or are no longer alone.
OthersStay(p) ==
  /\ call' \in [Callers -> Call]
  /\ \A q \in Callers \ {p} :
       \/ call'[q] = call[q]
       \/ call[q].pc # "idle" /\ call'[q] = Crossing(call[q])

LEMMA NewGoes ==
  ASSUME TypeInv, NEW p \in Callers,
         NEW op \in AllOps \union {"profile", "none"}, NEW pc \in Places,
         NEW found \in Rep \union {Null, Undefined}, NEW req \in Request \union {Null},
         NEW since \in 0..edits, NEW alone \in BOOLEAN,
         Goes(p, New(op, pc, found, req, since, alone))
  PROVE  /\ OthersStay(p)
         /\ call'[p].op = op /\ call'[p].pc = pc /\ call'[p].found = found /\ call'[p].req = req
         /\ call'[p].ans = {Pending} /\ call'[p].since = since /\ call'[p].alone = alone
<1> DEFINE r == New(op, pc, found, req, since, alone)
<1>1. since \in 0..MaxEdits
  BY Numbers
<1>2. /\ r \in Call /\ r.op = op /\ r.pc = pc /\ r.found = found /\ r.req = req
      /\ r.ans = {Pending} /\ r.since = since /\ r.alone = alone
  <2>1. r.alone = alone
    BY DEF New
  <2>2. /\ r \in Call /\ r.op = op /\ r.pc = pc /\ r.found = found /\ r.req = req
        /\ r.ans = {Pending} /\ r.since = since
    BY <1>1, NewFields
  <2> QED
    BY <2>1, <2>2
<1> HIDE DEF r
<1>3. Goes(p, r) /\ call \in [Callers -> Call]
  BY DEF r, TypeInv, CallsOK
<1>4. OthersStay(p) /\ call'[p] = r
  BY <1>2, <1>3, GoesParts DEF OthersStay
<1> QED
  BY <1>2, <1>4

LEMMA AgainGoes ==
  ASSUME TypeInv, NEW p \in Callers, NEW req \in Request,
         Goes(p, [call[p] EXCEPT !.req = req, !.ans = {Pending}])
  PROVE  /\ OthersStay(p)
         /\ call'[p].op = call[p].op /\ call'[p].pc = call[p].pc
         /\ call'[p].found = call[p].found /\ call'[p].req = req
         /\ call'[p].ans = {Pending} /\ call'[p].since = call[p].since
         /\ call'[p].alone = call[p].alone
<1> DEFINE r == [call[p] EXCEPT !.req = req, !.ans = {Pending}]
<1>1. call[p] \in Call /\ call \in [Callers -> Call]
  BY DEF TypeInv, CallsOK
<1>2. /\ r \in Call /\ r.op = call[p].op /\ r.pc = call[p].pc /\ r.found = call[p].found
      /\ r.req = req /\ r.ans = {Pending} /\ r.since = call[p].since /\ r.alone = call[p].alone
  BY <1>1 DEF Call
<1> HIDE DEF r
<1>3. Goes(p, r)
  BY DEF r
<1>4. OthersStay(p) /\ call'[p] = r
  BY <1>1, <1>2, <1>3, GoesParts DEF OthersStay
<1> QED
  BY <1>2, <1>4

LEMMA IdleGoes ==
  ASSUME TypeInv, NEW p \in Callers, Goes(p, Idle)
  PROVE  OthersStay(p) /\ call'[p] = Idle /\ call'[p].pc = "idle"
<1>1. Idle \in Call /\ call \in [Callers -> Call]
  BY Numbers, IdleShape DEF Shape, TypeInv, CallsOK
<1>2. OthersStay(p) /\ call'[p] = Idle
  BY <1>1, GoesParts DEF OthersStay
<1> QED
  BY <1>2 DEF Idle

\* What one call has of HereInv.
CallHere(c) == LookupHere(c) /\ AloneAsks(c) /\ AloneKeeps(c)

LEMMA CallCrossed ==
  ASSUME NEW c \in Call, LookupHere(c) PROVE CallHere(Crossing(c))
BY Crossed DEF CallHere, LookupHere, AloneAsks, AloneKeeps

\* A step that leaves the handle where it is, with what it has.
Rests == UNCHANGED <<usage, kind, realmName, realmGen, overtaken, name, rep, pin, seen>>

LEMMA RestsHere ==
  ASSUME TypeInv, HereInv, Rests, NEW p \in Callers, OthersStay(p),
         call'[p].pc # "idle" => call[p].pc # "idle",
         CallHere(call'[p])
  PROVE  HereInv'
<1>1. \A q \in Callers : call[q] \in Call /\ CallHere(call[q])
  BY DEF TypeInv, CallsOK, HereInv, CallHere
<1>2. \A q \in Callers : CallHere(call'[q]) /\ (call'[q].pc # "idle" => call[q].pc # "idle")
  BY <1>1, Crossed, CallCrossed DEF OthersStay, CallHere
<1>3. \A c : CallHere(c) => CallHere(c)'
  BY DEF Rests, CallHere, LookupHere, AloneAsks, AloneKeeps, Ours, Dropped, Stale, Has, UsesCache
<1>4. \A q \in Callers : CallHere(call[q])'
  BY <1>2, <1>3
<1>5. CacheHere' /\ LoneWhenStale'
  BY <1>2 DEF Rests, HereInv, CacheHere, LoneWhenStale, VisibleRep, Ours, Dropped, Stale, Has
<1> QED
  BY <1>4, <1>5 DEF HereInv, CallHere

LEMMA FinishHere ==
  ASSUME TypeInv, HereInv, Rests, NEW p \in Callers, Finish(p) PROVE HereInv'
<1>1. OthersStay(p) /\ call'[p].pc = "idle"
  BY IdleGoes DEF Finish, Goes
<1>2. CallHere(call'[p])
  BY <1>1 DEF CallHere, LookupHere, AloneAsks, AloneKeeps, LookingUp
<1> QED
  BY <1>1, <1>2, RestsHere

LEMMA RestingSteps == UNCHANGED <<target, cache>> => Rests
BY DEF Rests, target, cache

LEMMA ThrowHere == ASSUME TypeInv, HereInv, NEW p \in Callers, Throw(p) PROVE HereInv'
BY RestingSteps, FinishHere DEF Throw

LEMMA UsedHere == ASSUME TypeInv, HereInv, NEW p \in Callers, Used(p) PROVE HereInv'
BY RestingSteps, FinishHere DEF Used

LEMMA ServeHere == ASSUME TypeInv, HereInv, NEW p \in Callers, Serve(p) PROVE HereInv'
<1>1. PICK outcome \in Outcomes(call[p].req) :
        LET answered == [call EXCEPT ![p].ans = outcome[2]]
        IN  call' = IF outcome[1] = store THEN answered ELSE Disturb(answered, {p})
  BY DEF Serve
<1> DEFINE r == [call[p] EXCEPT !.ans = outcome[2]]
<1>2. Goes(p, r)
  BY <1>1 DEF Goes
<1>3. /\ r \in Call /\ r.op = call[p].op /\ r.pc = call[p].pc /\ r.found = call[p].found
      /\ r.req = call[p].req /\ r.alone = call[p].alone
  BY AnswerShape DEF Serve, Shape
<1> HIDE DEF r
<1>4. OthersStay(p) /\ call'[p] = r
  BY <1>2, <1>3, GoesParts DEF OthersStay, TypeInv, CallsOK
<1>5. CallHere(call[p])
  BY DEF HereInv, CallHere
<1>6. CallHere(r)
  BY <1>3, <1>5 DEF CallHere, LookupHere, AloneAsks, AloneKeeps
<1> QED
  BY <1>3, <1>4, <1>6, RestingSteps, RestsHere DEF Serve

LEMMA ResendHere == ASSUME TypeInv, HereInv, NEW p \in Callers, Resend(p) PROVE HereInv'
<1> DEFINE req == Reread(call[p].req)
<1>1. /\ req \in Request /\ req.kind = call[p].req.kind /\ req.realm = realmName
      /\ req.name = name /\ Goes(p, [call[p] EXCEPT !.req = req, !.ans = {Pending}])
  BY ResendGoes
<1> HIDE DEF req
<1>2. /\ OthersStay(p)
      /\ call'[p].op = call[p].op /\ call'[p].pc = call[p].pc /\ call'[p].found = call[p].found
      /\ call'[p].req = req /\ call'[p].alone = call[p].alone
  BY <1>1, AgainGoes
<1>3. CallHere(call[p])
  BY DEF HereInv, CallHere
<1>4. CallHere(call'[p])
  BY <1>1, <1>2, <1>3 DEF CallHere, LookupHere, AloneAsks, AloneKeeps
<1> QED
  BY <1>2, <1>4, RestingSteps, RestsHere, SMTT(30) DEF Resend

LEMMA ReadByIdHere == ASSUME TypeInv, HereInv, NEW p \in Callers, ReadById(p) PROVE HereInv'
<1> DEFINE req == [call[p].req EXCEPT !.kind = "byId", !.id = Taken(p).id]
<1>1. /\ req \in Request /\ req.kind = "byId" /\ req.realm = call[p].req.realm
      /\ req.name = call[p].req.name
      /\ Goes(p, [call[p] EXCEPT !.req = req, !.ans = {Pending}])
      /\ call[p].pc \in LookingUp
  BY ReadByIdGoes
<1> HIDE DEF req
<1>2. /\ OthersStay(p)
      /\ call'[p].op = call[p].op /\ call'[p].pc = call[p].pc /\ call'[p].found = call[p].found
      /\ call'[p].req = req /\ call'[p].alone = call[p].alone
  BY <1>1, AgainGoes
<1>3. CallHere(call[p])
  BY DEF HereInv, CallHere
<1>4. CallHere(call'[p])
  BY <1>1, <1>2, <1>3 DEF CallHere, LookupHere, AloneAsks, AloneKeeps, LookingUp
<1> QED
  BY <1>2, <1>4, RestingSteps, RestsHere DEF ReadById

\* A call that goes on, with what it found, to a request of the realm.
LEMMA MoveHere ==
  ASSUME TypeInv, HereInv, Rests, NEW p \in Callers, call[p].pc \in {"looked", "partner", "write"},
         NEW op \in AllOps \union {"profile", "none"}, NEW pc \in {"partner", "write"},
         NEW req \in Request, req.realm = realmName,
         UsesCache(call[p].op) => UsesCache(op),
         req.kind \in {"create", "put"} /\ call[p].alone => req.name = name,
         Goes(p, New(op, pc, call[p].found, req, call[p].since, call[p].alone))
  PROVE  HereInv'
<1> DEFINE found == call[p].found
           since == call[p].since
           alone == call[p].alone
<1>1. /\ found \in Rep \union {Null, Undefined} /\ since \in 0..edits /\ alone \in BOOLEAN
  BY PartsAt
<1>2. pc \in Places /\ req \in Request \union {Null}
  BY DEF Places
<1>3. /\ OthersStay(p)
      /\ call'[p].op = op /\ call'[p].pc = pc /\ call'[p].found = call[p].found
      /\ call'[p].req = req /\ call'[p].alone = call[p].alone
  <2>1. Goes(p, New(op, pc, found, req, since, alone))
    OBVIOUS
  <2> HIDE DEF found, since, alone
  <2> QED
    BY <1>1, <1>2, <2>1, NewGoes DEF found, alone
<1>4. CallHere(call[p])
  BY DEF HereInv, CallHere
<1>5. CallHere(call'[p])
  BY <1>3, <1>4 DEF CallHere, LookupHere, AloneAsks, AloneKeeps, LookingUp
<1> QED
  BY <1>3, <1>5, RestsHere


LEMMA KindTraits ==
  ASSUME kind \in AllKinds
  PROVE  /\ Has("namedLive") <=> kind = "realm"
         /\ Has("keyedByName") <=> kind \in {"identityProvider", "realm"}
         /\ Has("pinsId") <=> kind = "user"
         /\ Has("keepsLate") <=> kind = "group"
         /\ Has("asksTwice") <=> kind = "group"
         /\ Has("trustsCache") <=> kind \in {"organization", "workflow", "component", "flow"}
         /\ Has("servesCache") <=> kind = "workflow"
         /\ Has("refusesAmbiguous") <=> kind \in {"organization", "workflow", "component", "group"}
         /\ Has("filtersLive") <=> kind \in {"clientScope", "component", "user"}
         /\ Has("readsUpdateById") <=> kind = "organization"
<1>1. ASSUME kind = "client" PROVE Traits[kind] = {}
  BY <1>1 DEF Traits, ClientTraits
<1>2. ASSUME kind = "clientScope" PROVE Traits[kind] = {"filtersLive"}
  BY <1>2 DEF Traits, ClientScopeTraits
<1>3. ASSUME kind = "identityProvider" PROVE Traits[kind] = {"keyedByName"}
  BY <1>3 DEF Traits, IdentityProviderTraits
<1>4. ASSUME kind = "organization"
      PROVE  Traits[kind] = {"trustsCache", "refusesAmbiguous", "readsUpdateById"}
  BY <1>4 DEF Traits, OrganizationTraits
<1>5. ASSUME kind = "workflow"
      PROVE  Traits[kind] = {"trustsCache", "servesCache", "refusesAmbiguous"}
  BY <1>5 DEF Traits, WorkflowTraits
<1>6. ASSUME kind = "component"
      PROVE  Traits[kind] = {"trustsCache", "filtersLive", "refusesAmbiguous"}
  BY <1>6 DEF Traits, ComponentTraits
<1>7. ASSUME kind = "flow" PROVE Traits[kind] = {"trustsCache"}
  BY <1>7 DEF Traits, FlowTraits
<1>8. ASSUME kind = "group" PROVE Traits[kind] = {"refusesAmbiguous", "asksTwice", "keepsLate"}
  BY <1>8 DEF Traits, GroupTraits
<1>9. ASSUME kind = "user" PROVE Traits[kind] = {"filtersLive", "pinsId"}
  BY <1>9 DEF Traits, UserTraits
<1>10. ASSUME kind = "realm" PROVE Traits[kind] = {"keyedByName", "namedLive"}
  BY <1>10 DEF Traits, RealmTraits
<1>11. \/ kind = "client" \/ kind = "clientScope" \/ kind = "identityProvider"
       \/ kind = "organization" \/ kind = "workflow" \/ kind = "component"
       \/ kind = "flow" \/ kind = "group" \/ kind = "user" \/ kind = "realm"
  BY DEF AllKinds
<1> QED
  BY <1>1, <1>2, <1>3, <1>4, <1>5, <1>6, <1>7, <1>8, <1>9, <1>10, <1>11 DEF Has

LEMMA KindIs == ASSUME TypeInv PROVE kind \in AllKinds
BY ResourceHandleAssumption DEF TypeInv, IdentityOK

\* Which operations of the realm take the cache.
LEMMA RealmCaches ==
  ASSUME TypeInv, kind = "realm", NEW op, op \notin Shapes PROVE ~UsesCache(op)
BY KindIs, KindTraits DEF UsesCache

\* A write that is read back from the server.
LEMMA ReadBackGoes ==
  ASSUME TypeInv, NEW p \in Callers, ReadBack(p), ~(UsesCache("get") /\ VisibleRep \in Rep)
  PROVE  /\ OthersStay(p) /\ call'[p].pc = "final" /\ call'[p].op = call[p].op
         /\ call'[p].found = call[p].found /\ call'[p].alone = call[p].alone
         /\ call'[p].since = call[p].since /\ call'[p].ans = {Pending}
         /\ call'[p].req.realm = realmName /\ call'[p].req.name = name
         /\ call'[p].req.kind = "list" => VisiblePin = Null
         /\ call'[p].req.kind = "byId" =>
              \/ Has("readsUpdateById") /\ call[p].op = "update" /\ call[p].found \in Rep
                 /\ call'[p].req.id = call[p].found.id
              \/ VisiblePin \in Ids /\ call'[p].req.id = VisiblePin
<1> DEFINE op == call[p].op
           found == call[p].found
           since == call[p].since
           alone == call[p].alone
           req == IF Has("readsUpdateById") /\ op = "update" THEN ById(found.id) ELSE Lookup
<1>1. Goes(p, New(op, "final", found, req, since, alone))
  BY DEF ReadBack, Goes, Move, New
<1>2. /\ OpAt(call[p]) /\ op \in AllOps \union {"profile", "none"}
      /\ found \in Rep \union {Null, Undefined}
      /\ found \in {Null, Undefined} => op # "update"
      /\ since \in 0..edits /\ alone \in BOOLEAN
  BY PartsAt DEF OpAt, ReadBack, Answered
<1>3. /\ req \in Request /\ req.realm = realmName /\ req.name = name
      /\ req.kind = "list" => VisiblePin = Null
      /\ req.kind = "byId" =>
           \/ Has("readsUpdateById") /\ op = "update" /\ found \in Rep /\ req.id = found.id
           \/ VisiblePin \in Ids /\ req.id = VisiblePin
  <2>1. CASE Has("readsUpdateById") /\ op = "update"
    <3>1. found \in Rep /\ found.id \in Ids /\ req = ById(found.id)
      BY <1>2, <2>1, RepFields
    <3> HIDE DEF req, op, found
    <3> QED
      BY <2>1, <3>1, ByIdFields
  <2>2. CASE ~(Has("readsUpdateById") /\ op = "update")
    <3>1. req = Lookup
      BY <2>2
    <3> HIDE DEF req, op
    <3> QED
      BY <3>1, LookupFields
  <2> QED
    BY <2>1, <2>2
<1> HIDE DEF req, op, found, since, alone
<1>4. "final" \in Places /\ req \in Request \union {Null}
  BY <1>3 DEF Places
<1>5. /\ OthersStay(p)
      /\ call'[p].op = op /\ call'[p].pc = "final" /\ call'[p].found = found
      /\ call'[p].req = req
      /\ call'[p].ans = {Pending} /\ call'[p].since = since /\ call'[p].alone = alone
  BY <1>1, <1>2, <1>4, NewGoes, ZenonT(60)
<1> QED
  BY <1>3, <1>5 DEF op, found, since, alone

LEMMA ResumeHere == ASSUME TypeInv, HereInv, NEW p \in Callers, Resume(p) PROVE HereInv'
<1>1. call[p].pc = "looked" /\ Rests
  BY RestingSteps DEF Resume
<1>2. ASSUME NEW req \in NextRequest(p, call[p].op, call[p].found),
             call' = Move(p, IF req.kind = "partner" THEN "partner" ELSE "write",
                          call[p].found, req)
      PROVE  HereInv'
  <2> DEFINE pc == IF req.kind = "partner" THEN "partner" ELSE "write"
             op == call[p].op
             one == call[p].found
  <2>1. Goes(p, New(op, pc, one, req, call[p].since, call[p].alone))
    BY <1>2 DEF Goes, Move, New
  <2>2. /\ op \in AllOps \union {"profile", "none"} /\ one \in Rep \union {Null, Undefined}
        /\ op = "rewrite" => kind # "realm"
    BY PartsAt DEF OpAt
  <2>3. /\ req \in Request /\ req.realm = realmName
        /\ req.kind \in {"create", "put"} /\ (Has("namedLive") => one = Null) => req.name = name
        /\ req.kind = "create" => one = Null
        /\ req.kind = "put" =>
             /\ op \in {"update", "ensure", "rewrite"} /\ one \in Rep
             /\ Has("namedLive") => req.name = one.name
    BY <1>1, SentParts
  <2>4. ASSUME Has("namedLive"), req.kind = "put", call[p].alone PROVE req.name = name
    <3>1. kind = "realm" /\ op \in {"update", "ensure"}
      BY <2>2, <2>3, <2>4, KindIs, KindTraits
    <3>2. ~UsesCache(op)
      <4>1. op \notin Shapes
        BY <3>1 DEF Shapes
      <4> QED
        BY <3>1, <4>1, RealmCaches
    <3>3. AloneKeeps(call[p])
      BY DEF HereInv
    <3>4. Ours(one)
      BY <1>1, <2>3, <2>4, <3>2, <3>3 DEF AloneKeeps
    <3> QED
      BY <2>3, <2>4, <3>4 DEF Ours
  <2>5. req.kind \in {"create", "put"} /\ call[p].alone => req.name = name
    BY <2>3, <2>4
  <2>6. pc \in {"partner", "write"} /\ op \in AllOps \union {"profile", "none"}
    BY <2>2
  <2> HIDE DEF pc
  <2> QED
    BY <1>1, <2>1, <2>3, <2>5, <2>6, MoveHere
<1>3. CASE Finish(p)
  BY <1>1, <1>3, FinishHere
<1> QED
  BY <1>2, <1>3 DEF Resume

\* A dependent request.
LEMMA UseHere ==
  ASSUME TypeInv, HereInv, Rests, NEW p \in Callers, call[p].pc \in {"partner", "write"},
         NEW op \in AllOps \union {"profile", "none"},
         UsesCache(call[p].op) => UsesCache(op),
         NEW one \in Rep \union {Undefined}, one = Undefined => kind = "realm",
         Goes(p, New(op, "write", call[p].found, Use(one), call[p].since, call[p].alone))
  PROVE  HereInv'
<1> DEFINE req == Use(one)
<1>1. req \in Request /\ req.realm = realmName /\ req.kind = "use"
  BY KindIs, KindTraits, UseFields
<1>2. Goes(p, New(op, "write", call[p].found, req, call[p].since, call[p].alone))
  OBVIOUS
<1> HIDE DEF req
<1>3. req.kind \in {"create", "put"} /\ call[p].alone => req.name = name
  BY <1>1
<1> QED
  BY <1>1, <1>2, <1>3, MoveHere

LEMMA PartnerResolvedHere ==
  ASSUME TypeInv, HereInv, NEW p \in Callers, PartnerResolved(p) PROVE HereInv'
<1>1. Rests /\ call[p].pc = "partner"
  BY RestingSteps DEF PartnerResolved, Answered
<1>2. /\ call[p].op \in AllOps \union {"profile", "none"}
      /\ call[p].found \in Rep \union {Undefined} /\ (call[p].found = Undefined => kind = "realm")
  BY <1>1, PartsAt DEF OpAt
<1>3. Goes(p, New(call[p].op, "write", call[p].found, Use(call[p].found),
                  call[p].since, call[p].alone))
  BY DEF PartnerResolved, Goes, Move, New
<1> QED
  BY <1>1, <1>2, <1>3, UseHere

LEMMA NextPageHere == ASSUME TypeInv, HereInv, NEW p \in Callers, NextPage(p) PROVE HereInv'
<1>1. Rests /\ call[p].pc = "write" /\ call[p].op = "pages"
  BY RestingSteps DEF NextPage, Answered
<1>2. /\ call[p].op \in AllOps \union {"profile", "none"}
      /\ call[p].found \in Rep \union {Undefined} /\ (call[p].found = Undefined => kind = "realm")
  BY <1>1, PartsAt DEF OpAt
<1>3. Goes(p, New(call[p].op, "write", call[p].found, Use(call[p].found),
                  call[p].since, call[p].alone))
  BY DEF NextPage, Goes, Move, New
<1> QED
  BY <1>1, <1>2, <1>3, UseHere

LEMMA EnsureProfileHere ==
  ASSUME TypeInv, HereInv, NEW p \in Callers, EnsureProfile(p) PROVE HereInv'
<1>1. Rests /\ call[p].pc = "write" /\ call[p].op \in {"ensure", "profile"}
  BY RestingSteps DEF EnsureProfile, Answered
<1>2. PICK op \in {"profile", "refresh"} :
        /\ kind = "realm"
        /\ Goes(p, New(op, "write", call[p].found, Use(Undefined), call[p].since, call[p].alone))
  BY EnsureProfileGoes
<1>3. ~UsesCache(call[p].op)
  <2>1. call[p].op \notin Shapes
    BY <1>1 DEF Shapes
  <2> QED
    BY <1>2, <2>1, RealmCaches
<1>4. op \in AllOps \union {"profile", "none"} /\ Undefined \in Rep \union {Undefined}
  BY DEF AllOps
<1> QED
  BY <1>1, <1>2, <1>3, <1>4, UseHere

-----------------------------------------------------------------------------
(* Where the handle and its calls are: the steps that look at the parent   *)

Looked == \/ InvalidateParentCache
          \/ Has("keepsLate") /\ UNCHANGED <<rep, pin, seen>>

LEMMA LooksDone == LookAtParent \/ InvalidateParentCache => Looked
BY DEF LookAtParent, Looked

LEMMA LookedParts ==
  ASSUME TypeInv, Looked, UNCHANGED <<usage, kind, realmName, realmGen, overtaken, name>>
  PROVE  /\ ~Dropped'
         /\ VisibleRep' \in Rep => VisibleRep' = VisibleRep
         /\ pin' \in {pin, Null} /\ (pin' \in Ids => pin' = pin)
         /\ VisiblePin = Null => pin' = Null
<1>1. CASE InvalidateParentCache
  BY <1>1, Marks
     DEF InvalidateParentCache, Dropped, Stale, ParentMoved, VisibleRep, VisiblePin, Has
<1>2. CASE Has("keepsLate") /\ UNCHANGED <<rep, pin, seen>>
  <2>1. pin = Null
    BY <1>2, KindIs, KindTraits DEF TypeInv, IdentityOK
  <2> QED
    BY <1>2, <2>1, Marks DEF Dropped, Stale, ParentMoved, VisibleRep, Has
<1> QED
  BY <1>1, <1>2 DEF Looked

LEMMA LooksHere ==
  ASSUME TypeInv, HereInv, Looked,
         UNCHANGED <<usage, kind, realmName, realmGen, overtaken, name>>,
         NEW p \in Callers, p \in Usages[usage].callers, OthersStay(p), CallHere(call[p])'
  PROVE  HereInv'
<1>1. /\ ~Dropped'
      /\ VisibleRep' \in Rep => VisibleRep' = VisibleRep
      /\ pin' \in {pin, Null} /\ (pin' \in Ids => pin' = pin)
  BY LookedParts
<1>2. \A x : Ours(x) => Ours(x)'
  BY <1>1 DEF Ours
<1>3. CacheHere'
  <2>1. ASSUME ~overtaken', VisibleRep' \in Rep PROVE Ours(VisibleRep)'
    <3>1. Ours(VisibleRep')
      BY <1>1, <2>1 DEF HereInv, CacheHere
    <3> QED
      BY <1>2, <3>1 DEF Ours
  <2> QED
    BY <2>1 DEF CacheHere
<1>4. LoneWhenStale'
  BY <1>1 DEF LoneWhenStale
<1>5. ASSUME NEW q \in Callers \ {p} PROVE CallHere(call[q])'
  <2>1. /\ call[q] \in Call /\ LookupHere(call[q]) /\ AloneAsks(call[q]) /\ AloneKeeps(call[q])
        /\ \/ call'[q] = call[q]
           \/ call[q].pc # "idle" /\ call'[q] = Crossing(call[q])
    BY DEF TypeInv, CallsOK, HereInv, OthersStay
  <2> DEFINE c == call[q]
  <2>2. /\ c.pc = call'[q].pc /\ c.req = call'[q].req /\ c.found = call'[q].found
        /\ c.op = call'[q].op /\ (call'[q].alone => c.alone)
    <3>1. CASE call'[q] = c
      BY <3>1
    <3>2. CASE call'[q] = Crossing(c)
      <4>1. /\ Crossing(c).alone = FALSE /\ Crossing(c).op = c.op /\ Crossing(c).pc = c.pc
            /\ Crossing(c).found = c.found /\ Crossing(c).req = c.req
        BY <2>1, Crossed
      <4>2. ~call'[q].alone
        BY <3>2, <4>1
      <4> QED
        BY <3>2, <4>1, <4>2
    <3> QED
      BY <2>1, <3>1, <3>2
  <2>3. ASSUME c.pc # "idle", ~overtaken PROVE ~Dropped
    BY <2>3 DEF HereInv, LoneWhenStale
  <2>4. LookupHere(call[q])'
    <3>1. c.pc \in LookingUp => c.pc # "idle"
      BY DEF LookingUp
    <3> QED
      BY <1>1, <2>1, <2>2, <2>3, <3>1, Marks DEF LookupHere
  <2>5. AloneAsks(call[q])'
    BY <1>1, <2>1, <2>2, Marks DEF AloneAsks
  <2>6. AloneKeeps(call[q])'
    BY <1>2, <2>1, <2>2 DEF AloneKeeps, Ours, UsesCache, Has
  <2> QED
    BY <2>4, <2>5, <2>6 DEF CallHere
<1>6. \A q \in Callers : CallHere(call[q])'
  BY <1>5
<1> QED
  BY <1>3, <1>4, <1>6 DEF HereInv, CallHere

LEMMA ResolveHere ==
  ASSUME TypeInv, HereInv, NEW p \in Callers, p \in Usages[usage].callers,
         NEW op \in AllOps \ {"getById"},
         NEW since \in 0..edits, NEW alone \in BOOLEAN, Resolve(p, op, since, alone)
  PROVE  HereInv'
<1>1. /\ Looked /\ UNCHANGED <<usage, kind, realmName, realmGen, overtaken, name>>
  BY LooksDone DEF Resolve, target
<1>2. /\ ~Dropped' /\ pin' \in {pin, Null} /\ (pin' \in Ids => pin' = pin)
      /\ VisiblePin = Null => pin' = Null
  BY <1>1, LookedParts
<1>3. op \in AllOps \union {"profile", "none"} /\ "looked" \in Places /\ "lookup" \in Places
  BY DEF Places
<1>4. CASE ResolvesNothing(op)
  <2>1. Goes(p, New(op, "looked", Undefined, Null, since, alone))
    BY <1>4 DEF Resolve, New, Goes
  <2>2. Undefined \in Rep \union {Null, Undefined} /\ Null \in Request \union {Null}
    OBVIOUS
  <2>3. OthersStay(p) /\ call'[p].pc = "looked" /\ call'[p].found = Undefined
    BY <1>3, <2>1, <2>2, NewGoes
  <2>4. CallHere(call[p])'
    BY <1>2, <2>3, Marks DEF CallHere, LookupHere, AloneAsks, AloneKeeps, LookingUp
  <2> QED
    BY <1>1, <2>3, <2>4, LooksHere
<1>5. CASE ~ResolvesNothing(op) /\ UsesCache(op) /\ VisibleRep \in Rep
  <2> DEFINE one == VisibleRep
  <2>1. Goes(p, New(op, "looked", one, Null, since, alone))
    BY <1>5 DEF Resolve, New, Goes
  <2>2. one \in Rep \union {Null, Undefined} /\ Null \in Request \union {Null}
    BY <1>5
  <2>3. ~overtaken => Ours(one)
    BY <1>5 DEF HereInv, CacheHere
  <2> HIDE DEF one
  <2>4. /\ OthersStay(p) /\ call'[p].pc = "looked" /\ call'[p].found = one /\ call'[p].op = op
    BY <1>3, <2>1, <2>2, NewGoes
  <2>5. UsesCache(call[p].op)'
    BY <1>1, <1>5, <2>4 DEF UsesCache, Has
  <2>6. CallHere(call[p])'
    <3>1. AloneKeeps(call[p])'
      BY <1>1, <1>2, <2>3, <2>4, <2>5 DEF AloneKeeps, Ours
    <3>2. LookupHere(call[p])' /\ AloneAsks(call[p])'
      BY <1>1, <1>2, <2>4 DEF LookupHere, AloneAsks, LookingUp
    <3> QED
      BY <3>1, <3>2 DEF CallHere
  <2> QED
    BY <1>1, <2>4, <2>6, LooksHere
<1>6. CASE ~ResolvesNothing(op) /\ ~(UsesCache(op) /\ VisibleRep \in Rep)
  <2> DEFINE req == Lookup
  <2>1. Goes(p, New(op, "lookup", Undefined, req, since, alone))
    BY <1>6 DEF Resolve, New, Goes
  <2>2. /\ req \in Request \union {Null} /\ Undefined \in Rep \union {Null, Undefined}
        /\ req.realm = realmName /\ req.name = name
        /\ req.kind = "list" => VisiblePin = Null
    BY LookupFields
  <2> HIDE DEF req
  <2>3. OthersStay(p) /\ call'[p].pc = "lookup" /\ call'[p].req = req
    BY <1>3, <2>1, <2>2, NewGoes
  <2>4. CallHere(call[p])'
    BY <1>1, <1>2, <2>2, <2>3 DEF CallHere, LookupHere, AloneAsks, AloneKeeps, LookingUp
  <2> QED
    BY <1>1, <2>3, <2>4, LooksHere
<1> QED
  BY <1>4, <1>5, <1>6

LEMMA BeginHere ==
  ASSUME TypeInv, HereInv, NEW p \in Callers, NEW op \in AllOps \ {"getById"}, Begin(p, op)
  PROVE  HereInv'
<1>1. edits \in 0..edits
  BY Numbers
<1> QED
  BY <1>1, ResolveHere DEF Begin

LEMMA ReadDependentHere ==
  ASSUME TypeInv, HereInv, NEW p \in Callers, ReadDependent(p) PROVE HereInv'
<1>1. /\ p \in Usages[usage].callers /\ call[p].since \in 0..edits /\ call[p].alone \in BOOLEAN
  BY PartsAt DEF ReadDependent, Answered
<1>2. "use" \in AllOps \ {"getById"}
  BY DEF AllOps
<1> QED
  BY <1>1, <1>2, ResolveHere DEF ReadDependent

LEMMA BeginGetByIdHere ==
  ASSUME TypeInv, HereInv, NEW p \in Callers, NEW i \in Ids, BeginGetById(p, i) PROVE HereInv'
<1>1. /\ Looked /\ UNCHANGED <<usage, kind, realmName, realmGen, overtaken, name>>
      /\ p \in Usages[usage].callers
  BY LooksDone DEF BeginGetById
<1>2. ~Dropped'
  BY <1>1, LookedParts
<1> DEFINE req == ById(i)
           lone == TRUE
<1>3. Goes(p, New("getById", "lookup", Undefined, req, edits, lone))
  BY DEF BeginGetById, New, Goes
<1>4. /\ req \in Request \union {Null} /\ req.kind = "byId" /\ req.realm = realmName
      /\ req.name = name
  BY ByIdFields
<1> HIDE DEF req
<1>5. /\ "getById" \in AllOps \union {"profile", "none"} /\ "lookup" \in Places
      /\ edits \in 0..edits /\ Undefined \in Rep \union {Null, Undefined}
  BY Numbers DEF AllOps, Places
<1>6. lone \in BOOLEAN
  OBVIOUS
<1> HIDE DEF lone
<1>7. OthersStay(p) /\ call'[p].pc = "lookup" /\ call'[p].req = req
  BY <1>3, <1>4, <1>5, <1>6, NewGoes
<1>8. CallHere(call[p])'
  BY <1>1, <1>2, <1>4, <1>7 DEF CallHere, LookupHere, AloneAsks, AloneKeeps, LookingUp
<1> QED
  BY <1>1, <1>7, <1>8, LooksHere

LEMMA ReadBackHere == ASSUME TypeInv, HereInv, NEW p \in Callers, ReadBack(p) PROVE HereInv'
<1>1. /\ Looked /\ UNCHANGED <<usage, kind, realmName, realmGen, overtaken, name>>
      /\ call[p].pc = "write" /\ p \in Usages[usage].callers
  BY LooksDone, PartsAt DEF ReadBack, target, Answered
<1>2. /\ ~Dropped' /\ pin' \in {pin, Null} /\ (pin' \in Ids => pin' = pin)
      /\ VisiblePin = Null => pin' = Null
  BY <1>1, LookedParts
<1>3. CASE UsesCache("get") /\ VisibleRep \in Rep
  <2>1. OthersStay(p) /\ call'[p].pc = "idle"
    BY <1>3, IdleGoes DEF ReadBack, Goes
  <2>2. CallHere(call[p])'
    BY <2>1 DEF CallHere, LookupHere, AloneAsks, AloneKeeps, LookingUp
  <2> QED
    BY <1>1, <2>1, <2>2, LooksHere
<1>4. CASE ~(UsesCache("get") /\ VisibleRep \in Rep)
  <2>1. /\ OthersStay(p) /\ call'[p].pc = "final" /\ call'[p].op = call[p].op
        /\ call'[p].found = call[p].found /\ call'[p].alone = call[p].alone
        /\ call'[p].req.realm = realmName /\ call'[p].req.name = name
        /\ call'[p].req.kind = "list" => VisiblePin = Null
    BY <1>4, ReadBackGoes
  <2>2. AloneKeeps(call[p])
    BY DEF HereInv
  <2>3. CallHere(call[p])'
    BY <1>1, <1>2, <2>1, <2>2
       DEF CallHere, LookupHere, AloneAsks, AloneKeeps, LookingUp, Ours, UsesCache, Has
  <2> QED
    BY <1>1, <2>1, <2>3, LooksHere
<1> QED
  BY <1>3, <1>4

-----------------------------------------------------------------------------
(* Where the handle and its calls are: answers that are written back       *)

LEMMA DisturbedGoes ==
  ASSUME call \in [Callers -> Call], NEW p \in Callers, NEW r \in Call,
         call' = Disturb([call EXCEPT ![p] = r], {p})
  PROVE  \A q \in Callers \ {p} : call[q].pc # "idle" => call'[q] = Crossing(call[q])
BY DEF Disturb, Crossing

\* The tail of get() and getById(), seen by what it leaves.
LEMMA GetReturnsGoes ==
  ASSUME TypeInv, NEW p \in Callers, GetReturns(p)
  PROVE  /\ OthersStay(p)
         /\ ~(name' = name /\ pin' = pin) =>
              \A q \in Callers \ {p} : call[q].pc # "idle" => call'[q] = Crossing(call[q])
         /\ \/ /\ call[p].pc = "final" \/ call[p].op \in {"get", "getById"}
               /\ call'[p].pc = "idle"
            \/ /\ call[p].pc = "lookup" /\ call[p].op \notin {"get", "getById"}
               /\ call'[p].pc = "looked" /\ call'[p].op = call[p].op
               /\ call'[p].found = Got(Taken(p)) /\ call'[p].ans = {Pending}
               /\ call'[p].since = call[p].since /\ call'[p].alone = call[p].alone
<1>1. Answered(p, LookingUp) /\ call[p].pc \in LookingUp /\ call \in [Callers -> Call]
  BY DEF GetReturns, LookingUp, Answered, TypeInv, CallsOK
<1>2. CASE call[p].pc = "final" \/ call[p].op \in {"get", "getById"}
  <2>1. call' = IF name' = name /\ pin' = pin THEN [call EXCEPT ![p] = Idle]
                ELSE Disturb([call EXCEPT ![p] = Idle], {p})
    BY <1>2 DEF GetReturns
  <2>2. Idle \in Call
    BY Numbers, IdleShape DEF Shape
  <2>3. OthersStay(p) /\ call'[p].pc = "idle"
    BY <2>1, IdleGoes DEF Goes
  <2> QED
    BY <1>1, <1>2, <2>1, <2>2, <2>3, DisturbedGoes
<1>3. CASE ~(call[p].pc = "final" \/ call[p].op \in {"get", "getById"})
  <2> DEFINE found == Got(Taken(p))
             op == call[p].op
             since == call[p].since
             alone == call[p].alone
             r == New(op, "looked", found, Null, since, alone)
  <2>1. call' = IF name' = name /\ pin' = pin THEN [call EXCEPT ![p] = r]
                ELSE Disturb([call EXCEPT ![p] = r], {p})
    BY <1>3 DEF GetReturns, Move, New
  <2>2. found \in Rep \union {Null, Undefined}
    BY <1>1, TakenIs, GotIs
  <2>3. /\ op \in AllOps \union {"profile", "none"} /\ since \in 0..edits /\ alone \in BOOLEAN
        /\ since \in 0..MaxEdits
    BY PartsAt, Numbers
  <2>4. "looked" \in Places /\ Null \in Request \union {Null}
    BY DEF Places
  <2> HIDE DEF found, op, since, alone
  <2>5. r \in Call
    <3>1. r = New(op, "looked", found, Null, since, alone)
      OBVIOUS
    <3> HIDE DEF r
    <3> QED
      BY <2>2, <2>3, <2>4, <3>1 DEF New, Call
  <2>6. Goes(p, r)
    BY <2>1 DEF Goes
  <2>7. /\ OthersStay(p)
        /\ call'[p].op = op /\ call'[p].pc = "looked" /\ call'[p].found = found
        /\ call'[p].ans = {Pending} /\ call'[p].since = since /\ call'[p].alone = alone
    BY <2>2, <2>3, <2>4, <2>6, NewGoes, ZenonT(60)
  <2>8. ~(name' = name /\ pin' = pin) =>
          \A q \in Callers \ {p} : call[q].pc # "idle" => call'[q] = Crossing(call[q])
    <3> HIDE DEF r
    <3> QED
      BY <1>1, <2>1, <2>5, DisturbedGoes
  <2> QED
    BY <1>1, <1>3, <2>7, <2>8 DEF found, op, since, alone, LookingUp
<1> QED
  BY <1>2, <1>3

\* x is where the handle is after the step.
OursNext(x) == x.name = name' /\ x.realm = realmName' /\ (pin' \in Ids => x.id = pin')

\* What the answer taken says of where it was found.
LEMMA TakenHere ==
  ASSUME TypeInv, HereInv, NEW p \in Callers, GetReturns(p), ~Stale,
         Taken(p) # Null, call[p].req.realm = realmName, call[p].req.kind = "list" => pin = Null
  PROVE  OursNext(Taken(p))
<1> DEFINE one == Taken(p)
<1>1. /\ call[p].pc \in LookingUp /\ IsAnswer(call[p].ans) /\ Answered(p, LookingUp)
      /\ WriteBack(p, one) /\ realmName' = realmName
  BY DEF GetReturns, Answered, LookingUp, IsAnswer
<1>2. one \in call[p].ans
  BY <1>1, TakenIs
<1>3. /\ one.realm = call[p].req.realm
      /\ call[p].req.kind = "byId" => one.id = call[p].req.id
      /\ call[p].req.kind \in {"list", "byId"}
  BY <1>1, <1>2, PartsAt DEF AnsAt, ReqAt
<1>4. /\ name' = one.name
      /\ pin' = IF Has("pinsId") /\ call[p].req.kind = "byId" THEN call[p].req.id ELSE pin
  BY <1>1 DEF WriteBack
<1>5. ~Has("pinsId") => pin = Null
  BY DEF TypeInv, IdentityOK
<1> HIDE DEF one
<1>6. one.name = name' /\ one.realm = realmName' /\ (pin' \in Ids => one.id = pin')
  BY <1>1, <1>3, <1>4, <1>5, Marks
<1> QED
  BY <1>6 DEF OursNext, one

LEMMA GetReturnsHere ==
  ASSUME TypeInv, HereInv, NEW p \in Callers, GetReturns(p) PROVE HereInv'
<1> DEFINE one == Taken(p)
<1>1. /\ call[p].pc \in LookingUp /\ Answered(p, LookingUp) /\ WriteBack(p, one)
      /\ call[p].pc # "idle"
      /\ UNCHANGED <<usage, kind, realmName, realmGen>>
      /\ overtaken' = (overtaken \/ (pin' # pin /\ \E q \in Callers \ {p} : call[q].pc # "idle"))
  BY DEF GetReturns, Answered, LookingUp
<1>2. /\ p \in Usages[usage].callers /\ LookupHere(call[p]) /\ AloneAsks(call[p])
  BY <1>1, PartsAt DEF HereInv
<1>3. ~Dropped' /\ ~Stale' /\ (~Dropped <=> (~Stale \/ Has("keepsLate")))
  BY <1>1 DEF WriteBack, Dropped, Stale, ParentMoved
<1>4. Has("keepsLate") => ~Has("pinsId") /\ pin = Null
  BY KindIs, KindTraits DEF TypeInv, IdentityOK
<1>5. ASSUME ~Dropped, one # Null, call[p].req.realm = realmName, call[p].req.kind = "list" => pin = Null
      PROVE  OursNext(one)
  <2>1. CASE ~Stale
    BY <1>5, <2>1, TakenHere
  <2>2. CASE Stale
    <3>1. Has("keepsLate") /\ pin' = Null /\ name' = one.name
      BY <1>1, <1>3, <1>5, <2>2 DEF WriteBack
    <3>2. one \in call[p].ans
      BY <1>1, <1>5, TakenIs
    <3>3. one.realm = call[p].req.realm
      BY <1>1, <3>2, PartsAt DEF AnsAt, Answered, IsAnswer
    <3> HIDE DEF one
    <3>4. one.name = name' /\ one.realm = realmName' /\ (pin' \in Ids => one.id = pin')
      BY <1>1, <1>5, <3>1, <3>3, Marks
    <3> QED
      BY <3>4 DEF OursNext, one
  <2> QED
    BY <2>1, <2>2
<1>6. CacheHere'
  <2>1. ASSUME ~overtaken', VisibleRep' \in Rep PROVE Ours(VisibleRep)'
    <3>1. ~overtaken /\ VisibleRep' = rep'
      BY <1>1, <1>3, <2>1 DEF VisibleRep
    <3>2. ~Dropped /\ rep' = one /\ one # Null
      BY <1>1, <2>1, <3>1, Marks DEF WriteBack, Dropped
    <3>3. call[p].req.realm = realmName /\ (call[p].req.kind = "list" => pin = Null)
      BY <1>1, <1>2, <3>1, <3>2 DEF LookupHere
    <3>4. OursNext(one)
      BY <1>5, <3>2, <3>3
    <3>5. VisibleRep' = one
      BY <3>1, <3>2
    <3> HIDE DEF one
    <3> QED
      BY <3>4, <3>5 DEF Ours, OursNext
  <2> QED
    BY <2>1 DEF CacheHere
<1>7. LoneWhenStale'
  BY <1>3 DEF LoneWhenStale
<1>8. CallHere(call[p])'
  <2>1. CASE call'[p].pc = "idle"
    BY <2>1 DEF CallHere, LookupHere, AloneAsks, AloneKeeps, LookingUp
  <2>2. CASE /\ call'[p].pc = "looked" /\ call'[p].found = Got(one)
             /\ call'[p].alone = call[p].alone
    <3>1. LookupHere(call[p])' /\ AloneAsks(call[p])'
      BY <1>3, <2>2 DEF LookupHere, AloneAsks, LookingUp
    <3>2. ASSUME call[p].alone, call'[p].found \in Rep PROVE Ours(call[p].found)'
      <4>1. one \in Rep /\ call'[p].found = one /\ ~Dropped /\ one # Null
        BY <1>1, <2>2, <3>2, Marks, TakenIs DEF Got, Dropped
      <4>2. OursNext(one)
        BY <1>1, <1>2, <1>5, <3>2, <4>1 DEF AloneAsks
      <4> HIDE DEF one
      <4> QED
        BY <4>1, <4>2 DEF Ours, OursNext
    <3> QED
      BY <2>2, <3>1, <3>2 DEF CallHere, AloneKeeps
  <2> QED
    BY <2>1, <2>2, GetReturnsGoes
<1>9. ASSUME NEW q \in Callers \ {p} PROVE CallHere(call[q])'
  <2> DEFINE c == call[q]
  <2>1. /\ c \in Call /\ LookupHere(c) /\ AloneAsks(c) /\ AloneKeeps(c)
        /\ \/ call'[q] = c
           \/ c.pc # "idle" /\ call'[q] = Crossing(c)
        /\ ~(name' = name /\ pin' = pin) /\ c.pc # "idle" => call'[q] = Crossing(c)
    BY GetReturnsGoes DEF TypeInv, CallsOK, HereInv, OthersStay
  <2>2. ASSUME c.pc # "idle", ~overtaken' PROVE ~overtaken /\ ~Dropped /\ pin' = pin
    <3>1. ~overtaken /\ pin' = pin
      BY <1>1, <2>2
    <3> QED
      BY <1>2, <2>2, <3>1 DEF HereInv, LoneWhenStale
  <2>3. LookupHere(call[q])'
    <3>1. c.pc \in LookingUp => c.pc # "idle"
      BY DEF LookingUp
    <3>2. call'[q].pc = c.pc /\ call'[q].req = c.req
      BY <2>1, Crossed
    <3> QED
      BY <1>1, <2>1, <2>2, <3>1, <3>2 DEF LookupHere
  <2>4. CASE call'[q] = Crossing(c)
    <3>1. ~call'[q].alone
      <4>1. Crossing(c).alone = FALSE
        BY <2>1, Crossed
      <4> QED
        BY <2>4, <4>1
    <3> QED
      BY <2>3, <3>1 DEF CallHere, AloneAsks, AloneKeeps
  <2>5. CASE call'[q] = c /\ (c.pc # "idle" => name' = name /\ pin' = pin)
    <3>1. AloneAsks(call[q])'
      BY <1>1, <1>3, <2>1, <2>5 DEF AloneAsks, LookingUp
    <3>2. overtaken => overtaken'
      BY <1>1
    <3>3. AloneKeeps(call[q])'
      BY <1>1, <2>1, <2>5, <3>2 DEF AloneKeeps, Ours, UsesCache, Has
    <3> QED
      BY <2>3, <3>1, <3>3 DEF CallHere
  <2> QED
    BY <2>1, <2>4, <2>5
<1>10. \A q \in Callers : CallHere(call[q])'
  BY <1>8, <1>9
<1> QED
  BY <1>6, <1>7, <1>10 DEF HereInv, CallHere

LEMMA DeletedHere == ASSUME TypeInv, HereInv, NEW p \in Callers, Deleted(p) PROVE HereInv'
<1>1. /\ UNCHANGED <<usage, kind, realmName, realmGen, overtaken, name, pin>> /\ rep' = Null
      /\ seen' = IF Has("keepsLate") THEN RootVersion(realmGen) ELSE seen
      /\ OthersStay(p) /\ call'[p].pc = "idle"
  BY IdleGoes DEF Deleted, Finish, Goes, target
<1>2. Dropped' <=> Dropped
  BY <1>1 DEF Dropped, Stale, Has
<1>3. VisibleRep' \notin Rep
  BY <1>1, Marks DEF VisibleRep
<1>4. \A c : CallHere(c) => CallHere(c)'
  BY <1>1, <1>2 DEF CallHere, LookupHere, AloneAsks, AloneKeeps, Ours, UsesCache, Has
<1>5. \A q \in Callers : CallHere(call'[q]) /\ (call'[q].pc # "idle" => call[q].pc # "idle")
  <2>1. CallHere(call'[p])
    BY <1>1 DEF CallHere, LookupHere, AloneAsks, AloneKeeps, LookingUp
  <2>2. \A q \in Callers : call[q] \in Call /\ CallHere(call[q])
    BY DEF TypeInv, CallsOK, HereInv, CallHere
  <2> QED
    BY <1>1, <2>1, <2>2, Crossed, CallCrossed DEF OthersStay, CallHere
<1>6. \A q \in Callers : CallHere(call[q])'
  BY <1>4, <1>5
<1>7. LoneWhenStale'
  BY <1>1, <1>2, <1>5 DEF HereInv, LoneWhenStale
<1> QED
  BY <1>3, <1>6, <1>7 DEF HereInv, CallHere, CacheHere

-----------------------------------------------------------------------------
(* Where the handle and its calls are: retargeting, and the theorem        *)

\* Calls under way that a move crossed: none is alone.
LEMMA MovedCalls ==
  ASSUME TypeInv, call' = Disturb(call, {})
  PROVE  \A q \in Callers :
           /\ call[q] \in Call
           /\ call'[q].pc = call[q].pc /\ call'[q].req = call[q].req
           /\ call'[q].pc # "idle" => ~call'[q].alone
<1>1. \A q \in Callers :
        /\ call[q] \in Call
        /\ \/ call[q].pc = "idle" /\ call'[q] = call[q]
           \/ call[q].pc # "idle" /\ call'[q] = Crossing(call[q])
  BY DisturbParts DEF TypeInv, CallsOK
<1>2. \A c \in Call : ~Crossing(c).alone /\ Crossing(c).pc = c.pc /\ Crossing(c).req = c.req
  <2>1. \A c \in Call : Crossing(c).alone = FALSE
    BY Crossed
  <2>2. \A c \in Call : ~Crossing(c).alone
    BY <2>1
  <2> QED
    BY <2>2, Crossed
<1>3. \A q \in Callers : call'[q].pc # "idle" => ~call'[q].alone
  BY <1>1, <1>2
<1> QED
  BY <1>1, <1>2, <1>3

LEMMA RebindHere ==
  ASSUME TypeInv, HereInv, NEW n \in Names, Rebind(n) PROVE HereInv'
<1>1. /\ UNCHANGED <<usage, kind, realmName, realmGen, overtaken, seen>>
      /\ rep' = Undefined /\ pin' = Null /\ call' = Disturb(call, {})
  BY DEF Rebind
<1>2. Dropped' <=> Dropped
  BY <1>1 DEF Dropped, Stale, Has
<1>3. VisibleRep' \notin Rep
  BY <1>1, Marks DEF VisibleRep
<1>4. LoneWhenStale'
  BY <1>1, <1>2, MovedCalls DEF HereInv, LoneWhenStale
<1>5. ASSUME NEW q \in Callers PROVE CallHere(call[q])'
  <2>1. LookupHere(call[q]) /\ call'[q].pc = call[q].pc /\ call'[q].req = call[q].req
    BY <1>1, MovedCalls DEF HereInv
  <2>2. call'[q].pc # "idle" => ~call'[q].alone
    BY <1>1, MovedCalls
  <2>3. LookupHere(call[q])'
    BY <1>1, <1>2, <2>1 DEF LookupHere
  <2> QED
    BY <2>2, <2>3 DEF CallHere, AloneAsks, AloneKeeps
<1> QED
  BY <1>3, <1>4, <1>5 DEF HereInv, CallHere, CacheHere

LEMMA RebindRealmHere ==
  ASSUME TypeInv, HereInv, NEW r \in Realms, RebindRealm(r) PROVE HereInv'
<1>1. /\ UNCHANGED <<usage, kind, name, rep, pin, seen>> /\ realmGen' = realmGen + 1
      /\ overtaken' = (overtaken \/ \E p \in Callers : call[p].pc # "idle" /\ KeepsOvertaken(p))
      /\ call' = Disturb(call, {})
  BY DEF RebindRealm, cache
<1>2. Stale'
  <2>1. PICK g \in 0..realmGen : seen = RootVersion(g)
    BY DEF TypeInv, IdentityOK
  <2>2. g # realmGen + 1
    BY Numbers
  <2>3. RootVersion(g) # RootVersion(realmGen + 1)
    BY <2>2 DEF RootVersion
  <2> QED
    BY <1>1, <2>1, <2>3 DEF Stale, ParentMoved
<1>3. VisibleRep' \notin Rep
  BY <1>2, Marks DEF VisibleRep
<1>4. \A q \in Callers : call'[q].pc = call[q].pc /\ (call'[q].pc # "idle" => ~call'[q].alone)
  BY <1>1, MovedCalls
<1>5. ASSUME NEW q \in Callers, call[q].pc # "idle", ~overtaken'
      PROVE  ~Has("keepsLate") /\ Usages[usage].callers \ {q} = {}
  BY <1>1, <1>5 DEF KeepsOvertaken
<1>6. LoneWhenStale'
  BY <1>1, <1>4, <1>5 DEF LoneWhenStale
<1>7. ASSUME NEW q \in Callers PROVE CallHere(call[q])'
  <2>1. call'[q].pc \in LookingUp /\ ~overtaken' => Dropped'
    BY <1>1, <1>2, <1>4, <1>5 DEF LookingUp, Dropped, Has
  <2> QED
    BY <1>4, <2>1 DEF CallHere, LookupHere, AloneAsks, AloneKeeps
<1> QED
  BY <1>3, <1>6, <1>7 DEF HereInv, CallHere, CacheHere

\* The administrators, and nothing at all, leave the handle where it is.
LEMMA RemoteHere ==
  ASSUME TypeInv, HereInv, Rests, call' = call \/ call' = Disturb(call, {}) PROVE HereInv'
<1>1. \A q \in Callers : call[q] \in Call /\ CallHere(call[q])
  BY DEF TypeInv, CallsOK, HereInv, CallHere
<1>2. \A q \in Callers :
        call'[q] = call[q] \/ (call[q].pc # "idle" /\ call'[q] = Crossing(call[q]))
  BY DisturbParts DEF TypeInv, CallsOK
<1>3. \A q \in Callers : CallHere(call'[q]) /\ (call'[q].pc # "idle" => call[q].pc # "idle")
  BY <1>1, <1>2, Crossed, CallCrossed DEF CallHere
<1>4. \A c : CallHere(c) => CallHere(c)'
  BY DEF Rests, CallHere, LookupHere, AloneAsks, AloneKeeps, Ours, Dropped, Stale, Has, UsesCache
<1>5. \A q \in Callers : CallHere(call[q])'
  BY <1>3, <1>4
<1>6. CacheHere' /\ LoneWhenStale'
  BY <1>3 DEF Rests, HereInv, CacheHere, LoneWhenStale, VisibleRep, Ours, Dropped, Stale, Has
<1> QED
  BY <1>5, <1>6 DEF HereInv, CallHere

LEMMA AdminHere == ASSUME TypeInv, HereInv, Admin PROVE HereInv'
<1>1. Rests /\ (call' = call \/ call' = Disturb(call, {}))
  BY RestingSteps DEF Admin, AdminEdits, AdminReplaces
<1> QED
  BY <1>1, RemoteHere

LEMMA InitHere == ASSUME Init PROVE HereInv
<1>1. rep \notin Rep /\ \A p \in Callers : call[p].pc = "idle"
  BY Marks DEF Init, Idle
<1>2. VisibleRep \notin Rep
  BY <1>1, Marks DEF VisibleRep
<1> QED
  BY <1>1, <1>2
     DEF HereInv, CacheHere, LoneWhenStale, LookupHere, AloneAsks, AloneKeeps, LookingUp

LEMMA NextHere == ASSUME TypeInv, HereInv, [Next]_vars PROVE HereInv'
<1>1. ASSUME NEW n \in Names, Rebind(n) PROVE HereInv'
  BY <1>1, RebindHere
<1>2. ASSUME NEW r \in Realms, RebindRealm(r) PROVE HereInv'
  BY <1>2, RebindRealmHere
<1>3. ASSUME NEW p \in Callers, NEW op \in AllOps \ {"getById"}, Begin(p, op) PROVE HereInv'
  BY <1>3, BeginHere
<1>4. ASSUME NEW p \in Callers, NEW i \in Ids, BeginGetById(p, i) PROVE HereInv'
  BY <1>4, BeginGetByIdHere
<1>5. ASSUME NEW p \in Callers, Serve(p) \/ Resend(p) PROVE HereInv'
  BY <1>5, ServeHere, ResendHere
<1>6. ASSUME NEW p \in Callers, Step(p) PROVE HereInv'
  BY <1>6, ThrowHere, ReadByIdHere, GetReturnsHere, ResumeHere, PartnerResolvedHere,
     EnsureProfileHere, ReadBackHere, ReadDependentHere, NextPageHere, DeletedHere, UsedHere
     DEF Step
<1>7. CASE Admin
  BY <1>7, AdminHere
<1>8. CASE UNCHANGED vars
  <2>1. Rests /\ call' = call
    BY <1>8 DEF vars, Rests
  <2> QED
    BY <2>1, RemoteHere
<1> QED
  BY <1>1, <1>2, <1>3, <1>4, <1>5, <1>6, <1>7, <1>8 DEF Next

LEMMA HereHits == ASSUME TypeInv, HereInv PROVE WritesHitTarget
<1> SUFFICES ASSUME NEW p \in Callers, call[p].pc = "write", call[p].alone, ~overtaken
             PROVE  /\ call[p].req.realm = realmName
                    /\ call[p].found \in Rep =>
                         call[p].found.name = name /\ call[p].found.realm = realmName
                    /\ pin \in Ids => call[p].req.id \in {pin, Null}
  BY DEF WritesHitTarget
<1>1. call[p].req.realm = realmName
  BY DEF HereInv, AloneAsks
<1>2. call[p].found \in Rep => Ours(call[p].found)
  BY DEF HereInv, AloneKeeps
<1>3. /\ call[p].req.kind \in {"create", "put", "del", "use"}
      /\ call[p].req.id = Null \/ (call[p].found \in Rep /\ call[p].req.id = call[p].found.id)
  BY PartsAt DEF ReqAt
<1> QED
  BY <1>1, <1>2, <1>3 DEF Ours

LEMMA HereAlways == Spec => [](TypeInv /\ HereInv)
<1>1. Init => TypeInv /\ HereInv
  BY InitTypes, InitHere
<1>2. TypeInv /\ HereInv /\ [Next]_vars => TypeInv' /\ HereInv'
  BY NextTypes, NextHere
<1> QED
  BY <1>1, <1>2, PTL DEF Spec

\* What update(), delete(), ensure() and the dependent methods of a call that
\* nothing crossed write or use is the resource found under the handle's name in
\* its realm, or under the id the handle was given, however often the handle was
\* moved before and whichever calls shared it; only a handle that kept a lookup
\* made before it was moved is left out.
THEOREM WritesStayOnTarget == Spec => []WritesHitTarget
<1>1. TypeInv /\ HereInv => WritesHitTarget
  BY HereHits
<1> QED
  BY <1>1, HereAlways, PTL

-----------------------------------------------------------------------------
(* What a step does to the call that takes it                              *)

\* The operation goes on, with what it found.
GoesOn(p) ==
  /\ call'[p].op = call[p].op /\ call'[p].found = call[p].found
  /\ call'[p].since = call[p].since /\ call'[p].alone = call[p].alone

\* An operation asks; it takes what the cache has, or nothing; it returns from
\* its lookup; it sends what it resolved the resource for; it sends a dependent
\* request; it reads a write back; it asks again after a failure, or by id.
Asks(p)       == call'[p].pc = "lookup" /\ call'[p].ans = {Pending}
TakesCache(p) == /\ call'[p].pc = "looked"
                 /\ \/ call'[p].found = Undefined /\ call'[p].op \in Shapes
                    \/ call'[p].found \in Rep /\ UsesCache(call'[p].op)
Learns(p)     == /\ call[p].pc = "lookup" /\ IsAnswer(call[p].ans)
                 /\ call[p].op \notin {"get", "getById"}
                 /\ ~Ambiguous(p) /\ ~AsksAgain(p)
                 /\ name' = (IF Taken(p) # Null THEN Taken(p).name ELSE name)
                 /\ call'[p].pc = "looked" /\ call'[p].op = call[p].op
                 /\ call'[p].since = call[p].since /\ call'[p].alone = call[p].alone
                 /\ call'[p].found = Got(Taken(p))
Sends(p)      == /\ call[p].pc = "looked" /\ GoesOn(p)
                 /\ call'[p].pc \in {"partner", "write"} /\ call'[p].ans = {Pending}
                 /\ call'[p].req \in NextRequest(p, call[p].op, call[p].found)
SendsMore(p)  == /\ call[p].pc \in {"partner", "write"}
                 /\ call'[p].pc = "write" /\ call'[p].ans = {Pending}
                 /\ call'[p].op \in {"link", "linkThenRead", "pages", "profile", "refresh"}
                 /\ call'[p].found = call[p].found
                 /\ call[p].found = Null => kind = "realm"
                 /\ call'[p].req.kind = "use"
ReadsAgain(p) == /\ call[p].pc = "write" /\ call[p].ans = {Done} /\ GoesOn(p)
                 /\ call'[p].pc = "final" /\ call'[p].ans = {Pending}
                 /\ call'[p].req.kind = "byId" =>
                      \/ Has("readsUpdateById") /\ call[p].op = "update" /\ call[p].found \in Rep
                         /\ call'[p].req.id = call[p].found.id
                      \/ VisiblePin \in Ids /\ call'[p].req.id = VisiblePin
Retries(p)    == /\ call[p].pc \in {"partner", "write", "final"} /\ GoesOn(p)
                 /\ call'[p].pc = call[p].pc
                 /\ call[p].ans = {Pending} /\ call'[p].ans = {Pending}
                 /\ call[p].req.kind \in {"list", "byId", "use"}
                 /\ call'[p].req.kind = call[p].req.kind /\ call'[p].req.id = call[p].req.id
ChecksById(p) == /\ call[p].pc = "final" /\ IsAnswer(call[p].ans) /\ ~Ambiguous(p)
                 /\ Has("asksTwice")
                 /\ call'[p].pc = "final" /\ GoesOn(p) /\ call'[p].ans = {Pending}
                 /\ Taken(p) \in call[p].ans /\ Taken(p) \in Rep
                 /\ call'[p].req.id = Taken(p).id

Effect(p) ==
  \/ call'[p].pc = "idle"
  \/ Asks(p) \/ TakesCache(p) \/ Learns(p) \/ Sends(p) \/ SendsMore(p) \/ ReadsAgain(p)
  \/ Retries(p) \/ ChecksById(p)

\* A lookup of caller p that moves the handle crosses what the others do.
Crosses(p) ==
  /\ Learns(p) \/ call'[p].pc = "idle"
  /\ \A q \in Callers \ {p} : call[q].pc # "idle" => call'[q] = Crossing(call[q])

\* A step of caller p, the server's apart.
Acts(p) ==
  /\ p \in Usages[usage].callers
  /\ UNCHANGED <<usage, kind, realmName, realmGen, store, edits>>
  /\ overtaken => overtaken'
  /\ OthersStay(p)
  /\ ~(name' = name) => Crosses(p)
  /\ ~(pin' = pin) => Dropped \/ Crosses(p)
  /\ Effect(p)

LEMMA LooksPin ==
  ASSUME TypeInv, Looks, ~(pin' = pin) PROVE Dropped
<1>1. Stale /\ pin # Null
  BY DEF Looks, InvalidateParentCache, VisiblePin
<1>2. ~Has("keepsLate")
  BY <1>1, KindIs, KindTraits DEF TypeInv, IdentityOK
<1> QED
  BY <1>1, <1>2 DEF Dropped

LEMMA CallersBusy ==
  ASSUME TypeInv, NEW p \in Callers, call[p].pc # "idle" PROVE p \in Usages[usage].callers
BY PartsAt

LEMMA FinishActs ==
  ASSUME TypeInv, NEW p \in Callers, call[p].pc # "idle", Finish(p),
         UNCHANGED <<target, name, pin, store, edits>>
  PROVE  Acts(p)
<1>1. OthersStay(p) /\ call'[p].pc = "idle"
  BY IdleGoes DEF Finish, Goes
<1> QED
  BY <1>1, CallersBusy DEF Acts, Effect, target

LEMMA ResolveActs ==
  ASSUME TypeInv, NEW p \in Callers, p \in Usages[usage].callers,
         NEW op \in AllOps \ {"getById"},
         NEW since \in 0..edits, NEW alone \in BOOLEAN, Resolve(p, op, since, alone)
  PROVE  Acts(p)
<1>1. /\ UNCHANGED <<usage, kind, realmName, realmGen, overtaken, name, store, edits>>
      /\ ~(pin' = pin) => Dropped
  BY LooksPin, LooksAre DEF Resolve, target, server
<1>2. op \in AllOps \union {"profile", "none"} /\ "looked" \in Places /\ "lookup" \in Places
  BY DEF Places
<1>3. CASE ResolvesNothing(op)
  <2>1. Goes(p, New(op, "looked", Undefined, Null, since, alone))
    BY <1>3 DEF Resolve, New, Goes
  <2>2. Undefined \in Rep \union {Null, Undefined} /\ Null \in Request \union {Null}
    OBVIOUS
  <2>3. OthersStay(p) /\ call'[p].pc = "looked" /\ call'[p].found = Undefined /\ call'[p].op = op
    BY <1>2, <2>1, <2>2, NewGoes
  <2> QED
    BY <1>1, <1>3, <2>3 DEF Acts, Effect, TakesCache, ResolvesNothing
<1>4. CASE ~ResolvesNothing(op) /\ UsesCache(op) /\ VisibleRep \in Rep
  <2> DEFINE one == VisibleRep
  <2>1. Goes(p, New(op, "looked", one, Null, since, alone))
    BY <1>4 DEF Resolve, New, Goes
  <2>2. one \in Rep \union {Null, Undefined} /\ Null \in Request \union {Null} /\ one \in Rep
    BY <1>4
  <2> HIDE DEF one
  <2>3. /\ OthersStay(p) /\ call'[p].pc = "looked" /\ call'[p].found = one /\ call'[p].op = op
    BY <1>2, <2>1, <2>2, NewGoes
  <2> QED
    BY <1>1, <1>4, <2>2, <2>3 DEF Acts, Effect, TakesCache
<1>5. CASE ~ResolvesNothing(op) /\ ~(UsesCache(op) /\ VisibleRep \in Rep)
  <2> DEFINE req == Lookup
  <2>1. Goes(p, New(op, "lookup", Undefined, req, since, alone))
    BY <1>5 DEF Resolve, New, Goes
  <2>2. /\ req \in Request \union {Null} /\ Undefined \in Rep \union {Null, Undefined}
    BY LookupFields
  <2> HIDE DEF req
  <2>3. OthersStay(p) /\ call'[p].pc = "lookup" /\ call'[p].ans = {Pending}
    BY <1>2, <2>1, <2>2, NewGoes
  <2> QED
    BY <1>1, <2>3 DEF Acts, Effect, Asks
<1> QED
  BY <1>3, <1>4, <1>5

LEMMA BeginActs ==
  ASSUME TypeInv, NEW p \in Callers, NEW op \in AllOps \ {"getById"}, Begin(p, op)
  PROVE  Acts(p)
<1>1. edits \in 0..edits
  BY Numbers
<1> QED
  BY <1>1, ResolveActs DEF Begin

LEMMA ReadDependentActs ==
  ASSUME TypeInv, NEW p \in Callers, ReadDependent(p) PROVE Acts(p)
<1>1. /\ p \in Usages[usage].callers /\ call[p].since \in 0..edits /\ call[p].alone \in BOOLEAN
  BY PartsAt DEF ReadDependent, Answered
<1>2. "use" \in AllOps \ {"getById"}
  BY DEF AllOps
<1> QED
  BY <1>1, <1>2, ResolveActs DEF ReadDependent

LEMMA BeginGetByIdActs ==
  ASSUME TypeInv, NEW p \in Callers, NEW i \in Ids, BeginGetById(p, i) PROVE Acts(p)
<1> DEFINE req == ById(i)
           lone == TRUE
<1>1. Goes(p, New("getById", "lookup", Undefined, req, edits, lone))
  BY DEF BeginGetById, New, Goes
<1>2. /\ req \in Request \union {Null}
      /\ "getById" \in AllOps \union {"profile", "none"} /\ "lookup" \in Places
      /\ edits \in 0..edits /\ Undefined \in Rep \union {Null, Undefined}
  BY ByIdFields, Numbers DEF AllOps, Places
<1> HIDE DEF req
<1>3. lone \in BOOLEAN
  OBVIOUS
<1> HIDE DEF lone
<1>4. OthersStay(p) /\ call'[p].pc = "lookup" /\ call'[p].ans = {Pending}
  BY <1>1, <1>2, <1>3, NewGoes, SMTT(30)
<1>5. ~(pin' = pin) => Dropped
  BY LooksPin, LooksAre DEF BeginGetById
<1> QED
  BY <1>4, <1>5 DEF Acts, Effect, Asks, BeginGetById, server

LEMMA ResendActs == ASSUME TypeInv, NEW p \in Callers, Resend(p) PROVE Acts(p)
<1> DEFINE req == Reread(call[p].req)
<1>1. /\ req \in Request /\ req.kind = call[p].req.kind /\ req.id = call[p].req.id
      /\ Goes(p, [call[p] EXCEPT !.req = req, !.ans = {Pending}])
      /\ call[p].req \in Request
  BY ResendGoes
<1>2. call[p].req.kind \in {"list", "byId", "use"}
  BY <1>1, RequestFields DEF Resend, Rereads
<1> HIDE DEF req
<1>3. /\ OthersStay(p) /\ GoesOn(p) /\ call'[p].pc = call[p].pc
      /\ call'[p].req = req /\ call'[p].ans = {Pending}
  BY <1>1, AgainGoes DEF GoesOn
<1>4. /\ call[p].pc \in {"lookup", "partner", "write", "final"} /\ call[p].ans = {Pending}
      /\ p \in Usages[usage].callers
  BY PartsAt DEF Resend, Places
<1>5. UNCHANGED <<usage, kind, realmName, realmGen, overtaken, name, pin, store, edits>>
  BY DEF Resend, target, cache, server
<1>6. Effect(p)
  BY <1>1, <1>2, <1>3, <1>4 DEF Effect, Asks, Retries
<1> QED
  BY <1>3, <1>4, <1>5, <1>6, SMTT(30) DEF Acts

LEMMA ReadByIdActs == ASSUME TypeInv, NEW p \in Callers, ReadById(p) PROVE Acts(p)
<1> DEFINE req == [call[p].req EXCEPT !.kind = "byId", !.id = Taken(p).id]
<1>1. /\ req \in Request /\ req.id = Taken(p).id /\ Has("asksTwice")
      /\ Goes(p, [call[p] EXCEPT !.req = req, !.ans = {Pending}])
      /\ call[p].pc \in LookingUp /\ Taken(p) \in call[p].ans /\ Taken(p) \in Rep
  BY ReadByIdGoes
<1> HIDE DEF req
<1>2. /\ OthersStay(p) /\ GoesOn(p) /\ call'[p].pc = call[p].pc
      /\ call'[p].req = req /\ call'[p].ans = {Pending}
  BY <1>1, AgainGoes DEF GoesOn
<1>3. IsAnswer(call[p].ans) /\ ~Ambiguous(p) /\ p \in Usages[usage].callers
  BY <1>1, CallersBusy DEF ReadById, AsksAgain, Answered, IsAnswer, LookingUp
<1>4. UNCHANGED <<usage, kind, realmName, realmGen, overtaken, name, pin, store, edits>>
  BY DEF ReadById, target, cache, server
<1>5. Effect(p)
  BY <1>1, <1>2, <1>3 DEF Effect, Asks, ChecksById, LookingUp
<1> QED
  BY <1>2, <1>3, <1>4, <1>5, SMTT(30) DEF Acts

LEMMA GetReturnsActs == ASSUME TypeInv, NEW p \in Callers, GetReturns(p) PROVE Acts(p)
<1>1. /\ IsAnswer(call[p].ans) /\ ~Ambiguous(p) /\ ~AsksAgain(p)
      /\ UNCHANGED <<usage, kind, realmName, realmGen, store, edits>>
      /\ overtaken => overtaken'
      /\ name' = IF Taken(p) # Null THEN Taken(p).name ELSE name
      /\ p \in Usages[usage].callers
  BY CallersBusy DEF GetReturns, Answered, IsAnswer, WriteBack, server
<1>2. Learns(p) \/ call'[p].pc = "idle"
  BY <1>1, GetReturnsGoes DEF Learns
<1>3. Effect(p)
  BY <1>2 DEF Effect
<1> QED
  BY <1>1, <1>2, <1>3, GetReturnsGoes DEF Acts, Crosses

LEMMA ResumeActs == ASSUME TypeInv, NEW p \in Callers, Resume(p) PROVE Acts(p)
<1>1. /\ call[p].pc = "looked" /\ UNCHANGED <<target, name, pin, store, edits>>
      /\ UNCHANGED <<usage, kind, realmName, realmGen, overtaken>>
  BY DEF Resume, cache, server, target
<1>2. ASSUME NEW req \in NextRequest(p, call[p].op, call[p].found),
             call' = Move(p, IF req.kind = "partner" THEN "partner" ELSE "write",
                          call[p].found, req)
      PROVE  Acts(p)
  <2> DEFINE pc == IF req.kind = "partner" THEN "partner" ELSE "write"
             op == call[p].op
             one == call[p].found
             since == call[p].since
             alone == call[p].alone
  <2>1. Goes(p, New(op, pc, one, req, since, alone))
    BY <1>2 DEF Goes, Move, New
  <2>2. /\ op \in AllOps \union {"profile", "none"} /\ one \in Rep \union {Null, Undefined}
        /\ since \in 0..edits /\ alone \in BOOLEAN
        /\ req \in Request \union {Null} /\ pc \in Places /\ pc \in {"partner", "write"}
    BY <1>1, PartsAt, SentParts DEF Places
  <2> HIDE DEF op, pc, one, since, alone
  <2>3. /\ OthersStay(p)
        /\ call'[p].op = op /\ call'[p].pc = pc /\ call'[p].found = one /\ call'[p].req = req
        /\ call'[p].ans = {Pending} /\ call'[p].since = since /\ call'[p].alone = alone
    BY <2>1, <2>2, NewGoes, ZenonT(60)
  <2>4. Sends(p)
    BY <1>1, <2>2, <2>3 DEF Sends, GoesOn, op, one, since, alone
  <2> QED
    BY <1>1, <2>3, <2>4, CallersBusy DEF Acts, Effect
<1>3. CASE Finish(p)
  BY <1>1, <1>3, FinishActs
<1> QED
  BY <1>2, <1>3 DEF Resume

\* A dependent request.
LEMMA UseActs ==
  ASSUME TypeInv, NEW p \in Callers, call[p].pc \in {"partner", "write"},
         UNCHANGED <<target, name, pin, store, edits>>,
         NEW op \in {"link", "linkThenRead", "pages", "profile", "refresh"},
         NEW one \in Rep \union {Undefined}, one = Undefined => kind = "realm",
         call[p].found = Null => kind = "realm",
         Goes(p, New(op, "write", call[p].found, Use(one), call[p].since, call[p].alone))
  PROVE  Acts(p)
<1> DEFINE req == Use(one)
           found == call[p].found
           since == call[p].since
           alone == call[p].alone
<1>1. req \in Request /\ req.kind = "use"
  BY KindIs, KindTraits, UseFields
<1>2. Goes(p, New(op, "write", found, req, since, alone))
  OBVIOUS
<1>3. /\ found \in Rep \union {Null, Undefined} /\ since \in 0..edits /\ alone \in BOOLEAN
  BY PartsAt
<1> HIDE DEF req, found, since, alone
<1>4. "write" \in Places /\ req \in Request \union {Null} /\ op \in AllOps \union {"profile", "none"}
  BY <1>1 DEF Places, AllOps
<1> DEFINE place == "write"
<1>5. /\ OthersStay(p) /\ call'[p].pc = place /\ call'[p].ans = {Pending}
      /\ call'[p].op = op /\ call'[p].found = found /\ call'[p].req = req
  <2>1. place \in Places /\ Goes(p, New(op, place, found, req, since, alone))
    BY <1>2, <1>4
  <2> HIDE DEF place
  <2>2. ASSUME NEW o \in AllOps \union {"profile", "none"},
               Goes(p, New(o, place, found, req, since, alone))
        PROVE  /\ OthersStay(p) /\ call'[p].pc = place /\ call'[p].ans = {Pending}
               /\ call'[p].op = o /\ call'[p].found = found /\ call'[p].req = req
    BY <1>3, <1>4, <2>1, <2>2, NewGoes
  <2> QED
    BY <1>4, <2>1, <2>2
<1>6. SendsMore(p)
  BY <1>1, <1>5 DEF SendsMore, found
<1> QED
  BY <1>5, <1>6, CallersBusy DEF Acts, Effect, target

LEMMA PartnerResolvedActs ==
  ASSUME TypeInv, NEW p \in Callers, PartnerResolved(p) PROVE Acts(p)
<1>1. call[p].pc = "partner" /\ UNCHANGED <<target, name, pin, store, edits>>
  BY DEF PartnerResolved, Answered, cache, server
<1>2. /\ call[p].op \in {"link", "linkThenRead"}
      /\ call[p].found \in Rep \union {Undefined} /\ call[p].found # Null
      /\ call[p].found = Undefined => kind = "realm"
  BY <1>1, PartsAt DEF OpAt
<1>3. Goes(p, New(call[p].op, "write", call[p].found, Use(call[p].found),
                  call[p].since, call[p].alone))
  BY DEF PartnerResolved, Goes, Move, New
<1>4. call[p].op \in {"link", "linkThenRead", "pages", "profile", "refresh"}
  BY <1>2
<1> QED
  BY <1>1, <1>2, <1>3, <1>4, UseActs

LEMMA NextPageActs == ASSUME TypeInv, NEW p \in Callers, NextPage(p) PROVE Acts(p)
<1>1. call[p].pc = "write" /\ call[p].op = "pages" /\ UNCHANGED <<target, name, pin, store, edits>>
  BY DEF NextPage, Answered, cache, server
<1>2. /\ call[p].found \in Rep \union {Undefined} /\ call[p].found # Null
      /\ call[p].found = Undefined => kind = "realm"
  BY <1>1, PartsAt DEF OpAt
<1>3. Goes(p, New(call[p].op, "write", call[p].found, Use(call[p].found),
                  call[p].since, call[p].alone))
  BY DEF NextPage, Goes, Move, New
<1>4. call[p].op \in {"link", "linkThenRead", "pages", "profile", "refresh"}
  BY <1>1
<1> QED
  BY <1>1, <1>2, <1>3, <1>4, UseActs

LEMMA EnsureProfileActs == ASSUME TypeInv, NEW p \in Callers, EnsureProfile(p) PROVE Acts(p)
<1>1. call[p].pc = "write" /\ UNCHANGED <<target, name, pin, store, edits>>
  BY DEF EnsureProfile, Answered, cache, server
<1>2. PICK op \in {"profile", "refresh"} :
        /\ kind = "realm"
        /\ Goes(p, New(op, "write", call[p].found, Use(Undefined), call[p].since, call[p].alone))
  BY EnsureProfileGoes
<1>3. /\ op \in {"link", "linkThenRead", "pages", "profile", "refresh"}
      /\ Undefined \in Rep \union {Undefined}
  OBVIOUS
<1> QED
  BY <1>1, <1>2, <1>3, UseActs

LEMMA ReadBackActs == ASSUME TypeInv, NEW p \in Callers, ReadBack(p) PROVE Acts(p)
<1>1. /\ call[p].pc = "write" /\ UNCHANGED <<target, name, store, edits>>
      /\ UNCHANGED <<usage, kind, realmName, realmGen, overtaken>>
      /\ ~(pin' = pin) => Dropped
      /\ IsAnswer(call[p].ans) /\ p \in Usages[usage].callers
  BY CallersBusy, LooksPin, LooksAre DEF ReadBack, Answered, IsAnswer, server, target
<1>2. call[p].ans = {Done}
  BY <1>1, PartsAt DEF AnsAt
<1>3. CASE UsesCache("get") /\ VisibleRep \in Rep
  <2>1. OthersStay(p) /\ call'[p].pc = "idle"
    BY <1>3, IdleGoes DEF ReadBack, Goes
  <2> QED
    BY <1>1, <2>1 DEF Acts, Effect
<1>4. CASE ~(UsesCache("get") /\ VisibleRep \in Rep)
  <2>1. OthersStay(p) /\ ReadsAgain(p)
    BY <1>1, <1>2, <1>4, ReadBackGoes DEF ReadsAgain, GoesOn
  <2> QED
    BY <1>1, <2>1 DEF Acts, Effect
<1> QED
  BY <1>3, <1>4

LEMMA StepActs == ASSUME TypeInv, NEW p \in Callers, Step(p) PROVE Acts(p)
<1>1. Throw(p) \/ Used(p) \/ Deleted(p) =>
        /\ call[p].pc # "idle" /\ Finish(p) /\ UNCHANGED <<target, name, pin, store, edits>>
  BY DEF Throw, Used, Deleted, Answered, cache, server
<1> QED
  BY <1>1, FinishActs, ReadByIdActs, GetReturnsActs, ResumeActs, PartnerResolvedActs,
     EnsureProfileActs, ReadBackActs, ReadDependentActs, NextPageActs DEF Step

\* The steps, by who takes them.
LEMMA StepsAre ==
  ASSUME TypeInv, [Next]_vars
  PROVE  \/ \E p \in Callers : Acts(p)
         \/ \E p \in Callers : Serve(p)
         \/ UNCHANGED <<kind, store>> /\ call' = Disturb(call, {})
         \/ Admin
         \/ UNCHANGED vars
BY BeginActs, BeginGetByIdActs, ResendActs, StepActs DEF Next, Rebind, RebindRealm, server

\* The server answers caller p.
LEMMA ServeParts ==
  ASSUME TypeInv, NEW p \in Callers, Serve(p)
  PROVE  LET req == call[p].req
             ans == call'[p].ans
         IN  /\ call[p].pc \in {"lookup", "partner", "write", "final"} /\ call[p].ans = {Pending}
             /\ UNCHANGED <<usage, kind, realmName, realmGen, overtaken, name, rep, pin, seen, edits>>
             /\ OthersStay(p)
             /\ store' # store =>
                  \A q \in Callers \ {p} : call[q].pc # "idle" => call'[q] = Crossing(call[q])
             /\ GoesOn(p) /\ call'[p].pc = call[p].pc /\ call'[p].req = req
             /\ req \in Request /\ ans # {Pending}
             /\ store' = store \/ (call[p].pc = "write" /\ store' \in Applied(req))
             /\ ans # {Failed} /\ call[p].pc \in LookingUp =>
                  /\ store' = store
                  /\ req.kind = "list" /\ kind = "clientScope" =>
                       ans = {x \in Live(store) : x.realm = req.realm}
                  /\ req.kind = "list" /\ kind # "clientScope" =>
                       ans = Held(store, req.realm, req.name)
                  /\ req.kind = "byId" =>
                       ans = {x \in Live(store) : x.realm = req.realm /\ x.id = req.id}
             /\ ans # {Failed} /\ call[p].pc = "write" => store' \in Applied(req) /\ ans = {Done}
<1>1. PICK outcome \in Outcomes(call[p].req) :
        LET answered == [call EXCEPT ![p].ans = outcome[2]]
        IN  /\ store' = outcome[1]
            /\ call' = IF outcome[1] = store THEN answered ELSE Disturb(answered, {p})
  BY DEF Serve
<1> DEFINE r == [call[p] EXCEPT !.ans = outcome[2]]
           req == call[p].req
<1>2. /\ call' = IF store' = store THEN [call EXCEPT ![p] = r] ELSE Disturb([call EXCEPT ![p] = r], {p})
      /\ store' = outcome[1]
  BY <1>1
<1>3. /\ r \in Call /\ outcome[2] # {Pending}
      /\ r.op = call[p].op /\ r.pc = call[p].pc /\ r.found = call[p].found
      /\ r.req = call[p].req /\ r.since = call[p].since /\ r.alone = call[p].alone
      /\ r.ans = outcome[2]
  <2>1. call[p].pc \notin {"idle", "looked"}
    BY DEF Serve
  <2>2. r = [call[p] EXCEPT !.ans = outcome[2]]
    OBVIOUS
  <2> HIDE DEF r
  <2> USE <2>1, <2>2
  <2>3. r.alone = call[p].alone
    BY AnswerShape
  <2>4. Shape(p, r) /\ outcome[2] # {Pending} /\ r.ans = outcome[2] /\ r.since = call[p].since
    BY AnswerShape
  <2>5. r.op = call[p].op /\ r.pc = call[p].pc /\ r.found = call[p].found /\ r.req = call[p].req
    BY AnswerShape
  <2> QED
    BY <2>3, <2>4, <2>5 DEF Shape
<1> HIDE DEF r
<1>4. Goes(p, r) /\ call \in [Callers -> Call]
  BY <1>2 DEF Goes, TypeInv, CallsOK
<1>5. OthersStay(p) /\ call'[p] = r
  BY <1>3, <1>4, GoesParts DEF OthersStay
<1>6. store' # store =>
        \A q \in Callers \ {p} : call[q].pc # "idle" => call'[q] = Crossing(call[q])
  BY <1>2, <1>3, <1>4, DisturbedGoes
<1>7. /\ call[p].pc \in {"lookup", "partner", "write", "final"} /\ call[p].ans = {Pending}
      /\ req \in Request
      /\ call[p].pc \in LookingUp => req.kind \in {"list", "byId"}
      /\ call[p].pc = "partner" => req.kind = "partner"
      /\ call[p].pc = "write" => req.kind \in {"create", "put", "del", "use"}
  BY PartsAt DEF Serve, ReqAt, Places
<1>8. store' = store \/ (call[p].pc = "write" /\ store' \in Applied(req))
  <2>1. CASE outcome[2] = {Failed}
    <3>1. outcome \in {<<store, {Failed}>>} \union Applied(req) \X {{Done}, {Failed}}
             \/ store' = store
      BY <1>2, <1>7 DEF Outcomes
    <3>2. req.kind \notin {"create", "put", "del", "use"} => store' = store
      <4>1. req.kind \in {"list", "byId", "partner"} => outcome[1] = store
        BY DEF Outcomes
      <4> QED
        BY <1>2, <1>7, <4>1 DEF LookingUp
    <3> QED
      BY <1>2, <1>7, <3>1, <3>2 DEF LookingUp
  <2>2. CASE outcome[2] # {Failed}
    BY <1>2, <1>7, <2>2, OutcomesAre DEF LookingUp
  <2> QED
    BY <2>1, <2>2
<1>9. outcome[2] # {Failed} /\ call[p].pc \in LookingUp =>
        /\ store' = store
        /\ req.kind = "list" /\ kind = "clientScope" =>
             outcome[2] = {x \in Live(store) : x.realm = req.realm}
        /\ req.kind = "list" /\ kind # "clientScope" => outcome[2] = Held(store, req.realm, req.name)
        /\ req.kind = "byId" =>
             outcome[2] = {x \in Live(store) : x.realm = req.realm /\ x.id = req.id}
  BY <1>2, <1>7, OutcomesAre
<1>10. outcome[2] # {Failed} /\ call[p].pc = "write" =>
         store' \in Applied(req) /\ outcome[2] = {Done}
  BY <1>2, <1>7, OutcomesAre
<1>11. UNCHANGED <<usage, kind, realmName, realmGen, overtaken, name, rep, pin, seen, edits>>
  BY DEF Serve, target, cache
<1> QED
  BY <1>3, <1>5, <1>6, <1>7, <1>8, <1>9, <1>10, <1>11 DEF GoesOn

-----------------------------------------------------------------------------
(* Updates keep what others edited                                         *)

LEMMA LooksUpUncached ==
  ASSUME TypeInv, NEW op, LooksUpFirst(op)
  PROVE  op \in {"update", "ensure"} /\ op \notin Shapes /\ ~UsesCache(op)
<1>1. op \in {"update", "ensure"} /\ op \notin Shapes
  BY DEF LooksUpFirst, Shapes
<1>2. /\ op = "update" => kind \in {"client", "clientScope", "identityProvider", "group", "user", "realm"}
      /\ op = "ensure" => kind # "workflow"
  BY DEF LooksUpFirst
<1>3. ~Has("servesCache") /\ (op = "update" => ~Has("trustsCache"))
  BY <1>1, <1>2, KindIs, KindTraits
<1> QED
  BY <1>1, <1>3 DEF UsesCache

\* The calls that a step leaves, or takes its being alone from.
LEMMA OthersFresh ==
  ASSUME TypeInv, FreshInv, UNCHANGED <<kind, store>>, NEW q \in Callers,
         call'[q] = call[q] \/ call'[q] = Crossing(call[q])
  PROVE  FreshCall(call[q])' /\ KeyedCall(call[q])'
<1>1. call[q] \in Call /\ FreshCall(call[q]) /\ KeyedCall(call[q])
  BY DEF TypeInv, CallsOK, FreshInv
<1>2. CASE call'[q] = call[q]
  BY <1>1, <1>2 DEF FreshCall, KeyedCall, Kept, LooksUpFirst, Has
<1>3. CASE call'[q] = Crossing(call[q])
  <2>1. Crossing(call[q]).alone = FALSE
    BY <1>1, Crossed
  <2>2. ~call'[q].alone
    BY <1>3, <2>1
  <2> QED
    BY <2>2 DEF FreshCall, KeyedCall
<1> QED
  BY <1>2, <1>3

LEMMA ActsFresh ==
  ASSUME TypeInv, HereInv, FreshInv, NEW p \in Callers, Acts(p) PROVE FreshInv'
<1>1. UNCHANGED <<usage, kind, store>> /\ OthersStay(p) /\ Effect(p)
  BY DEF Acts
<1>2. \A q \in Callers \ {p} : FreshCall(call[q])' /\ KeyedCall(call[q])'
  BY <1>1, OthersFresh DEF OthersStay
<1>3. \A op : LooksUpFirst(op) => op \in {"update", "ensure"} /\ op \notin Shapes /\ ~UsesCache(op)
  BY LooksUpUncached
<1>4. \A op : LooksUpFirst(op)' <=> LooksUpFirst(op)
  BY <1>1 DEF LooksUpFirst
<1>5. \A x, since : Kept(x, since)' <=> Kept(x, since)
  BY <1>1 DEF Kept
<1>6. FreshCall(call[p]) /\ KeyedCall(call[p])
  BY DEF FreshInv
<1>7. ~IsAnswer({Pending})
  BY Marks
<1>8. FreshCall(call[p])' /\ KeyedCall(call[p])'
  <2>1. CASE call'[p].pc = "idle" \/ Asks(p) \/ ReadsAgain(p) \/ ChecksById(p)
    BY <1>7, <2>1 DEF Asks, ReadsAgain, ChecksById, FreshCall, KeyedCall
  <2>2. CASE TakesCache(p)
    <3>1. ~LooksUpFirst(call'[p].op)
      BY <1>3, <2>2 DEF TakesCache
    <3>2. ~LooksUpFirst(call[p].op)'
      BY <1>4, <3>1 DEF LooksUpFirst
    <3> QED
      BY <2>2, <3>2 DEF TakesCache, FreshCall, KeyedCall
  <2>3. CASE Learns(p)
    <3>1. /\ Answered(p, LookingUp)
      BY <2>3 DEF Learns, Answered, IsAnswer, LookingUp
    <3>2. call'[p].found \in Rep => call'[p].found \in call[p].ans
      BY <2>3, <3>1, TakenIs, GotIs, Marks DEF Learns
    <3>3. ASSUME call[p].alone, LooksUpFirst(call[p].op), call'[p].found \in Rep
          PROVE  Kept(call'[p].found, call[p].since)
      BY <1>6, <2>3, <3>2, <3>3 DEF FreshCall, Learns
    <3>4. ASSUME call'[p].alone, LooksUpFirst(call[p].op)', call'[p].found \in Rep
          PROVE  Kept(call[p].found, call[p].since)'
      <4>1. LooksUpFirst(call[p].op)
        BY <1>1, <2>3, <3>4 DEF Learns, LooksUpFirst
      <4>2. Kept(call'[p].found, call[p].since)
        BY <2>3, <3>3, <3>4, <4>1 DEF Learns
      <4> QED
        BY <1>1, <2>3, <4>2 DEF Kept, Learns
    <3> QED
      BY <2>3, <3>4 DEF Learns, FreshCall, KeyedCall
  <2>4. CASE Sends(p)
    <3>1. FreshCall(call[p])'
      <4>1. ASSUME call'[p].alone, LooksUpFirst(call[p].op)', call'[p].found \in Rep
            PROVE  Kept(call[p].found, call[p].since)'
        BY <1>1, <1>6, <2>4, <4>1 DEF Sends, GoesOn, FreshCall, Kept, LooksUpFirst
      <4> QED
        BY <2>4, <4>1 DEF Sends, FreshCall
    <3>2. ASSUME call'[p].alone, call'[p].req.kind = "put", Has("keyedByName")
          PROVE  call'[p].req.key = call'[p].found.name
      <4> DEFINE req == call'[p].req
                 op == call[p].op
                 one == call[p].found
      <4>1. /\ op \in {"update", "ensure", "rewrite"} /\ one \in Rep
            /\ ~Has("namedLive") => req.key = one.name
            /\ call[p].alone
        BY <2>4, <3>2, SentParts DEF Sends, GoesOn
      <4>2. ASSUME Has("namedLive") PROVE req.key = one.name
        <5>1. kind = "realm" /\ op \in {"update", "ensure"}
          BY <4>1, <4>2, KindIs, KindTraits, PartsAt DEF OpAt
        <5>2. op \notin Shapes
          BY <5>1 DEF Shapes
        <5>3. Ours(one)
          BY <2>4, <4>1, <5>1, <5>2, RealmCaches DEF HereInv, AloneKeeps, Sends
        <5>4. req = Put(p, one)
          BY <2>4, <3>2, <5>1, NextRequestIs, CreateFields DEF Sends
        <5>5. Put(p, one).key = name
          BY <4>1, <4>2, PutFields, KeyTypes
        <5> QED
          BY <5>3, <5>4, <5>5 DEF Ours
      <4> QED
        BY <2>4, <4>1, <4>2 DEF Sends, GoesOn
    <3>3. KeyedCall(call[p])'
      BY <1>1, <3>2 DEF KeyedCall, Has
    <3> QED
      BY <3>1, <3>3
  <2>5. CASE SendsMore(p)
    <3>1. ~LooksUpFirst(call[p].op)'
      BY <2>5 DEF SendsMore, LooksUpFirst
    <3> QED
      BY <2>5, <3>1 DEF SendsMore, FreshCall, KeyedCall
  <2>6. CASE Retries(p)
    <3>1. FreshCall(call[p])'
      BY <1>1, <1>6, <2>6 DEF Retries, GoesOn, FreshCall, Kept, LooksUpFirst
    <3>2. KeyedCall(call[p])'
      BY <2>6 DEF Retries, KeyedCall
    <3> QED
      BY <3>1, <3>2
  <2> QED
    BY <1>1, <2>1, <2>2, <2>3, <2>4, <2>5, <2>6 DEF Effect
<1> QED
  BY <1>2, <1>8 DEF FreshInv

\* A call that is not crossed, while the server keeps what it kept.
LEMMA KeptFresh ==
  ASSUME TypeInv, FreshInv, UNCHANGED kind, NEW q \in Callers, call'[q] = call[q],
         \A x \in Rep : \A since \in 0..edits : Kept(x, since) => Kept(x, since)'
  PROVE  FreshCall(call[q])' /\ KeyedCall(call[q])'
<1>1. /\ FreshCall(call[q]) /\ KeyedCall(call[q]) /\ call[q].since \in 0..edits
      /\ AnsAt(call[q])
  BY PartsAt DEF FreshInv
<1>2. KeyedCall(call[q])'
  BY <1>1 DEF KeyedCall, Has
<1>3. ASSUME call[q].alone, LooksUpFirst(call[q].op), call[q].pc = "lookup", IsAnswer(call[q].ans),
             NEW x \in call[q].ans
      PROVE  Kept(x, call[q].since)'
  <2>1. x \in Rep
    BY <1>1, <1>3 DEF AnsAt, LookingUp
  <2>2. Kept(x, call[q].since)
    BY <1>1, <1>3 DEF FreshCall
  <2> DEFINE since == call[q].since
  <2>3. since' = since
    OBVIOUS
  <2>4. \A n \in 0..edits : Kept(x, n) => Kept(x, n)'
    BY <2>1
  <2> QED
    BY <1>1, <2>2, <2>4 DEF Kept
<1>4. ASSUME call[q].alone, LooksUpFirst(call[q].op), call[q].found \in Rep,
             call[q].pc = "looked" \/ (call[q].pc = "write" /\ call[q].ans = {Pending})
      PROVE  Kept(call[q].found, call[q].since)'
  <2>1. Kept(call[q].found, call[q].since)
    BY <1>1, <1>4 DEF FreshCall
  <2> QED
    BY <1>1, <1>4, <2>1 DEF Kept
<1>5. FreshCall(call[q])'
  BY <1>3, <1>4 DEF FreshCall, LooksUpFirst
<1> QED
  BY <1>2, <1>5

LEMMA MovesFresh ==
  ASSUME TypeInv, call' = Disturb(call, {}) PROVE FreshInv'
<1>1. \A q \in Callers : call'[q].pc # "idle" => ~call'[q].alone
  BY MovedCalls
<1>2. \A q \in Callers : FreshCall(call[q])' /\ KeyedCall(call[q])'
  BY <1>1 DEF FreshCall, KeyedCall
<1> QED
  BY <1>2 DEF FreshInv

LEMMA AdminFresh == ASSUME TypeInv, FreshInv, Admin PROVE FreshInv'
<1>1. PICK i \in Ids : AdminEdits(i) \/ AdminReplaces(i)
  BY DEF Admin
<1>2. CASE AdminReplaces(i)
  BY <1>2, MovesFresh DEF AdminReplaces
<1>3. CASE AdminEdits(i)
  <2>1. /\ call' = call /\ UNCHANGED kind /\ store[i] \in Rep
        /\ store' = [store EXCEPT ![i] = [store[i] EXCEPT !.other = edits + 1]]
        /\ store \in [Ids -> Rep \union {Unissued, Gone}]
    BY <1>3 DEF AdminEdits, Admin, target, TypeInv, Sound
  <2>2. /\ \A j \in Ids \ {i} : store'[j] = store[j]
        /\ store'[i] \in Rep /\ store'[i].realm = store[i].realm
        /\ store'[i].name = store[i].name /\ store'[i].other = edits + 1
    <3>1. edits + 1 \in 0..MaxEdits
      BY Numbers DEF Admin
    <3> QED
      BY <2>1, <3>1 DEF Rep
  <2>3. ASSUME NEW x \in Rep, NEW since \in 0..edits, Kept(x, since) PROVE Kept(x, since)'
    <3>1. x.id \in Ids /\ edits + 1 > since
      BY RepFields, Numbers
    <3>2. CASE x.id = i
      BY <2>2, <2>3, <3>1, <3>2 DEF Kept
    <3>3. CASE x.id # i
      BY <2>2, <2>3, <3>1, <3>3 DEF Kept
    <3> QED
      BY <3>2, <3>3
  <2> QED
    BY <2>1, <2>3, KeptFresh DEF FreshInv
<1> QED
  BY <1>1, <1>2, <1>3

LEMMA ServeFresh == ASSUME TypeInv, FreshInv, NEW p \in Callers, Serve(p) PROVE FreshInv'
<1> DEFINE req == call[p].req
           ans == call'[p].ans
<1>1. /\ call[p].pc \in {"lookup", "partner", "write", "final"} /\ call[p].ans = {Pending}
      /\ UNCHANGED <<usage, kind, edits>> /\ OthersStay(p)
      /\ store' # store =>
           \A q \in Callers \ {p} : call[q].pc # "idle" => call'[q] = Crossing(call[q])
      /\ GoesOn(p) /\ call'[p].pc = call[p].pc /\ call'[p].req = req
      /\ ans # {Pending}
  BY ServeParts
<1>2. ASSUME NEW q \in Callers \ {p} PROVE FreshCall(call[q])' /\ KeyedCall(call[q])'
  <2>1. CASE store' = store
    BY <1>1, <2>1, OthersFresh DEF OthersStay
  <2>2. CASE store' # store /\ call[q].pc # "idle"
    <3>1. call[q] \in Call /\ call'[q] = Crossing(call[q])
      BY <1>1, <2>2 DEF TypeInv, CallsOK
    <3>2. Crossing(call[q]).alone = FALSE
      BY <3>1, Crossed
    <3>3. ~call'[q].alone
      BY <3>1, <3>2
    <3> QED
      BY <3>3 DEF FreshCall, KeyedCall
  <2>3. CASE call[q].pc = "idle"
    <3>1. call'[q].pc = "idle"
      BY <1>1, <2>3 DEF OthersStay
    <3> QED
      BY <3>1 DEF FreshCall, KeyedCall
  <2> QED
    BY <2>1, <2>2, <2>3
<1>3. KeyedCall(call[p])'
  BY <1>1 DEF FreshInv, KeyedCall, GoesOn, Has
<1>4. FreshCall(call[p])'
  <2>1. call'[p].pc # "looked" /\ ~(call'[p].pc = "write" /\ call'[p].ans = {Pending})
    BY <1>1
  <2>2. ASSUME call[p].pc = "lookup", IsAnswer(ans), NEW x \in ans
        PROVE  Kept(x, call[p].since)'
    <3>1. /\ ans # {Failed} /\ call[p].pc \in LookingUp /\ req.kind \in {"list", "byId"}
      BY <2>2, PartsAt DEF IsAnswer, LookingUp, ReqAt
    <3>2. /\ store' = store
          /\ \/ ans = {y \in Live(store) : y.realm = req.realm}
             \/ ans = Held(store, req.realm, req.name)
             \/ ans = {y \in Live(store) : y.realm = req.realm /\ y.id = req.id}
      BY <3>1, ServeParts
    <3>3. x \in Live(store)
      BY <2>2, <3>2 DEF Held
    <3> QED
      BY <3>2, <3>3, LiveAre DEF Kept, TypeInv
  <2> QED
    BY <1>1, <2>1, <2>2 DEF FreshCall
<1> QED
  BY <1>2, <1>3, <1>4 DEF FreshInv

LEMMA NextFresh == ASSUME TypeInv, HereInv, FreshInv, [Next]_vars PROVE FreshInv'
<1>1. CASE UNCHANGED vars
  <2>1. call' = call /\ UNCHANGED kind /\ store' = store
    BY <1>1 DEF vars
  <2> QED
    BY <2>1, KeptFresh DEF FreshInv, Kept
<1> QED
  BY <1>1, StepsAre, ActsFresh, ServeFresh, MovesFresh, AdminFresh

LEMMA InitFresh == ASSUME Init PROVE FreshInv
BY DEF Init, Idle, FreshInv, FreshCall, KeyedCall

LEMMA FreshAlways == Spec => [](TypeInv /\ HereInv /\ FreshInv)
<1>1. Init => TypeInv /\ HereInv /\ FreshInv
  BY InitTypes, InitHere, InitFresh
<1>2. TypeInv /\ HereInv /\ FreshInv /\ [Next]_vars => (TypeInv /\ HereInv /\ FreshInv)'
  BY NextTypes, NextHere, NextFresh
<1> QED
  BY <1>1, <1>2, PTL DEF Spec

\* What a create or an update writes, and over what.
LEMMA AppliedWrites ==
  ASSUME TypeInv, NEW req \in Request, NEW s \in Applied(req), req.kind \in {"create", "put"}
  PROVE  \E i \in Ids :
           /\ s[i] \in Rep /\ s[i].id = i /\ s[i].realm = req.realm /\ s[i].name = req.name
           /\ s[i].mine = req.mine
           /\ \A j \in Ids \ {i} : s[j] = store[j]
           /\ req.kind = "create" => store[i] = Unissued /\ NameFree(req.realm, req.name)
           /\ req.kind = "put" => s[i].other = req.other /\ store[i] \in Addressed(req)
<1>1. /\ Sound(store) /\ 0 \in 0..MaxEdits
      /\ req.realm \in Realms /\ req.name \in Names /\ req.other \in 0..MaxEdits
      /\ req.mine \in Callers \union {Null}
  BY Numbers, RequestFields DEF TypeInv
<1>2. CASE req.kind = "create"
  <2> DEFINE i == CHOOSE i \in FreshIds : TRUE
             y == Record(i, req.realm, req.name, 0, req.mine)
  <2>1. FreshIds # {} /\ NameFree(req.realm, req.name) /\ s = [store EXCEPT ![i] = y]
    BY <1>2 DEF Applied
  <2>2. i \in Ids /\ store[i] = Unissued
    BY <2>1 DEF FreshIds
  <2> HIDE DEF i
  <2>3. y \in Rep /\ y.id = i /\ y.realm = req.realm /\ y.name = req.name /\ y.mine = req.mine
    BY <1>1, <2>2, RecordFields
  <2> HIDE DEF y
  <2>4. s[i] = y /\ \A j \in Ids \ {i} : s[j] = store[j]
    BY <1>1, <2>1, <2>2 DEF Sound
  <2> QED
    BY <1>2, <2>1, <2>2, <2>3, <2>4
<1>3. CASE req.kind = "put"
  <2>1. PICK x \in Addressed(req) :
          s = [store EXCEPT ![x.id] = Record(x.id, req.realm, req.name, req.other, req.mine)]
    BY <1>3 DEF Applied
  <2>2. x.id \in Ids /\ store[x.id] = x
    BY <1>1, AddressedAre
  <2> DEFINE i == x.id
             y == Record(i, req.realm, req.name, req.other, req.mine)
  <2>3. /\ y \in Rep /\ y.id = i /\ y.realm = req.realm /\ y.name = req.name
        /\ y.mine = req.mine /\ y.other = req.other
    BY <1>1, <2>2, RecordFields
  <2>4. s = [store EXCEPT ![i] = y] /\ i \in Ids /\ store[i] \in Addressed(req)
    BY <2>1, <2>2
  <2> HIDE DEF y, i
  <2>5. s[i] = y /\ \A j \in Ids \ {i} : s[j] = store[j]
    BY <1>1, <2>4 DEF Sound
  <2> QED
    BY <1>3, <2>3, <2>4, <2>5
<1> QED
  BY <1>2, <1>3

\* A step in which caller p is served and the server changes is its own write.
LEMMA ServedWrites ==
  ASSUME TypeInv, [Next]_vars, NEW p \in Callers, Serves(p),
         store' # store, \A i \in Ids : ~AdminEdits(i) /\ ~AdminReplaces(i)
  PROVE  Serve(p)
<1>1. PICK q \in Callers : Serve(q)
  BY StepsAre DEF Acts, vars, Admin
<1>2. ASSUME q # p PROVE FALSE
  <2>1. call'[p] = call[p] \/ (call[p] \in Call /\ call'[p] = Crossing(call[p]))
    BY <1>1, <1>2, ServeParts DEF OthersStay, TypeInv, CallsOK
  <2>2. call'[p].ans = call[p].ans
    BY <2>1, Crossed
  <2> QED
    BY <2>2 DEF Serves
<1> QED
  BY <1>1, <1>2

LEMMA AdminServesNobody ==
  ASSUME TypeInv, NEW i \in Ids, AdminEdits(i) \/ AdminReplaces(i), NEW p \in Callers
  PROVE  ~Serves(p)
<1>1. call'[p] = call[p] \/ (call[p] \in Call /\ call'[p] = Crossing(call[p]))
  BY DisturbParts DEF AdminEdits, AdminReplaces, TypeInv, CallsOK
<1>2. call'[p].ans = call[p].ans
  BY <1>1, Crossed
<1> QED
  BY <1>2 DEF Serves

LEMMA ServesItself ==
  ASSUME TypeInv, [Next]_vars, NEW p \in Callers, Serves(p), store' # store PROVE Serve(p)
BY ServedWrites, AdminServesNobody

\* What a call that looked its resource up replaces is what it found.
LEMMA ReplacesFound ==
  ASSUME TypeInv, HereInv, FreshInv, NEW p \in Callers, call[p].pc = "write",
         call[p].alone, LooksUpFirst(call[p].op), call[p].req.kind = "put",
         call[p].found \in Rep, Kept(call[p].found, call[p].since),
         NEW x \in Addressed(call[p].req)
  PROVE  x.id = call[p].found.id
<1> DEFINE req == call[p].req
           found == call[p].found
<1>1. /\ req \in Request /\ req.id = found.id
  BY PartsAt DEF ReqAt
<1>2. x \in Live(store) /\ x.realm = req.realm /\ IF ByKey(req) THEN x.name = req.key ELSE x.id = req.id
  BY <1>1, AddressedAre DEF TypeInv
<1>3. CASE Has("keyedByName")
  <2>1. req.key = found.name
    BY <1>3 DEF FreshInv, KeyedCall
  <2>2. req.realm = realmName /\ found.realm = realmName
    BY LooksUpUncached DEF HereInv, AloneAsks, AloneKeeps, Ours
  <2> DEFINE y == store[found.id]
  <2>3. y \in Rep /\ y.realm = found.realm /\ y.name = found.name /\ y.id = found.id /\ y \in Live(store)
    BY RepFields, LiveAre DEF Kept, TypeInv, Sound
  <2>4. kind \notin MayShareName
    BY <1>3, KindIs, KindTraits DEF MayShareName
  <2>5. x.name = y.name /\ x.realm = y.realm
    BY <1>2, <1>3, <2>1, <2>2, <2>3 DEF ByKey
  <2>6. x = y
    BY <1>2, <2>3, <2>4, <2>5, LiveByName DEF TypeInv
  <2> QED
    BY <2>3, <2>6
<1>4. CASE ~Has("keyedByName")
  BY <1>1, <1>2, <1>4 DEF ByKey
<1> QED
  BY <1>3, <1>4

LEMMA FreshKeepsEdits ==
  ASSUME TypeInv, HereInv, FreshInv, [Next]_vars, NEW p \in Callers,
         call[p].alone, LooksUpFirst(call[p].op)
  PROVE  ~Undoes(p)
<1> SUFFICES ASSUME NEW i \in Ids, store[i] \in Rep, store'[i] \in Rep,
                    store'[i].other < store[i].other, store[i].other <= call[p].since, Serves(p)
             PROVE  FALSE
  BY DEF Undoes
<1>1. store[i].other \in Nat /\ store'[i].other \in Nat /\ call[p].since \in Nat
  BY RepFields, PartsAt, Numbers
<1>2. Serve(p)
  BY <1>1, ServesItself
<1> DEFINE req == call[p].req
           found == call[p].found
<1>3. /\ call[p].pc = "write" /\ call[p].ans = {Pending} /\ store' \in Applied(req) /\ req \in Request
  BY <1>1, <1>2, ServeParts
<1>4. /\ req.kind \in {"create", "put"}
      /\ req.kind = "put" => found \in Rep /\ req.other = found.other
  BY <1>3, LooksUpUncached, PartsAt DEF ReqAt
<1>5. PICK j \in Ids :
        /\ \A k \in Ids \ {j} : store'[k] = store[k]
        /\ req.kind = "create" => store[j] = Unissued
        /\ req.kind = "put" => store'[j].other = req.other /\ store[j] \in Addressed(req)
  BY <1>3, <1>4, AppliedWrites
<1>6. i = j /\ req.kind = "put"
  BY <1>1, <1>4, <1>5, Marks
<1>7. Kept(found, call[p].since)
  BY <1>3, <1>4, <1>6 DEF FreshInv, FreshCall
<1>8. store[i].id = found.id /\ store[i].id = i
  BY <1>3, <1>4, <1>5, <1>6, <1>7, ReplacesFound DEF TypeInv, Sound
<1> QED
  BY <1>1, <1>4, <1>5, <1>6, <1>7, <1>8, RepFields DEF Kept

\* An update() or ensure() that looks its resource up, and that nothing crossed,
\* sends back every field it was not given as it was when the call began: only
\* an edit made during the call can be undone.
THEOREM LookedUpUpdatesKeep == Spec => LookedUpUpdatesKeepEdits
<1>1. TypeInv /\ HereInv /\ FreshInv /\ [Next]_vars =>
        [\A p \in Callers : call[p].alone /\ LooksUpFirst(call[p].op) => ~Undoes(p)]_vars
  BY FreshKeepsEdits
<1> QED
  BY <1>1, FreshAlways, PTL DEF Spec, LookedUpUpdatesKeepEdits

-----------------------------------------------------------------------------
(* Nothing is created twice                                                *)

LEMMA SharedKinds ==
  ASSUME TypeInv, kind \in MayShareName
  PROVE  /\ kind # "clientScope" /\ kind # "realm"
         /\ ~Has("pinsId") /\ ~Has("asksTwice") /\ ~Has("keyedByName") /\ ~Has("namedLive")
BY KindIs, KindTraits DEF MayShareName

\* The calls that a step leaves, or takes its being alone from.
LEMMA OthersMissing ==
  ASSUME TypeInv, MissingInv, UNCHANGED <<kind, realmName, store>>, NEW q \in Callers,
         \/ call'[q] = Crossing(call[q])
         \/ call'[q] = call[q] /\ (UNCHANGED name \/ call[q].pc = "idle")
  PROVE  MissingCall(call[q])'
<1>1. call[q] \in Call /\ MissingCall(call[q])
  BY DEF TypeInv, CallsOK, MissingInv
<1>2. CASE call'[q] = call[q] /\ UNCHANGED name
  BY <1>1, <1>2 DEF MissingCall, Held, Live
<1>3. CASE call'[q] = call[q] /\ call[q].pc = "idle"
  BY <1>3 DEF MissingCall
<1>4. CASE call'[q] = Crossing(call[q])
  <2>1. Crossing(call[q]).alone = FALSE
    BY <1>1, Crossed
  <2>2. ~call'[q].alone
    BY <1>4, <2>1
  <2> QED
    BY <2>2 DEF MissingCall
<1> QED
  BY <1>2, <1>3, <1>4

LEMMA ActsMissing ==
  ASSUME TypeInv, HereInv, MissingInv, NEW p \in Callers, Acts(p) PROVE MissingInv'
<1>1. /\ UNCHANGED <<usage, kind, realmName, store>> /\ OthersStay(p) /\ Effect(p)
      /\ ~(name' = name) =>
           /\ Learns(p) \/ call'[p].pc = "idle"
           /\ \A q \in Callers \ {p} : call[q].pc # "idle" => call'[q] = Crossing(call[q])
  BY DEF Acts, Crosses
<1>2. \A q \in Callers \ {p} : MissingCall(call[q])'
  BY <1>1, OthersMissing DEF OthersStay
<1>3. MissingCall(call[p]) /\ AloneAsks(call[p])
  BY DEF MissingInv, HereInv
<1>4. \A r, n : Held(store, r, n)' = Held(store, r, n)
  BY <1>1 DEF Held, Live
<1>5. SUFFICES ASSUME call'[p].alone, kind \in MayShareName, call'[p].pc # "idle"
               PROVE  MissingCall(call[p])'
  BY <1>1, <1>2 DEF MissingInv, MissingCall
<1>6. CASE Asks(p) \/ ReadsAgain(p) \/ ChecksById(p) \/ TakesCache(p) \/ Retries(p)
  <2>1. /\ call'[p].pc = "lookup" => call'[p].ans = {Pending}
        /\ call'[p].pc = "looked" => call'[p].found # Null
    BY <1>6, Marks DEF Asks, ReadsAgain, ChecksById, TakesCache, Retries
  <2>2. CASE call'[p].pc = "write" /\ call'[p].ans = {Pending} /\ call'[p].found = Null
    <3>1. Retries(p) /\ name' = name
      BY <1>1, <1>5, <1>6, <2>2 DEF Asks, ReadsAgain, ChecksById, TakesCache, Learns
    <3>2. Held(store, realmName, name) = {}
      BY <1>3, <1>5, <2>2, <3>1 DEF Retries, GoesOn, MissingCall
    <3> QED
      BY <1>1, <2>2, <3>1, <3>2 DEF MissingCall, Held, Live
  <2> QED
    BY <2>1, <2>2 DEF MissingCall
<1>7. CASE Learns(p)
  <2>1. /\ call[p].pc = "lookup" /\ call[p].op # "getById" /\ call[p].alone
        /\ Answered(p, LookingUp) /\ call'[p].pc = "looked"
        /\ call'[p].found = Got(Taken(p))
        /\ name' = (IF Taken(p) # Null THEN Taken(p).name ELSE name)
    BY <1>5, <1>7 DEF Learns, Answered, IsAnswer, LookingUp
  <2>2. ~Dropped /\ call[p].req.realm = realmName /\ call[p].req.name = name
    BY <1>3, <2>1 DEF AloneAsks, LookingUp
  <2>3. Got(Taken(p)) = Taken(p)
    BY <2>2 DEF Got, Dropped
  <2>4. ASSUME call'[p].found = Null PROVE Held(store, realmName, name) = {} /\ name' = name
    <3>1. Matches(p) = {} /\ name' = name
      BY <2>1, <2>3, <2>4, TakenIs, Marks
    <3>2. call[p].req.kind = "list"
      BY <1>1, <1>5, <2>1, PartsAt, SharedKinds DEF ReqAt, LookingUp
    <3>3. \A x \in call[p].ans : x.name = name
      BY <1>1, <1>5, <2>1, <2>2, <3>2, PartsAt, SharedKinds DEF AnsAt, Answered, IsAnswer, LookingUp
    <3>4. call[p].ans = {}
      BY <3>1, <3>3 DEF Matches
    <3> QED
      BY <1>1, <1>3, <1>5, <2>1, <3>1, <3>4 DEF MissingCall
  <2> QED
    BY <1>1, <2>1, <2>4 DEF MissingCall, Held, Live
<1>8. CASE Sends(p)
  <2>1. name' = name
    BY <1>1, <1>5, <1>8 DEF Sends, Learns
  <2> QED
    BY <1>1, <1>3, <1>8, <2>1 DEF Sends, GoesOn, MissingCall, Held, Live
<1>9. CASE SendsMore(p)
  <2>1. call'[p].found # Null
    BY <1>1, <1>5, <1>9, SharedKinds DEF SendsMore
  <2> QED
    BY <1>9, <2>1 DEF SendsMore, MissingCall
<1> QED
  BY <1>1, <1>5, <1>6, <1>7, <1>8, <1>9 DEF Effect

LEMMA MovesMissing ==
  ASSUME TypeInv, call' = Disturb(call, {}) PROVE MissingInv'
<1>1. \A q \in Callers : call'[q].pc # "idle" => ~call'[q].alone
  BY MovedCalls
<1>2. \A q \in Callers : MissingCall(call[q])'
  BY <1>1 DEF MissingCall
<1> QED
  BY <1>2 DEF MissingInv

LEMMA AdminMissing == ASSUME TypeInv, MissingInv, Admin PROVE MissingInv'
<1>1. PICK i \in Ids : AdminEdits(i) \/ AdminReplaces(i)
  BY DEF Admin
<1>2. CASE AdminReplaces(i)
  BY <1>2, MovesMissing DEF AdminReplaces
<1>3. CASE AdminEdits(i)
  <2>1. /\ call' = call /\ UNCHANGED <<kind, realmName, name>> /\ store[i] \in Rep
        /\ store' = [store EXCEPT ![i] = [store[i] EXCEPT !.other = edits + 1]]
        /\ store \in [Ids -> Rep \union {Unissued, Gone}]
    BY <1>3 DEF AdminEdits, Admin, target, cache, TypeInv, Sound
  <2>2. /\ \A j \in Ids \ {i} : store'[j] = store[j]
        /\ store'[i] \in Rep /\ store'[i].realm = store[i].realm /\ store'[i].name = store[i].name
    <3>1. edits + 1 \in 0..MaxEdits
      BY Numbers DEF Admin
    <3> QED
      BY <2>1, <3>1 DEF Rep
  <2>3. ASSUME Held(store, realmName, name) = {} PROVE Held(store, realmName, name)' = {}
    <3>1. \A j \in Ids : store[j] \in Rep => ~(store[j].realm = realmName /\ store[j].name = name)
      BY <2>3 DEF Held, Live
    <3>2. \A j \in Ids : store'[j] \in Rep => ~(store'[j].realm = realmName /\ store'[j].name = name)
      BY <2>1, <2>2, <3>1
    <3> QED
      BY <2>1, <3>2 DEF Held, Live
  <2>4. \A q \in Callers : MissingCall(call[q])'
    BY <2>1, <2>3 DEF MissingInv, MissingCall
  <2> QED
    BY <2>4 DEF MissingInv
<1> QED
  BY <1>1, <1>2, <1>3

LEMMA ServeMissing ==
  ASSUME TypeInv, HereInv, MissingInv, NEW p \in Callers, Serve(p) PROVE MissingInv'
<1> DEFINE req == call[p].req
           ans == call'[p].ans
<1>1. /\ call[p].pc \in {"lookup", "partner", "write", "final"} /\ call[p].ans = {Pending}
      /\ UNCHANGED <<usage, kind, edits, realmName, name>> /\ OthersStay(p)
      /\ store' # store =>
           \A q \in Callers \ {p} : call[q].pc # "idle" => call'[q] = Crossing(call[q])
      /\ GoesOn(p) /\ call'[p].pc = call[p].pc /\ call'[p].req = req
      /\ ans # {Pending}
  BY ServeParts
<1>2. ASSUME NEW q \in Callers \ {p} PROVE MissingCall(call[q])'
  <2>1. CASE store' = store
    BY <1>1, <2>1, OthersMissing DEF OthersStay
  <2>2. CASE store' # store /\ call[q].pc # "idle"
    <3>1. call[q] \in Call /\ call'[q] = Crossing(call[q])
      BY <1>1, <2>2 DEF TypeInv, CallsOK
    <3>2. Crossing(call[q]).alone = FALSE
      BY <3>1, Crossed
    <3>3. ~call'[q].alone
      BY <3>1, <3>2
    <3> QED
      BY <3>3 DEF MissingCall
  <2>3. CASE call[q].pc = "idle"
    <3>1. call'[q].pc = "idle"
      BY <1>1, <2>3 DEF OthersStay
    <3> QED
      BY <3>1 DEF MissingCall
  <2> QED
    BY <2>1, <2>2, <2>3
<1>3. ASSUME kind \in MayShareName, call[p].alone, call[p].pc = "lookup", call[p].op # "getById", ans = {}
      PROVE  Held(store, realmName, name)' = {}
  <2>1. call[p].pc \in LookingUp /\ ans # {Failed} /\ req.kind = "list"
    BY <1>3, PartsAt, SharedKinds DEF ReqAt, LookingUp
  <2>2. store' = store /\ ans = Held(store, req.realm, req.name)
    BY <1>3, <2>1, ServeParts, SharedKinds
  <2>3. req.realm = realmName /\ req.name = name
    BY <1>3, <2>1 DEF HereInv, AloneAsks
  <2> QED
    BY <1>1, <1>3, <2>2, <2>3 DEF Held, Live
<1>4. MissingCall(call[p])'
  BY <1>1, <1>3 DEF MissingCall, GoesOn
<1> QED
  BY <1>2, <1>4 DEF MissingInv

LEMMA NextMissing == ASSUME TypeInv, HereInv, MissingInv, [Next]_vars PROVE MissingInv'
<1>1. CASE UNCHANGED vars
  <2>1. call' = call /\ UNCHANGED <<kind, realmName, name, store>>
    BY <1>1 DEF vars
  <2> QED
    BY <2>1, OthersMissing DEF MissingInv
<1> QED
  BY <1>1, StepsAre, ActsMissing, ServeMissing, MovesMissing, AdminMissing

LEMMA InitMissing == ASSUME Init PROVE MissingInv
BY DEF Init, Idle, MissingInv, MissingCall

LEMMA MissingAlways == Spec => [](TypeInv /\ HereInv /\ MissingInv)
<1>1. Init => TypeInv /\ HereInv /\ MissingInv
  BY InitTypes, InitHere, InitMissing
<1>2. TypeInv /\ HereInv /\ MissingInv /\ [Next]_vars => (TypeInv /\ HereInv /\ MissingInv)'
  BY NextTypes, NextHere, NextMissing
<1> QED
  BY <1>1, <1>2, PTL DEF Spec

\* A mutation other than a create issues no id.
LEMMA OnlyCreatesIssue ==
  ASSUME TypeInv, NEW req \in Request, NEW s \in Applied(req),
         NEW i \in Ids, store[i] = Unissued, s[i] \in Rep
  PROVE  /\ req.kind = "create" /\ s[i].realm = req.realm /\ s[i].name = req.name
         /\ NameFree(req.realm, req.name)
<1>1. store \in [Ids -> Rep \union {Unissued, Gone}]
  BY DEF TypeInv, Sound
<1>2. CASE req.kind \in {"create", "put"}
  <2>1. PICK j \in Ids :
           /\ s[j].realm = req.realm /\ s[j].name = req.name
           /\ \A k \in Ids \ {j} : s[k] = store[k]
           /\ req.kind = "create" => NameFree(req.realm, req.name)
           /\ req.kind = "put" => store[j] \in Addressed(req)
    BY <1>2, AppliedWrites
  <2>2. i = j
    BY <2>1, Marks
  <2>3. req.kind = "put" => store[j] \in Rep
    BY <2>1, AddressedAre DEF TypeInv
  <2> QED
    BY <1>2, <2>1, <2>2, <2>3, Marks
<1>3. CASE req.kind = "del"
  <2>1. PICK x \in Addressed(req) : s = [store EXCEPT ![x.id] = Gone]
    BY <1>3 DEF Applied
  <2> QED
    BY <1>1, <2>1, Marks
<1>4. CASE req.kind \notin {"create", "put", "del"}
  <2>1. s = store
    BY <1>4 DEF Applied
  <2> QED
    BY <2>1, Marks
<1> QED
  BY <1>2, <1>3, <1>4

LEMMA MissingCreatesOnce ==
  ASSUME TypeInv, HereInv, MissingInv, [Next]_vars, NEW p \in Callers, NEW i \in Ids,
         store[i] = Unissued, store'[i] \in Rep, Serves(p), call[p].alone
  PROVE  Held(store, store'[i].realm, store'[i].name) = {}
<1>1. Serve(p) /\ store' # store
  BY ServesItself, Marks
<1> DEFINE req == call[p].req
<1>2. /\ call[p].pc = "write" /\ call[p].ans = {Pending} /\ store' \in Applied(req) /\ req \in Request
  BY <1>1, ServeParts
<1>3. /\ req.kind = "create" /\ store'[i].realm = req.realm /\ store'[i].name = req.name
      /\ NameFree(req.realm, req.name)
  BY <1>2, OnlyCreatesIssue
<1>4. CASE kind \notin MayShareName
  BY <1>3, <1>4 DEF NameFree
<1>5. CASE kind \in MayShareName
  <2>1. call[p].found = Null
    BY <1>2, <1>3, PartsAt DEF ReqAt
  <2>2. Held(store, realmName, name) = {}
    BY <1>2, <1>5, <2>1 DEF MissingInv, MissingCall
  <2>3. req.realm = realmName /\ req.name = name
    BY <1>2, <1>3 DEF HereInv, AloneAsks
  <2> QED
    BY <1>3, <2>2, <2>3
<1> QED
  BY <1>4, <1>5

\* create() and ensure() that nothing crossed never add a second resource of
\* one name, though the server would let them.
THEOREM CreatesOnce == Spec => NothingCreatedTwice
<1>1. TypeInv /\ HereInv /\ MissingInv /\ [Next]_vars =>
        [ \A p \in Callers, i \in Ids :
            /\ store[i] = Unissued /\ store'[i] \in Rep
            /\ Serves(p) /\ call[p].alone
            => Held(store, store'[i].realm, store'[i].name) = {} ]_vars
  BY MissingCreatesOnce
<1> QED
  BY <1>1, MissingAlways, PTL DEF Spec, NothingCreatedTwice

-----------------------------------------------------------------------------
(* What was written is served                                              *)

\* A call that does not move on claims what it did.
LEMMA ClaimsKept ==
  ASSUME UNCHANGED <<kind, pin>>, overtaken => overtaken', NEW p,
         call'[p].op = call[p].op, call'[p].found = call[p].found,
         call'[p].alone = call[p].alone, Claims(p)'
  PROVE  Claims(p)
BY DEF Claims, UsesCache, Has

LEMMA SameWritten ==
  ASSUME UNCHANGED <<kind, realmName, name, store>>, NEW p, call'[p].found = call[p].found,
         NEW i \in Ids, Written(p, store[i])
  PROVE  Written(p, store[i])'
BY DEF Written, Has

\* The calls that a step leaves, or takes its being alone from.
LEMMA OthersWritten ==
  ASSUME TypeInv, HereInv, WrittenInv, UNCHANGED <<kind, realmName, store>>,
         overtaken => overtaken', NEW q \in Callers,
         \/ call'[q] = Crossing(call[q])
         \/ /\ call'[q] = call[q]
            /\ \/ call[q].pc = "idle"
               \/ UNCHANGED name /\ (UNCHANGED pin \/ Dropped)
  PROVE  WrittenCall(q)'
<1>1. call[q] \in Call /\ WrittenCall(q) /\ AloneAsks(call[q])
  BY DEF TypeInv, CallsOK, WrittenInv, HereInv
<1>2. CASE call'[q] = call[q] /\ UNCHANGED <<name, pin>>
  <2>1. ASSUME Claims(q)' PROVE Claims(q)
    BY <1>2, <2>1, ClaimsKept
  <2>2. \A i \in Ids : Written(q, store[i]) => Written(q, store[i])'
    BY <1>2, SameWritten
  <2>3. \A i \in Ids : ReadsWritten(q, i) => ReadsWritten(q, i)'
    BY <1>2 DEF ReadsWritten
  <2> QED
    BY <1>1, <1>2, <2>1, <2>2, <2>3 DEF WrittenCall
<1>3. CASE call'[q] = call[q] /\ call[q].pc = "idle"
  BY <1>3 DEF WrittenCall
<1>4. CASE call'[q] = Crossing(call[q])
  <2>1. Crossing(call[q]).alone = FALSE
    BY <1>1, Crossed
  <2>2. ~call'[q].alone
    BY <1>4, <2>1
  <2> QED
    BY <2>2 DEF WrittenCall, Claims
<1>5. CASE call'[q] = call[q] /\ call[q].pc # "idle" /\ Dropped
  <2>1. ~call'[q].alone
    BY <1>1, <1>5 DEF AloneAsks
  <2> QED
    BY <2>1 DEF WrittenCall, Claims
<1> QED
  BY <1>2, <1>3, <1>4, <1>5

\* What an operation that writes has found is the handle's own.
LEMMA ClaimsOurs ==
  ASSUME TypeInv, HereInv, NEW p \in Callers, Claims(p), call[p].pc \in {"write", "final"}
  PROVE  /\ ~Dropped
         /\ call[p].found \in Rep \union {Null}
         /\ call[p].found \in Rep => Ours(call[p].found)
<1>1. /\ AloneAsks(call[p]) /\ AloneKeeps(call[p]) /\ OpAt(call[p])
      /\ call[p].found \in Rep \union {Null, Undefined}
  BY PartsAt DEF HereInv
<1> QED
  BY <1>1 DEF AloneAsks, AloneKeeps, OpAt, Claims

LEMMA ReadsAgainWritten ==
  ASSUME TypeInv, HereInv, WrittenInv, NEW p \in Callers, ReadsAgain(p), Claims(p),
         UNCHANGED <<kind, realmName, name, store>>
  PROVE  \E i \in Ids : Written(p, store[i])' /\ ReadsWritten(p, i)'
<1>1. /\ ~Dropped /\ call[p].found \in Rep \union {Null}
      /\ call[p].found \in Rep => Ours(call[p].found)
  BY ClaimsOurs DEF ReadsAgain
<1>2. PICK i \in Ids : Written(p, store[i])
  BY DEF WrittenInv, WrittenCall, ReadsAgain
<1>3. Written(p, store[i])'
  BY <1>2, SameWritten DEF ReadsAgain, GoesOn
<1>4. store[i].id = i
  BY <1>2 DEF Written, TypeInv, Sound
<1>5. ASSUME call'[p].req.kind = "byId" PROVE call'[p].req.id = i
  <2>1. CASE Has("readsUpdateById") /\ call[p].found \in Rep /\ call'[p].req.id = call[p].found.id
    <3>1. ~Has("keyedByName")
      BY <2>1, KindIs, KindTraits
    <3> QED
      BY <1>2, <1>4, <2>1, <3>1 DEF Written
  <2>2. CASE VisiblePin \in Ids /\ call'[p].req.id = VisiblePin
    <3>1. pin \in Ids /\ VisiblePin = pin
      BY <2>2, Marks DEF VisiblePin
    <3>2. ~Has("keyedByName")
      BY <3>1, KindIs, KindTraits, Marks DEF TypeInv, IdentityOK
    <3>3. call[p].found \in Rep /\ call[p].found.id = pin
      BY <1>1, <3>1 DEF Claims, Ours
    <3> QED
      BY <1>2, <1>4, <2>2, <3>1, <3>2, <3>3 DEF Written
  <2> QED
    BY <1>5, <2>1, <2>2 DEF ReadsAgain
<1>6. ~IsAnswer(call'[p].ans)
  BY Marks DEF ReadsAgain
<1>7. ReadsWritten(p, i)'
  BY <1>5, <1>6 DEF ReadsWritten
<1> QED
  BY <1>3, <1>7

LEMMA ChecksByIdWritten ==
  ASSUME TypeInv, HereInv, WrittenInv, NEW p \in Callers, ChecksById(p), Claims(p),
         UNCHANGED <<kind, realmName, name, store>>
  PROVE  \E i \in Ids : Written(p, store[i])' /\ ReadsWritten(p, i)'
<1>1. PICK i \in Ids : Written(p, store[i]) /\ ReadsWritten(p, i)
  BY DEF WrittenInv, WrittenCall, ChecksById
<1>2. Written(p, store[i])'
  BY <1>1, SameWritten DEF ChecksById, GoesOn
<1>3. PICK y \in call[p].ans : y.id = i
  BY <1>1 DEF ReadsWritten, ChecksById
<1>4. Has("refusesAmbiguous") /\ ~Has("filtersLive")
  BY KindIs, KindTraits DEF ChecksById
<1>5. Matches(p) = call[p].ans
  BY <1>4 DEF Matches
<1>6. Taken(p) = y
  BY <1>3, <1>4, <1>5 DEF ChecksById, Ambiguous
<1>7. ~IsAnswer(call'[p].ans)
  BY Marks DEF ChecksById
<1>8. ReadsWritten(p, i)'
  BY <1>3, <1>6, <1>7 DEF ReadsWritten, ChecksById
<1> QED
  BY <1>2, <1>8

LEMMA ActsWritten ==
  ASSUME TypeInv, HereInv, WrittenInv, NEW p \in Callers, Acts(p) PROVE WrittenInv'
<1>1. /\ UNCHANGED <<usage, kind, realmName, store>> /\ OthersStay(p) /\ Effect(p)
      /\ overtaken => overtaken'
      /\ ~(name' = name) =>
           /\ Learns(p) \/ call'[p].pc = "idle"
           /\ \A q \in Callers \ {p} : call[q].pc # "idle" => call'[q] = Crossing(call[q])
      /\ ~(pin' = pin) =>
           \/ Dropped
           \/ /\ Learns(p) \/ call'[p].pc = "idle"
              /\ \A q \in Callers \ {p} : call[q].pc # "idle" => call'[q] = Crossing(call[q])
  BY DEF Acts, Crosses
<1>2. ASSUME NEW q \in Callers \ {p} PROVE WrittenCall(q)'
  <2>1. call'[q] = call[q] \/ call'[q] = Crossing(call[q])
    BY <1>1 DEF OthersStay
  <2> QED
    BY <1>1, <2>1, OthersWritten
<1>3. WrittenCall(p) /\ AloneAsks(call[p])
  BY DEF WrittenInv, HereInv
<1>4. SUFFICES ASSUME Claims(p)', call'[p].pc \in {"write", "final"}
               PROVE  /\ ~(call'[p].pc = "write" /\ call'[p].ans = {Done})
                      /\ call'[p].pc = "final" =>
                           \E i \in Ids : Written(p, store[i])' /\ ReadsWritten(p, i)'
  BY <1>2 DEF WrittenInv, WrittenCall
<1>5. {Pending} # {Done}
  BY Marks
<1>6. CASE Sends(p) \/ SendsMore(p) \/ Asks(p) \/ TakesCache(p) \/ Learns(p)
  BY <1>4, <1>5, <1>6 DEF Sends, SendsMore, Asks, TakesCache, Learns
<1>7. CASE ReadsAgain(p) \/ ChecksById(p) \/ Retries(p)
  <2>1. GoesOn(p) /\ call[p].pc # "idle" /\ ~Learns(p) /\ call'[p].pc # "idle"
        /\ call'[p].ans = {Pending}
    BY <1>4, <1>7 DEF ReadsAgain, ChecksById, Retries, Learns
  <2>2. call[p].alone
    BY <1>4, <2>1 DEF GoesOn, Claims
  <2>3. UNCHANGED <<name, pin>>
    BY <1>1, <1>3, <2>1, <2>2 DEF AloneAsks
  <2>4. Claims(p)
    BY <1>1, <1>4, <2>1, <2>3, ClaimsKept DEF GoesOn
  <2>5. CASE Retries(p)
    <3>1. ASSUME call'[p].pc = "final"
          PROVE  \E i \in Ids : Written(p, store[i])' /\ ReadsWritten(p, i)'
      <4>1. PICK i \in Ids : Written(p, store[i]) /\ ReadsWritten(p, i)
        BY <1>3, <2>4, <2>5, <3>1 DEF WrittenCall, Retries
      <4>2. Written(p, store[i])'
        BY <1>1, <2>1, <2>3, <4>1, SameWritten DEF GoesOn
      <4>3. ~IsAnswer(call'[p].ans)
        BY <2>1, Marks
      <4>4. ReadsWritten(p, i)'
        BY <2>5, <4>1, <4>3 DEF ReadsWritten, Retries
      <4> QED
        BY <4>2, <4>4
    <3> QED
      BY <1>5, <2>1, <3>1
  <2> QED
    BY <1>1, <1>5, <1>7, <2>1, <2>3, <2>4, <2>5, ReadsAgainWritten, ChecksByIdWritten
<1> QED
  BY <1>1, <1>4, <1>6, <1>7 DEF Effect

LEMMA MovesWritten ==
  ASSUME TypeInv, call' = Disturb(call, {}) PROVE WrittenInv'
<1>1. \A q \in Callers : call'[q].pc # "idle" => ~call'[q].alone
  BY MovedCalls
<1>2. \A q \in Callers : WrittenCall(q)'
  BY <1>1 DEF WrittenCall, Claims
<1> QED
  BY <1>2 DEF WrittenInv

LEMMA AdminWritten == ASSUME TypeInv, WrittenInv, Admin PROVE WrittenInv'
<1>1. PICK i \in Ids : AdminEdits(i) \/ AdminReplaces(i)
  BY DEF Admin
<1>2. CASE AdminReplaces(i)
  BY <1>2, MovesWritten DEF AdminReplaces
<1>3. CASE AdminEdits(i)
  <2>1. /\ call' = call /\ UNCHANGED <<kind, realmName, name, pin, overtaken>> /\ store[i] \in Rep
        /\ store' = [store EXCEPT ![i] = [store[i] EXCEPT !.other = edits + 1]]
        /\ store \in [Ids -> Rep \union {Unissued, Gone}]
    BY <1>3 DEF AdminEdits, Admin, target, cache, TypeInv, Sound
  <2>2. /\ \A j \in Ids \ {i} : store'[j] = store[j]
        /\ store'[i] \in Rep /\ store'[i].realm = store[i].realm /\ store'[i].name = store[i].name
        /\ store'[i].mine = store[i].mine /\ store'[i].id = store[i].id
    <3>1. edits + 1 \in 0..MaxEdits
      BY Numbers DEF Admin
    <3> QED
      BY <2>1, <3>1 DEF Rep
  <2>3. ASSUME NEW q \in Callers PROVE WrittenCall(q)'
    <3>1. \A j \in Ids : Written(q, store[j]) => Written(q, store[j])'
      BY <2>1, <2>2 DEF Written, Has
    <3>2. \A j \in Ids : ReadsWritten(q, j) => ReadsWritten(q, j)'
      BY <2>1 DEF ReadsWritten
    <3>3. ASSUME Claims(q)' PROVE Claims(q)
      BY <2>1, <3>3, ClaimsKept
    <3> QED
      BY <2>1, <3>1, <3>2, <3>3 DEF WrittenInv, WrittenCall
  <2> QED
    BY <2>3 DEF WrittenInv
<1> QED
  BY <1>1, <1>2, <1>3

LEMMA ServeWritten ==
  ASSUME TypeInv, HereInv, WrittenInv, NEW p \in Callers, Serve(p) PROVE WrittenInv'
<1> DEFINE req == call[p].req
           ans == call'[p].ans
           found == call[p].found
<1>1. /\ call[p].pc \in {"lookup", "partner", "write", "final"} /\ call[p].ans = {Pending}
      /\ UNCHANGED <<usage, kind, edits, realmName, name, pin, overtaken>> /\ OthersStay(p)
      /\ store' # store =>
           \A q \in Callers \ {p} : call[q].pc # "idle" => call'[q] = Crossing(call[q])
      /\ GoesOn(p) /\ call'[p].pc = call[p].pc /\ call'[p].req = req
      /\ ans # {Pending} /\ req \in Request
  BY ServeParts
<1>2. ASSUME NEW q \in Callers \ {p} PROVE WrittenCall(q)'
  <2>1. CASE store' = store
    BY <1>1, <2>1, OthersWritten DEF OthersStay
  <2>2. CASE store' # store /\ call[q].pc # "idle"
    <3>1. call[q] \in Call /\ call'[q] = Crossing(call[q])
      BY <1>1, <2>2 DEF TypeInv, CallsOK
    <3>2. Crossing(call[q]).alone = FALSE
      BY <3>1, Crossed
    <3>3. ~call'[q].alone
      BY <3>1, <3>2
    <3> QED
      BY <3>3 DEF WrittenCall, Claims
  <2>3. CASE call[q].pc = "idle"
    <3>1. call'[q].pc = "idle"
      BY <1>1, <2>3 DEF OthersStay
    <3> QED
      BY <3>1 DEF WrittenCall
  <2> QED
    BY <2>1, <2>2, <2>3
<1>3. ASSUME Claims(p)' PROVE Claims(p) /\ call[p].alone
  <2>1. Claims(p)
    BY <1>1, <1>3, ClaimsKept DEF GoesOn
  <2> QED
    BY <2>1 DEF Claims
<1>4. ASSUME Claims(p), call[p].pc = "write", ans = {Done}
      PROVE  \E i \in Ids : Written(p, store[i])'
  <2>1. store' \in Applied(req)
    BY <1>4, ServeParts, Marks
  <2>2. /\ req.kind \in {"create", "put"} /\ req.mine = p
        /\ req.kind = "create" => found = Null
        /\ req.kind = "put" => req.id = found.id
    BY <1>4, PartsAt DEF ReqAt, Claims
  <2>3. req.realm = realmName /\ req.name = name
    BY <1>4, <2>2 DEF HereInv, AloneAsks, Claims
  <2>4. PICK i \in Ids :
          /\ store'[i] \in Rep /\ store'[i].id = i /\ store'[i].realm = req.realm
          /\ store'[i].name = req.name /\ store'[i].mine = req.mine
          /\ req.kind = "put" => store[i] \in Addressed(req)
    BY <1>1, <2>1, <2>2, AppliedWrites
  <2>5. ASSUME found \in Rep, ~Has("keyedByName") PROVE i = found.id
    <3>1. req.kind = "put" /\ ~ByKey(req)
      BY <2>2, <2>5, Marks DEF ByKey
    <3>2. store[i] \in Rep /\ store[i].id = req.id
      BY <1>1, <2>4, <3>1, AddressedAre DEF TypeInv
    <3>3. store[i].id = i
      BY <3>2 DEF TypeInv, Sound
    <3> QED
      BY <2>2, <3>1, <3>2, <3>3
  <2>6. Written(p, store[i])'
    BY <1>1, <2>2, <2>3, <2>4, <2>5 DEF Written, GoesOn, Has
  <2> QED
    BY <2>6
<1>5. ASSUME Claims(p), call[p].pc = "final"
      PROVE  \E i \in Ids : Written(p, store[i])' /\ ReadsWritten(p, i)'
  <2>1. PICK i \in Ids : Written(p, store[i]) /\ ReadsWritten(p, i)
    BY <1>5 DEF WrittenInv, WrittenCall
  <2>2. store' = store
    BY <1>5, ServeParts
  <2>3. Written(p, store[i])'
    BY <1>1, <2>1, <2>2, SameWritten DEF GoesOn
  <2>4. ASSUME IsAnswer(ans) PROVE \E y \in ans : y.id = i /\ y.mine = p /\ y.name = name
    <3>1. /\ req.realm = realmName /\ req.name = name /\ req.kind \in {"list", "byId"}
      BY <1>5, PartsAt DEF HereInv, AloneAsks, Claims, LookingUp, ReqAt
    <3>2. /\ ans # {Failed}
          /\ call[p].pc \in LookingUp
      BY <1>5, <2>4 DEF IsAnswer, LookingUp
    <3>3. \/ ans = {x \in Live(store) : x.realm = req.realm}
          \/ ans = Held(store, req.realm, req.name)
          \/ req.kind = "byId" /\ ans = {x \in Live(store) : x.realm = req.realm /\ x.id = req.id}
      BY <3>1, <3>2, ServeParts
    <3> DEFINE y == store[i]
    <3>4. y \in Live(store) /\ y.id = i /\ y.realm = req.realm /\ y.name = req.name /\ y.mine = p
      BY <2>1, <3>1, LiveAre DEF Written, TypeInv, Sound
    <3>5. req.kind = "byId" => y.id = req.id
      BY <2>1, <3>4 DEF ReadsWritten
    <3>6. y \in ans
      BY <3>3, <3>4, <3>5 DEF Held
    <3> QED
      BY <3>1, <3>4, <3>6
  <2>5. ReadsWritten(p, i)'
    BY <1>1, <2>1, <2>4 DEF ReadsWritten
  <2> QED
    BY <2>3, <2>5
<1>6. WrittenCall(p)'
  BY <1>1, <1>3, <1>4, <1>5 DEF WrittenCall
<1> QED
  BY <1>2, <1>6 DEF WrittenInv

LEMMA NextWritten == ASSUME TypeInv, HereInv, WrittenInv, [Next]_vars PROVE WrittenInv'
<1>1. CASE UNCHANGED vars
  <2>1. call' = call /\ UNCHANGED <<kind, realmName, name, pin, overtaken, store>>
    BY <1>1 DEF vars
  <2> QED
    BY <2>1, OthersWritten DEF WrittenInv
<1> QED
  BY <1>1, StepsAre, ActsWritten, ServeWritten, MovesWritten, AdminWritten

LEMMA InitWritten == ASSUME Init PROVE WrittenInv
BY DEF Init, Idle, WrittenInv, WrittenCall

LEMMA WrittenAlways == Spec => [](TypeInv /\ HereInv /\ WrittenInv)
<1>1. Init => TypeInv /\ HereInv /\ WrittenInv
  BY InitTypes, InitHere, InitWritten
<1>2. TypeInv /\ HereInv /\ WrittenInv /\ [Next]_vars => (TypeInv /\ HereInv /\ WrittenInv)'
  BY NextTypes, NextHere, NextWritten
<1> QED
  BY <1>1, <1>2, PTL DEF Spec

\* A call ends by a step of its own.
LEMMA EndsBy ==
  ASSUME TypeInv, [Next]_vars, NEW p \in Callers, call[p].pc # "idle", call'[p].pc = "idle"
  PROVE  Step(p)
<1>1. ASSUME NEW q \in Callers \ {p}, Acts(q) \/ Serve(q) PROVE FALSE
  <2>1. OthersStay(q)
    BY <1>1, ServeParts DEF Acts
  <2>2. call[p] \in Call /\ (call'[p] = call[p] \/ call'[p] = Crossing(call[p]))
    BY <2>1 DEF OthersStay, TypeInv, CallsOK
  <2> QED
    BY <2>2, Crossed
<1>2. ~Serve(p)
  BY ServeParts
<1>3. ~Resend(p)
  <2> SUFFICES ASSUME Resend(p) PROVE FALSE
    BY SMTT(30)
  <2> DEFINE req == Reread(call[p].req)
  <2>1. req \in Request /\ Goes(p, [call[p] EXCEPT !.req = req, !.ans = {Pending}])
    BY ResendGoes
  <2> HIDE DEF req
  <2> QED
    BY <2>1, AgainGoes
<1>4. ~Admin /\ call' # Disturb(call, {}) /\ call' # call
  <2>1. call' # Disturb(call, {})
    BY MovedCalls
  <2> QED
    BY <2>1 DEF Admin, AdminEdits, AdminReplaces
<1>5. \A op : ~Begin(p, op)
  BY DEF Begin
<1>6. \A i : ~BeginGetById(p, i)
  BY DEF BeginGetById
<1>7. PICK q \in Callers :
        \/ \E op \in AllOps \ {"getById"} : Begin(q, op)
        \/ \E i \in Ids : BeginGetById(q, i)
        \/ Serve(q) \/ Resend(q)
        \/ Step(q)
  BY <1>4 DEF Next, Rebind, RebindRealm, vars
<1>8. Acts(q) \/ Serve(q)
  BY <1>7, BeginActs, BeginGetByIdActs, ResendActs, StepActs
<1>9. q = p
  BY <1>1, <1>8
<1> QED
  BY <1>2, <1>3, <1>5, <1>6, <1>7, <1>9

\* A write that was answered ends with the resource read back.
LEMMA EndsReadingBack ==
  ASSUME TypeInv, [Next]_vars, NEW p \in Callers, call'[p].pc = "idle",
         call[p].op \in {"create", "update", "ensure", "rewrite"},
         Answered(p, {"write", "final"}), ~AsksAgain(p),
         ~(kind = "workflow" /\ call[p].pc = "write" /\ rep \in Rep),
         ~(call[p].pc = "final" /\ Ambiguous(p))
  PROVE  GetReturns(p) /\ call[p].pc = "final"
<1>1. Step(p)
  BY EndsBy DEF Answered
<1>2. ~Throw(p)
  BY DEF Throw, Answered
<1>3. ~ReadById(p) /\ ~Resume(p) /\ ~PartnerResolved(p)
  BY DEF ReadById, Resume, PartnerResolved, Answered
<1>4. ~ReadDependent(p) /\ ~NextPage(p) /\ ~Deleted(p) /\ ~Used(p)
  BY DEF ReadDependent, NextPage, Deleted, Used
<1>5. ~EnsureProfile(p)
  <2> SUFFICES ASSUME EnsureProfile(p) PROVE FALSE
    OBVIOUS
  <2>1. call \in [Callers -> Call]
    BY DEF TypeInv, CallsOK
  <2>2. call'[p].pc = "write"
    BY <2>1 DEF EnsureProfile, Move
  <2> QED
    BY <2>2
<1>6. ~ReadBack(p)
  <2> SUFFICES ASSUME ReadBack(p) PROVE FALSE
    OBVIOUS
  <2>1. UsesCache("get") /\ VisibleRep \in Rep
    BY ReadBackGoes
  <2>2. kind = "workflow"
    BY <2>1, KindIs, KindTraits DEF UsesCache, Shapes
  <2>3. rep \in Rep
    BY <2>1, Marks DEF VisibleRep
  <2> QED
    BY <2>2, <2>3 DEF ReadBack, Answered
<1>7. GetReturns(p)
  BY <1>1, <1>2, <1>3, <1>4, <1>5, <1>6 DEF Step
<1> QED
  BY <1>7 DEF GetReturns, Answered

\* What a lookup leaves when it was not refused is the one answer that goes by
\* the name of the handle, and by the id asked for.
LEMMA OneMatch ==
  ASSUME TypeInv, NEW p \in Callers, Answered(p, LookingUp), ~Ambiguous(p),
         call[p].req.name = name, NEW y \in call[p].ans, y.name = name
  PROVE  Taken(p) = y
<1>1. /\ AnsAt(call[p]) /\ IsAnswer(call[p].ans) /\ call[p].pc \in LookingUp
      /\ call[p].req.kind \in {"list", "byId"}
  BY PartsAt DEF Answered, IsAnswer, ReqAt
<1>2. y \in Matches(p)
  BY DEF Matches
<1>3. ASSUME NEW x \in Matches(p) PROVE x = y
  <2>1. x \in call[p].ans
    BY DEF Matches
  <2>2. CASE call[p].req.kind = "byId"
    BY <1>1, <2>1, <2>2 DEF AnsAt
  <2>3. CASE call[p].req.kind = "list" /\ kind \in MayShareName
    <3>1. Has("refusesAmbiguous")
      BY <2>3, KindIs, KindTraits DEF MayShareName
    <3> QED
      BY <1>2, <3>1 DEF Ambiguous
  <2>4. CASE call[p].req.kind = "list" /\ kind \notin MayShareName
    <3>1. x.name = name
      <4>1. CASE kind = "clientScope"
        <5>1. Has("filtersLive")
          BY <4>1, KindIs, KindTraits
        <5> QED
          BY <2>4, <5>1 DEF Matches
      <4>2. CASE kind # "clientScope"
        BY <1>1, <2>1, <2>4, <4>2 DEF AnsAt
      <4> QED
        BY <4>1, <4>2
    <3> QED
      BY <1>1, <2>1, <2>4, <3>1 DEF AnsAt
  <2> QED
    BY <1>1, <2>2, <2>3, <2>4
<1> QED
  BY <1>2, <1>3 DEF Taken

LEMMA WrittenReturns ==
  ASSUME TypeInv, HereInv, WrittenInv, NEW p \in Callers, call[p].alone,
         call[p].op \in {"create", "update", "ensure", "rewrite"},
         GetReturns(p), call[p].pc = "final",
         ~(overtaken /\ UsesCache(call[p].op)), ~(pin \in Ids /\ call[p].found = Null)
  PROVE  rep' \in Rep /\ rep'.mine = p
<1>1. Claims(p)
  BY DEF Claims
<1>2. /\ Answered(p, LookingUp) /\ IsAnswer(call[p].ans) /\ ~Ambiguous(p)
      /\ rep' = IF Dropped THEN Undefined ELSE Taken(p)
  BY DEF GetReturns, WriteBack, Answered, IsAnswer, LookingUp, Dropped
<1>3. ~Dropped /\ call[p].req.name = name
  BY DEF HereInv, AloneAsks, LookingUp
<1>4. PICK y \in call[p].ans : y.mine = p /\ y.name = name
  BY <1>1, <1>2 DEF WrittenInv, WrittenCall, ReadsWritten
<1>5. y \in Rep
  BY <1>2, TakenIs
<1>6. Taken(p) = y
  BY <1>2, <1>3, <1>4, OneMatch
<1> QED
  BY <1>2, <1>3, <1>4, <1>5, <1>6

\* create(), update(), ensure() and the methods that rewrite the representation,
\* when nothing crossed them, leave the handle with what they wrote.
THEOREM WritesServed == Spec => WritesAreServed
<1>1. TypeInv /\ HereInv /\ WrittenInv /\ [Next]_vars =>
        [ \A p \in Callers :
            /\ call[p].alone
            /\ call[p].op \in {"create", "update", "ensure", "rewrite"}
            /\ Answered(p, {"write", "final"}) /\ ~AsksAgain(p)
            /\ call'[p].pc = "idle"
            /\ ~(overtaken /\ UsesCache(call[p].op))
            /\ ~(kind = "workflow" /\ call[p].pc = "write" /\ rep \in Rep)
            /\ ~(pin \in Ids /\ call[p].found = Null)
            /\ ~(call[p].pc = "final" /\ Ambiguous(p))
            => rep' \in Rep /\ rep'.mine = p ]_vars
  BY EndsReadingBack, WrittenReturns
<1> QED
  BY <1>1, WrittenAlways, PTL DEF Spec, WritesAreServed
=============================================================================
