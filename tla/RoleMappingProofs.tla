-------------------------- MODULE RoleMappingProofs ------------------------
(***************************************************************************)
(* Theorems about RoleMapping, for any realms, names, callers and plans.   *)
(*                                                                         *)
(* The argument: a call keeps its plan, resolves one role of each name it  *)
(* wants, and sends only roles it resolved or was told the user has.  As   *)
(* long as nobody else touched those names, the answer it works from still *)
(* tells which of them the user has; so what it sends is what is missing,  *)
(* or too much, and once that is answered nothing is.  MapInv says so.     *)
(*                                                                         *)
(* That the user of a mapping is of the same realm needs more: the handle  *)
(* hands out none of another, which holds as long as the realm is rebound  *)
(* only between calls (RealmInv).                                          *)
(***************************************************************************)
EXTENDS RoleMapping, FiniteSetTheorems, FunctionTheorems, TLAPS

-----------------------------------------------------------------------------
(* The inductive invariant                                                 *)

Active(c) == c.pc \notin {"idle", "done"}

\* The names a reconciliation is to take away.
Unwanted(plan) ==
  IF plan.op = "reconcile" /\ Given(plan) THEN plan.managed \ Effective(plan) ELSE {}

OnePerName(rs) == \A x, y \in rs : x.name = y.name => x = y

\* The kind of request awaited at a place.
KindAt(pc) == IF pc = "again" THEN "user" ELSE pc

IsAnswer(a) == a \notin {{Pending}, {Failed}}

\* What a call is about, wherever it is: the roles it wants are resolved one by
\* one, and its request is one of its plan.
Resolves(c) ==
  /\ ~Active(c) => c.todo = {} /\ c.got = {}
  /\ Active(c) =>
       /\ NamesOf(c.got) \union c.todo = Effective(c.plan)
       /\ NamesOf(c.got) \intersect c.todo = {}
       /\ OnePerName(c.got)
  /\ c.pc \in {"user", "again", "list", "add", "del"} => c.todo = {}

Asks(c) ==
  /\ c.pc \in {"idle", "done", "roles"} => c.req = Null
  /\ c.pc \in {"ensure", "read", "list", "add", "del"} => c.req # Null
  /\ c.req # Null => c.req.kind = KindAt(c.pc)
  /\ c.pc \in {"ensure", "read"} => c.req.name \in c.todo
  /\ c.pc \in {"ensure", "again", "list"} => c.plan.op = "reconcile"
  /\ Active(c) /\ c.plan.op # "reconcile" => c.asked \in Realms

Hears(c) ==
  /\ c.pc \in {"user", "again"} /\ c.req = Null => c.ans \subseteq UserRep
  /\ IsAnswer(c.ans) =>
       /\ c.pc \in {"user", "again"} => c.ans \subseteq UserRep
       /\ c.pc \in {"read", "list"} => \A x \in c.ans : x \in RoleRep /\ x.realm = c.req.realm
       /\ c.pc = "read" => \A x \in c.ans : x.name = c.req.name
       /\ c.pc \in {"add", "del"} => c.ans = {}

Follows(c) ==
  /\ c.revoke # {} => c.pc = "add" /\ c.plan.op = "reconcile"
  /\ NamesOf(c.revoke) \subseteq Unwanted(c.plan)
  /\ c.pc \in {"add", "del"} => c.req.roles # {}
  /\ c.pc = "add" =>
       /\ c.plan.op \in {"reconcile", "assign"}
       /\ NamesOf(c.req.roles) \subseteq Effective(c.plan)
  /\ c.pc = "del" =>
       /\ c.plan.op \in {"reconcile", "unassign"}
       /\ c.plan.op = "reconcile" => NamesOf(c.req.roles) \subseteq Unwanted(c.plan)
       /\ c.plan.op = "unassign" => NamesOf(c.req.roles) = Effective(c.plan)

Shape(c) == Resolves(c) /\ Asks(c) /\ Hears(c) /\ Follows(c)

\* Nobody else touched what the call is about.
Untouched(c) == c.alone /\ Touches(c.plan) # {}

\* Then all it deals with is of the realm "r" the handle now names ...
InOneRealm(c, r) ==
  Active(c) =>
    /\ c.plan.op # "reconcile" => c.asked = r
    /\ \A x \in c.got \union c.revoke : x.realm = r
    /\ c.req # Null => c.req.realm = r /\ \A x \in c.req.roles : x.realm = r

\* ... and, the user having the roles "m" there, it was told of those it is
\* about, and what is still missing or too much is in its requests.
Accounts(c, m) ==
  /\ c.pc = "list" /\ IsAnswer(c.ans) =>
       \A x \in RoleRep : x.name \in Touches(c.plan) => (x \in c.ans <=> x \in m)
  /\ c.pc = "add" =>
       /\ c.ans = {Pending} => Effective(c.plan) \subseteq NamesOf(m) \union NamesOf(c.req.roles)
       /\ c.ans = {} => Effective(c.plan) \subseteq NamesOf(m)
       /\ \A x \in m : x.name \in Unwanted(c.plan) => x \in c.revoke
  /\ c.pc = "del" /\ c.plan.op = "reconcile" =>
       /\ Effective(c.plan) \subseteq NamesOf(m)
       /\ c.ans = {Pending} => \A x \in m : x.name \in Unwanted(c.plan) => x \in c.req.roles
       /\ c.ans = {} => \A x \in m : x.name \notin Unwanted(c.plan)
  /\ c.pc = "del" /\ c.plan.op = "unassign" /\ c.ans = {} =>
       \A x \in m : x.name \notin Effective(c.plan)
  /\ c.pc = "done" =>
       /\ c.plan.op # "unassign" => Effective(c.plan) \subseteq NamesOf(m)
       /\ c.plan.op = "unassign" => \A x \in m : x.name \notin Effective(c.plan)
       /\ \A x \in m : x.name \notin Unwanted(c.plan)

CallOK(c) ==
  /\ c \in Call
  /\ Shape(c)
  /\ Untouched(c) => InOneRealm(c, realmName) /\ Accounts(c, mapped[realmName])

HandlesOK ==
  /\ realmName \in Realms /\ retargets \in 0..MaxRetargets /\ realmGen \in 0..retargets
  /\ user \in UserRep \union {Null, Undefined}
  /\ seen \in {RootVersion(g) : g \in 0..realmGen}

ServerOK ==
  /\ roles \in [Realms -> [Names -> 0..MaxIncarnation]]
  /\ users \in [Realms -> 0..MaxIncarnation]
  /\ mapped \in [Realms -> SUBSET RoleRep]
  /\ \A r \in Realms : \A x \in mapped[r] : x.realm = r /\ Exists(x) /\ Odd(users[r])
  /\ edits \in 0..MaxEdits

CallsOK == call \in [Callers -> Call] /\ \A p \in Callers : CallOK(call[p])

MapInv == HandlesOK /\ ServerOK /\ CallsOK

-----------------------------------------------------------------------------
(* Plans and records                                                       *)

LEMMA Marks ==
  /\ Null \notin RoleRep \union UserRep /\ Undefined \notin RoleRep \union UserRep
  /\ Pending \notin RoleRep \union UserRep /\ Failed \notin RoleRep \union UserRep
  /\ Pending # Failed /\ Undefined # Null /\ Null \notin Names /\ Null \notin Requests
  BY RoleMappingAssumption

\* What a call wants and what it takes away are different names, all of them
\* among those it may touch; NoPlan touches none.
LEMMA PlanParts ==
  ASSUME NEW plan \in Plans \union {NoPlan}
  PROVE  /\ Effective(plan) \subseteq Names
         /\ Effective(plan) \subseteq Touches(plan)
         /\ Unwanted(plan) \subseteq Touches(plan) \ plan.desired
         /\ Unwanted(plan) \intersect Effective(plan) = {}
         /\ plan.op # "reconcile" => Effective(plan) = plan.desired
         /\ plan.op \in {"reconcile", "assign", "unassign"}
         /\ Effective(plan) \subseteq plan.desired
         /\ Touches(plan) \subseteq Names
<1>1. plan \in Plans \/ plan = NoPlan
  OBVIOUS
<1>2. NoPlan.op = "reconcile" /\ NoPlan.desired = {} /\ NoPlan.managed = NotGiven
  BY DEF NoPlan
<1>3. plan \in Plans => /\ plan.op \in {"reconcile", "assign", "unassign"}
                        /\ plan.desired \in SUBSET Names
                        /\ plan.managed \in (SUBSET Names) \union {NotGiven}
  <2>1. Plans \subseteq Plan
    BY RoleMappingAssumption
  <2> QED
    BY <2>1 DEF Plan
<1>4. /\ plan.desired \subseteq Names
      /\ Given(plan) => plan.managed \subseteq Names
      /\ plan.op \in {"reconcile", "assign", "unassign"}
  <2>1. CASE plan = NoPlan
    BY <1>2, <2>1 DEF Given
  <2>2. CASE plan \in Plans
    <3>1. plan.desired \in SUBSET Names /\ plan.managed \in (SUBSET Names) \union {NotGiven}
      BY <1>3, <2>2
    <3>2. Given(plan) => plan.managed \in SUBSET Names
      BY <3>1 DEF Given
    <3> QED
      BY <1>3, <2>2, <3>1, <3>2
  <2> QED
    BY <1>1, <2>1, <2>2
<1> QED
  BY <1>4 DEF Effective, Touches, Unwanted

LEMMA NoPlanTouches == Touches(NoPlan) = {} /\ Effective(NoPlan) = {} /\ Unwanted(NoPlan) = {}
  BY DEF NoPlan, Touches, Effective, Unwanted, Given

LEMMA IdleOK == CallOK(Idle)
<1>1. Idle \in Call
  BY DEF Idle, Call
<1>2. Shape(Idle)
  BY NoPlanTouches, Marks DEF Idle, Shape, Resolves, Asks, Hears, Follows, Active, NamesOf, IsAnswer
<1>3. ~Untouched(Idle)
  BY NoPlanTouches DEF Untouched, Idle
<1> QED
  BY <1>1, <1>2, <1>3 DEF CallOK

LEMMA InitMap == ASSUME Init PROVE MapInv
<1>1. HandlesOK
  BY RoleMappingAssumption DEF Init, HandlesOK, RootVersion
<1>2. ServerOK
  <2>1. PICK there \in SUBSET Names, held \in SUBSET Names, userThere \in BOOLEAN :
          /\ held \subseteq there /\ (held # {} => userThere)
          /\ roles = [r \in Realms |->
                        [n \in Names |-> IF r = realmName /\ n \notin there THEN 0 ELSE 1]]
          /\ users = [r \in Realms |-> IF r = realmName /\ ~userThere THEN 0 ELSE 1]
          /\ mapped = [r \in Realms |-> {[realm |-> r, name |-> n, inc |-> 1] :
                                          n \in IF r = realmName THEN held ELSE {}}]
    BY DEF Init
  <2>2. 0 \in 0..MaxIncarnation /\ 1 \in 0..MaxIncarnation /\ Odd(1) /\ 0 \in 0..MaxEdits
    BY RoleMappingAssumption DEF Odd
  <2> QED
    BY <2>1, <2>2 DEF Init, ServerOK, RoleRep, Exists, RoleOf
<1>3. CallsOK
  BY IdleOK DEF Init, CallsOK, CallOK
<1> QED
  BY <1>1, <1>2, <1>3 DEF MapInv

-----------------------------------------------------------------------------
(* Steps that leave the server alone                                       *)

Awaited == {"ensure", "read", "user", "again", "list", "add", "del"}

LEMMA AwaitFields ==
  ASSUME NEW c \in Call, NEW pc \in Awaited, NEW req \in Requests
  PROVE  /\ Await(c, pc, req) \in Call
         /\ Await(c, pc, req).pc = pc /\ Await(c, pc, req).req = req
         /\ Await(c, pc, req).ans = {Pending}
         /\ Await(c, pc, req).plan = c.plan /\ Await(c, pc, req).asked = c.asked
         /\ Await(c, pc, req).todo = c.todo /\ Await(c, pc, req).got = c.got
         /\ Await(c, pc, req).user = c.user /\ Await(c, pc, req).revoke = c.revoke
         /\ Await(c, pc, req).alone = c.alone
  BY ZenonT(60) DEF Await, Call, Awaited

LEMMA KnownFields ==
  ASSUME NEW c \in Call, NEW pc \in {"roles", "user", "again"},
         NEW found \in SUBSET (RoleRep \union UserRep \union {Pending, Failed})
  PROVE  /\ Known(c, pc, found) \in Call
         /\ Known(c, pc, found).pc = pc /\ Known(c, pc, found).req = Null
         /\ Known(c, pc, found).ans = found
         /\ Known(c, pc, found).plan = c.plan /\ Known(c, pc, found).asked = c.asked
         /\ Known(c, pc, found).todo = c.todo /\ Known(c, pc, found).got = c.got
         /\ Known(c, pc, found).user = c.user /\ Known(c, pc, found).revoke = c.revoke
         /\ Known(c, pc, found).alone = c.alone
  BY DEF Known, Call

LEMMA FinishedFields ==
  ASSUME NEW c \in Call
  PROVE  /\ Finished(c) \in Call
         /\ Finished(c).pc = "done" /\ Finished(c).req = Null /\ Finished(c).ans = {Pending}
         /\ Finished(c).plan = c.plan /\ Finished(c).alone = c.alone
         /\ Finished(c).todo = {} /\ Finished(c).got = {} /\ Finished(c).revoke = {}
  BY DEF Finished, Idle, Call

LEMMA RequestFields ==
  ASSUME NEW k \in {"ensure", "read", "user", "list", "add", "del"}, NEW r \in Realms,
         NEW n \in Names \union {Null}, NEW u \in UserRep \union {Null},
         NEW rs \in SUBSET RoleRep
  PROVE  /\ Request(k, r, n, u, rs) \in Requests
         /\ Request(k, r, n, u, rs).kind = k /\ Request(k, r, n, u, rs).realm = r
         /\ Request(k, r, n, u, rs).name = n /\ Request(k, r, n, u, rs).user = u
         /\ Request(k, r, n, u, rs).roles = rs
         /\ Request(k, r, n, u, rs) # Null
  BY RoleMappingAssumption DEF Request, Requests

LEMMA CallFields ==
  ASSUME MapInv, NEW p \in Callers
  PROVE  /\ call[p] \in Call /\ CallOK(call[p])
         /\ Shape(call[p])
         /\ call[p].plan \in Plans \union {NoPlan}
         /\ call[p].todo \in SUBSET Names /\ call[p].got \in SUBSET RoleRep
         /\ call[p].revoke \in SUBSET RoleRep
         /\ call[p].user \in UserRep \union {Null}
         /\ call[p].req # Null => call[p].req \in Requests
         /\ realmName \in Realms
  BY DEF MapInv, CallsOK, HandlesOK, CallOK, Call

\* A step of one call that moves neither the realm nor the server.
LEMMA CallSteps ==
  ASSUME MapInv, HandlesOK', UNCHANGED <<realmName, server, edits>>,
         NEW p \in Callers, call' = [call EXCEPT ![p] = call'[p]], CallOK(call'[p])
  PROVE  MapInv'
<1>1. ServerOK'
  BY DEF MapInv, ServerOK, server, Exists, RoleOf
<1>2. call' \in [Callers -> Call]
  BY DEF MapInv, CallsOK, CallOK
<1>3. ASSUME NEW q \in Callers PROVE CallOK(call[q])'
  <2>1. CallOK(call'[q])
    BY DEF MapInv, CallsOK
  <2>2. realmName' = realmName /\ mapped' = mapped
    BY DEF server
  <2> QED
    BY <2>1, <2>2 DEF CallOK
<1> QED
  BY <1>1, <1>2, <1>3 DEF MapInv, CallsOK

\* A step of one call that moves nothing else.
LEMMA OnlyCallSteps ==
  ASSUME MapInv, UNCHANGED <<handles, server, edits>>,
         NEW p \in Callers, call' = [call EXCEPT ![p] = call'[p]], CallOK(call'[p])
  PROVE  MapInv'
<1>1. HandlesOK' /\ realmName' = realmName
  BY DEF MapInv, HandlesOK, handles
<1> QED
  BY <1>1, CallSteps

LEMMA ThrowMap ==
  ASSUME MapInv, NEW p \in Callers, Throw(p) PROVE MapInv'
<1>1. call' = [call EXCEPT ![p] = call'[p]] /\ call'[p] = Idle
  BY DEF Throw, Goes, MapInv, CallsOK
<1> QED
  BY <1>1, IdleOK, OnlyCallSteps DEF Throw

\* What a call takes along from place to place.
Carries(c) ==
  /\ c \in Call
  /\ NamesOf(c.got) \union c.todo = Effective(c.plan)
  /\ NamesOf(c.got) \intersect c.todo = {}
  /\ OnePerName(c.got)
  /\ c.plan.op # "reconcile" => c.asked \in Realms
  /\ Untouched(c) => /\ c.plan.op # "reconcile" => c.asked = realmName
                     /\ \A x \in c.got : x.realm = realmName

\* It revokes nothing before it has granted all.
Base(c) == Carries(c) /\ c.revoke = {}

LEMMA CallIsBase ==
  ASSUME NEW c, CallOK(c), c.pc \in {"roles", "ensure", "read", "user", "again", "list"}
  PROVE  Base(c)
  BY DEF CallOK, Shape, Resolves, Asks, Follows, InOneRealm, Active, Base, Carries

LEMMA AwaitOK ==
  ASSUME NEW c, Base(c), NEW pc \in {"ensure", "read", "user", "again", "list"},
         NEW req \in Requests, req.kind = KindAt(pc), req.roles = {},
         Untouched(c) => req.realm = realmName,
         pc \in {"ensure", "read"} => req.name \in c.todo,
         pc \in {"user", "again", "list"} => c.todo = {},
         pc \in {"ensure", "again", "list"} => c.plan.op = "reconcile"
  PROVE  CallOK(Await(c, pc, req))
<1> DEFINE d == Await(c, pc, req)
<1>1. /\ d \in Call /\ d.pc = pc /\ d.req = req /\ d.ans = {Pending}
      /\ d.plan = c.plan /\ d.asked = c.asked
      /\ d.todo = c.todo /\ d.got = c.got
      /\ d.revoke = c.revoke /\ d.alone = c.alone
  <2>1. pc \in Awaited /\ c \in Call
    BY DEF Awaited, Base, Carries
  <2> QED
    BY <2>1, AwaitFields
<1> HIDE DEF d
<1>2. req # Null
  BY Marks
<1>3. Shape(d)
  <2>1. Resolves(d)
    BY <1>1 DEF Base, Carries, Resolves, Active
  <2>2. Asks(d)
    BY <1>1, <1>2 DEF Base, Carries, Asks, Active
  <2>3. Hears(d) /\ Follows(d)
    BY <1>1, <1>2 DEF Base, Carries, Hears, Follows, IsAnswer, NamesOf
  <2> QED
    BY <2>1, <2>2, <2>3 DEF Shape
<1>4. Untouched(d) => InOneRealm(d, realmName) /\ Accounts(d, mapped[realmName])
  BY <1>1 DEF Base, Carries, Untouched, InOneRealm, Accounts, Active, IsAnswer
<1> QED
  BY <1>1, <1>3, <1>4 DEF CallOK, d

LEMMA KnownOK ==
  ASSUME NEW c, Base(c), NEW pc \in {"roles", "user", "again"}, NEW found,
         pc = "roles" => found = {Pending},
         pc \in {"user", "again"} => found \subseteq UserRep /\ c.todo = {},
         pc = "again" => c.plan.op = "reconcile"
  PROVE  CallOK(Known(c, pc, found))
<1> DEFINE d == Known(c, pc, found)
<1>1. /\ d \in Call /\ d.pc = pc /\ d.req = Null /\ d.ans = found
      /\ d.plan = c.plan /\ d.asked = c.asked
      /\ d.todo = c.todo /\ d.got = c.got
      /\ d.revoke = c.revoke /\ d.alone = c.alone
  <2>1. found \in SUBSET (RoleRep \union UserRep \union {Pending, Failed}) /\ c \in Call
    BY DEF Base, Carries
  <2> QED
    BY <2>1, KnownFields
<1> HIDE DEF d
<1>2. Shape(d)
  <2>1. Resolves(d)
    BY <1>1 DEF Base, Carries, Resolves, Active
  <2>2. Asks(d)
    BY <1>1 DEF Base, Carries, Asks, Active
  <2>3. Hears(d) /\ Follows(d)
    BY <1>1 DEF Base, Carries, Hears, Follows, IsAnswer, NamesOf
  <2> QED
    BY <2>1, <2>2, <2>3 DEF Shape
<1>3. Untouched(d) => InOneRealm(d, realmName) /\ Accounts(d, mapped[realmName])
  BY <1>1 DEF Base, Carries, Untouched, InOneRealm, Accounts, Active, IsAnswer
<1> QED
  BY <1>1, <1>2, <1>3 DEF CallOK, d

\* A call that returns has established what it was asked for.
LEMMA FinishedOK ==
  ASSUME NEW c \in Call,
         Untouched(c) =>
           /\ c.plan.op # "unassign" => Effective(c.plan) \subseteq NamesOf(mapped[realmName])
           /\ c.plan.op = "unassign" => \A x \in mapped[realmName] : x.name \notin Effective(c.plan)
           /\ \A x \in mapped[realmName] : x.name \notin Unwanted(c.plan)
  PROVE  CallOK(Finished(c))
<1> DEFINE d == Finished(c)
<1>1. /\ d \in Call /\ d.pc = "done" /\ d.req = Null /\ d.ans = {Pending}
      /\ d.plan = c.plan /\ d.alone = c.alone
      /\ d.todo = {} /\ d.got = {} /\ d.revoke = {}
  BY FinishedFields
<1> HIDE DEF d
<1>2. Shape(d)
  BY <1>1 DEF Shape, Resolves, Asks, Hears, Follows, Active, IsAnswer, NamesOf, KindAt
<1>3. Untouched(d) => InOneRealm(d, realmName) /\ Accounts(d, mapped[realmName])
  BY <1>1 DEF Untouched, InOneRealm, Accounts, Active
<1> QED
  BY <1>1, <1>2, <1>3 DEF CallOK, d

LEMMA NextRoleMap ==
  ASSUME MapInv, NEW p \in Callers, NextRole(p) PROVE MapInv'
<1> DEFINE k == IF call[p].plan.op = "reconcile" /\ call[p].plan.ensure THEN "ensure" ELSE "read"
           r == IF call[p].plan.op = "reconcile" THEN realmName ELSE call[p].asked
<1>1. PICK n \in call[p].todo : Goes(p, Await(call[p], k, Request(k, r, n, Null, {})))
  BY DEF NextRole
<1>2. call' = [call EXCEPT ![p] = call'[p]]
      /\ call'[p] = Await(call[p], k, Request(k, r, n, Null, {}))
  BY <1>1 DEF Goes, MapInv, CallsOK
<1>3. Base(call[p]) /\ UNCHANGED <<handles, server, edits>>
  BY CallFields, CallIsBase DEF NextRole
<1>4. /\ k \in {"ensure", "read"} /\ (k = "ensure" => call[p].plan.op = "reconcile")
      /\ k \in {"ensure", "read", "user", "list", "add", "del"} /\ KindAt(k) = k
  BY DEF KindAt
<1>5. r \in Realms /\ (Untouched(call[p]) => r = realmName)
  BY <1>3, CallFields DEF Base, Carries
<1>6. n \in Names \union {Null} /\ Null \in UserRep \union {Null} /\ {} \in SUBSET RoleRep
  BY CallFields
<1> HIDE DEF k, r
<1> DEFINE req == Request(k, r, n, Null, {})
<1>7. req \in Requests /\ req.kind = k /\ req.realm = r /\ req.name = n /\ req.roles = {}
  BY <1>4, <1>5, <1>6, RequestFields
<1>8. call'[p] = Await(call[p], k, req)
  BY <1>2
<1> HIDE DEF req
<1>9. CallOK(Await(call[p], k, req))
  BY <1>3, <1>4, <1>5, <1>7, AwaitOK
<1> QED
  BY <1>2, <1>3, <1>8, <1>9, OnlyCallSteps

\* A call between the roles it resolves.
LEMMA RolesOK ==
  ASSUME NEW c, Base(c), c.pc = "roles", c.req = Null, c.ans = {Pending}
  PROVE  CallOK(c)
<1>1. Shape(c)
  <2>1. Resolves(c) /\ Asks(c)
    BY DEF Base, Carries, Resolves, Asks, Active
  <2>2. Hears(c) /\ Follows(c)
    BY DEF Base, Carries, Hears, Follows, NamesOf
  <2> QED
    BY <2>1, <2>2 DEF Shape
<1>2. Untouched(c) => InOneRealm(c, realmName) /\ Accounts(c, mapped[realmName])
  BY DEF Base, Carries, InOneRealm, Accounts, Active
<1> QED
  BY <1>1, <1>2 DEF Base, Carries, CallOK

LEMMA BeginReconcileMap ==
  ASSUME MapInv, NEW p \in Callers, NEW plan \in Plans, BeginReconcile(p, plan)
  PROVE  MapInv'
<1> DEFINE c == [Idle EXCEPT !.plan = plan, !.pc = "roles", !.todo = Effective(plan)]
<1>1. /\ c.plan = plan /\ c.pc = "roles" /\ c.todo = Effective(plan)
      /\ c.got = {} /\ c.revoke = {} /\ c.req = Null /\ c.ans = {Pending}
  BY DEF Idle
<1>2. c \in Call
  BY PlanParts DEF Idle, Call
<1>3. call' = [call EXCEPT ![p] = call'[p]] /\ call'[p] = c
      /\ UNCHANGED <<handles, server, edits>> /\ plan.op = "reconcile"
  BY DEF BeginReconcile, Goes, MapInv, CallsOK
<1> HIDE DEF c
<1>4. Base(c)
  BY <1>1, <1>2, <1>3 DEF Base, Carries, NamesOf, OnePerName
<1>5. CallOK(c)
  BY <1>1, <1>4, RolesOK
<1> QED
  BY <1>3, <1>5, OnlyCallSteps

LEMMA BeginMappingMap ==
  ASSUME MapInv, NEW p \in Callers, NEW plan \in Plans, NEW r \in Realms,
         BeginMapping(p, plan, r)
  PROVE  MapInv'
<1>1. /\ plan.op \in {"assign", "unassign"} /\ r = realmName
      /\ UNCHANGED <<handles, server, edits>>
  BY DEF BeginMapping, SameRealm
<1>2. PICK held \in [plan.desired -> UNION {MayHold(r, n) : n \in plan.desired}] :
        /\ \A n \in plan.desired : held[n] \in MayHold(r, n)
        /\ Goes(p, [Idle EXCEPT !.plan = plan, !.pc = "roles", !.asked = realmName,
                                !.todo = {n \in plan.desired : held[n] = {}},
                                !.got = UNION {held[n] : n \in plan.desired}])
  BY DEF BeginMapping
<1> DEFINE todo == {n \in plan.desired : held[n] = {}}
           got  == UNION {held[n] : n \in plan.desired}
<1> DEFINE c == [Idle EXCEPT !.plan = plan, !.pc = "roles", !.asked = realmName,
                             !.todo = todo, !.got = got]
<1>3. call' = [call EXCEPT ![p] = call'[p]] /\ call'[p] = c
  BY <1>2 DEF Goes, MapInv, CallsOK
<1>4. plan.desired \subseteq Names /\ Effective(plan) = plan.desired
  BY <1>1, PlanParts
<1>5. ASSUME NEW n \in plan.desired
      PROVE  /\ \A x \in held[n] : x \in RoleRep /\ x.realm = r /\ x.name = n
             /\ \A x, y \in held[n] : x = y
  <2>1. held[n] = {} \/ \E i \in 0..roles[r][n] : held[n] = {[realm |-> r, name |-> n, inc |-> i]}
    BY <1>2 DEF MayHold
  <2>2. roles[r][n] \in 0..MaxIncarnation /\ MaxIncarnation \in Nat
    BY <1>4, RoleMappingAssumption DEF MapInv, ServerOK
  <2>3. \A i \in 0..roles[r][n] : [realm |-> r, name |-> n, inc |-> i] \in RoleRep
    BY <1>4, <2>2 DEF RoleRep
  <2> QED
    BY <2>1, <2>3
<1>6. /\ todo \subseteq Names
      /\ \A x \in got : x \in RoleRep /\ x.realm = r /\ x.name \in plan.desired \ todo
      /\ \A n \in plan.desired \ todo : \E x \in got : x.name = n
      /\ OnePerName(got)
  <2>1. todo \subseteq Names
    BY <1>4
  <2>2. \A x \in got : \E n \in plan.desired : x \in held[n]
    OBVIOUS
  <2>3. \A x \in got : x \in RoleRep /\ x.realm = r /\ x.name \in plan.desired /\ x \in held[x.name]
    BY <1>5, <2>2
  <2>4. \A x \in got : x.name \notin todo
    BY <2>3
  <2>5. \A n \in plan.desired \ todo : \E x \in got : x.name = n
    <3> SUFFICES ASSUME NEW n \in plan.desired, held[n] # {} PROVE \E x \in got : x.name = n
      OBVIOUS
    <3>1. PICK x \in held[n] : TRUE
      OBVIOUS
    <3>2. x \in got /\ x.name = n
      BY <1>5, <3>1
    <3> QED
      BY <3>2
  <2>6. OnePerName(got)
    BY <1>5, <2>3 DEF OnePerName
  <2> QED
    BY <2>1, <2>3, <2>4, <2>5, <2>6
<1> HIDE DEF todo, got
<1>7. /\ c.plan = plan /\ c.pc = "roles" /\ c.todo = todo /\ c.asked = realmName
      /\ c.got = got /\ c.revoke = {} /\ c.req = Null /\ c.ans = {Pending}
  BY DEF Idle
<1>8. c \in Call
  <2>1. got \in SUBSET RoleRep /\ todo \in SUBSET Names
    BY <1>6
  <2>2. realmName \in Realms
    BY DEF MapInv, HandlesOK
  <2> QED
    BY <2>1, <2>2 DEF Idle, Call
<1> HIDE DEF c
<1>9. Base(c)
  <2>1. NamesOf(got) = plan.desired \ todo
    BY <1>6 DEF NamesOf
  <2>2. todo \subseteq plan.desired
    BY DEF todo
  <2>3. NamesOf(c.got) \union c.todo = Effective(c.plan) /\ NamesOf(c.got) \intersect c.todo = {}
    BY <1>4, <1>7, <2>1, <2>2
  <2>4. c.asked \in Realms
    BY <1>1, <1>7
  <2> QED
    BY <1>1, <1>6, <1>7, <1>8, <2>3, <2>4 DEF Base, Carries
<1>10. CallOK(c)
  BY <1>7, <1>9, RolesOK
<1> QED
  BY <1>1, <1>3, <1>10, OnlyCallSteps

LEMMA EnsuredMap ==
  ASSUME MapInv, NEW p \in Callers, Ensured(p) PROVE MapInv'
<1> DEFINE n == call[p].req.name
           req == Request("read", realmName, n, Null, {})
<1>1. call' = [call EXCEPT ![p] = call'[p]] /\ call'[p] = Await(call[p], "read", req)
      /\ UNCHANGED <<handles, server, edits>> /\ call[p].pc = "ensure"
  BY DEF Ensured, Answered, Goes, MapInv, CallsOK
<1>2. Base(call[p])
  BY <1>1, CallFields, CallIsBase
<1>3. n \in call[p].todo /\ n \in Names \union {Null}
  BY <1>1, CallFields DEF Shape, Asks
<1>4. req \in Requests /\ req.kind = "read" /\ req.realm = realmName /\ req.name = n
      /\ req.roles = {}
  <2>1. realmName \in Realms /\ Null \in UserRep \union {Null} /\ {} \in SUBSET RoleRep
    BY CallFields
  <2> HIDE DEF n
  <2> QED
    BY <1>3, <2>1, RequestFields, SMTT(30)
<1> HIDE DEF req, n
<1>5. CallOK(Await(call[p], "read", req))
  BY <1>2, <1>3, <1>4, AwaitOK DEF KindAt
<1> QED
  BY <1>1, <1>5, OnlyCallSteps

LEMMA RoleReadMap ==
  ASSUME MapInv, NEW p \in Callers, RoleRead(p) PROVE MapInv'
<1>1. PICK x \in call[p].ans :
        Goes(p, [Known(call[p], "roles", {Pending}) EXCEPT
                  !.got = @ \union {x}, !.todo = @ \ {call[p].req.name}])
  BY DEF RoleRead
<1>2. /\ call[p].pc = "read" /\ IsAnswer(call[p].ans) /\ call[p].req # Null
      /\ UNCHANGED <<handles, server, edits>>
  BY CallFields DEF RoleRead, Answered, IsAnswer, Shape, Asks
<1>3. Base(call[p])
  BY <1>2, CallFields, CallIsBase
<1>4. x \in RoleRep /\ x.realm = call[p].req.realm /\ x.name = call[p].req.name
      /\ x.name \in call[p].todo
  BY <1>2, CallFields DEF Shape, Hears, Asks
<1>5. Untouched(call[p]) => x.realm = realmName
  BY <1>2, <1>4, CallFields DEF CallOK, InOneRealm, Active
<1> DEFINE k == Known(call[p], "roles", {Pending})
           c == [k EXCEPT !.got = @ \union {x}, !.todo = @ \ {call[p].req.name}]
<1>6. call' = [call EXCEPT ![p] = call'[p]] /\ call'[p] = c
  BY <1>1 DEF Goes, MapInv, CallsOK
<1>7. /\ k \in Call /\ k.pc = "roles" /\ k.req = Null /\ k.ans = {Pending}
      /\ k.plan = call[p].plan /\ k.asked = call[p].asked
      /\ k.todo = call[p].todo /\ k.got = call[p].got
      /\ k.revoke = call[p].revoke /\ k.alone = call[p].alone
  BY CallFields, KnownFields
<1> HIDE DEF k
<1>8. /\ c \in Call /\ c.pc = "roles" /\ c.req = Null /\ c.ans = {Pending}
      /\ c.plan = call[p].plan /\ c.asked = call[p].asked
      /\ c.todo = call[p].todo \ {x.name} /\ c.got = call[p].got \union {x}
      /\ c.revoke = call[p].revoke /\ c.alone = call[p].alone
  BY <1>4, <1>7 DEF Call
<1> HIDE DEF c
<1>9. Base(c)
  <2>1. NamesOf(c.got) = NamesOf(call[p].got) \union {x.name}
    BY <1>8 DEF NamesOf
  <2>2. OnePerName(c.got)
    BY <1>3, <1>4, <1>8 DEF Base, Carries, OnePerName, NamesOf
  <2> QED
    BY <1>3, <1>4, <1>5, <1>8, <2>1, <2>2 DEF Base, Carries, Untouched
<1>10. CallOK(c)
  BY <1>8, <1>9, RolesOK
<1> QED
  BY <1>2, <1>6, <1>10, OnlyCallSteps

LEMMA InvalidateHandles ==
  ASSUME HandlesOK, InvalidateParentCache
  PROVE  HandlesOK' /\ realmName' = realmName
  BY DEF HandlesOK, InvalidateParentCache, VisibleUser, RootVersion

LEMMA RequireUserOK ==
  ASSUME MapInv, NEW c, Base(c), NEW pc \in {"user", "again"}, c.todo = {},
         pc = "again" => c.plan.op = "reconcile"
  PROVE  CallOK(RequireUser(c, pc))
<1>1. CASE VisibleUser \in UserRep
  BY <1>1, KnownOK DEF RequireUser
<1>2. CASE VisibleUser \notin UserRep
  <2> DEFINE req == Request("user", realmName, Null, Null, {})
  <2>1. req \in Requests /\ req.kind = "user" /\ req.realm = realmName /\ req.roles = {}
    <3>1. /\ realmName \in Realms /\ Null \in Names \union {Null}
          /\ Null \in UserRep \union {Null} /\ {} \in SUBSET RoleRep
      BY DEF MapInv, HandlesOK
    <3> QED
      BY <3>1, RequestFields
  <2>2. RequireUser(c, pc) = Await(c, pc, req)
    BY <1>2 DEF RequireUser
  <2> HIDE DEF req
  <2>3. CallOK(Await(c, pc, req))
    BY <2>1, AwaitOK DEF KindAt
  <2> QED
    BY <2>2, <2>3
<1> QED
  BY <1>1, <1>2

LEMMA ResolvesUserMap ==
  ASSUME MapInv, NEW p \in Callers, ResolvesUser(p) PROVE MapInv'
<1>1. /\ call' = [call EXCEPT ![p] = call'[p]] /\ call'[p] = RequireUser(call[p], "user")
      /\ UNCHANGED <<server, edits>> /\ call[p].pc = "roles" /\ call[p].todo = {}
  BY DEF ResolvesUser, Goes, MapInv, CallsOK
<1>2. Base(call[p])
  BY <1>1, CallFields, CallIsBase
<1>3. CallOK(RequireUser(call[p], "user"))
  BY <1>1, <1>2, RequireUserOK
<1>4. HandlesOK' /\ realmName' = realmName
  BY InvalidateHandles DEF ResolvesUser, MapInv
<1> QED
  BY <1>1, <1>3, <1>4, CallSteps

LEMMA UserReturnsMap ==
  ASSUME MapInv, NEW p \in Callers, UserReturns(p) PROVE MapInv'
<1> DEFINE pc    == call[p].pc
           found == IF Stale THEN {} ELSE call[p].ans
<1>1. /\ call' = [call EXCEPT ![p] = call'[p]] /\ call'[p] = Known(call[p], pc, found)
      /\ UNCHANGED <<realmName, server, edits>>
      /\ pc \in {"user", "again"} /\ IsAnswer(call[p].ans)
  BY DEF UserReturns, Answered, IsAnswer, Goes, MapInv, CallsOK
<1>2. Base(call[p])
  BY <1>1, CallFields, CallIsBase
<1>3. found \subseteq UserRep /\ call[p].ans \subseteq UserRep
  BY <1>1, CallFields DEF Shape, Hears
<1>4. call[p].todo = {} /\ (pc = "again" => call[p].plan.op = "reconcile")
  BY <1>1, CallFields DEF Shape, Resolves, Asks
<1>5. HandlesOK'
  <2>1. user' \in UserRep \union {Null, Undefined}
    BY <1>3 DEF UserReturns
  <2> QED
    BY <2>1 DEF UserReturns, MapInv, HandlesOK, RootVersion
<1> HIDE DEF pc, found
<1>6. CallOK(Known(call[p], pc, found))
  BY <1>1, <1>2, <1>3, <1>4, KnownOK
<1> QED
  BY <1>1, <1>5, <1>6, CallSteps

LEMMA ListsRolesMap ==
  ASSUME MapInv, NEW p \in Callers, ListsRoles(p) PROVE MapInv'
<1>1. PICK u \in call[p].ans :
        Goes(p, Await(call[p], "list", Request("list", realmName, Null, u, {})))
  BY DEF ListsRoles
<1> DEFINE req == Request("list", realmName, Null, u, {})
<1>2. /\ call' = [call EXCEPT ![p] = call'[p]] /\ call'[p] = Await(call[p], "list", req)
      /\ UNCHANGED <<handles, server, edits>>
      /\ call[p].pc = "again" /\ call[p].req = Null
  BY <1>1 DEF ListsRoles, Goes, MapInv, CallsOK
<1>3. Base(call[p])
  BY <1>2, CallFields, CallIsBase
<1>4. call[p].ans \subseteq UserRep /\ call[p].todo = {} /\ call[p].plan.op = "reconcile"
  BY <1>2, CallFields DEF Shape, Hears, Resolves, Asks
<1>5. req \in Requests /\ req.kind = "list" /\ req.realm = realmName /\ req.roles = {}
  <2>1. /\ realmName \in Realms /\ Null \in Names \union {Null}
        /\ u \in UserRep \union {Null} /\ {} \in SUBSET RoleRep
    BY <1>1, <1>4, CallFields
  <2> QED
    BY <2>1, RequestFields
<1> HIDE DEF req
<1>6. CallOK(Await(call[p], "list", req))
  BY <1>3, <1>4, <1>5, AwaitOK DEF KindAt
<1> QED
  BY <1>2, <1>6, OnlyCallSteps

\* A request that changes what the user has.
LEMMA ChangeFields ==
  ASSUME MapInv, NEW c \in Call, NEW k \in {"add", "del"}, NEW rs \in SUBSET RoleRep
  PROVE  /\ Change(k, c, rs) \in Call /\ Change(k, c, rs).pc = k
         /\ Change(k, c, rs).ans = {Pending}
         /\ Change(k, c, rs).req \in Requests /\ Change(k, c, rs).req # Null
         /\ Change(k, c, rs).req.kind = k /\ Change(k, c, rs).req.realm = realmName
         /\ Change(k, c, rs).req.roles = rs
         /\ Change(k, c, rs).plan = c.plan /\ Change(k, c, rs).asked = c.asked
         /\ Change(k, c, rs).todo = c.todo /\ Change(k, c, rs).got = c.got
         /\ Change(k, c, rs).revoke = c.revoke /\ Change(k, c, rs).alone = c.alone
<1> DEFINE req == Request(k, realmName, Null, c.user, rs)
<1>1. /\ realmName \in Realms /\ Null \in Names \union {Null} /\ c.user \in UserRep \union {Null}
      /\ k \in {"ensure", "read", "user", "list", "add", "del"} /\ k \in Awaited
  BY DEF MapInv, HandlesOK, Call, Awaited
<1>2. req \in Requests /\ req.kind = k /\ req.realm = realmName /\ req.roles = rs /\ req # Null
  <2> HIDE DEF MapInv
  <2> QED
    BY <1>1, RequestFields, SMTT(30)
<1>3. Change(k, c, rs) = Await(c, k, req)
  BY DEF Change
<1> HIDE DEF req
<1> QED
  BY <1>1, <1>2, <1>3, AwaitFields

LEMMA AddOK ==
  ASSUME MapInv, NEW c, Carries(c), c.todo = {}, NEW rs \in SUBSET RoleRep, rs # {},
         c.plan.op \in {"reconcile", "assign"}, NamesOf(rs) \subseteq Effective(c.plan),
         c.revoke # {} => c.plan.op = "reconcile",
         NamesOf(c.revoke) \subseteq Unwanted(c.plan),
         Untouched(c) =>
           /\ \A x \in rs \union c.revoke : x.realm = realmName
           /\ Effective(c.plan) \subseteq NamesOf(mapped[realmName]) \union NamesOf(rs)
           /\ \A x \in mapped[realmName] : x.name \in Unwanted(c.plan) => x \in c.revoke
  PROVE  CallOK(Change("add", c, rs))
<1> DEFINE d == Change("add", c, rs)
<1>1. /\ d \in Call /\ d.pc = "add" /\ d.ans = {Pending} /\ d.req \in Requests /\ d.req # Null
      /\ d.req.kind = "add" /\ d.req.realm = realmName /\ d.req.roles = rs
      /\ d.plan = c.plan /\ d.asked = c.asked /\ d.todo = c.todo /\ d.got = c.got
      /\ d.revoke = c.revoke /\ d.alone = c.alone
  BY ChangeFields DEF Carries
<1> HIDE DEF d
<1>2. Shape(d)
  <2>1. Resolves(d)
    BY <1>1 DEF Carries, Resolves, Active
  <2>2. Asks(d)
    BY <1>1 DEF Carries, Asks, Active, KindAt
  <2>3. Hears(d)
    BY <1>1 DEF Hears, IsAnswer
  <2>4. Follows(d)
    BY <1>1 DEF Follows
  <2> QED
    BY <2>1, <2>2, <2>3, <2>4 DEF Shape
<1>3. ASSUME Untouched(d) PROVE InOneRealm(d, realmName) /\ Accounts(d, mapped[realmName])
  <2>1. Untouched(c)
    BY <1>1, <1>3 DEF Untouched
  <2>2. InOneRealm(d, realmName)
    BY <1>1, <2>1 DEF Carries, InOneRealm
  <2>3. {Pending} # {}
    OBVIOUS
  <2>4. Accounts(d, mapped[realmName])
    BY <1>1, <2>1, <2>3 DEF Accounts
  <2> QED
    BY <2>2, <2>4
<1> QED
  BY <1>1, <1>2, <1>3 DEF CallOK, d

LEMMA DelOK ==
  ASSUME MapInv, NEW c, Base(c), c.todo = {}, NEW rs \in SUBSET RoleRep, rs # {},
         c.plan.op \in {"reconcile", "unassign"},
         c.plan.op = "reconcile" => NamesOf(rs) \subseteq Unwanted(c.plan),
         c.plan.op = "unassign" => NamesOf(rs) = Effective(c.plan),
         Untouched(c) =>
           /\ \A x \in rs : x.realm = realmName
           /\ c.plan.op = "reconcile" =>
                /\ Effective(c.plan) \subseteq NamesOf(mapped[realmName])
                /\ \A x \in mapped[realmName] : x.name \in Unwanted(c.plan) => x \in rs
  PROVE  CallOK(Change("del", c, rs))
<1> DEFINE d == Change("del", c, rs)
<1>1. /\ d \in Call /\ d.pc = "del" /\ d.ans = {Pending} /\ d.req \in Requests /\ d.req # Null
      /\ d.req.kind = "del" /\ d.req.realm = realmName /\ d.req.roles = rs
      /\ d.plan = c.plan /\ d.asked = c.asked /\ d.todo = c.todo /\ d.got = c.got
      /\ d.revoke = c.revoke /\ d.alone = c.alone
  BY ChangeFields DEF Base, Carries
<1> HIDE DEF d
<1>2. Shape(d)
  <2>1. Resolves(d)
    BY <1>1 DEF Base, Carries, Resolves, Active
  <2>2. Asks(d)
    BY <1>1 DEF Base, Carries, Asks, Active, KindAt
  <2>3. Hears(d)
    BY <1>1 DEF Hears, IsAnswer
  <2>4. Follows(d)
    BY <1>1 DEF Follows, Base, NamesOf
  <2> QED
    BY <2>1, <2>2, <2>3, <2>4 DEF Shape
<1>3. ASSUME Untouched(d) PROVE InOneRealm(d, realmName) /\ Accounts(d, mapped[realmName])
  <2>1. Untouched(c)
    BY <1>1, <1>3 DEF Untouched
  <2>2. InOneRealm(d, realmName)
    BY <1>1, <2>1 DEF Base, Carries, InOneRealm
  <2>3. {Pending} # {}
    OBVIOUS
  <2>4. Accounts(d, mapped[realmName])
    BY <1>1, <2>1, <2>3 DEF Accounts
  <2> QED
    BY <2>2, <2>4
<1> QED
  BY <1>1, <1>2, <1>3 DEF CallOK, d

LEMMA HasUserMap ==
  ASSUME MapInv, NEW p \in Callers, HasUser(p) PROVE MapInv'
<1>1. /\ call[p].pc = "user" /\ call[p].req = Null /\ UNCHANGED <<server, edits>>
  BY DEF HasUser
<1>2. Base(call[p]) /\ call[p].todo = {} /\ call[p].ans \subseteq UserRep
  BY <1>1, CallFields, CallIsBase DEF Shape, Resolves, Hears
<1>3. PICK u \in call[p].ans :
        LET c == [call[p] EXCEPT !.user = u]
        IN  IF c.plan.op = "reconcile"
            THEN InvalidateParentCache /\ Goes(p, RequireUser(c, "again"))
            ELSE /\ UNCHANGED handles
                 /\ Goes(p, IF c.got = {} THEN Finished(c)
                            ELSE Change(IF c.plan.op = "assign" THEN "add" ELSE "del", c, c.got))
  BY DEF HasUser
<1> DEFINE c == [call[p] EXCEPT !.user = u]
<1>4. /\ c \in Call /\ c.plan = call[p].plan /\ c.asked = call[p].asked
      /\ c.todo = call[p].todo /\ c.got = call[p].got
      /\ c.revoke = call[p].revoke /\ c.alone = call[p].alone
  BY <1>2, CallFields DEF Call
<1>5. /\ c.plan.op = "reconcile" =>
           InvalidateParentCache /\ Goes(p, RequireUser(c, "again"))
      /\ c.plan.op # "reconcile" =>
           /\ UNCHANGED handles
           /\ c.got = {} => Goes(p, Finished(c))
           /\ c.got # {} =>
                /\ c.plan.op = "assign" => Goes(p, Change("add", c, c.got))
                /\ c.plan.op # "assign" => Goes(p, Change("del", c, c.got))
  BY <1>3
<1> HIDE DEF c
<1>6. Base(c) /\ c.todo = {} /\ c.revoke = {} /\ c.got \in SUBSET RoleRep
  BY <1>2, <1>4 DEF Base, Carries, Untouched, Call
<1>7. /\ Effective(c.plan) \subseteq Touches(c.plan)
      /\ c.plan.op # "reconcile" => Unwanted(c.plan) = {}
      /\ c.plan.op \in {"reconcile", "assign", "unassign"}
      /\ NamesOf(c.got) = Effective(c.plan)
      /\ NamesOf(c.revoke) = {}
  <2>1. c.plan \in Plans \union {NoPlan}
    BY <1>4, CallFields
  <2> QED
    BY <2>1, <1>6, PlanParts DEF Unwanted, Base, Carries, NamesOf
<1>8. CASE c.plan.op = "reconcile"
  <2>1. CallOK(RequireUser(c, "again"))
    BY <1>6, <1>8, RequireUserOK
  <2>2. call' = [call EXCEPT ![p] = call'[p]] /\ call'[p] = RequireUser(c, "again")
    BY <1>5, <1>8 DEF Goes, MapInv, CallsOK
  <2>3. HandlesOK' /\ realmName' = realmName
    BY <1>5, <1>8, InvalidateHandles DEF MapInv
  <2> QED
    BY <1>1, <2>1, <2>2, <2>3, CallSteps
<1>9. CASE c.plan.op # "reconcile" /\ c.got = {}
  <2>1. Effective(c.plan) = {}
    BY <1>7, <1>9 DEF NamesOf
  <2>2. CallOK(Finished(c))
    BY <1>4, <1>7, <1>9, <2>1, FinishedOK
  <2>3. call' = [call EXCEPT ![p] = call'[p]] /\ call'[p] = Finished(c)
    BY <1>5, <1>9 DEF Goes, MapInv, CallsOK
  <2> QED
    BY <1>1, <1>5, <1>9, <2>2, <2>3, OnlyCallSteps
<1>10. CASE c.plan.op = "assign" /\ c.got # {}
  <2>1. Carries(c) /\ (Untouched(c) => \A x \in c.got \union c.revoke : x.realm = realmName)
    BY <1>6 DEF Base, Carries
  <2>2. CallOK(Change("add", c, c.got))
    BY <1>6, <1>7, <1>10, <2>1, AddOK
  <2>3. call' = [call EXCEPT ![p] = call'[p]] /\ call'[p] = Change("add", c, c.got)
    BY <1>5, <1>10 DEF Goes, MapInv, CallsOK
  <2> QED
    BY <1>1, <1>5, <1>10, <2>2, <2>3, OnlyCallSteps
<1>11. CASE c.plan.op = "unassign" /\ c.got # {}
  <2>1. Untouched(c) => \A x \in c.got : x.realm = realmName
    BY <1>6 DEF Base, Carries
  <2>2. CallOK(Change("del", c, c.got))
    BY <1>6, <1>7, <1>11, <2>1, DelOK
  <2>3. call' = [call EXCEPT ![p] = call'[p]] /\ call'[p] = Change("del", c, c.got)
    BY <1>5, <1>11 DEF Goes, MapInv, CallsOK
  <2> QED
    BY <1>1, <1>5, <1>11, <2>2, <2>3, OnlyCallSteps
<1> QED
  BY <1>7, <1>8, <1>9, <1>10, <1>11

\* What reconcile sends: what it lacks of the roles it wants, and the managed
\* roles it was told of that it does not want.
LEMMA ListedMap ==
  ASSUME MapInv, NEW p \in Callers, Listed(p) PROVE MapInv'
<1> DEFINE add    == ToAdd(call[p], call[p].ans)
           remove == ToRemove(call[p], call[p].ans)
           m      == mapped[realmName]
           plan   == call[p].plan
<1>1. /\ call[p].pc = "list" /\ IsAnswer(call[p].ans)
      /\ UNCHANGED <<handles, server, edits>>
      /\ call' = [call EXCEPT ![p] = call'[p]]
      /\ call'[p] = Reconcile(call[p], add, remove)
  BY DEF Listed, Answered, IsAnswer, Goes, MapInv, CallsOK
<1>2. /\ Base(call[p]) /\ call[p].todo = {} /\ plan.op = "reconcile" /\ call[p].req # Null
      /\ \A x \in call[p].ans : x \in RoleRep /\ x.realm = call[p].req.realm
      /\ call[p].revoke = {}
  BY <1>1, CallFields, CallIsBase DEF Shape, Resolves, Asks, Hears, Base
<1>3. plan \in Plans \union {NoPlan} /\ call[p].got \in SUBSET RoleRep
  BY CallFields
<1>4. /\ add \in SUBSET RoleRep /\ remove \in SUBSET RoleRep
      /\ NamesOf(add) \subseteq Effective(plan)
      /\ NamesOf(remove) \subseteq Unwanted(plan)
  <2>1. NamesOf(call[p].got) = Effective(plan)
    BY <1>2 DEF Base, Carries
  <2> QED
    BY <1>2, <1>3, <2>1 DEF ToAdd, ToRemove, NamesOf, Unwanted
<1>5. ASSUME Untouched(call[p])
      PROVE  /\ \A x \in add \union remove : x.realm = realmName
             /\ Effective(plan) \subseteq NamesOf(m) \union NamesOf(add)
             /\ \A x \in m : x.name \in Unwanted(plan) => x \in remove
  <2>1. InOneRealm(call[p], realmName) /\ Accounts(call[p], m)
    BY <1>5, CallFields DEF CallOK
  <2>2. \A x \in RoleRep : x.name \in Touches(plan) => (x \in call[p].ans <=> x \in m)
    BY <1>1, <2>1 DEF Accounts
  <2>3. \A x \in add \union remove : x.realm = realmName
    BY <1>1, <1>2, <2>1 DEF InOneRealm, Active, ToAdd, ToRemove
  <2>4. NamesOf(call[p].got) = Effective(plan) /\ Effective(plan) \subseteq Touches(plan)
        /\ Unwanted(plan) \subseteq Touches(plan)
    BY <1>2, <1>3, PlanParts DEF Base, Carries
  <2>5. ASSUME NEW n \in Effective(plan) PROVE n \in NamesOf(m) \union NamesOf(add)
    <3>1. PICK x \in call[p].got : x.name = n
      BY <2>4 DEF NamesOf
    <3>2. CASE x.name \in NamesOf(call[p].ans)
      <4>1. PICK y \in call[p].ans : y.name = n
        BY <3>1, <3>2 DEF NamesOf
      <4>2. y \in m
        BY <1>2, <2>2, <2>4, <4>1
      <4> QED
        BY <4>1, <4>2 DEF NamesOf
    <3>3. CASE x.name \notin NamesOf(call[p].ans)
      BY <3>1, <3>3 DEF ToAdd, NamesOf
    <3> QED
      BY <3>2, <3>3
  <2>6. ASSUME NEW x \in m, x.name \in Unwanted(plan) PROVE x \in remove
    <3>1. x \in RoleRep
      BY DEF MapInv, HandlesOK, ServerOK
    <3>2. x \in call[p].ans
      BY <2>2, <2>4, <2>6, <3>1
    <3> QED
      BY <1>2, <2>6, <3>2 DEF ToRemove, Unwanted
  <2> QED
    BY <2>3, <2>5, <2>6
<1> HIDE DEF add, remove
<1>6. CASE add # {}
  <2> DEFINE c == [call[p] EXCEPT !.revoke = remove]
  <2>1. /\ c \in Call /\ c.plan = plan /\ c.asked = call[p].asked
        /\ c.todo = call[p].todo /\ c.got = call[p].got
        /\ c.revoke = remove /\ c.alone = call[p].alone
    BY <1>4, CallFields DEF Call
  <2>2. call'[p] = Change("add", c, add)
    BY <1>1, <1>6 DEF Reconcile
  <2> HIDE DEF c
  <2>3. Carries(c) /\ c.todo = {}
    BY <1>2, <2>1 DEF Base, Carries, Untouched
  <2>4. Untouched(c) => Untouched(call[p])
    BY <2>1 DEF Untouched
  <2>5. CallOK(Change("add", c, add))
    BY <1>2, <1>4, <1>5, <1>6, <2>1, <2>3, <2>4, AddOK
  <2> QED
    BY <1>1, <2>2, <2>5, OnlyCallSteps
<1>7. CASE add = {} /\ remove # {}
  <2>1. call'[p] = Change("del", call[p], remove)
    BY <1>1, <1>7 DEF Reconcile
  <2>2. NamesOf(add) = {}
    BY <1>7 DEF NamesOf
  <2>3. CallOK(Change("del", call[p], remove))
    BY <1>2, <1>4, <1>5, <1>7, <2>2, DelOK
  <2> QED
    BY <1>1, <2>1, <2>3, OnlyCallSteps
<1>8. CASE add = {} /\ remove = {}
  <2>1. call'[p] = Finished(call[p])
    BY <1>1, <1>8 DEF Reconcile
  <2>2. NamesOf(add) = {}
    BY <1>8 DEF NamesOf
  <2>3. CallOK(Finished(call[p]))
    BY <1>2, <1>5, <1>8, <2>2, CallFields, FinishedOK
  <2> QED
    BY <1>1, <2>1, <2>3, OnlyCallSteps
<1> QED
  BY <1>6, <1>7, <1>8

LEMMA AddedMap ==
  ASSUME MapInv, NEW p \in Callers, Added(p) PROVE MapInv'
<1> DEFINE plan == call[p].plan
           m    == mapped[realmName]
<1>1. /\ call[p].pc = "add" /\ IsAnswer(call[p].ans)
      /\ UNCHANGED <<handles, server, edits>>
      /\ call' = [call EXCEPT ![p] = call'[p]]
      /\ call[p].revoke = {} => call'[p] = Finished(call[p])
      /\ call[p].revoke # {} =>
           call'[p] = Change("del", [call[p] EXCEPT !.revoke = {}], call[p].revoke)
  BY DEF Added, Answered, IsAnswer, Goes, MapInv, CallsOK
<1>2. /\ call[p].todo = {} /\ call[p].ans = {} /\ plan.op \in {"reconcile", "assign"}
      /\ (call[p].revoke # {} => plan.op = "reconcile")
      /\ NamesOf(call[p].revoke) \subseteq Unwanted(plan)
  BY <1>1, CallFields DEF Shape, Resolves, Hears, Follows
<1>3. ASSUME Untouched(call[p])
      PROVE  /\ Effective(plan) \subseteq NamesOf(m)
             /\ \A x \in m : x.name \in Unwanted(plan) => x \in call[p].revoke
             /\ \A x \in call[p].revoke : x.realm = realmName
  <2>1. InOneRealm(call[p], realmName) /\ Accounts(call[p], m)
    BY <1>3, CallFields DEF CallOK
  <2> QED
    BY <1>1, <1>2, <2>1 DEF Accounts, InOneRealm, Active
<1>4. CASE call[p].revoke = {}
  <2>1. CallOK(Finished(call[p]))
    BY <1>2, <1>3, <1>4, CallFields, FinishedOK
  <2> QED
    BY <1>1, <1>4, <2>1, OnlyCallSteps
<1>5. CASE call[p].revoke # {}
  <2> DEFINE c == [call[p] EXCEPT !.revoke = {}]
  <2>1. /\ c \in Call /\ c.plan = plan /\ c.asked = call[p].asked
        /\ c.todo = call[p].todo /\ c.got = call[p].got
        /\ c.revoke = {} /\ c.alone = call[p].alone
    BY CallFields DEF Call
  <2>2. call'[p] = Change("del", c, call[p].revoke)
    BY <1>1, <1>5
  <2> HIDE DEF c
  <2>3. Untouched(c) => Untouched(call[p])
    BY <2>1 DEF Untouched
  <2>4. Base(c)
    <3>1. /\ NamesOf(call[p].got) \union call[p].todo = Effective(plan)
          /\ NamesOf(call[p].got) \intersect call[p].todo = {}
          /\ OnePerName(call[p].got)
      BY <1>1, CallFields DEF Shape, Resolves, Active
    <3>2. Untouched(call[p]) => \A x \in call[p].got : x.realm = realmName
      BY <1>1, CallFields DEF CallOK, InOneRealm, Active
    <3> QED
      BY <1>2, <1>5, <2>1, <2>3, <3>1, <3>2 DEF Base, Carries
  <2>5. CallOK(Change("del", c, call[p].revoke))
    BY <1>2, <1>3, <1>5, <2>1, <2>3, <2>4, CallFields, DelOK
  <2> QED
    BY <1>1, <2>2, <2>5, OnlyCallSteps
<1> QED
  BY <1>4, <1>5

LEMMA RemovedMap ==
  ASSUME MapInv, NEW p \in Callers, Removed(p) PROVE MapInv'
<1> DEFINE plan == call[p].plan
           m    == mapped[realmName]
<1>1. /\ call[p].pc = "del" /\ IsAnswer(call[p].ans)
      /\ UNCHANGED <<handles, server, edits>>
      /\ call' = [call EXCEPT ![p] = call'[p]] /\ call'[p] = Finished(call[p])
  BY DEF Removed, Answered, IsAnswer, Goes, MapInv, CallsOK
<1>2. call[p].ans = {} /\ plan.op \in {"reconcile", "unassign"}
  BY <1>1, CallFields DEF Shape, Hears, Follows
<1>3. ASSUME Untouched(call[p])
      PROVE  /\ plan.op # "unassign" => Effective(plan) \subseteq NamesOf(m)
             /\ plan.op = "unassign" => \A x \in m : x.name \notin Effective(plan)
             /\ \A x \in m : x.name \notin Unwanted(plan)
  <2>1. Accounts(call[p], m)
    BY <1>3, CallFields DEF CallOK
  <2>2. plan.op = "unassign" => Unwanted(plan) = {}
    BY DEF Unwanted
  <2> QED
    BY <1>1, <1>2, <2>1, <2>2 DEF Accounts
<1>4. CallOK(Finished(call[p]))
  BY <1>3, CallFields, FinishedOK
<1> QED
  BY <1>1, <1>4, OnlyCallSteps

-----------------------------------------------------------------------------
(* Steps that change the server, or move the realm                         *)

\* A call that others crossed is still a call of its plan.
LEMMA CrossedOK ==
  ASSUME NEW c \in Call, Shape(c)
  PROVE  /\ [c EXCEPT !.alone = FALSE] \in Call
         /\ Shape([c EXCEPT !.alone = FALSE])
         /\ ~Untouched([c EXCEPT !.alone = FALSE])
<1> DEFINE d == [c EXCEPT !.alone = FALSE]
<1>1. /\ d \in Call /\ d.plan = c.plan /\ d.pc = c.pc /\ d.asked = c.asked
      /\ d.todo = c.todo /\ d.got = c.got /\ d.req = c.req /\ d.ans = c.ans
      /\ d.revoke = c.revoke /\ d.alone = FALSE
  BY DEF Call
<1> HIDE DEF d
<1>2. Resolves(d) /\ Asks(d)
  BY <1>1 DEF Shape, Resolves, Asks, Active
<1>3. Hears(d) /\ Follows(d)
  BY <1>1 DEF Shape, Hears, Follows
<1> QED
  BY <1>1, <1>2, <1>3 DEF Shape, Untouched, d

\* What a call counts on is only about the names it touches.
LEMMA AccountsAgree ==
  ASSUME NEW c \in Call, NEW m \in SUBSET RoleRep, NEW n \in SUBSET RoleRep,
         \A x \in RoleRep : x.name \in Touches(c.plan) => (x \in m <=> x \in n),
         Accounts(c, m)
  PROVE  Accounts(c, n)
<1>1. /\ Effective(c.plan) \subseteq Touches(c.plan)
      /\ Unwanted(c.plan) \subseteq Touches(c.plan)
  BY PlanParts DEF Call
<1>2. \A x \in n : x.name \in Touches(c.plan) => x \in m
  OBVIOUS
<1>3. \A S \in SUBSET Touches(c.plan) : S \subseteq NamesOf(m) => S \subseteq NamesOf(n)
  BY DEF NamesOf
<1>4. c.pc = "list" /\ IsAnswer(c.ans) =>
        \A x \in RoleRep : x.name \in Touches(c.plan) => (x \in c.ans <=> x \in n)
  BY DEF Accounts
<1>5. c.pc = "add" =>
       /\ c.ans = {Pending} => Effective(c.plan) \subseteq NamesOf(n) \union NamesOf(c.req.roles)
       /\ c.ans = {} => Effective(c.plan) \subseteq NamesOf(n)
       /\ \A x \in n : x.name \in Unwanted(c.plan) => x \in c.revoke
  BY <1>1, <1>2, <1>3 DEF Accounts, NamesOf
<1>6. c.pc = "del" /\ c.plan.op = "reconcile" =>
       /\ Effective(c.plan) \subseteq NamesOf(n)
       /\ c.ans = {Pending} => \A x \in n : x.name \in Unwanted(c.plan) => x \in c.req.roles
       /\ c.ans = {} => \A x \in n : x.name \notin Unwanted(c.plan)
  BY <1>1, <1>2, <1>3 DEF Accounts
<1>7. c.pc = "del" /\ c.plan.op = "unassign" /\ c.ans = {} =>
       \A x \in n : x.name \notin Effective(c.plan)
  BY <1>1, <1>2 DEF Accounts
<1>8. c.pc = "done" =>
       /\ c.plan.op # "unassign" => Effective(c.plan) \subseteq NamesOf(n)
       /\ c.plan.op = "unassign" => \A x \in n : x.name \notin Effective(c.plan)
       /\ \A x \in n : x.name \notin Unwanted(c.plan)
  BY <1>1, <1>2, <1>3 DEF Accounts
<1> QED
  BY <1>4, <1>5, <1>6, <1>7, <1>8 DEF Accounts

\* A step that changes what the user has of some names leaves a call as it is, or
\* crosses it; it crosses every call that may touch one of these names.
LEMMA BystanderOK ==
  ASSUME MapInv, ServerOK', realmName' = realmName, NEW names, NEW q \in Callers,
         \A x \in RoleRep :
           x.name \notin names => (x \in mapped[realmName] <=> x \in mapped'[realmName]),
         call'[q] = [call[q] EXCEPT !.alone = FALSE]
           \/ /\ call'[q] = call[q]
              /\ call[q].pc = "idle" \/ Touches(call[q].plan) \intersect names = {}
  PROVE  CallOK(call[q])'
<1>1. call[q] \in Call /\ Shape(call[q])
  BY CallFields
<1>2. CASE call'[q] = [call[q] EXCEPT !.alone = FALSE]
  <2>1. call'[q] \in Call /\ Shape(call'[q]) /\ ~Untouched(call'[q])
    BY <1>1, <1>2, CrossedOK
  <2> QED
    BY <2>1 DEF CallOK
<1>3. CASE call'[q] = call[q] /\ call[q].pc = "idle"
  <2>1. InOneRealm(call[q], realmName) /\ Accounts(call[q], mapped'[realmName])
    BY <1>3 DEF InOneRealm, Accounts, Active
  <2> QED
    BY <1>1, <1>3, <2>1 DEF CallOK
<1>4. CASE call'[q] = call[q] /\ Touches(call[q].plan) \intersect names = {}
  <2>1. mapped[realmName] \in SUBSET RoleRep /\ mapped'[realmName] \in SUBSET RoleRep
    BY DEF MapInv, ServerOK, HandlesOK
  <2>2. \A x \in RoleRep : x.name \in Touches(call[q].plan) =>
          (x \in mapped[realmName] <=> x \in mapped'[realmName])
    BY <1>4
  <2>3. Untouched(call[q]) => InOneRealm(call[q], realmName) /\ Accounts(call[q], mapped[realmName])
    BY CallFields DEF CallOK
  <2>4. Untouched(call[q]) => Accounts(call[q], mapped'[realmName])
    BY <1>1, <2>1, <2>2, <2>3, AccountsAgree
  <2> QED
    BY <1>1, <1>4, <2>3, <2>4 DEF CallOK
<1> QED
  BY <1>2, <1>3, <1>4

\* What other administrators do.
LEMMA EditOK ==
  ASSUME MapInv, ServerOK', UNCHANGED handles, NEW names, call' = Disturb(call, names, {}),
         \A x \in RoleRep :
           x.name \notin names => (x \in mapped[realmName] <=> x \in mapped'[realmName])
  PROVE  MapInv'
<1>1. HandlesOK' /\ realmName' = realmName /\ call \in [Callers -> Call]
  BY DEF MapInv, HandlesOK, CallsOK, handles
<1>2. call' \in [Callers -> Call]
  <2>1. \A c \in Call : [c EXCEPT !.alone = FALSE] \in Call
    BY DEF Call
  <2> QED
    BY <1>1, <2>1 DEF Disturb
<1>3. ASSUME NEW q \in Callers PROVE CallOK(call[q])'
  <2>1. \/ call'[q] = [call[q] EXCEPT !.alone = FALSE]
        \/ /\ call'[q] = call[q]
           /\ call[q].pc = "idle" \/ Touches(call[q].plan) \intersect names = {}
    BY DEF Disturb
  <2> QED
    BY <1>1, <2>1, BystanderOK
<1> QED
  BY <1>1, <1>2, <1>3 DEF MapInv, CallsOK

LEMMA AdminMap == ASSUME MapInv, Admin PROVE MapInv'
<1>1. PICK r \in Realms : AdminUser(r) \/ \E n \in Names : AdminRole(r, n) \/ AdminMapping(r, n)
  BY DEF Admin
<1>2. /\ roles \in [Realms -> [Names -> 0..MaxIncarnation]]
      /\ users \in [Realms -> 0..MaxIncarnation]
      /\ mapped \in [Realms -> SUBSET RoleRep]
      /\ \A s \in Realms : \A x \in mapped[s] : x.realm = s /\ Exists(x) /\ Odd(users[s])
      /\ MaxIncarnation \in Nat /\ realmName \in Realms
  BY RoleMappingAssumption DEF MapInv, ServerOK, HandlesOK
<1>3. UNCHANGED handles /\ edits' \in 0..MaxEdits
  BY RoleMappingAssumption DEF Admin, MapInv, ServerOK
<1>4. ASSUME AdminUser(r) PROVE MapInv'
  <2>1. ServerOK'
    <3>1. users' \in [Realms -> 0..MaxIncarnation] /\ mapped' \in [Realms -> SUBSET RoleRep]
      BY <1>2, <1>4 DEF AdminUser
    <3>2. ASSUME NEW s \in Realms, NEW x \in mapped'[s]
          PROVE  x.realm = s /\ Exists(x)' /\ Odd(users'[s])
      <4>1. s # r /\ x \in mapped[s]
        BY <1>2, <1>4, <3>2 DEF AdminUser
      <4>2. users'[s] = users[s] /\ roles' = roles
        BY <1>2, <1>4, <4>1 DEF AdminUser
      <4> QED
        BY <1>2, <4>1, <4>2 DEF Exists, RoleOf
    <3> QED
      BY <1>2, <1>3, <1>4, <3>1, <3>2 DEF ServerOK, AdminUser
  <2>2. \A x \in RoleRep : x.name \in Names
    BY DEF RoleRep
  <2> QED
    BY <1>3, <1>4, <2>1, <2>2, EditOK DEF AdminUser
<1>5. ASSUME NEW n \in Names, AdminRole(r, n) PROVE MapInv'
  <2>1. /\ roles' = [roles EXCEPT ![r][n] = @ + 1] /\ roles[r][n] < MaxIncarnation
        /\ mapped' = [mapped EXCEPT ![r] = {x \in @ : x.name # n}] /\ users' = users
        /\ call' = Disturb(call, {n}, {})
    BY <1>5 DEF AdminRole
  <2>2. ServerOK'
    <3>1. roles' \in [Realms -> [Names -> 0..MaxIncarnation]]
      <4>1. roles[r][n] + 1 \in 0..MaxIncarnation
        BY <1>2, <2>1
      <4> QED
        BY <1>2, <2>1, <4>1
    <3>2. mapped' \in [Realms -> SUBSET RoleRep]
      BY <1>2, <2>1
    <3>3. ASSUME NEW s \in Realms, NEW x \in mapped'[s]
          PROVE  x.realm = s /\ Exists(x)' /\ Odd(users'[s])
      <4>1. x \in mapped[s] /\ (s = r => x.name # n)
        BY <1>2, <2>1
      <4>2. x \in RoleRep /\ x.realm = s /\ Exists(x) /\ Odd(users[s])
        BY <1>2, <4>1
      <4>3. roles'[s][x.name] = roles[s][x.name]
        BY <1>2, <2>1, <4>1, <4>2 DEF RoleRep
      <4> QED
        BY <2>1, <4>2, <4>3 DEF Exists, RoleOf
    <3> QED
      BY <1>2, <1>3, <2>1, <3>1, <3>2, <3>3 DEF ServerOK
  <2>3. \A x \in RoleRep : x.name \notin {n} => (x \in mapped[realmName] <=> x \in mapped'[realmName])
    BY <1>2, <2>1
  <2> QED
    BY <1>3, <2>1, <2>2, <2>3, EditOK
<1>6. ASSUME NEW n \in Names, AdminMapping(r, n) PROVE MapInv'
  <2> DEFINE y == RoleOf(r, n)
  <2>1. /\ Odd(users[r]) /\ Odd(roles[r][n]) /\ roles' = roles /\ users' = users
        /\ mapped' = [mapped EXCEPT ![r] = IF y \in @ THEN @ \ {y} ELSE @ \union {y}]
        /\ call' = Disturb(call, {n}, {})
    BY <1>6 DEF AdminMapping
  <2>2. y \in RoleRep /\ y.realm = r /\ y.name = n /\ Exists(y)
    BY <1>2, <2>1 DEF RoleOf, RoleRep, Exists
  <2> HIDE DEF y
  <2>3. ServerOK'
    <3>1. mapped' \in [Realms -> SUBSET RoleRep]
      BY <1>2, <2>1, <2>2
    <3>2. ASSUME NEW s \in Realms, NEW x \in mapped'[s]
          PROVE  x.realm = s /\ Exists(x)' /\ Odd(users'[s])
      <4>1. x \in mapped[s] \/ (s = r /\ x = y)
        BY <1>2, <2>1
      <4>2. x.realm = s /\ Exists(x) /\ Odd(users[s])
        BY <1>2, <2>1, <2>2, <4>1
      <4> QED
        BY <2>1, <4>2 DEF Exists, RoleOf
    <3> QED
      BY <1>2, <1>3, <2>1, <3>1, <3>2 DEF ServerOK
  <2>4. \A x \in RoleRep : x.name \notin {n} => (x \in mapped[realmName] <=> x \in mapped'[realmName])
    BY <1>2, <2>1, <2>2
  <2> QED
    BY <1>3, <2>1, <2>3, <2>4, EditOK
<1> QED
  BY <1>1, <1>4, <1>5, <1>6

LEMMA RebindRealmMap ==
  ASSUME MapInv, NEW r \in Realms, RebindRealm(r) PROVE MapInv'
<1>1. HandlesOK'
  <2>1. /\ realmName' = r /\ realmGen' = realmGen + 1 /\ retargets' = retargets + 1
        /\ retargets < MaxRetargets /\ user' = user /\ seen' = seen
    BY DEF RebindRealm
  <2>2. /\ MaxRetargets \in Nat /\ retargets \in 0..MaxRetargets /\ realmGen \in 0..retargets
        /\ user \in UserRep \union {Null, Undefined}
        /\ seen \in {RootVersion(g) : g \in 0..realmGen}
    BY RoleMappingAssumption DEF MapInv, HandlesOK
  <2>3. 0..realmGen \subseteq 0..(realmGen + 1)
    BY <2>2
  <2>4. realmGen' \in 0..retargets' /\ retargets' \in 0..MaxRetargets
    BY <2>1, <2>2
  <2> QED
    BY <2>1, <2>2, <2>3, <2>4 DEF HandlesOK
<1>2. ServerOK'
  BY DEF RebindRealm, MapInv, ServerOK, server, Exists, RoleOf
<1>3. call \in [Callers -> Call] /\ call' = Disturb(call, Names, {})
  BY DEF RebindRealm, MapInv, CallsOK
<1>4. call' \in [Callers -> Call]
  <2>1. \A c \in Call : [c EXCEPT !.alone = FALSE] \in Call
    BY DEF Call
  <2> QED
    BY <1>3, <2>1 DEF Disturb
<1>5. ASSUME NEW q \in Callers PROVE CallOK(call[q])'
  <2>1. \/ call'[q] = [call[q] EXCEPT !.alone = FALSE]
        \/ /\ call'[q] = call[q]
           /\ call[q].pc = "idle" \/ Touches(call[q].plan) \intersect Names = {}
    BY <1>3 DEF Disturb
  <2>2. call[q] \in Call /\ Shape(call[q])
    BY CallFields
  <2>3. CASE call'[q] = [call[q] EXCEPT !.alone = FALSE]
    <3>1. call'[q] \in Call /\ Shape(call'[q]) /\ ~Untouched(call'[q])
      BY <2>2, <2>3, CrossedOK
    <3> QED
      BY <3>1 DEF CallOK
  <2>4. CASE call'[q] = call[q] /\ call[q].pc = "idle"
    <3>1. InOneRealm(call[q], realmName') /\ Accounts(call[q], mapped'[realmName'])
      BY <2>4 DEF InOneRealm, Accounts, Active
    <3> QED
      BY <2>2, <2>4, <3>1 DEF CallOK
  <2>5. CASE call'[q] = call[q] /\ Touches(call[q].plan) \intersect Names = {}
    <3>1. ~Untouched(call[q])
      BY <2>5, CallFields, PlanParts DEF Untouched
    <3> QED
      BY <2>2, <2>5, <3>1 DEF CallOK
  <2> QED
    BY <2>1, <2>3, <2>4, <2>5
<1> QED
  BY <1>1, <1>2, <1>4, <1>5 DEF MapInv, CallsOK

\* How a request may be served.
Refused(p, a) == UNCHANGED <<roles, mapped>> /\ a = {Failed}

Read(p, a) ==
  /\ UNCHANGED <<roles, mapped>>
  /\ call[p].req.kind \in {"read", "user", "list"} /\ a = Answer(call[p].req)

RoleMade(p, a) ==
  LET req == call[p].req
  IN  /\ req.kind = "ensure" /\ a \in {{}, {Failed}} /\ mapped' = mapped
      /\ \/ roles' = roles
         \/ /\ MayCreate(roles[req.realm][req.name])
            /\ roles' = [roles EXCEPT ![req.realm][req.name] = @ + 1]

Granted(p, a) ==
  LET req == call[p].req
  IN  /\ req.kind = "add" /\ a \in {{}, {Failed}} /\ roles' = roles /\ Mappable(req)
      /\ mapped' = [mapped EXCEPT ![req.realm] = @ \union req.roles]

Revoked(p, a) ==
  LET req == call[p].req
  IN  /\ req.kind = "del" /\ a \in {{}, {Failed}} /\ roles' = roles /\ Mappable(req)
      /\ mapped' = [mapped EXCEPT ![req.realm] = @ \ req.roles]

LEMMA ServeParts ==
  ASSUME MapInv, NEW p \in Callers, Serve(p)
  PROVE  /\ UNCHANGED <<handles, users, edits>>
         /\ call[p].req \in Requests /\ call[p].req # Null /\ call[p].ans = {Pending}
         /\ call[p].req.kind = KindAt(call[p].pc)
         /\ \E a : /\ call'[p] = [call[p] EXCEPT !.ans = a]
                   /\ \/ Refused(p, a) \/ Read(p, a) \/ RoleMade(p, a)
                      \/ Granted(p, a) \/ Revoked(p, a)
         /\ call' = [q \in Callers |-> call'[q]]
         /\ \E names :
              /\ roles' = roles => names = NamesOf(call[p].req.roles)
              /\ \A q \in Callers \ {p} :
                   \/ call'[q] = [call[q] EXCEPT !.alone = FALSE]
                   \/ /\ call'[q] = call[q]
                      /\ \/ UNCHANGED <<roles, mapped>>
                         \/ call[q].pc = "idle"
                         \/ Touches(call[q].plan) \intersect names = {}
<1> DEFINE req == call[p].req
<1>1. /\ UNCHANGED <<handles, users, edits>> /\ req # Null /\ call[p].ans = {Pending}
      /\ call \in [Callers -> Call]
  BY DEF Serve, MapInv, CallsOK
<1>2. req \in Requests /\ req.kind = KindAt(call[p].pc)
      /\ req.kind \in {"ensure", "read", "user", "list", "add", "del"}
  BY <1>1, CallFields DEF Shape, Asks, Requests
<1>3. PICK o \in Outcomes(req) :
       LET answered == [call EXCEPT ![p].ans = o[3]]
           names    == IF o[1] # roles THEN {req.name} ELSE NamesOf(req.roles)
       IN  /\ roles' = o[1] /\ mapped' = o[2]
           /\ call' = IF <<o[1], o[2]>> = <<roles, mapped>> THEN answered
                      ELSE Disturb(answered, names, {p})
  BY DEF Serve
<1> DEFINE answered == [call EXCEPT ![p].ans = o[3]]
           names    == IF o[1] # roles THEN {req.name} ELSE NamesOf(req.roles)
<1>4. /\ roles' = o[1] /\ mapped' = o[2]
      /\ \/ call' = answered /\ UNCHANGED <<roles, mapped>>
         \/ call' = Disturb(answered, names, {p})
      /\ roles' = roles => names = NamesOf(req.roles)
  BY <1>3
<1>5. answered = [q \in Callers |-> IF q = p THEN [call[p] EXCEPT !.ans = o[3]] ELSE call[q]]
  BY <1>1
<1>6. call' = [q \in Callers |-> call'[q]] /\ call'[p] = [call[p] EXCEPT !.ans = o[3]]
  <2> HIDE DEF answered, names
  <2> QED
    BY <1>4, <1>5 DEF Disturb
<1>7. \A q \in Callers \ {p} :
        \/ call'[q] = [call[q] EXCEPT !.alone = FALSE]
        \/ /\ call'[q] = call[q]
           /\ \/ UNCHANGED <<roles, mapped>>
              \/ call[q].pc = "idle"
              \/ Touches(call[q].plan) \intersect names = {}
  <2> HIDE DEF answered, names
  <2> QED
    BY <1>4, <1>5 DEF Disturb
<1>8. \/ Refused(p, o[3]) \/ Read(p, o[3]) \/ RoleMade(p, o[3])
      \/ Granted(p, o[3]) \/ Revoked(p, o[3])
  <2> HIDE DEF answered, names
  <2>1. CASE o = <<roles, mapped, {Failed}>>
    BY <1>4, <2>1 DEF Refused
  <2>2. CASE req.kind \in {"read", "user", "list"} /\ o = <<roles, mapped, Answer(req)>>
    BY <1>4, <2>2 DEF Read
  <2>3. CASE \E b \in Applied(req), a \in {{}, {Failed}} :
               o = <<b[1], b[2], a>> /\ req.kind \in {"ensure", "add", "del"}
    <3>1. PICK b \in Applied(req), a \in {{}, {Failed}} :
            o = <<b[1], b[2], a>> /\ req.kind \in {"ensure", "add", "del"}
      BY <2>3
    <3>2. roles' = b[1] /\ mapped' = b[2] /\ o[3] = a
      BY <1>4, <3>1, SMTT(30)
    <3>3. CASE req.kind = "ensure"
      <4>1. b \in IF Odd(roles[req.realm][req.name]) THEN {<<roles, mapped>>}
                  ELSE {<<[roles EXCEPT ![req.realm][req.name] = @ + 1], mapped>> :
                          x \in {y \in {req.name} : MayCreate(roles[req.realm][y])}}
        BY <3>1, <3>3, SMTT(30) DEF Applied
      <4>2. \/ b = <<roles, mapped>>
            \/ /\ MayCreate(roles[req.realm][req.name])
               /\ b = <<[roles EXCEPT ![req.realm][req.name] = @ + 1], mapped>>
        BY <4>1
      <4> QED
        BY <3>1, <3>2, <3>3, <4>2, SMTT(30) DEF RoleMade
    <3>4. CASE req.kind = "add"
      <4>1. b \in {<<roles, [mapped EXCEPT ![req.realm] = @ \union req.roles]>> :
                     x \in {y \in {req} : Mappable(y)}}
        BY <3>1, <3>4 DEF Applied
      <4>2. Mappable(req) /\ b = <<roles, [mapped EXCEPT ![req.realm] = @ \union req.roles]>>
        BY <4>1
      <4>3. b[1] = roles /\ b[2] = [mapped EXCEPT ![req.realm] = @ \union req.roles]
        BY <4>2
      <4> QED
        BY <3>1, <3>2, <3>4, <4>2, <4>3 DEF Granted
    <3>5. CASE req.kind = "del"
      <4>1. b \in {<<roles, [mapped EXCEPT ![req.realm] = @ \ req.roles]>> :
                     x \in {y \in {req} : Mappable(y)}}
        BY <3>1, <3>5 DEF Applied
      <4>2. Mappable(req) /\ b = <<roles, [mapped EXCEPT ![req.realm] = @ \ req.roles]>>
        BY <4>1
      <4>3. b[1] = roles /\ b[2] = [mapped EXCEPT ![req.realm] = @ \ req.roles]
        BY <4>2
      <4> QED
        BY <3>1, <3>2, <3>5, <4>2, <4>3 DEF Revoked
    <3> QED
      BY <3>1, <3>3, <3>4, <3>5
  <2> QED
    BY <1>2, <2>1, <2>2, <2>3 DEF Outcomes
<1>9. \E a : /\ call'[p] = [call[p] EXCEPT !.ans = a]
             /\ \/ Refused(p, a) \/ Read(p, a) \/ RoleMade(p, a)
                \/ Granted(p, a) \/ Revoked(p, a)
  BY <1>6, <1>8
<1> HIDE DEF answered, names
<1> QED
  BY <1>1, <1>2, <1>4, <1>6, <1>7, <1>9

\* A call that heard an answer of the right kind.
LEMMA HeardOK ==
  ASSUME NEW c \in Call, Shape(c), c.req # Null,
         NEW a \in SUBSET (RoleRep \union UserRep \union {Pending, Failed}),
         IsAnswer(a) =>
           /\ c.pc \in {"user", "again"} => a \subseteq UserRep
           /\ c.pc \in {"read", "list"} => \A x \in a : x \in RoleRep /\ x.realm = c.req.realm
           /\ c.pc = "read" => \A x \in a : x.name = c.req.name
           /\ c.pc \in {"add", "del"} => a = {}
  PROVE  LET d == [c EXCEPT !.ans = a]
         IN  /\ d \in Call /\ Shape(d)
             /\ d.plan = c.plan /\ d.pc = c.pc /\ d.asked = c.asked
             /\ d.todo = c.todo /\ d.got = c.got /\ d.req = c.req /\ d.ans = a
             /\ d.revoke = c.revoke /\ d.alone = c.alone
<1> DEFINE d == [c EXCEPT !.ans = a]
<1>1. /\ d \in Call
      /\ d.plan = c.plan /\ d.pc = c.pc /\ d.asked = c.asked
      /\ d.todo = c.todo /\ d.got = c.got /\ d.req = c.req /\ d.ans = a
      /\ d.revoke = c.revoke /\ d.alone = c.alone
  BY DEF Call
<1> HIDE DEF d
<1>2. Resolves(d) /\ Asks(d)
  BY <1>1 DEF Shape, Resolves, Asks, Active
<1>3. Hears(d) /\ Follows(d)
  BY <1>1 DEF Shape, Hears, Follows
<1> QED
  BY <1>1, <1>2, <1>3 DEF Shape, d

\* What is answered fits the request.
LEMMA AnswerFits ==
  ASSUME MapInv, NEW req \in Requests, req.kind \in {"read", "user", "list"},
         req.kind = "read" => req.name # Null
  PROVE  /\ Answer(req) \in SUBSET (RoleRep \union UserRep \union {Pending, Failed})
         /\ req.kind = "user" => Answer(req) \subseteq UserRep
         /\ req.kind \in {"read", "list"} /\ IsAnswer(Answer(req)) =>
              \A x \in Answer(req) : x \in RoleRep /\ x.realm = req.realm
         /\ req.kind = "read" => \A x \in Answer(req) : x.name = req.name
         /\ req.kind = "list" /\ IsAnswer(Answer(req)) => Answer(req) = mapped[req.realm]
<1>1. req.realm \in Realms /\ (req.name # Null => req.name \in Names)
  BY DEF Requests
<1>2. /\ roles \in [Realms -> [Names -> 0..MaxIncarnation]]
      /\ users \in [Realms -> 0..MaxIncarnation]
      /\ mapped \in [Realms -> SUBSET RoleRep]
      /\ \A r \in Realms : \A x \in mapped[r] : x.realm = r /\ Exists(x)
  BY DEF MapInv, ServerOK
<1>3. CASE req.kind = "read"
  <2>1. Answer(req) \subseteq {RoleOf(req.realm, req.name)}
    BY <1>3 DEF Answer
  <2>2. RoleOf(req.realm, req.name) \in RoleRep
        /\ RoleOf(req.realm, req.name).realm = req.realm
        /\ RoleOf(req.realm, req.name).name = req.name
    BY <1>1, <1>2, <1>3 DEF RoleOf, RoleRep
  <2> QED
    BY <1>3, <2>1, <2>2
<1>4. CASE req.kind = "user"
  <2>1. Answer(req) \subseteq {UserOf(req.realm)}
    BY <1>4 DEF Answer
  <2>2. UserOf(req.realm) \in UserRep
    BY <1>1, <1>2 DEF UserOf, UserRep
  <2> QED
    BY <1>4, <2>1, <2>2
<1>5. CASE req.kind = "list"
  <2>1. Answer(req) = Held(req.realm) \/ Answer(req) = {Failed}
    BY <1>5 DEF Answer
  <2>2. Held(req.realm) = mapped[req.realm]
    BY <1>1, <1>2, SMTT(30) DEF Held
  <2> QED
    BY <1>1, <1>2, <1>5, <2>1, <2>2 DEF IsAnswer
<1> QED
  BY <1>3, <1>4, <1>5

\* The server stays sound, and only roles named by the request change hands.
LEMMA ServeServer ==
  ASSUME MapInv, NEW p \in Callers, Serve(p)
  PROVE  /\ ServerOK'
         /\ \A x \in RoleRep :
              \/ x \in mapped[realmName] <=> x \in mapped'[realmName]
              \/ roles' = roles /\ x \in call[p].req.roles
<1> DEFINE req == call[p].req
<1>1. /\ req \in Requests /\ req # Null /\ req.kind = KindAt(call[p].pc)
      /\ UNCHANGED <<users, edits>>
  BY ServeParts
<1>2. PICK a : \/ Refused(p, a) \/ Read(p, a) \/ RoleMade(p, a)
               \/ Granted(p, a) \/ Revoked(p, a)
  BY ServeParts
<1>3. /\ roles \in [Realms -> [Names -> 0..MaxIncarnation]]
      /\ users \in [Realms -> 0..MaxIncarnation]
      /\ mapped \in [Realms -> SUBSET RoleRep]
      /\ \A s \in Realms : \A x \in mapped[s] : x.realm = s /\ Exists(x) /\ Odd(users[s])
      /\ MaxIncarnation \in Nat /\ realmName \in Realms /\ edits' \in 0..MaxEdits
  BY <1>1, RoleMappingAssumption DEF MapInv, ServerOK, HandlesOK
<1>4. req.realm \in Realms /\ req.roles \in SUBSET RoleRep
  BY <1>1 DEF Requests
<1>5. CASE UNCHANGED <<roles, mapped>>
  BY <1>1, <1>3, <1>5 DEF ServerOK, Exists, RoleOf
<1>6. CASE RoleMade(p, a) /\ roles' # roles
  <2> DEFINE n == req.name
  <2>1. /\ MayCreate(roles[req.realm][n]) /\ mapped' = mapped
        /\ roles' = [roles EXCEPT ![req.realm][n] = @ + 1] /\ req.kind = "ensure"
    BY <1>6 DEF RoleMade
  <2>2. call[p].pc = "ensure"
    <3>1. KindAt(call[p].pc) = "ensure"
      BY <1>1, <2>1
    <3> QED
      BY <3>1 DEF KindAt
  <2>3. n \in Names
    <3>1. Shape(call[p]) /\ call[p].todo \in SUBSET Names
      BY CallFields
    <3>2. Asks(call[p])
      BY <3>1, ZenonT(60) DEF Shape
    <3> QED
      BY <2>2, <3>1, <3>2 DEF Asks
  <2>4. roles' \in [Realms -> [Names -> 0..MaxIncarnation]]
    <3>1. roles[req.realm][n] + 1 \in 0..MaxIncarnation
      BY <1>3, <1>4, <2>1, <2>3 DEF MayCreate
    <3> QED
      BY <1>3, <1>4, <2>1, <2>3, <3>1
  <2>5. ASSUME NEW s \in Realms, NEW x \in mapped'[s]
        PROVE  x.realm = s /\ Exists(x)' /\ Odd(users'[s])
    <3>1. x \in RoleRep /\ x.realm = s /\ Exists(x) /\ Odd(users[s])
      BY <1>3, <2>1
    <3>2. x.name \in Names /\ Odd(roles[s][x.name])
      BY <3>1 DEF Exists, RoleOf, RoleRep
    <3>3. ~(s = req.realm /\ x.name = n)
      BY <2>1, <3>2, SMTT(30) DEF MayCreate
    <3>4. roles'[s][x.name] = roles[s][x.name]
      BY <1>3, <2>1, <3>2, <3>3
    <3> QED
      BY <1>1, <3>1, <3>4, SMTT(30) DEF Exists, RoleOf
  <2> QED
    BY <1>1, <1>3, <2>1, <2>4, <2>5 DEF ServerOK
<1>7. CASE Granted(p, a)
  <2>1. /\ roles' = roles /\ mapped' = [mapped EXCEPT ![req.realm] = @ \union req.roles]
        /\ Odd(users[req.realm]) /\ \A x \in req.roles : Exists(x) /\ x.realm = req.realm
    BY <1>7 DEF Granted, Mappable, UserOf
  <2>2. mapped' \in [Realms -> SUBSET RoleRep]
    BY <1>3, <1>4, <2>1
  <2>3. ASSUME NEW s \in Realms, NEW x \in mapped'[s]
        PROVE  x.realm = s /\ Exists(x)' /\ Odd(users'[s])
    <3>1. x \in mapped[s] \/ (s = req.realm /\ x \in req.roles)
      BY <1>3, <1>4, <2>1
    <3>2. x.realm = s /\ Exists(x) /\ Odd(users[s])
      BY <1>3, <2>1, <3>1
    <3> QED
      BY <1>1, <2>1, <3>2 DEF Exists, RoleOf
  <2>4. \A x \in RoleRep : (x \in mapped[realmName] <=> x \in mapped'[realmName]) \/ x \in req.roles
    BY <1>3, <1>4, <2>1
  <2> QED
    BY <1>1, <1>3, <2>1, <2>2, <2>3, <2>4 DEF ServerOK
<1>8. CASE Revoked(p, a)
  <2>1. roles' = roles /\ mapped' = [mapped EXCEPT ![req.realm] = @ \ req.roles]
    BY <1>8 DEF Revoked
  <2>2. mapped' \in [Realms -> SUBSET RoleRep] /\ \A s \in Realms : mapped'[s] \subseteq mapped[s]
    BY <1>3, <1>4, <2>1
  <2>3. ASSUME NEW s \in Realms, NEW x \in mapped'[s]
        PROVE  x.realm = s /\ Exists(x)' /\ Odd(users'[s])
    BY <1>1, <1>3, <2>1, <2>2 DEF Exists, RoleOf
  <2>4. \A x \in RoleRep : (x \in mapped[realmName] <=> x \in mapped'[realmName]) \/ x \in req.roles
    BY <1>3, <1>4, <2>1
  <2> QED
    BY <1>1, <1>3, <2>1, <2>2, <2>3, <2>4 DEF ServerOK
<1> QED
  BY <1>2, <1>5, <1>6, <1>7, <1>8 DEF Refused, Read, RoleMade

\* The call whose request is served: what it still counts on is true of what the
\* user has now.
LEMMA ServedOK ==
  ASSUME MapInv, NEW p \in Callers, Serve(p) PROVE CallOK(call[p])'
<1> DEFINE req == call[p].req
           plan == call[p].plan
           m == mapped[realmName]
           n == mapped'[realmName]
<1>1. /\ req \in Requests /\ req # Null /\ req.kind = KindAt(call[p].pc) /\ realmName' = realmName
      /\ call[p] \in Call /\ Shape(call[p]) /\ plan \in Plans \union {NoPlan}
  BY ServeParts, CallFields DEF handles
<1>2. PICK a : /\ call'[p] = [call[p] EXCEPT !.ans = a]
               /\ \/ Refused(p, a) \/ Read(p, a) \/ RoleMade(p, a)
                  \/ Granted(p, a) \/ Revoked(p, a)
  BY ServeParts
<1>3. /\ ~IsAnswer({Failed}) /\ {Failed} # {Pending} /\ {Failed} # {} /\ {} # {Pending}
      /\ IsAnswer({})
  BY Marks DEF IsAnswer
<1>4. /\ call[p].pc \in {"ensure", "read", "user", "again", "list", "add", "del"}
      /\ call[p].pc = "read" => req.name # Null
      /\ m \in SUBSET RoleRep /\ req.roles \in SUBSET RoleRep /\ realmName \in Realms
  <2>1. req.roles \in SUBSET RoleRep /\ req.name \in Names \union {Null}
    BY <1>1 DEF Requests
  <2>2. m \in SUBSET RoleRep /\ realmName \in Realms
    BY DEF MapInv, HandlesOK, ServerOK
  <2>3. call[p].pc \notin {"idle", "done", "roles"}
    BY <1>1 DEF Shape, Asks
  <2>4. call[p].pc = "read" => req.name # Null
    BY <1>1, CallFields, Marks, SMTT(30) DEF Shape, Asks
  <2> QED
    BY <1>1, <2>1, <2>2, <2>3, <2>4 DEF Call
<1>5. /\ a \in SUBSET (RoleRep \union UserRep \union {Pending, Failed})
      /\ IsAnswer(a) =>
           /\ call[p].pc \in {"user", "again"} => a \subseteq UserRep
           /\ call[p].pc \in {"read", "list"} => \A x \in a : x \in RoleRep /\ x.realm = req.realm
           /\ call[p].pc = "read" => \A x \in a : x.name = req.name
           /\ call[p].pc \in {"add", "del"} => a = {}
  <2>1. CASE Read(p, a)
    <3>1. a = Answer(req) /\ req.kind \in {"read", "user", "list"}
      BY <2>1 DEF Read
    <3>2. /\ call[p].pc \in {"user", "again"} <=> req.kind = "user"
          /\ call[p].pc = "read" <=> req.kind = "read"
          /\ call[p].pc = "list" <=> req.kind = "list"
      BY <1>1, <1>4 DEF KindAt
    <3>3. req.kind = "read" => req.name # Null
      BY <1>4, <3>2
    <3>4. /\ a \in SUBSET (RoleRep \union UserRep \union {Pending, Failed})
          /\ req.kind = "user" => a \subseteq UserRep
          /\ req.kind \in {"read", "list"} /\ IsAnswer(a) =>
               \A x \in a : x \in RoleRep /\ x.realm = req.realm
          /\ req.kind = "read" => \A x \in a : x.name = req.name
      BY <1>1, <3>1, <3>3, AnswerFits
    <3> HIDE DEF req
    <3> QED
      BY <3>1, <3>2, <3>4
  <2>2. CASE a \in {{}, {Failed}}
    <3>1. a = {} \/ a = {Failed}
      BY <2>2
    <3> QED
      BY <1>3, <3>1
  <2> QED
    BY <1>2, <2>1, <2>2 DEF Refused, RoleMade, Granted, Revoked
<1> DEFINE d == [call[p] EXCEPT !.ans = a]
<1>6. /\ d \in Call /\ Shape(d)
      /\ d.plan = plan /\ d.pc = call[p].pc /\ d.asked = call[p].asked
      /\ d.todo = call[p].todo /\ d.got = call[p].got /\ d.req = req /\ d.ans = a
      /\ d.revoke = call[p].revoke /\ d.alone = call[p].alone
  BY <1>1, <1>5, HeardOK
<1>7. call'[p] = d
  BY <1>2
<1> HIDE DEF d
<1>8. ASSUME Untouched(d) PROVE InOneRealm(d, realmName) /\ Accounts(d, n)
  <2>1. InOneRealm(call[p], realmName) /\ Accounts(call[p], m)
    BY <1>1, <1>6, <1>8, CallFields DEF CallOK, Untouched
  <2>2. InOneRealm(d, realmName)
    BY <1>6, <2>1 DEF InOneRealm, Active
  <2>3. req.realm = realmName
    BY <1>1, <1>4, <2>1 DEF InOneRealm, Active
  <2>4. /\ Unwanted(plan) \intersect Effective(plan) = {}
        /\ plan.op # "reconcile" => Unwanted(plan) = {}
    BY <1>1, PlanParts DEF Unwanted
  <2>5. call[p].ans = {Pending}
    BY ServeParts
  <2>6. CASE call[p].pc = "list"
    <3>1. (Refused(p, a) \/ Read(p, a)) /\ req.kind = "list"
      BY <1>1, <1>2, <2>6 DEF KindAt, RoleMade, Granted, Revoked
    <3>2. IsAnswer(a) => a = Answer(req) /\ n = m
      BY <1>3, <3>1 DEF Refused, Read
    <3>3. IsAnswer(a) => a = m
      BY <1>1, <2>3, <3>1, <3>2, AnswerFits
    <3> QED
      BY <1>6, <2>2, <2>6, <3>2, <3>3 DEF Accounts
  <2>7. CASE call[p].pc = "add"
    <3>1. (Refused(p, a) \/ Granted(p, a)) /\ req.kind = "add"
      BY <1>1, <1>2, <2>7 DEF KindAt, RoleMade, Read, Revoked
    <3>2. \/ a = {Failed} /\ n = m
          \/ a \in {{}, {Failed}} /\ n = m \union req.roles
      <4>1. mapped \in [Realms -> SUBSET RoleRep]
        BY DEF MapInv, ServerOK
      <4> QED
        BY <1>4, <2>3, <3>1, <4>1 DEF Refused, Granted
    <3>3. /\ Effective(plan) \subseteq NamesOf(m) \union NamesOf(req.roles)
          /\ \A x \in m : x.name \in Unwanted(plan) => x \in call[p].revoke
          /\ NamesOf(req.roles) \subseteq Effective(plan)
      BY <1>1, <2>1, <2>5, <2>7 DEF Accounts, Shape, Follows
    <3>4. a # {Pending} /\ (a = {} => n = m \union req.roles) /\ n \subseteq m \union req.roles
      BY <1>3, <3>2
    <3>5. a = {} => Effective(plan) \subseteq NamesOf(n)
      BY <3>3, <3>4 DEF NamesOf
    <3>6. \A x \in n : x.name \in Unwanted(plan) => x \in call[p].revoke
      BY <2>4, <3>3, <3>4 DEF NamesOf
    <3> HIDE DEF n, plan, req
    <3> QED
      BY <1>6, <2>2, <2>7, <3>4, <3>5, <3>6 DEF Accounts
  <2>8. CASE call[p].pc = "del"
    <3>1. (Refused(p, a) \/ Revoked(p, a)) /\ req.kind = "del"
      BY <1>1, <1>2, <2>8 DEF KindAt, RoleMade, Read, Granted
    <3>2. \/ a = {Failed} /\ n = m
          \/ a \in {{}, {Failed}} /\ n = m \ req.roles /\ Mappable(req)
      <4>1. mapped \in [Realms -> SUBSET RoleRep]
        BY DEF MapInv, ServerOK
      <4> QED
        BY <1>4, <2>3, <3>1, <4>1 DEF Refused, Revoked
    <3>3. a # {Pending} /\ (a = {} => n = m \ req.roles /\ Mappable(req))
          /\ m \ req.roles \subseteq n /\ n \subseteq m
      BY <1>3, <3>2
    <3>4. /\ plan.op \in {"reconcile", "unassign"}
          /\ plan.op = "reconcile" => NamesOf(req.roles) \subseteq Unwanted(plan)
          /\ plan.op = "unassign" => NamesOf(req.roles) = Effective(plan)
      BY <1>1, <2>8 DEF Shape, Follows
    <3>5. ASSUME plan.op = "reconcile"
          PROVE  /\ Effective(plan) \subseteq NamesOf(n)
                 /\ a = {} => \A x \in n : x.name \notin Unwanted(plan)
      <4>1. /\ Effective(plan) \subseteq NamesOf(m)
            /\ \A x \in m : x.name \in Unwanted(plan) => x \in req.roles
        BY <2>1, <2>5, <2>8, <3>5 DEF Accounts
      <4>2. Effective(plan) \subseteq NamesOf(n)
        BY <2>4, <3>3, <3>4, <3>5, <4>1 DEF NamesOf
      <4> QED
        BY <3>3, <4>1, <4>2
    <3>6. ASSUME plan.op = "unassign", a = {}
          PROVE  \A x \in n : x.name \notin Effective(plan)
      <4> SUFFICES ASSUME NEW x \in n, x.name \in Effective(plan) PROVE FALSE
        OBVIOUS
      <4>1. x \in m /\ x \notin req.roles
        BY <3>3, <3>6
      <4>2. PICK y \in req.roles : y.name = x.name
        BY <3>4, <3>6 DEF NamesOf
      <4>3. Exists(y) /\ y.realm = realmName
        BY <2>3, <3>3, <3>6, <4>2 DEF Mappable
      <4>4. Exists(x) /\ x.realm = realmName
        BY <1>4, <4>1 DEF MapInv, ServerOK
      <4>5. x = y
        BY <4>2, <4>3, <4>4 DEF Exists
      <4> QED
        BY <4>1, <4>2, <4>5
    <3> HIDE DEF n, plan, req
    <3> QED
      BY <1>6, <2>2, <2>8, <3>3, <3>5, <3>6 DEF Accounts
  <2>9. CASE call[p].pc \in {"ensure", "read", "user", "again"}
    BY <1>6, <2>2, <2>9 DEF Accounts
  <2> QED
    BY <1>4, <2>6, <2>7, <2>8, <2>9
<1> QED
  BY <1>1, <1>6, <1>7, <1>8 DEF CallOK

LEMMA ServeMap == ASSUME MapInv, NEW p \in Callers, Serve(p) PROVE MapInv'
<1>1. HandlesOK' /\ realmName' = realmName
  BY ServeParts DEF MapInv, HandlesOK, handles
<1>2. ServerOK' /\ CallOK(call[p])'
  BY ServeServer, ServedOK
<1>3. PICK names :
        /\ roles' = roles => names = NamesOf(call[p].req.roles)
        /\ \A q \in Callers \ {p} :
             \/ call'[q] = [call[q] EXCEPT !.alone = FALSE]
             \/ /\ call'[q] = call[q]
                /\ \/ UNCHANGED <<roles, mapped>>
                   \/ call[q].pc = "idle"
                   \/ Touches(call[q].plan) \intersect names = {}
  BY ServeParts
<1>4. \A x \in RoleRep :
        x.name \notin names => (x \in mapped[realmName] <=> x \in mapped'[realmName])
  BY <1>3, ServeServer DEF NamesOf
<1>5. ASSUME NEW q \in Callers \ {p} PROVE CallOK(call[q])'
  <2>1. CASE call'[q] = call[q] /\ UNCHANGED <<roles, mapped>>
    BY <1>1, <2>1, CallFields DEF CallOK
  <2>2. CASE \/ call'[q] = [call[q] EXCEPT !.alone = FALSE]
             \/ /\ call'[q] = call[q]
                /\ call[q].pc = "idle" \/ Touches(call[q].plan) \intersect names = {}
    BY <1>1, <1>2, <1>4, <2>2, BystanderOK
  <2> QED
    BY <1>3, <2>1, <2>2
<1>6. \A q \in Callers : CallOK(call[q])'
  BY <1>2, <1>5
<1>7. call' \in [Callers -> Call]
  <2>1. call' = [q \in Callers |-> call'[q]]
    BY ServeParts
  <2>2. \A q \in Callers : call'[q] \in Call
    BY <1>6 DEF CallOK
  <2> QED
    BY <2>1, <2>2
<1> QED
  BY <1>1, <1>2, <1>6, <1>7 DEF MapInv, CallsOK

-----------------------------------------------------------------------------
(* The theorems                                                            *)

LEMMA NextMap == ASSUME MapInv, Next PROVE MapInv'
<1>1. ASSUME NEW r \in Realms, RebindRealm(r) PROVE MapInv'
  BY <1>1, RebindRealmMap
<1>2. ASSUME NEW p \in Callers, NEW plan \in Plans,
             BeginReconcile(p, plan) \/ \E r \in Realms : BeginMapping(p, plan, r)
      PROVE  MapInv'
  BY <1>2, BeginReconcileMap, BeginMappingMap
<1>3. ASSUME NEW p \in Callers, Serve(p) PROVE MapInv'
  BY <1>3, ServeMap
<1>4. ASSUME NEW p \in Callers, Step(p) PROVE MapInv'
  BY <1>4, ThrowMap, NextRoleMap, EnsuredMap, RoleReadMap, ResolvesUserMap, UserReturnsMap,
     HasUserMap, ListsRolesMap, ListedMap, AddedMap, RemovedMap DEF Step
<1>5. ASSUME Admin PROVE MapInv'
  BY <1>5, AdminMap
<1> QED
  BY <1>1, <1>2, <1>3, <1>4, <1>5 DEF Next

LEMMA StutterMap == ASSUME MapInv, UNCHANGED vars PROVE MapInv'
<1>1. /\ UNCHANGED <<handles, server, edits, call>> /\ UNCHANGED <<realmName, mapped>>
  BY DEF vars, handles, server
<1>2. HandlesOK'
  BY <1>1 DEF MapInv, HandlesOK, handles
<1>3. ServerOK'
  BY <1>1 DEF MapInv, ServerOK, server, Exists, RoleOf
<1>4. CallsOK'
  BY <1>1 DEF MapInv, CallsOK, CallOK
<1> QED
  BY <1>2, <1>3, <1>4 DEF MapInv

\* MapInv is inductive.
LEMMA Mapping == Spec => []MapInv
<1>1. Init => MapInv
  BY InitMap
<1>2. MapInv /\ [Next]_vars => MapInv'
  BY NextMap, StutterMap
<1> QED
  BY <1>1, <1>2, PTL DEF Spec

\* One role of a name: as many roles as names.
LEMMA NoMoreRoles ==
  ASSUME NEW got, NEW todo, NEW desired, IsFiniteSet(desired), OnePerName(got),
         NamesOf(got) \union todo \subseteq desired, NamesOf(got) \intersect todo = {}
  PROVE  Cardinality(got) + Cardinality(todo) <= Cardinality(desired)
<1> DEFINE rest == desired \ todo
           f == [x \in got |-> x.name]
<1>1. IsFiniteSet(todo) /\ IsFiniteSet(rest)
  BY FS_Subset
<1>2. f \in [got -> rest]
  BY DEF NamesOf
<1>3. f \in Injection(got, rest)
  <2>1. \A x, y \in got : f[x] = f[y] => x = y
    BY DEF OnePerName
  <2> HIDE DEF f
  <2> QED
    BY <1>2, <2>1, Fun_IsInj
<1>4. IsFiniteSet(got) /\ Cardinality(got) <= Cardinality(rest)
  <2> HIDE DEF f, rest
  <2> QED
    BY <1>1, <1>3, FS_Injection
<1>5. Cardinality(rest) + Cardinality(todo) = Cardinality(desired)
  <2>1. rest \union todo = desired /\ rest \intersect todo = {}
    OBVIOUS
  <2> HIDE DEF rest
  <2>2. Cardinality(rest \union todo)
          = Cardinality(rest) + Cardinality(todo) - Cardinality(rest \intersect todo)
    BY <1>1, FS_Union
  <2>3. Cardinality(rest) \in Nat /\ Cardinality(todo) \in Nat
    BY <1>1, FS_CardinalityType
  <2>4. /\ Cardinality(rest \union todo) = Cardinality(desired)
        /\ Cardinality(rest \intersect todo) = 0
    BY <2>1, FS_EmptySet, Zenon
  <2> QED
    BY <2>2, <2>3, <2>4
<1>6. /\ Cardinality(got) \in Nat /\ Cardinality(todo) \in Nat
      /\ Cardinality(rest) \in Nat /\ Cardinality(desired) \in Nat
  BY <1>1, <1>4, FS_CardinalityType
<1> QED
  BY <1>4, <1>5, <1>6

LEMMA TypeFollows == ASSUME MapInv PROVE TypeOK
<1>1. ASSUME NEW p \in Callers
      PROVE  Cardinality(call[p].got) + Cardinality(call[p].todo)
               <= Cardinality(call[p].plan.desired)
  <2> DEFINE got == call[p].got
             todo == call[p].todo
             plan == call[p].plan
  <2>1. plan \in Plans \union {NoPlan}
    BY CallFields
  <2>2. IsFiniteSet(plan.desired)
    BY <2>1, RoleMappingAssumption, FS_EmptySet DEF NoPlan
  <2>3. Effective(plan) \subseteq plan.desired
    BY <2>1, PlanParts
  <2>4. OnePerName(got) /\ NamesOf(got) \union todo \subseteq plan.desired
          /\ NamesOf(got) \intersect todo = {}
    BY <2>3, CallFields DEF Shape, Resolves, NamesOf, OnePerName
  <2> HIDE DEF got, todo, plan
  <2>5. Cardinality(got) + Cardinality(todo) <= Cardinality(plan.desired)
    BY <2>2, <2>4, NoMoreRoles
  <2> QED
    BY <2>5 DEF got, todo, plan
<1> QED
  BY <1>1 DEF MapInv, HandlesOK, ServerOK, CallsOK, TypeOK

\* Every variable has its type, a user has roles of its own realm that exist, and
\* a call (user.ts) asks for no more roles than its plan has names.
THEOREM TypeCorrect == Spec => []TypeOK
  BY Mapping, TypeFollows, PTL

LEMMA ReturnedFollows == ASSUME MapInv PROVE ReturnedMeansMapped
<1> SUFFICES ASSUME NEW p \in Callers, call[p].pc = "done", call[p].alone
             PROVE  LET plan == call[p].plan
                        has  == NamesOf(Held(realmName))
                    IN  /\ plan.op # "unassign" => Effective(plan) \subseteq has
                        /\ plan.op = "unassign" => plan.desired \intersect has = {}
                        /\ plan.op = "reconcile" /\ Given(plan) =>
                             has \intersect plan.managed = Effective(plan)
  BY DEF ReturnedMeansMapped
<1> DEFINE plan == call[p].plan
           m    == mapped[realmName]
<1>1. Held(realmName) = m
  BY DEF Held, MapInv, ServerOK, HandlesOK
<1>2. /\ Effective(plan) \subseteq Touches(plan)
      /\ plan.op # "reconcile" => Effective(plan) = plan.desired
  BY CallFields, PlanParts
<1>3. CASE Touches(plan) # {}
  <2>1. Accounts(call[p], m)
    BY <1>3, CallFields DEF CallOK, Untouched
  <2> QED
    BY <1>1, <1>2, <2>1 DEF Accounts, NamesOf, Unwanted, Effective
<1>4. CASE Touches(plan) = {}
  <2>1. Effective(plan) = {} /\ (Given(plan) => plan.managed = {})
    BY <1>2, <1>4 DEF Touches
  <2> QED
    BY <1>2, <2>1
<1> QED
  BY <1>3, <1>4

\* When a call returned and nobody else touched the roles it is about, the user
\* has what it asked for, and of the managed roles no other (reconcileRealmRoles,
\* assignRealmRoles and unassignRealmRoles of user.ts).
THEOREM ReturnsMapped == Spec => []ReturnedMeansMapped
  BY Mapping, ReturnedFollows, PTL

\* A request to change what the user has is answered only by being served.
LEMMA OnlyServed ==
  ASSUME MapInv, [Next]_vars, NEW p \in Callers,
         call[p].pc \in {"add", "del"}, call[p].ans = {Pending}, call'[p].ans # {Pending}
  PROVE  Serve(p)
<1>1. call'[p] # call[p] /\ call'[p] # [call[p] EXCEPT !.alone = FALSE]
      /\ call \in [Callers -> Call] /\ call[p] \in Call
  BY CallFields DEF MapInv, CallsOK, Call
<1>2. CASE UNCHANGED vars
  BY <1>1, <1>2 DEF vars
<1>3. ASSUME NEW r \in Realms, RebindRealm(r) PROVE FALSE
  BY <1>1, <1>3 DEF RebindRealm, Disturb
<1>4. ASSUME Admin PROVE FALSE
  <2>1. \E names : call' = Disturb(call, names, {})
    BY <1>4 DEF Admin, AdminUser, AdminRole, AdminMapping
  <2> QED
    BY <1>1, <2>1 DEF Disturb
<1>5. ASSUME NEW q \in Callers, NEW plan \in Plans,
             BeginReconcile(q, plan) \/ \E r \in Realms : BeginMapping(q, plan, r)
      PROVE  FALSE
  <2>1. q # p
    BY <1>5 DEF BeginReconcile, BeginMapping
  <2> QED
    BY <1>1, <1>5, <2>1 DEF BeginReconcile, BeginMapping, Goes
<1>6. ASSUME NEW q \in Callers, Serve(q) PROVE q = p
  <2> SUFFICES ASSUME q # p PROVE FALSE
    OBVIOUS
  <2>1. call'[p] = [call[p] EXCEPT !.alone = FALSE] \/ call'[p] = call[p]
    BY <1>6, ServeParts, SMTT(30)
  <2> QED
    BY <1>1, <2>1
<1>7. ASSUME NEW q \in Callers, Step(q) PROVE FALSE
  <2>1. \E c : Goes(q, c)
    BY <1>7 DEF Step, Throw, NextRole, Ensured, RoleRead, ResolvesUser, UserReturns, HasUser,
                ListsRoles, Listed, Added, Removed
  <2>2. q = p
    BY <1>1, <2>1 DEF Goes
  <2>3. {Pending} # {Failed}
    BY Marks
  <2> QED
    BY <1>7, <2>2, <2>3, ZenonT(60)
       DEF Step, Throw, NextRole, Ensured, RoleRead, ResolvesUser, UserReturns, HasUser,
           ListsRoles, Listed, Added, Removed, Answered
<1> QED
  BY <1>2, <1>3, <1>4, <1>5, <1>6, <1>7 DEF Next

LEMMA ServedFollowsPlan ==
  ASSUME MapInv, NEW p \in Callers, NEW r \in Realms, Serve(p), call[p].pc \in {"add", "del"}
  PROVE  LET plan    == call[p].plan
             granted == NamesOf(mapped'[r] \ mapped[r])
             revoked == NamesOf(mapped[r] \ mapped'[r])
         IN  /\ granted \subseteq IF plan.op = "unassign" THEN {} ELSE Effective(plan)
             /\ revoked \subseteq CASE plan.op = "assign"    -> {}
                                    [] plan.op = "unassign"  -> plan.desired
                                    [] plan.op = "reconcile" -> Touches(plan) \ plan.desired
             /\ plan.op = "reconcile" /\ call[p].alone /\ revoked # {} =>
                  Effective(plan) \subseteq NamesOf(mapped[r])
<1> DEFINE req     == call[p].req
           plan    == call[p].plan
           granted == NamesOf(mapped'[r] \ mapped[r])
           revoked == NamesOf(mapped[r] \ mapped'[r])
<1>1. /\ Shape(call[p]) /\ CallOK(call[p]) /\ plan \in Plans \union {NoPlan}
      /\ mapped \in [Realms -> SUBSET RoleRep] /\ req.kind = call[p].pc /\ req # Null
      /\ call[p].ans = {Pending}
  BY CallFields, ServeParts DEF MapInv, ServerOK, KindAt
<1>2. PICK a : \/ Refused(p, a) \/ Read(p, a) \/ RoleMade(p, a)
               \/ Granted(p, a) \/ Revoked(p, a)
  BY ServeParts
<1>3. /\ plan.op \in {"reconcile", "assign", "unassign"}
      /\ Unwanted(plan) \subseteq Touches(plan) \ plan.desired
      /\ plan.op # "reconcile" => Effective(plan) = plan.desired
      /\ NamesOf({}) = {}
  BY <1>1, PlanParts DEF NamesOf
<1>4. CASE call[p].pc = "add"
  <2>1. \/ mapped' = mapped
        \/ mapped' = [mapped EXCEPT ![req.realm] = @ \union req.roles]
    BY <1>1, <1>2, <1>4 DEF Refused, Read, RoleMade, Granted, Revoked
  <2>2. mapped'[r] \ mapped[r] \subseteq req.roles /\ mapped[r] \ mapped'[r] = {}
    BY <1>1, <2>1
  <2>3. plan.op # "unassign" /\ NamesOf(req.roles) \subseteq Effective(plan)
    BY <1>1, <1>4 DEF Shape, Follows
  <2>4. granted \subseteq Effective(plan) /\ revoked = {}
    BY <1>3, <2>2, <2>3 DEF NamesOf
  <2> HIDE DEF granted, revoked, plan
  <2>5. revoked \subseteq CASE plan.op = "assign"    -> {}
                             [] plan.op = "unassign"  -> plan.desired
                             [] plan.op = "reconcile" -> Touches(plan) \ plan.desired
    BY <1>3, <2>4
  <2> QED
    BY <2>3, <2>4, <2>5 DEF granted, revoked, plan
<1>5. CASE call[p].pc = "del"
  <2>1. \/ mapped' = mapped
        \/ mapped' = [mapped EXCEPT ![req.realm] = @ \ req.roles]
    BY <1>1, <1>2, <1>5 DEF Refused, Read, RoleMade, Granted, Revoked
  <2>2. /\ mapped[r] \ mapped'[r] \subseteq req.roles /\ mapped'[r] \ mapped[r] = {}
        /\ mapped[r] \ mapped'[r] # {} => r = req.realm
    BY <1>1, <2>1
  <2>3. /\ plan.op \in {"reconcile", "unassign"}
        /\ plan.op = "reconcile" => NamesOf(req.roles) \subseteq Unwanted(plan)
        /\ plan.op = "unassign" => NamesOf(req.roles) = Effective(plan)
    BY <1>1, <1>5 DEF Shape, Follows
  <2>4. /\ granted = {} /\ revoked \subseteq NamesOf(req.roles)
        /\ revoked # {} => r = req.realm
    BY <1>3, <2>2 DEF NamesOf
  <2>5. ASSUME plan.op = "reconcile", call[p].alone, revoked # {}
        PROVE  Effective(plan) \subseteq NamesOf(mapped[r])
    <3>1. Untouched(call[p])
      BY <1>3, <2>3, <2>4, <2>5 DEF Untouched
    <3>2. r = realmName
      BY <1>1, <1>5, <2>4, <2>5, <3>1 DEF CallOK, InOneRealm, Active
    <3> QED
      BY <1>1, <1>5, <2>5, <3>1, <3>2 DEF CallOK, Accounts
  <2> HIDE DEF granted, revoked, plan
  <2>6. revoked \subseteq CASE plan.op = "assign"    -> {}
                             [] plan.op = "unassign"  -> plan.desired
                             [] plan.op = "reconcile" -> Touches(plan) \ plan.desired
    BY <1>3, <2>3, <2>4
  <2> QED
    BY <2>4, <2>5, <2>6 DEF granted, revoked, plan
<1> QED
  BY <1>4, <1>5

\* No call of user.ts changes a role it was not given, and reconcileRealmRoles
\* revokes only when every role desired is held, whatever others do in between.
THEOREM FollowsPlan == Spec => ChangesFollowPlan
<1> DEFINE Follow ==
      \A p \in Callers, r \in Realms :
        call[p].pc \in {"add", "del"} /\ call[p].ans = {Pending} /\ call'[p].ans # {Pending} =>
          LET plan    == call[p].plan
              granted == NamesOf(mapped'[r] \ mapped[r])
              revoked == NamesOf(mapped[r] \ mapped'[r])
          IN  /\ granted \subseteq IF plan.op = "unassign" THEN {} ELSE Effective(plan)
              /\ revoked \subseteq CASE plan.op = "assign"    -> {}
                                     [] plan.op = "unassign"  -> plan.desired
                                     [] plan.op = "reconcile" -> Touches(plan) \ plan.desired
              /\ plan.op = "reconcile" /\ call[p].alone /\ revoked # {} =>
                   Effective(plan) \subseteq NamesOf(mapped[r])
<1>1. ASSUME MapInv, [Next]_vars PROVE Follow
  BY <1>1, OnlyServed, ServedFollowsPlan
<1>2. ChangesFollowPlan <=> [][Follow]_vars
  BY DEF ChangesFollowPlan
<1> HIDE DEF Follow
<1> QED
  BY <1>1, <1>2, Mapping, PTL DEF Spec

-----------------------------------------------------------------------------
(* One realm, when the realm is rebound only between calls                 *)

\* The user the handle would hand out is of the realm it names.
UserHere == user \in UserRep /\ ~Stale => user.realm = realmName

\* So is all a call has asked for, heard and kept.
Here(c, r) ==
  Active(c) =>
    /\ c.plan.op # "reconcile" => c.asked = r
    /\ c.req # Null => c.req.realm = r
    /\ c.pc \in {"user", "again"} /\ (c.req = Null \/ IsAnswer(c.ans)) =>
         \A u \in c.ans : u \in UserRep /\ u.realm = r
    /\ c.pc \in {"again", "list", "add", "del"} => c.user \in UserRep /\ c.user.realm = r
    /\ c.pc \in {"add", "del"} => c.req.user = c.user

RealmInv == UserHere /\ \A p \in Callers : Here(call[p], realmName)

\* Where a call goes by asking, by knowing, or by changing what the user has.
LEMMA AwaitHere ==
  ASSUME NEW c \in Call, NEW r, NEW pc \in {"ensure", "read", "user", "again", "list"},
         NEW req \in Requests, req.realm = r,
         c.plan.op # "reconcile" => c.asked = r,
         pc \in {"again", "list"} => c.user \in UserRep /\ c.user.realm = r
  PROVE  Here(Await(c, pc, req), r)
<1> DEFINE d == Await(c, pc, req)
<1>1. /\ d.pc = pc /\ d.req = req /\ d.ans = {Pending} /\ d.plan = c.plan
      /\ d.asked = c.asked /\ d.user = c.user /\ req # Null
  <2>1. pc \in Awaited
    BY DEF Awaited
  <2> QED
    BY <2>1, AwaitFields, Marks
<1> HIDE DEF d
<1>2. Here(d, r)
  BY <1>1 DEF Here, IsAnswer
<1> QED
  BY <1>2 DEF d

LEMMA KnownHere ==
  ASSUME NEW c \in Call, NEW r, NEW pc \in {"user", "again"}, NEW found \in SUBSET UserRep,
         \A u \in found : u.realm = r,
         c.plan.op # "reconcile" => c.asked = r,
         pc = "again" => c.user \in UserRep /\ c.user.realm = r
  PROVE  Here(Known(c, pc, found), r)
<1> DEFINE d == Known(c, pc, found)
<1>1. /\ d.pc = pc /\ d.req = Null /\ d.ans = found /\ d.plan = c.plan
      /\ d.asked = c.asked /\ d.user = c.user
  BY KnownFields
<1> HIDE DEF d
<1>2. Here(d, r)
  BY <1>1 DEF Here
<1> QED
  BY <1>2 DEF d

LEMMA ChangeHere ==
  ASSUME NEW c \in Call, NEW k \in {"add", "del"}, NEW rs \in SUBSET RoleRep, MapInv,
         c.plan.op # "reconcile" => c.asked = realmName,
         c.user \in UserRep /\ c.user.realm = realmName
  PROVE  Here(Change(k, c, rs), realmName)
<1> DEFINE d == Change(k, c, rs)
<1>1. /\ d.pc = k /\ d.req.realm = realmName /\ d.plan = c.plan /\ d.asked = c.asked
  BY ChangeFields
<1>2. d.user = c.user /\ d.req.user = c.user
  BY DEF Change, Await, Request, Call
<1> HIDE DEF d
<1>3. Here(d, realmName)
  BY <1>1, <1>2 DEF Here
<1> QED
  BY <1>3 DEF d

LEMMA FinishedHere == ASSUME NEW c \in Call, NEW r PROVE Here(Finished(c), r)
  BY FinishedFields DEF Here, Active

\* A step of one call that leaves the realm its name.
LEMMA CallsHere ==
  ASSUME MapInv, RealmInv, realmName' = realmName, UserHere', NEW p \in Callers,
         call' = [call EXCEPT ![p] = call'[p]], Here(call'[p], realmName)
  PROVE  RealmInv'
<1>1. ASSUME NEW q \in Callers PROVE Here(call[q], realmName)'
  <2>1. Here(call'[q], realmName)
    BY DEF MapInv, CallsOK, RealmInv
  <2> QED
    BY <2>1 DEF Here
<1> QED
  BY <1>1 DEF RealmInv

LEMMA SameHandles == ASSUME UserHere, UNCHANGED handles PROVE UserHere' /\ realmName' = realmName
  BY DEF UserHere, handles, Stale

LEMMA InvalidateHere ==
  ASSUME UserHere, InvalidateParentCache
  PROVE  /\ UserHere' /\ realmName' = realmName
         /\ VisibleUser \in UserRep => VisibleUser.realm = realmName
<1>1. VisibleUser \in UserRep => VisibleUser.realm = realmName
  BY Marks DEF UserHere, VisibleUser
<1> QED
  BY <1>1 DEF UserHere, InvalidateParentCache

LEMMA RequireHere ==
  ASSUME MapInv, NEW c \in Call, NEW pc \in {"user", "again"},
         VisibleUser \in UserRep => VisibleUser.realm = realmName,
         c.plan.op # "reconcile" => c.asked = realmName,
         pc = "again" => c.user \in UserRep /\ c.user.realm = realmName
  PROVE  Here(RequireUser(c, pc), realmName)
<1>1. CASE VisibleUser \in UserRep
  <2>1. {VisibleUser} \in SUBSET UserRep /\ \A u \in {VisibleUser} : u.realm = realmName
    BY <1>1
  <2>2. Here(Known(c, pc, {VisibleUser}), realmName)
    BY <2>1, KnownHere
  <2> QED
    BY <1>1, <2>2 DEF RequireUser
<1>2. CASE VisibleUser \notin UserRep
  <2> DEFINE req == Request("user", realmName, Null, Null, {})
  <2>1. req \in Requests /\ req.realm = realmName
    <3>1. /\ realmName \in Realms /\ Null \in Names \union {Null}
          /\ Null \in UserRep \union {Null} /\ {} \in SUBSET RoleRep
      BY DEF MapInv, HandlesOK
    <3> QED
      BY <3>1, RequestFields
  <2>2. RequireUser(c, pc) = Await(c, pc, req)
    BY <1>2 DEF RequireUser
  <2> HIDE DEF req
  <2>3. Here(Await(c, pc, req), realmName)
    BY <2>1, AwaitHere
  <2> QED
    BY <2>2, <2>3
<1> QED
  BY <1>1, <1>2

\* The steps of a call that ask for a role, or throw.
LEMMA RolesHere ==
  ASSUME MapInv, RealmInv, NEW p \in Callers,
         Throw(p) \/ NextRole(p) \/ Ensured(p) \/ RoleRead(p)
  PROVE  RealmInv'
<1>1. /\ UNCHANGED <<handles, server, edits>> /\ call \in [Callers -> Call]
      /\ call[p] \in Call /\ Here(call[p], realmName) /\ realmName \in Realms
  BY DEF Throw, NextRole, Ensured, RoleRead, MapInv, CallsOK, HandlesOK, RealmInv
<1>2. UserHere' /\ realmName' = realmName
  BY <1>1, SameHandles DEF RealmInv
<1>3. /\ Null \in Names \union {Null} /\ Null \in UserRep \union {Null} /\ {} \in SUBSET RoleRep
      /\ \A n \in call[p].todo : n \in Names \union {Null}
  BY CallFields
<1>4. CASE Throw(p)
  <2>1. call' = [call EXCEPT ![p] = call'[p]] /\ call'[p] = Idle
    BY <1>1, <1>4 DEF Throw, Goes
  <2>2. Here(Idle, realmName)
    BY DEF Here, Active, Idle
  <2> QED
    BY <1>2, <2>1, <2>2, CallsHere
<1>5. CASE NextRole(p)
  <2> DEFINE k == IF call[p].plan.op = "reconcile" /\ call[p].plan.ensure THEN "ensure" ELSE "read"
             r == IF call[p].plan.op = "reconcile" THEN realmName ELSE call[p].asked
  <2>1. PICK n \in call[p].todo : Goes(p, Await(call[p], k, Request(k, r, n, Null, {})))
    BY <1>5 DEF NextRole
  <2>2. r = realmName /\ k \in {"ensure", "read"}
        /\ k \in {"ensure", "read", "user", "list", "add", "del"}
        /\ k \in {"ensure", "read", "user", "again", "list"} /\ k \notin {"again", "list"}
    BY <1>1, <1>5 DEF NextRole, Here, Active
  <2>3. call' = [call EXCEPT ![p] = call'[p]]
        /\ call'[p] = Await(call[p], k, Request(k, r, n, Null, {}))
    BY <1>1, <2>1 DEF Goes
  <2>4. call[p].plan.op # "reconcile" => call[p].asked = realmName
    BY <1>1, <1>5 DEF NextRole, Here, Active
  <2> HIDE DEF k, r
  <2> DEFINE req == Request(k, r, n, Null, {})
  <2>5. req \in Requests /\ req.realm = realmName
    BY <1>1, <1>3, <2>1, <2>2, RequestFields
  <2>6. call'[p] = Await(call[p], k, req)
    BY <2>3
  <2> HIDE DEF req
  <2>7. Here(Await(call[p], k, req), realmName)
    BY <1>1, <2>2, <2>4, <2>5, AwaitHere
  <2> QED
    BY <1>2, <2>3, <2>6, <2>7, CallsHere
<1>6. CASE Ensured(p)
  <2> DEFINE n   == call[p].req.name
             req == Request("read", realmName, n, Null, {})
  <2>1. call' = [call EXCEPT ![p] = call'[p]] /\ call'[p] = Await(call[p], "read", req)
        /\ call[p].pc = "ensure"
    BY <1>1, <1>6 DEF Ensured, Answered, Goes
  <2>2. n \in Names \union {Null}
    BY <1>3, <2>1, CallFields DEF Shape, Asks
  <2> HIDE DEF n
  <2>3. req \in Requests /\ req.realm = realmName
    BY <1>1, <1>3, <2>2, RequestFields
  <2>4. call[p].plan.op # "reconcile" => call[p].asked = realmName
    BY <1>1, <2>1 DEF Here, Active
  <2> HIDE DEF req
  <2>5. Here(Await(call[p], "read", req), realmName)
    BY <1>1, <2>3, <2>4, AwaitHere
  <2> QED
    BY <1>2, <2>1, <2>5, CallsHere
<1>7. CASE RoleRead(p)
  <2>1. PICK x \in call[p].ans :
          Goes(p, [Known(call[p], "roles", {Pending}) EXCEPT
                    !.got = @ \union {x}, !.todo = @ \ {call[p].req.name}])
    BY <1>7 DEF RoleRead
  <2>2. /\ call' = [call EXCEPT ![p] = call'[p]]
        /\ call'[p].pc = "roles" /\ call'[p].req = Null
        /\ call'[p].plan = call[p].plan /\ call'[p].asked = call[p].asked
        /\ call[p].pc = "read"
    BY <1>1, <1>7, <2>1 DEF RoleRead, Answered, Goes, Known, Call
  <2>3. Here(call'[p], realmName)
    BY <1>1, <2>2 DEF Here, Active
  <2> QED
    BY <1>2, <2>2, <2>3, CallsHere, SMTT(30)
<1> QED
  BY <1>4, <1>5, <1>6, <1>7

\* The steps that look for the user and list its roles.
LEMMA UserStepsHere ==
  ASSUME MapInv, RealmInv, NEW p \in Callers,
         ResolvesUser(p) \/ UserReturns(p) \/ HasUser(p) \/ ListsRoles(p)
  PROVE  RealmInv'
<1>1. /\ call \in [Callers -> Call] /\ UserHere
      /\ call[p] \in Call /\ Here(call[p], realmName) /\ realmName \in Realms
  BY DEF MapInv, CallsOK, HandlesOK, RealmInv
<1>2. CASE ResolvesUser(p)
  <2>1. call' = [call EXCEPT ![p] = call'[p]] /\ call'[p] = RequireUser(call[p], "user")
        /\ InvalidateParentCache
    BY <1>1, <1>2 DEF ResolvesUser, Goes
  <2>2. /\ UserHere' /\ realmName' = realmName
        /\ VisibleUser \in UserRep => VisibleUser.realm = realmName
    BY <1>1, <2>1, InvalidateHere
  <2>3. call[p].plan.op # "reconcile" => call[p].asked = realmName
    BY <1>1, <1>2 DEF ResolvesUser, Here, Active
  <2>4. Here(RequireUser(call[p], "user"), realmName)
    BY <1>1, <2>2, <2>3, RequireHere
  <2> QED
    BY <2>1, <2>2, <2>4, CallsHere
<1>3. CASE UserReturns(p)
  <2> DEFINE pc    == call[p].pc
             found == IF Stale THEN {} ELSE call[p].ans
  <2>1. /\ call' = [call EXCEPT ![p] = call'[p]] /\ call'[p] = Known(call[p], pc, found)
        /\ pc \in {"user", "again"} /\ IsAnswer(call[p].ans) /\ realmName' = realmName
        /\ user' = IF Stale THEN Undefined
                   ELSE IF call[p].ans = {} THEN Null ELSE CHOOSE u \in call[p].ans : TRUE
    BY <1>1, <1>3 DEF UserReturns, Answered, IsAnswer, Goes
  <2>2. /\ \A u \in call[p].ans : u \in UserRep /\ u.realm = realmName
        /\ call[p].plan.op # "reconcile" => call[p].asked = realmName
        /\ pc = "again" => call[p].user \in UserRep /\ call[p].user.realm = realmName
    BY <1>1, <2>1 DEF Here, Active
  <2>3. UserHere'
    BY <2>1, <2>2, Marks DEF UserHere
  <2>4. found \in SUBSET UserRep /\ \A u \in found : u.realm = realmName
    BY <2>2
  <2> HIDE DEF pc, found
  <2>5. Here(Known(call[p], pc, found), realmName)
    BY <1>1, <2>1, <2>2, <2>4, KnownHere
  <2> QED
    BY <2>1, <2>3, <2>5, CallsHere
<1>4. CASE HasUser(p)
  <2>1. call[p].pc = "user" /\ call[p].req = Null
    BY <1>4 DEF HasUser
  <2>2. PICK u \in call[p].ans :
          LET c == [call[p] EXCEPT !.user = u]
          IN  IF c.plan.op = "reconcile"
              THEN InvalidateParentCache /\ Goes(p, RequireUser(c, "again"))
              ELSE /\ UNCHANGED handles
                   /\ Goes(p, IF c.got = {} THEN Finished(c)
                              ELSE Change(IF c.plan.op = "assign" THEN "add" ELSE "del", c, c.got))
    BY <1>4 DEF HasUser
  <2> DEFINE c == [call[p] EXCEPT !.user = u]
  <2>3. u \in UserRep /\ u.realm = realmName
    BY <1>1, <2>1, <2>2 DEF Here, Active
  <2>4. /\ c \in Call /\ c.plan = call[p].plan /\ c.asked = call[p].asked /\ c.user = u
        /\ c.got \in SUBSET RoleRep
    BY <1>1, <2>3 DEF Call
  <2>5. c.plan.op # "reconcile" => c.asked = realmName
    BY <1>1, <2>1, <2>4 DEF Here, Active
  <2>6. /\ c.plan.op = "reconcile" =>
             InvalidateParentCache /\ Goes(p, RequireUser(c, "again"))
        /\ c.plan.op # "reconcile" =>
             /\ UNCHANGED handles
             /\ \/ Goes(p, Finished(c))
                \/ Goes(p, Change("add", c, c.got))
                \/ Goes(p, Change("del", c, c.got))
    BY <2>2
  <2> HIDE DEF c
  <2>7. CASE c.plan.op = "reconcile"
    <3>1. /\ UserHere' /\ realmName' = realmName
          /\ VisibleUser \in UserRep => VisibleUser.realm = realmName
      BY <1>1, <2>6, <2>7, InvalidateHere
    <3>2. Here(RequireUser(c, "again"), realmName)
      BY <2>3, <2>4, <2>5, <3>1, RequireHere
    <3>3. call' = [call EXCEPT ![p] = call'[p]] /\ call'[p] = RequireUser(c, "again")
      BY <1>1, <2>6, <2>7 DEF Goes
    <3> QED
      BY <3>1, <3>2, <3>3, CallsHere
  <2>8. CASE c.plan.op # "reconcile"
    <3>1. UserHere' /\ realmName' = realmName
      BY <1>1, <2>6, <2>8, SameHandles
    <3>2. /\ Here(Finished(c), realmName)
          /\ Here(Change("add", c, c.got), realmName)
          /\ Here(Change("del", c, c.got), realmName)
      BY <2>3, <2>4, <2>5, FinishedHere, ChangeHere
    <3>3. /\ call' = [call EXCEPT ![p] = call'[p]]
          /\ call'[p] \in {Finished(c), Change("add", c, c.got), Change("del", c, c.got)}
      BY <1>1, <2>6, <2>8 DEF Goes
    <3> QED
      BY <3>1, <3>2, <3>3, CallsHere
  <2> QED
    BY <2>7, <2>8
<1>5. CASE ListsRoles(p)
  <2>1. PICK u \in call[p].ans :
          Goes(p, Await(call[p], "list", Request("list", realmName, Null, u, {})))
    BY <1>5 DEF ListsRoles
  <2> DEFINE req == Request("list", realmName, Null, u, {})
  <2>2. /\ call' = [call EXCEPT ![p] = call'[p]] /\ call'[p] = Await(call[p], "list", req)
        /\ call[p].pc = "again" /\ call[p].req = Null /\ UNCHANGED handles
    BY <1>1, <1>5, <2>1 DEF ListsRoles, Goes
  <2>3. /\ u \in UserRep \union {Null}
        /\ call[p].plan.op # "reconcile" => call[p].asked = realmName
        /\ call[p].user \in UserRep /\ call[p].user.realm = realmName
    BY <1>1, <2>1, <2>2 DEF Here, Active
  <2>4. req \in Requests /\ req.realm = realmName
    <3>1. Null \in Names \union {Null} /\ {} \in SUBSET RoleRep
      OBVIOUS
    <3> QED
      BY <1>1, <2>3, <3>1, RequestFields
  <2> HIDE DEF req
  <2>5. Here(Await(call[p], "list", req), realmName)
    BY <1>1, <2>3, <2>4, AwaitHere
  <2>6. UserHere' /\ realmName' = realmName
    BY <1>1, <2>2, SameHandles
  <2> QED
    BY <2>2, <2>5, <2>6, CallsHere
<1> QED
  BY <1>2, <1>3, <1>4, <1>5

\* The steps that change what the user has, and return.
LEMMA ChangesHere ==
  ASSUME MapInv, RealmInv, NEW p \in Callers, Listed(p) \/ Added(p) \/ Removed(p)
  PROVE  RealmInv'
<1> DEFINE add    == ToAdd(call[p], call[p].ans)
           remove == ToRemove(call[p], call[p].ans)
<1>1. /\ UNCHANGED handles /\ call \in [Callers -> Call] /\ UserHere
      /\ call[p] \in Call /\ Here(call[p], realmName)
      /\ call[p].pc \in {"list", "add", "del"} /\ IsAnswer(call[p].ans)
  BY DEF Listed, Added, Removed, Answered, IsAnswer, MapInv, CallsOK, RealmInv
<1>2. UserHere' /\ realmName' = realmName
  BY <1>1, SameHandles
<1>3. /\ call[p].user \in UserRep /\ call[p].user.realm = realmName
      /\ call[p].plan.op # "reconcile" => call[p].asked = realmName
      /\ call[p].got \in SUBSET RoleRep /\ call[p].revoke \in SUBSET RoleRep
  BY <1>1, CallFields DEF Here, Active
<1>4. ASSUME NEW rs \in SUBSET RoleRep
      PROVE  /\ [call[p] EXCEPT !.revoke = rs] \in Call
             /\ [call[p] EXCEPT !.revoke = rs].plan = call[p].plan
             /\ [call[p] EXCEPT !.revoke = rs].asked = call[p].asked
             /\ [call[p] EXCEPT !.revoke = rs].user = call[p].user
  BY <1>1 DEF Call
<1>5. ASSUME NEW k \in {"add", "del"}, NEW ts \in SUBSET RoleRep
      PROVE  /\ Here(Change(k, call[p], ts), realmName)
             /\ \A rs \in SUBSET RoleRep :
                  Here(Change(k, [call[p] EXCEPT !.revoke = rs], ts), realmName)
  <2>1. Here(Change(k, call[p], ts), realmName)
    BY <1>1, <1>3, ChangeHere
  <2>2. ASSUME NEW rs \in SUBSET RoleRep
        PROVE  Here(Change(k, [call[p] EXCEPT !.revoke = rs], ts), realmName)
    <3> DEFINE c == [call[p] EXCEPT !.revoke = rs]
    <3>1. /\ c \in Call /\ c.plan = call[p].plan /\ c.asked = call[p].asked
          /\ c.user = call[p].user
      BY <1>4
    <3> HIDE DEF c
    <3>2. Here(Change(k, c, ts), realmName)
      BY <1>3, <3>1, ChangeHere
    <3> QED
      BY <3>2 DEF c
  <2> QED
    BY <2>1, <2>2
<1>6. /\ call' = [call EXCEPT ![p] = call'[p]]
      /\ \/ call'[p] = Finished(call[p])
         \/ Listed(p) /\ call'[p] = Reconcile(call[p], add, remove)
         \/ call'[p] = Change("del", [call[p] EXCEPT !.revoke = {}], call[p].revoke)
  BY <1>1 DEF Listed, Added, Removed, Goes
<1>7. CASE call'[p] = Finished(call[p])
  BY <1>1, <1>2, <1>6, <1>7, FinishedHere, CallsHere
<1>8. CASE call'[p] = Change("del", [call[p] EXCEPT !.revoke = {}], call[p].revoke)
  <2>1. {} \in SUBSET RoleRep
    OBVIOUS
  <2> QED
    BY <1>2, <1>3, <1>5, <1>6, <1>8, <2>1, CallsHere
<1>9. CASE Listed(p) /\ call'[p] = Reconcile(call[p], add, remove)
  <2>1. call[p].ans \in SUBSET RoleRep
    BY <1>1, <1>9, CallFields DEF Listed, Answered, Shape, Hears
  <2>2. add \in SUBSET RoleRep /\ remove \in SUBSET RoleRep
    BY <1>3, <2>1 DEF ToAdd, ToRemove
  <2> HIDE DEF add, remove
  <2>3. \/ call'[p] = Change("add", [call[p] EXCEPT !.revoke = remove], add)
        \/ call'[p] = Change("del", call[p], remove)
        \/ call'[p] = Finished(call[p])
    BY <1>9 DEF Reconcile
  <2>4. Here(call'[p], realmName)
    BY <1>1, <1>5, <2>2, <2>3, FinishedHere
  <2> QED
    BY <1>2, <1>6, <2>4, CallsHere
<1> QED
  BY <1>6, <1>7, <1>8, <1>9

\* A request is answered about the realm it was sent to.
LEMMA ServeHere ==
  ASSUME MapInv, RealmInv, NEW p \in Callers, Serve(p) PROVE RealmInv'
<1> DEFINE req == call[p].req
<1>1. /\ UNCHANGED handles /\ UserHere /\ Here(call[p], realmName)
      /\ req \in Requests /\ req # Null /\ req.kind = KindAt(call[p].pc)
      /\ call[p] \in Call /\ Shape(call[p])
  BY ServeParts, CallFields DEF RealmInv
<1>2. UserHere' /\ realmName' = realmName
  BY <1>1, SameHandles
<1>3. PICK a : /\ call'[p] = [call[p] EXCEPT !.ans = a]
               /\ \/ Refused(p, a) \/ Read(p, a) \/ RoleMade(p, a)
                  \/ Granted(p, a) \/ Revoked(p, a)
  BY ServeParts
<1>4. /\ call'[p].pc = call[p].pc /\ call'[p].plan = call[p].plan /\ call'[p].req = req
      /\ call'[p].asked = call[p].asked /\ call'[p].user = call[p].user /\ call'[p].ans = a
  BY <1>1, <1>3 DEF Call
<1>5. call[p].pc \in {"user", "again"} /\ IsAnswer(a) =>
        \A u \in a : u \in UserRep /\ u.realm = realmName
  <2> SUFFICES ASSUME call[p].pc \in {"user", "again"}, IsAnswer(a), NEW u \in a
               PROVE  u \in UserRep /\ u.realm = realmName
    OBVIOUS
  <2>1. req.kind = "user" /\ req.realm = realmName
    BY <1>1 DEF KindAt, Here, Active
  <2>2. a = Answer(req)
    BY <1>3, <2>1 DEF Refused, Read, RoleMade, Granted, Revoked, IsAnswer
  <2>3. u = UserOf(req.realm)
    BY <2>1, <2>2 DEF Answer
  <2>4. UserOf(req.realm) \in UserRep /\ UserOf(req.realm).realm = req.realm
    BY <1>1 DEF MapInv, ServerOK, UserOf, UserRep, Requests
  <2> QED
    BY <2>1, <2>3, <2>4
<1>6. Here(call'[p], realmName)
  BY <1>1, <1>4, <1>5 DEF Here, Active
<1>7. ASSUME NEW q \in Callers \ {p} PROVE Here(call'[q], realmName)
  <2>1. call'[q] = call[q] \/ call'[q] = [call[q] EXCEPT !.alone = FALSE]
    BY ServeParts
  <2>2. call[q] \in Call /\ Here(call[q], realmName)
    BY CallFields DEF RealmInv
  <2>3. /\ call'[q].pc = call[q].pc /\ call'[q].plan = call[q].plan
        /\ call'[q].asked = call[q].asked /\ call'[q].user = call[q].user
        /\ call'[q].req = call[q].req /\ call'[q].ans = call[q].ans
    BY <2>1, <2>2 DEF Call
  <2> QED
    BY <2>2, <2>3 DEF Here, Active
<1>8. \A q \in Callers : Here(call[q], realmName)'
  BY <1>2, <1>6, <1>7 DEF Here
<1> QED
  BY <1>2, <1>8 DEF RealmInv

\* Others edit; a call begins.
LEMMA AdminHere == ASSUME MapInv, RealmInv, Admin PROVE RealmInv'
<1>1. /\ UserHere' /\ realmName' = realmName
      /\ \E names : call' = Disturb(call, names, {})
  BY SameHandles DEF Admin, AdminUser, AdminRole, AdminMapping, RealmInv
<1>2. ASSUME NEW q \in Callers PROVE Here(call[q], realmName)'
  <2>1. call'[q] = call[q] \/ call'[q] = [call[q] EXCEPT !.alone = FALSE]
    BY <1>1 DEF Disturb
  <2>2. call[q] \in Call /\ Here(call[q], realmName)
    BY CallFields DEF RealmInv
  <2>3. /\ call'[q].pc = call[q].pc /\ call'[q].plan = call[q].plan
        /\ call'[q].asked = call[q].asked /\ call'[q].user = call[q].user
        /\ call'[q].req = call[q].req /\ call'[q].ans = call[q].ans
    BY <2>1, <2>2 DEF Call
  <2> QED
    BY <1>1, <2>2, <2>3 DEF Here, Active
<1> QED
  BY <1>1, <1>2 DEF RealmInv

LEMMA BeginHere ==
  ASSUME MapInv, RealmInv, NEW p \in Callers, NEW plan \in Plans,
         BeginReconcile(p, plan) \/ \E r \in Realms : BeginMapping(p, plan, r)
  PROVE  RealmInv'
<1>1. UserHere' /\ realmName' = realmName /\ call \in [Callers -> Call]
  BY SameHandles DEF BeginReconcile, BeginMapping, RealmInv, MapInv, CallsOK
<1>2. /\ call' = [call EXCEPT ![p] = call'[p]]
      /\ call'[p].pc = "roles" /\ call'[p].req = Null
      /\ call'[p].plan.op # "reconcile" => call'[p].asked = realmName
  <2>1. CASE BeginReconcile(p, plan)
    BY <1>1, <2>1, SMTT(30) DEF BeginReconcile, Goes, Idle
  <2>2. CASE \E r \in Realms : BeginMapping(p, plan, r)
    BY <1>1, <2>2, ZenonT(60) DEF BeginMapping, Goes, Idle
  <2> QED
    BY <2>1, <2>2
<1>3. Here(call'[p], realmName)
  BY <1>2 DEF Here
<1> QED
  BY <1>1, <1>2, <1>3, CallsHere

\* The realm is rebound when no call is under way: what the handle held is stale.
LEMMA RebindHere ==
  ASSUME MapInv, RealmInv, NEW r \in Realms, RebindRealm(r), ~RebindsOverlap PROVE RealmInv'
<1>1. Quiet /\ realmGen' = realmGen + 1 /\ UNCHANGED <<user, seen>> /\ call' = Disturb(call, Names, {})
  BY DEF RebindRealm
<1>2. Stale'
  <2>1. PICK g \in 0..realmGen : seen = RootVersion(g)
    BY DEF MapInv, HandlesOK
  <2>2. g # realmGen + 1
    BY <2>1 DEF MapInv, HandlesOK
  <2>3. RootVersion(g) # RootVersion(realmGen + 1)
    BY <2>2 DEF RootVersion
  <2> QED
    BY <1>1, <2>1, <2>3 DEF Stale, ParentMoved
<1>3. ASSUME NEW q \in Callers PROVE Here(call[q], realmName)'
  <2>1. call'[q].pc = call[q].pc
    <3>1. call'[q] = call[q] \/ call'[q] = [call[q] EXCEPT !.alone = FALSE]
      BY <1>1 DEF Disturb
    <3> QED
      BY <3>1, CallFields DEF Call
  <2> QED
    BY <1>1, <2>1 DEF Quiet, Here, Active
<1> QED
  BY <1>2, <1>3 DEF RealmInv, UserHere

LEMMA NextHere ==
  ASSUME MapInv, RealmInv, ~RebindsOverlap, [Next]_vars PROVE RealmInv'
<1>1. CASE UNCHANGED vars
  BY <1>1 DEF vars, handles, RealmInv, UserHere, Stale, Here, Active
<1>2. ASSUME NEW r \in Realms, RebindRealm(r) PROVE RealmInv'
  BY <1>2, RebindHere
<1>3. ASSUME NEW p \in Callers, NEW plan \in Plans,
             BeginReconcile(p, plan) \/ \E r \in Realms : BeginMapping(p, plan, r)
      PROVE  RealmInv'
  BY <1>3, BeginHere
<1>4. ASSUME NEW p \in Callers, Serve(p) PROVE RealmInv'
  BY <1>4, ServeHere
<1>5. ASSUME NEW p \in Callers, Step(p) PROVE RealmInv'
  BY <1>5, RolesHere, UserStepsHere, ChangesHere DEF Step
<1>6. ASSUME Admin PROVE RealmInv'
  BY <1>6, AdminHere
<1> QED
  BY <1>1, <1>2, <1>3, <1>4, <1>5, <1>6 DEF Next

LEMMA OneRealmFollows == ASSUME MapInv, RealmInv PROVE MapsOneRealm
<1> SUFFICES ASSUME NEW p \in Callers, call[p].pc \in {"add", "del"}, call[p].alone,
                    call[p].req # Null
             PROVE  /\ call[p].req.user.realm = call[p].req.realm
                    /\ \A x \in call[p].req.roles : x.realm = call[p].req.realm
  BY DEF MapsOneRealm
<1> DEFINE plan == call[p].plan
<1>1. call[p].req.realm = realmName /\ call[p].req.user.realm = realmName
  BY DEF RealmInv, Here, Active
<1>2. Touches(plan) # {}
  <2>1. call[p].req.roles # {} /\ NamesOf(call[p].req.roles) \subseteq Effective(plan) \union Unwanted(plan)
    BY CallFields DEF Shape, Follows
  <2>2. Effective(plan) \union Unwanted(plan) \subseteq Touches(plan)
    BY CallFields, PlanParts
  <2> QED
    BY <2>1, <2>2 DEF NamesOf
<1>3. \A x \in call[p].req.roles : x.realm = realmName
  BY <1>2, CallFields DEF CallOK, Untouched, InOneRealm, Active
<1> QED
  BY <1>1, <1>3

\* A mapping that nobody crossed names one realm three times: in the request, of
\* the user and of the roles (user.ts with role-ownership.ts), as long as the
\* realm is rebound only between calls.
THEOREM MapsInOneRealm ==
  ASSUME ~RebindsOverlap PROVE Spec => []MapsOneRealm
<1>1. Init => RealmInv
  BY Marks DEF Init, RealmInv, UserHere, Here, Active, Idle
<1>2. MapInv /\ RealmInv /\ [Next]_vars => RealmInv'
  BY NextHere
<1>3. MapInv /\ RealmInv => MapsOneRealm
  BY OneRealmFollows
<1> QED
  BY <1>1, <1>2, <1>3, Mapping, PTL DEF Spec
=============================================================================
