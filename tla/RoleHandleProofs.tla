--------------------------- MODULE RoleHandleProofs -------------------------
(***************************************************************************)
(* Theorems about RoleHandle, for any sets of realms, names, ids, callers  *)
(* and operations, and any bound on the generations.                       *)
(*                                                                         *)
(* The argument: every retarget counts a generation.  As long as handles   *)
(* are retargeted only between operations, the target of a caller under    *)
(* way is the one it asked for, what it was answered is of that target     *)
(* (CacheInv), and so is what it found and the request made of it          *)
(* (WriteInv).                                                             *)
(***************************************************************************)
EXTENDS RoleHandle, TLAPS

-----------------------------------------------------------------------------
(* The inductive invariant                                                 *)

Lookups == {"byName", "byId"}

\* What a caller's place says of its request, its answer and its finding.
CallOK(p) ==
  /\ call[p].pc = "idle" <=> call[p].op = NoCall
  /\ call[p].pc \in {"lookup", "final"} =>
       /\ call[p].req \in Request
       /\ call[p].req.kind \in Lookups
       /\ call[p].ans \in Rep \union {Null, Failed, Pending}
  /\ call[p].pc = "looked" =>
       /\ call[p].op \notin {"get", "getById"}
       /\ call[p].found \in Rep \union {Null}
       /\ call[p].ans = Pending
  /\ call[p].pc = "write" =>
       /\ call[p].req \in Request
       /\ call[p].req.kind \notin Lookups

TypeInv == TypeOK /\ \A p \in Callers : CallOK(p)

\* The cached role has the handle's name, and the realm of the parent version
\* the handle saw.
CacheOK ==
  role \in Rep =>
    /\ role.name = roleName
    /\ ~Stale => role.realm = realmName

\* A lookup under way asks about the current target, and so does its answer.
FlightOK(p) ==
  call[p].pc \in {"lookup", "final"} =>
    /\ ~Stale
    /\ call[p].req.realm = realmName
    /\ call[p].req.kind = "byName" => call[p].req.name = roleName
    /\ call[p].req.kind = "byId" => call[p].op = "getById"
    /\ call[p].ans \in Rep =>
         /\ call[p].ans.realm = realmName
         /\ call[p].req.kind = "byName" => call[p].ans.name = roleName

\* A call that may rename the handle is alone.
AloneOK ==
  \A p, q \in Callers :
    p # q /\ call[p].op = "getById" => call[q].pc = "idle"

CacheInv == TypeInv /\ CacheOK /\ AloneOK /\ \A p \in Callers : FlightOK(p)

-----------------------------------------------------------------------------
(* The server                                                              *)

\* A mutation leaves a store.
LEMMA AppliedIsStore ==
  ASSUME NEW s \in Store, NEW req \in Request
  PROVE  Applied(s, req) \subseteq Store
<1> DEFINE who == [realm |-> req.realm, name |-> req.name]
<1>1. who \in Identity
  BY DEF Request, Identity
<1>2. CASE req.kind = "create"
  <2>1. SUFFICES ASSUME Fresh(s) # {}
                 PROVE  [s EXCEPT ![CHOOSE i \in Fresh(s) : TRUE] = who] \in Store
    BY <1>2 DEF Applied
  <2>2. (CHOOSE i \in Fresh(s) : TRUE) \in Fresh(s)
    BY <2>1
  <2>3. (CHOOSE i \in Fresh(s) : TRUE) \in Ids
    BY <2>2 DEF Fresh
  <2> QED
    BY <1>1, <2>3 DEF Store
<1>3. CASE req.kind = "put"
  BY <1>1, <1>3 DEF Applied, Store
<1>4. CASE req.kind = "del"
  BY <1>4 DEF Applied, Store
<1>5. CASE req.kind \notin {"create", "put", "del"}
  BY <1>5 DEF Applied
<1> QED
  BY <1>2, <1>3, <1>4, <1>5

\* Every outcome is a store and an answer; a lookup answers with a role of
\* the realm asked, of the name asked when it asked for a name.
LEMMA OutcomeFits ==
  ASSUME NEW s \in Store, NEW req \in Request, NEW o \in Outcomes(s, req)
  PROVE  /\ o[1] \in Store
         /\ o[2] \in Answer
         /\ req.kind \in Lookups =>
              /\ o[2] \in Rep \union {Null, Failed}
              /\ o[2] \in Rep =>
                   /\ o[2].realm = req.realm
                   /\ req.kind = "byName" => o[2].name = req.name
<1>1. CASE o = <<s, Failed>>
  BY <1>1, RegistryAssumption DEF Answer
<1>2. CASE req.kind = "byName" /\ o # <<s, Failed>>
  <2>1. PICK a \in Found(FindByName(s, req.realm, req.name)) : o = <<s, a>>
    BY <1>2 DEF Outcomes
  <2>2. a = Null \/ (a \in Rep /\ a.realm = req.realm /\ a.name = req.name)
    BY <2>1 DEF Found, FindByName
  <2> QED
    BY <1>2, <2>1, <2>2, RegistryAssumption DEF Answer
<1>3. CASE req.kind = "byId" /\ o # <<s, Failed>>
  <2>1. PICK a \in Found(FindById(s, req.realm, req.id)) : o = <<s, a>>
    BY <1>3 DEF Outcomes
  <2>2. a = Null \/ (a \in Rep /\ a.realm = req.realm)
    BY <2>1 DEF Found, FindById
  <2> QED
    BY <1>3, <2>1, <2>2, RegistryAssumption DEF Answer
<1>4. CASE req.kind \notin Lookups /\ o # <<s, Failed>>
  <2>1. o \in Applied(s, req) \X {Done, Failed}
    BY <1>4 DEF Outcomes, Lookups
  <2> QED
    BY <1>4, <2>1, AppliedIsStore DEF Answer
<1> QED
  BY <1>1, <1>2, <1>3, <1>4 DEF Lookups

-----------------------------------------------------------------------------
(* Type correctness                                                        *)

\* An invalidation keeps the types of what it changes.
LEMMA InvalidateType ==
  ASSUME TypeOK, InvalidateParentCache, UNCHANGED realmGen
  PROVE  /\ role' \in Rep \union {Null, Undefined}
         /\ gen' \in Nat
         /\ seen' \in {RootVersion(g) : g \in 0..realmGen'}
  BY DEF TypeOK, InvalidateParentCache, VisibleRole, VisibleGen, RootVersion

\* So does the write-back of a lookup's answer.
LEMMA WriteBackType ==
  ASSUME TypeOK, NEW a \in Rep \union {Null}, WriteBack(a), UNCHANGED realmGen
  PROVE  /\ roleName' \in Names
         /\ role' \in Rep \union {Null, Undefined}
         /\ gen' \in Nat
         /\ seen' \in {RootVersion(g) : g \in 0..realmGen'}
  BY RegistryAssumption DEF TypeOK, WriteBack, RootVersion, Rep

LEMMA RequestTypes ==
  ASSUME TypeOK
  PROVE  /\ Target \in Identity
         /\ ByName \in Request /\ ByName.kind = "byName"
         /\ Create \in Request /\ Create.kind = "create"
         /\ \A i \in Ids : ById(i) \in Request /\ ById(i).kind = "byId"
         /\ \A one \in Rep : /\ Put(one) \in Request /\ Put(one).kind = "put"
                             /\ Del(one) \in Request /\ Del(one).kind = "del"
                             /\ Use(one) \in Request /\ Use(one).kind = "use"
  BY DEF TypeOK, Target, Identity, ByName, Create, ById, Put, Del, Use, Request, Rep

\* The request an operation goes on with is a mutation or a dependent read.
LEMMA NextRequestType ==
  ASSUME TypeOK, NEW one \in Rep \union {Null}, NEW op \in AllOps \ {"get", "getById"},
         NEW req \in NextRequest(op, one)
  PROVE  req \in Request /\ req.kind \notin Lookups
<1>1. req \in {Create} \/ (one \in Rep /\ req \in {Put(one), Del(one), Use(one)})
  BY Zenon DEF NextRequest, AllOps
<1> QED
  BY <1>1, RequestTypes DEF Lookups

LEMMA IdleFits == Idle \in Call
  BY RoleHandleAssumption DEF Idle, Call

\* Moving on keeps the invariant when the finding and the request fit.
LEMMA MoveTypeInv ==
  ASSUME TypeInv, NEW p \in Callers,
         NEW pc \in {"looked", "write", "final"},
         NEW found \in Rep \union {Null, Undefined},
         NEW req \in Request \union {Null},
         Move(p, pc, found, req),
         call[p].op \in AllOps,
         pc = "looked" => found # Undefined /\ call[p].op \notin {"get", "getById"},
         pc = "write" => req \in Request /\ req.kind \notin Lookups,
         pc = "final" => req \in Request /\ req.kind \in Lookups
  PROVE  call' \in [Callers -> Call] /\ \A q \in Callers : CallOK(q)'
<1>1. call' \in [Callers -> Call]
  BY DEF TypeInv, TypeOK, Call, Move
<1>2. ASSUME NEW q \in Callers, q # p PROVE CallOK(q)'
  BY <1>2 DEF TypeInv, TypeOK, CallOK, Move
<1>3. CallOK(p)'
  BY RoleHandleAssumption DEF TypeInv, TypeOK, CallOK, Move
<1> QED
  BY <1>1, <1>2, <1>3

LEMMA InitTypeInv == Init => TypeInv
<1> SUFFICES ASSUME Init PROVE TypeInv
  OBVIOUS
<1>1. TypeOK
  BY IdleFits DEF Init, TypeOK, Store, RootVersion
<1>2. \A p \in Callers : CallOK(p)
  BY DEF Init, CallOK, Idle
<1> QED
  BY <1>1, <1>2 DEF TypeInv

\* Starting a lookup keeps the invariant.
LEMMA BeginGetTypeInv ==
  ASSUME TypeInv, NEW p \in Callers, NEW op \in AllOps, BeginGet(p, op)
  PROVE  TypeInv'
<1>1. TypeOK'
  BY InvalidateType, RequestTypes, RoleHandleAssumption
     DEF TypeInv, TypeOK, BeginGet, Call, realm
<1>2. ASSUME NEW q \in Callers PROVE CallOK(q)'
  BY RequestTypes, RoleHandleAssumption DEF TypeInv, TypeOK, BeginGet, CallOK, Lookups
<1> QED
  BY <1>1, <1>2 DEF TypeInv

LEMMA StepTypeInv == TypeInv /\ [Next]_vars => TypeInv'
<1> SUFFICES ASSUME TypeInv, [Next]_vars PROVE TypeInv'
  OBVIOUS
<1>1. ASSUME NEW n \in Names, Rebind(n) PROVE TypeInv'
  BY <1>1 DEF TypeInv, TypeOK, CallOK, Rebind, realm
<1>2. ASSUME NEW r \in Realms, RebindRealm(r) PROVE TypeInv'
  BY <1>2 DEF TypeInv, TypeOK, CallOK, RebindRealm, handle, RootVersion
<1>3. CASE ReadRole
  BY <1>3, InvalidateType DEF TypeInv, TypeOK, CallOK, ReadRole, realm
<1>4. ASSUME NEW p \in Callers, NEW op \in AllOps, Begin(p, op) PROVE TypeInv'
  BY <1>4, BeginGetTypeInv DEF Begin
<1>5. ASSUME NEW p \in Callers, NEW i \in Ids, BeginGetById(p, i) PROVE TypeInv'
  <2>1. TypeOK'
    BY <1>5, InvalidateType, RequestTypes, RoleHandleAssumption
       DEF TypeInv, TypeOK, BeginGetById, Call, realm, AllOps
  <2>2. ASSUME NEW q \in Callers PROVE CallOK(q)'
    BY <1>5, RequestTypes, RoleHandleAssumption
       DEF TypeInv, TypeOK, BeginGetById, CallOK, Lookups, AllOps
  <2> QED
    BY <2>1, <2>2 DEF TypeInv
<1>6. ASSUME NEW p \in Callers, BeginRequireRole(p) PROVE TypeInv'
  <2>1. CASE VisibleRole \in {Undefined, Null}
    BY <1>6, <2>1, BeginGetTypeInv DEF BeginRequireRole, AllOps
  <2>2. CASE VisibleRole \notin {Undefined, Null}
    <3>1. role \in Rep
      BY <2>2 DEF VisibleRole, TypeInv, TypeOK
    <3>2. TypeOK'
      BY <1>6, <2>2, <3>1, InvalidateType, RequestTypes, RoleHandleAssumption
         DEF TypeInv, TypeOK, BeginRequireRole, Call, realm, AllOps
    <3>3. ASSUME NEW q \in Callers PROVE CallOK(q)'
      BY <1>6, <2>2, <3>1, RoleHandleAssumption
         DEF TypeInv, TypeOK, BeginRequireRole, CallOK, AllOps
    <3> QED
      BY <3>2, <3>3 DEF TypeInv
  <2> QED
    BY <2>1, <2>2
<1>7. ASSUME NEW p \in Callers, Serve(p) PROVE TypeInv'
  <2>1. call[p].req \in Request
    BY <1>7 DEF Serve, Waiting, TypeInv, CallOK
  <2>2. PICK o \in Outcomes(store, call[p].req) :
          store' = o[1] /\ call' = [call EXCEPT ![p].ans = o[2]]
    BY <1>7 DEF Serve
  <2>3. /\ o[1] \in Store /\ o[2] \in Answer
        /\ call[p].req.kind \in Lookups => o[2] \in Rep \union {Null, Failed}
    BY <2>1, OutcomeFits DEF TypeInv, TypeOK
  <2>4. TypeOK'
    BY <1>7, <2>2, <2>3 DEF TypeInv, TypeOK, Serve, Call, realm, handle
  <2>5. ASSUME NEW q \in Callers PROVE CallOK(q)'
    BY <1>7, <2>2, <2>3 DEF TypeInv, TypeOK, Serve, Waiting, CallOK, Call
  <2> QED
    BY <2>4, <2>5 DEF TypeInv
<1>8. ASSUME NEW p \in Callers, Finish(p), store' \in Store, UNCHANGED realm,
             roleName' \in Names, role' \in Rep \union {Null, Undefined},
             gen' \in Nat, seen' \in {RootVersion(g) : g \in 0..realmGen}
      PROVE  TypeInv'
  <2>1. TypeOK'
    BY <1>8, IdleFits DEF TypeInv, TypeOK, Finish, realm
  <2>2. ASSUME NEW q \in Callers PROVE CallOK(q)'
    BY <1>8 DEF TypeInv, TypeOK, CallOK, Finish, Idle
  <2> QED
    BY <2>1, <2>2 DEF TypeInv
<1>9. ASSUME NEW p \in Callers, Throw(p) PROVE TypeInv'
  BY <1>8, <1>9 DEF Throw, TypeInv, TypeOK, realm, handle
<1>10. ASSUME NEW p \in Callers, GetReturns(p) PROVE TypeInv'
  <2>1. call[p].ans \in Rep \union {Null}
    BY <1>10 DEF GetReturns, Answered, TypeInv, CallOK
  <2>2. /\ roleName' \in Names
        /\ role' \in Rep \union {Null, Undefined}
        /\ gen' \in Nat
        /\ seen' \in {RootVersion(g) : g \in 0..realmGen}
    BY <1>10, <2>1, WriteBackType DEF GetReturns, TypeInv, realm
  <2>3. CASE Finish(p)
    BY <1>8, <1>10, <2>2, <2>3 DEF GetReturns, TypeInv, TypeOK, realm
  <2>4. CASE ~Finish(p)
    <3>1. /\ Move(p, "looked", Got(call[p].ans), Null)
          /\ call[p].op \notin {"get", "getById"}
          /\ call[p].pc = "lookup"
      BY <1>10, <2>4 DEF GetReturns, Answered
    <3>2. Got(call[p].ans) \in Rep \union {Null}
      BY <2>1 DEF Got
    <3>3. call[p].op \in AllOps
      BY <3>1 DEF TypeInv, TypeOK, CallOK, Call
    <3>4. call' \in [Callers -> Call] /\ \A q \in Callers : CallOK(q)'
      BY <3>1, <3>2, <3>3, MoveTypeInv, RoleHandleAssumption
    <3> QED
      BY <1>10, <2>2, <3>4 DEF GetReturns, TypeInv, TypeOK, realm
  <2> QED
    BY <2>3, <2>4
<1>11. ASSUME NEW p \in Callers, Resume(p) PROVE TypeInv'
  <2>1. CASE Finish(p)
    BY <1>8, <1>11, <2>1 DEF Resume, TypeInv, TypeOK, realm, handle
  <2>2. CASE ~Finish(p)
    <3>1. PICK req \in NextRequest(call[p].op, call[p].found) :
            Move(p, "write", call[p].found, req)
      BY <1>11, <2>2 DEF Resume
    <3>2. call[p].op \in AllOps \ {"get", "getById"} /\ call[p].found \in Rep \union {Null}
      BY <1>11 DEF Resume, TypeInv, TypeOK, CallOK, Call
    <3>3. req \in Request /\ req.kind \notin Lookups
      BY <3>2, NextRequestType DEF TypeInv
    <3>4. call' \in [Callers -> Call] /\ \A q \in Callers : CallOK(q)'
      BY <3>1, <3>2, <3>3, MoveTypeInv
    <3> QED
      BY <1>11, <3>4 DEF Resume, TypeInv, TypeOK, realm, handle
  <2> QED
    BY <2>1, <2>2
<1>12. ASSUME NEW p \in Callers, ReadBack(p) PROVE TypeInv'
  <2>1. /\ Move(p, "final", call[p].found, ByName)
        /\ call[p].op \in AllOps
        /\ call[p].found \in Rep \union {Null, Undefined}
    BY <1>12 DEF ReadBack, AllOps, TypeInv, TypeOK, Call
  <2>2. call' \in [Callers -> Call] /\ \A q \in Callers : CallOK(q)'
    BY <2>1, MoveTypeInv, RequestTypes DEF TypeInv, Lookups
  <2> QED
    BY <1>12, <2>2, InvalidateType DEF ReadBack, TypeInv, TypeOK, realm
<1>13. ASSUME NEW p \in Callers, Deleted(p) PROVE TypeInv'
  BY <1>8, <1>13 DEF Deleted, TypeInv, TypeOK, realm
<1>14. ASSUME NEW p \in Callers, Listed(p) PROVE TypeInv'
  BY <1>8, <1>14 DEF Listed, TypeInv, TypeOK, realm, handle
<1>15. CASE AdminWrites
  <2>1. store' \in Store
    <3>1. PICK r \in Realms, n \in Names, i \in Ids, kind \in {"create", "put", "del"} :
            store' \in Applied(store, [kind |-> kind, realm |-> r, name |-> n, id |-> i])
      BY <1>15 DEF AdminWrites
    <3>2. [kind |-> kind, realm |-> r, name |-> n, id |-> i] \in Request
      BY DEF Request
    <3> QED
      BY <3>1, <3>2, AppliedIsStore DEF TypeInv, TypeOK
  <2> QED
    BY <1>15, <2>1 DEF AdminWrites, TypeInv, TypeOK, CallOK, realm, handle
<1>16. CASE UNCHANGED vars
  BY <1>16 DEF TypeInv, TypeOK, CallOK, vars
<1> QED
  BY <1>1, <1>2, <1>3, <1>4, <1>5, <1>6, <1>7, <1>9, <1>10, <1>11, <1>12, <1>13,
     <1>14, <1>15, <1>16 DEF Next, Calls, Step

\* Type correctness: every variable of the handle keeps its type, and no step
\* caches or resumes with something that is not an answer to its request.
THEOREM TypeCorrect == Spec => []TypeOK
<1>1. Init => TypeInv
  BY InitTypeInv
<1>2. TypeInv /\ [Next]_vars => TypeInv'
  BY StepTypeInv
<1>3. TypeInv => TypeOK
  BY DEF TypeInv
<1> QED
  BY <1>1, <1>2, <1>3, PTL DEF Spec

-----------------------------------------------------------------------------
(* The identity version                                                    *)

\* No step lowers a generation, and none moves the target under one version,
\* whether or not retargeting overlaps the calls.
LEMMA StepVersion == TypeInv /\ [Next]_vars => [VersionStep]_vars
<1> SUFFICES ASSUME TypeInv, Next PROVE VersionStep
  BY DEF VersionStep
<1> USE DEF VersionStep, ChildVersion
<1>1. ASSUME NEW n \in Names, Rebind(n) PROVE VersionStep
  BY <1>1 DEF TypeInv, TypeOK, Rebind, VisibleGen, Stale, realm
<1>2. ASSUME NEW r \in Realms, RebindRealm(r) PROVE VersionStep
  <2>1. Stale'
    BY <1>2 DEF TypeInv, TypeOK, RebindRealm, handle, Stale, ParentMoved, RootVersion
  <2> QED
    BY <1>2, <2>1 DEF TypeInv, TypeOK, RebindRealm, handle, VisibleGen
<1>3. ASSUME InvalidateParentCache, UNCHANGED <<roleName, realm>> PROVE VersionStep
  BY <1>3 DEF TypeInv, TypeOK, InvalidateParentCache, VisibleGen, Stale, ParentMoved, Target, realm
<1>4. ASSUME UNCHANGED <<realm, roleName, gen, seen>> PROVE VersionStep
  BY <1>4 DEF TypeInv, TypeOK, Target, VisibleGen, Stale, realm
<1>5. ASSUME NEW p \in Callers, Calls(p) PROVE VersionStep
  BY <1>3, <1>5
     DEF Calls, Begin, BeginGet, BeginGetById, BeginRequireRole
<1>6. ASSUME NEW p \in Callers, GetReturns(p) PROVE VersionStep
  <2>1. WriteBack(call[p].ans) /\ UNCHANGED realm
    BY <1>6 DEF GetReturns
  <2>2. seen' = RootVersion(realmGen') /\ realmGen' = realmGen /\ realmName' = realmName
    BY <2>1 DEF WriteBack, realm
  <2>3. VisibleGen' = gen'
    BY <2>2 DEF VisibleGen, Stale, ParentMoved
  <2>4. gen \in Nat /\ realmGen \in Nat
    BY DEF TypeInv, TypeOK
  <2>5. gen' >= VisibleGen /\ (roleName' # roleName => gen' > VisibleGen)
    BY <2>1, <2>4 DEF WriteBack, VisibleGen
  <2>6. VisibleGen >= gen /\ VisibleGen \in Nat
    BY <2>4 DEF VisibleGen
  <2>7. gen' \in Nat
    BY <2>1, <2>4 DEF WriteBack
  <2> QED
    BY <2>2, <2>3, <2>4, <2>5, <2>6, <2>7 DEF Target
<1>7. ASSUME NEW p \in Callers, ReadBack(p) PROVE VersionStep
  BY <1>3, <1>7 DEF ReadBack
<1>8. ASSUME NEW p \in Callers,
             Serve(p) \/ Throw(p) \/ Resume(p) \/ Deleted(p) \/ Listed(p)
      PROVE  VersionStep
  BY <1>4, <1>8 DEF Serve, Throw, Resume, Deleted, Listed, handle
<1>9. CASE AdminWrites
  BY <1>4, <1>9 DEF AdminWrites, handle
<1>10. CASE ReadRole
  BY <1>3, <1>10 DEF ReadRole
<1> QED
  BY <1>1, <1>2, <1>5, <1>6, <1>7, <1>8, <1>9, <1>10 DEF Next, Step

\* The version theorem: whatever overlaps, two readings of one identity
\* version name one realm and role name.
THEOREM VersionIdentifies == Spec => VersionTracksTarget
<1>1. Init => TypeInv
  BY InitTypeInv
<1>2. TypeInv /\ [Next]_vars => TypeInv'
  BY StepTypeInv
<1>3. TypeInv /\ [Next]_vars => [VersionStep]_vars
  BY StepVersion
<1> QED
  BY <1>1, <1>2, <1>3, PTL DEF Spec, VersionTracksTarget

-----------------------------------------------------------------------------
(* What the handle serves, when retargeting waits for the calls to end     *)

\* An invalidation keeps the cache invariant and leaves the handle in step
\* with its parent.
LEMMA InvalidateCache ==
  ASSUME TypeInv, CacheOK, InvalidateParentCache, UNCHANGED <<roleName, realm>>
  PROVE  CacheOK' /\ ~Stale'
  BY RoleHandleAssumption
     DEF CacheOK, InvalidateParentCache, VisibleRole, Stale, ParentMoved, realm

LEMMA InitCacheInv == Init => CacheInv
<1> SUFFICES ASSUME Init PROVE CacheInv
  OBVIOUS
<1>1. TypeInv
  BY InitTypeInv
<1>2. CacheOK
  BY RoleHandleAssumption DEF Init, CacheOK
<1>3. AloneOK /\ \A p \in Callers : FlightOK(p)
  BY DEF Init, AloneOK, FlightOK, Idle
<1> QED
  BY <1>1, <1>2, <1>3 DEF CacheInv

\* A lookup by name sent now asks about the current target.
LEMMA BeginGetCacheInv ==
  ASSUME CacheInv, NEW p \in Callers, NEW op \in AllOps \ {"getById"},
         BeginGet(p, op), call[p].pc = "idle",
         \A q \in Callers : call[q].op # "getById"
  PROVE  CacheInv'
<1>1. TypeInv'
  BY BeginGetTypeInv DEF CacheInv
<1>2. CacheOK' /\ ~Stale'
  BY InvalidateCache DEF CacheInv, BeginGet
<1>3. AloneOK'
  BY DEF CacheInv, TypeInv, TypeOK, BeginGet, AloneOK
<1>4. ASSUME NEW q \in Callers PROVE FlightOK(q)'
  <2>1. CASE q = p
    <3>1. /\ call'[p].req = ByName
          /\ call'[p].ans = Pending
          /\ UNCHANGED <<realmName, roleName>>
      BY DEF BeginGet, CacheInv, TypeInv, TypeOK, realm
    <3>2. Pending \notin Rep
      BY RoleHandleAssumption DEF Answer
    <3> QED
      BY <1>2, <2>1, <3>1, <3>2 DEF FlightOK, ByName
  <2>2. CASE q # p
    BY <1>2, <2>2 DEF BeginGet, CacheInv, TypeInv, TypeOK, FlightOK, realm
  <2> QED
    BY <2>1, <2>2
<1> QED
  BY <1>1, <1>2, <1>3, <1>4 DEF CacheInv

\* A step that leaves the handle, its realm and the requests under way alone,
\* except that a caller may stop waiting for a lookup.
LEMMA QuietStep ==
  ASSUME CacheInv, TypeInv', UNCHANGED <<realm, handle>>,
         NEW p \in Callers,
         \A q \in Callers : q # p => call'[q] = call[q],
         call'[p].pc \notin {"lookup", "final"},
         call'[p].op \in {call[p].op, NoCall},
         call[p].op # "getById" \/ call'[p].pc = "idle"
  PROVE  CacheInv'
<1>1. CacheOK'
  BY DEF CacheInv, CacheOK, Stale, handle, realm
<1>2. NoCall # "getById"
  BY RoleHandleAssumption DEF AllOps
<1>3. AloneOK'
  BY <1>2 DEF CacheInv, TypeInv, CallOK, AloneOK
<1>4. \A q \in Callers : FlightOK(q)'
  BY DEF CacheInv, FlightOK, Stale, handle, realm
<1> QED
  BY <1>1, <1>3, <1>4 DEF CacheInv

LEMMA StepCacheInv ==
  ASSUME ~OverlapRetarget, CacheInv, [Next]_vars
  PROVE  CacheInv'
<1>1. TypeInv'
  BY StepTypeInv DEF CacheInv
<1>2. \A p \in Callers : call[p].pc = "idle" <=> call[p].op = NoCall
  BY DEF CacheInv, TypeInv, CallOK
<1>3. NoCall # "getById" /\ Pending \notin Rep
  BY RoleHandleAssumption DEF AllOps, Answer
<1>4. ASSUME NEW n \in Names, Rebind(n) PROVE CacheInv'
  <2>1. Quiet
    BY <1>4 DEF Rebind, MayRetarget
  <2>2. CacheOK'
    BY <1>4, RoleHandleAssumption DEF Rebind, CacheOK
  <2> QED
    BY <1>1, <1>4, <2>1, <2>2 DEF Rebind, Quiet, CacheInv, AloneOK, FlightOK
<1>5. ASSUME NEW r \in Realms, RebindRealm(r) PROVE CacheInv'
  <2>1. Quiet
    BY <1>5 DEF RebindRealm, MayRetarget
  <2>2. Stale'
    BY <1>5 DEF RebindRealm, handle, CacheInv, TypeInv, TypeOK, Stale, ParentMoved, RootVersion
  <2>3. CacheOK'
    BY <1>5, <2>2 DEF RebindRealm, handle, CacheInv, CacheOK
  <2> QED
    BY <1>1, <1>5, <2>1, <2>3 DEF RebindRealm, Quiet, CacheInv, AloneOK, FlightOK
<1>6. CASE ReadRole
  <2>1. CacheOK' /\ ~Stale'
    BY <1>6, InvalidateCache DEF CacheInv, ReadRole
  <2> QED
    BY <1>1, <1>6, <2>1 DEF ReadRole, CacheInv, AloneOK, FlightOK, realm
<1>7. ASSUME NEW p \in Callers, NEW op \in AllOps, Begin(p, op) PROVE CacheInv'
  BY <1>7, BeginGetCacheInv DEF Begin, MayBegin
<1>8. ASSUME NEW p \in Callers, NEW i \in Ids, BeginGetById(p, i) PROVE CacheInv'
  <2>1. CacheOK' /\ ~Stale'
    BY <1>8, InvalidateCache DEF CacheInv, BeginGetById
  <2>2. Quiet
    BY <1>8 DEF BeginGetById, MayRetarget
  <2>3. call'[p].op = "getById" /\ call'[p].req = ById(i) /\ call'[p].ans = Pending
    BY <1>8 DEF BeginGetById, CacheInv, TypeInv, TypeOK
  <2>4. \A q \in Callers : q # p => call'[q] = call[q]
    BY <1>8 DEF BeginGetById, CacheInv, TypeInv, TypeOK
  <2>5. AloneOK'
    BY <1>2, <1>3, <2>2, <2>4 DEF AloneOK, Quiet
  <2>6. ASSUME NEW q \in Callers PROVE FlightOK(q)'
    BY <1>3, <1>8, <2>1, <2>2, <2>3, <2>4 DEF FlightOK, Quiet, ById, BeginGetById, realm
  <2> QED
    BY <1>1, <2>1, <2>5, <2>6 DEF CacheInv
<1>9. ASSUME NEW p \in Callers, BeginRequireRole(p) PROVE CacheInv'
  <2>1. CASE VisibleRole \in {Undefined, Null}
    BY <1>9, <2>1, BeginGetCacheInv DEF BeginRequireRole, MayBegin, AllOps
  <2>2. CASE VisibleRole \notin {Undefined, Null}
    <3>1. CacheOK' /\ ~Stale'
      BY <1>9, <2>2, InvalidateCache DEF CacheInv, BeginRequireRole
    <3>2. call'[p].op # "getById" /\ call'[p].pc = "looked"
      BY <1>9, <2>2 DEF BeginRequireRole, CacheInv, TypeInv, TypeOK
    <3>3. \A q \in Callers : q # p => call'[q] = call[q]
      BY <1>9, <2>2 DEF BeginRequireRole, CacheInv, TypeInv, TypeOK
    <3>4. \A q \in Callers : call[q].op # "getById"
      BY <1>9 DEF BeginRequireRole, MayBegin
    <3>5. AloneOK'
      BY <3>2, <3>3, <3>4 DEF AloneOK
    <3>6. ASSUME NEW q \in Callers PROVE FlightOK(q)'
      BY <1>9, <2>2, <3>1, <3>2, <3>3 DEF BeginRequireRole, CacheInv, FlightOK, realm
    <3> QED
      BY <1>1, <3>1, <3>5, <3>6 DEF CacheInv
  <2> QED
    BY <2>1, <2>2
<1>10. ASSUME NEW p \in Callers, Serve(p) PROVE CacheInv'
  <2>1. /\ call[p].req \in Request
        /\ call[p].pc \in {"lookup", "final"} => call[p].req.kind \in Lookups
    BY <1>10 DEF Serve, Waiting, CacheInv, TypeInv, CallOK
  <2>2. PICK o \in Outcomes(store, call[p].req) :
          store' = o[1] /\ call' = [call EXCEPT ![p].ans = o[2]]
    BY <1>10 DEF Serve
  <2>3. call[p].req.kind \in Lookups /\ o[2] \in Rep =>
          /\ o[2].realm = call[p].req.realm
          /\ call[p].req.kind = "byName" => o[2].name = call[p].req.name
    BY <2>1, OutcomeFits DEF CacheInv, TypeInv, TypeOK
  <2>4. /\ call'[p].op = call[p].op /\ call'[p].pc = call[p].pc
        /\ call'[p].req = call[p].req /\ call'[p].ans = o[2]
        /\ \A q \in Callers : q # p => call'[q] = call[q]
    BY <2>2 DEF CacheInv, TypeInv, TypeOK, Call
  <2>5. CacheOK' /\ UNCHANGED <<realmName, roleName, Stale>>
    BY <1>10 DEF Serve, CacheInv, CacheOK, Stale, handle, realm
  <2>6. AloneOK'
    BY <2>4 DEF CacheInv, AloneOK
  <2>7. ASSUME NEW q \in Callers PROVE FlightOK(q)'
    BY <2>1, <2>3, <2>4, <2>5 DEF CacheInv, FlightOK
  <2> QED
    BY <1>1, <2>5, <2>6, <2>7 DEF CacheInv
<1>11. ASSUME NEW p \in Callers, GetReturns(p) PROVE CacheInv'
  <2>1. /\ call[p].pc \in {"lookup", "final"}
        /\ call[p].ans \in Rep \union {Null}
        /\ WriteBack(call[p].ans)
        /\ UNCHANGED realm
    BY <1>11 DEF GetReturns, Answered, CacheInv, TypeInv, CallOK
  <2>2. FlightOK(p) /\ ~Stale
    BY <2>1 DEF CacheInv, FlightOK
  <2>3. /\ role' = call[p].ans
        /\ roleName' = IF call[p].ans # Null THEN call[p].ans.name ELSE roleName
        /\ ~Stale'
        /\ realmName' = realmName
    BY <2>1, <2>2 DEF WriteBack, Stale, ParentMoved, realm
  <2>4. CacheOK'
    BY <2>1, <2>2, <2>3, RegistryAssumption DEF CacheOK, FlightOK
  <2>5. /\ call'[p].pc \notin {"lookup", "final"}
        /\ call'[p].op \in {call[p].op, NoCall}
        /\ call[p].op # "getById" \/ call'[p].pc = "idle"
        /\ \A q \in Callers : q # p => call'[q] = call[q]
    BY <1>11 DEF GetReturns, Finish, Move, Idle, CacheInv, TypeInv, TypeOK
  <2>6. AloneOK'
    <3>1. call'[p].pc = "idle" => call'[p].op = NoCall
      BY <1>1 DEF TypeInv, CallOK
    <3> QED
      BY <1>3, <2>1, <2>5, <3>1 DEF CacheInv, AloneOK
  <2>7. ASSUME NEW q \in Callers PROVE FlightOK(q)'
    <3>1. CASE q = p
      BY <2>5, <3>1 DEF FlightOK
    <3>2. CASE q # p /\ call[p].op = "getById"
      BY <2>5, <3>2 DEF FlightOK, CacheInv, AloneOK
    <3>3. CASE q # p /\ call[p].op # "getById"
      <4>1. roleName' = roleName
        BY <2>1, <2>2, <2>3, <3>3 DEF FlightOK, CacheInv, TypeInv, CallOK, Lookups
      <4> QED
        BY <2>3, <2>5, <3>3, <4>1 DEF FlightOK, CacheInv
    <3> QED
      BY <3>1, <3>2, <3>3
  <2> QED
    BY <1>1, <2>4, <2>6, <2>7 DEF CacheInv
<1>12. ASSUME NEW p \in Callers, Throw(p) PROVE CacheInv'
  BY <1>1, <1>12, QuietStep DEF Throw, Finish, Idle, CacheInv, TypeInv, TypeOK
<1>13. ASSUME NEW p \in Callers, Listed(p) PROVE CacheInv'
  BY <1>1, <1>13, QuietStep DEF Listed, Finish, Idle, CacheInv, TypeInv, TypeOK
<1>14. ASSUME NEW p \in Callers, Resume(p) PROVE CacheInv'
  <2>1. call[p].pc = "looked" /\ UNCHANGED <<realm, handle>>
    BY <1>14 DEF Resume
  <2>2. /\ call'[p].pc \notin {"lookup", "final"}
        /\ call'[p].op \in {call[p].op, NoCall}
        /\ \A q \in Callers : q # p => call'[q] = call[q]
    BY <1>14 DEF Resume, Finish, Move, Idle, CacheInv, TypeInv, TypeOK
  <2>3. call[p].op # "getById"
    BY <2>1 DEF CacheInv, TypeInv, CallOK
  <2> QED
    BY <1>1, <2>1, <2>2, <2>3, QuietStep
<1>15. ASSUME NEW p \in Callers, ReadBack(p) PROVE CacheInv'
  <2>1. CacheOK' /\ ~Stale'
    BY <1>15, InvalidateCache DEF CacheInv, ReadBack
  <2>2. /\ call'[p].op = call[p].op /\ call'[p].req = ByName /\ call'[p].ans = Pending
        /\ \A q \in Callers : q # p => call'[q] = call[q]
        /\ call[p].op # "getById" /\ call[p].pc # "idle"
        /\ UNCHANGED <<realmName, roleName>>
    BY <1>15 DEF ReadBack, Answered, Move, CacheInv, TypeInv, TypeOK, realm
  <2>3. AloneOK'
    BY <2>2 DEF CacheInv, AloneOK
  <2>4. ASSUME NEW q \in Callers PROVE FlightOK(q)'
    BY <1>3, <2>1, <2>2 DEF CacheInv, FlightOK, ByName
  <2> QED
    BY <1>1, <2>1, <2>3, <2>4 DEF CacheInv
<1>16. ASSUME NEW p \in Callers, Deleted(p) PROVE CacheInv'
  <2>1. CacheOK'
    BY <1>16, RegistryAssumption DEF Deleted, CacheOK
  <2>2. /\ call'[p] = Idle
        /\ \A q \in Callers : q # p => call'[q] = call[q]
        /\ UNCHANGED <<realmName, roleName, Stale>>
    BY <1>16 DEF Deleted, Finish, CacheInv, TypeInv, TypeOK, Stale, realm
  <2>3. AloneOK'
    BY <1>3, <2>2 DEF CacheInv, AloneOK, Idle
  <2>4. ASSUME NEW q \in Callers PROVE FlightOK(q)'
    BY <2>2 DEF CacheInv, FlightOK, Idle
  <2> QED
    BY <1>1, <2>1, <2>3, <2>4 DEF CacheInv
<1>17. CASE AdminWrites \/ UNCHANGED vars
  BY <1>1, <1>17 DEF AdminWrites, vars, handle, realm, CacheInv, CacheOK, AloneOK,
                     FlightOK, Stale
<1> QED
  BY <1>4, <1>5, <1>6, <1>7, <1>8, <1>9, <1>10, <1>11, <1>12, <1>13, <1>14, <1>15,
     <1>16, <1>17 DEF Next, Calls, Step

\* The handle serves only what its current target has, as long as no call that
\* retargets it overlaps another.
THEOREM ServesCurrentRole ==
  ASSUME ~OverlapRetarget
  PROVE  Spec => []ServedRoleIsCurrent
<1>1. Init => CacheInv
  BY InitCacheInv
<1>2. CacheInv /\ [Next]_vars => CacheInv'
  BY StepCacheInv
<1>3. CacheInv => ServedRoleIsCurrent
  BY RoleHandleAssumption DEF CacheInv, CacheOK, ServedRoleIsCurrent, VisibleRole
<1> QED
  BY <1>1, <1>2, <1>3, PTL DEF Spec

-----------------------------------------------------------------------------
(* What an operation writes, when retargeting waits for the calls to end   *)

\* A representation is of the handle's current target.
OfTarget(one) == one \in Rep /\ one.realm = realmName /\ one.name = roleName

\* An operation under way asked about the current target; what it found there
\* is of that target, and so is the request it sends about it.
WriteOK(p) ==
  /\ call[p].op \notin {NoCall, "getById"} => call[p].asked = Target
  /\ call[p].pc = "looked" => call[p].found = Null \/ OfTarget(call[p].found)
  /\ call[p].pc = "write" =>
       /\ call[p].op # "getById"
       /\ call[p].req.realm = realmName
       /\ call[p].req.name = roleName
       /\ call[p].req.kind # "create" =>
            OfTarget(call[p].found) /\ call[p].req.id = call[p].found.id

WriteInv == \A p \in Callers : WriteOK(p)

\* While an operation other than getById is under way, nothing moves the
\* handle: a lookup by name adopts the name it asked for.
LEMMA TargetHeld ==
  ASSUME ~OverlapRetarget, CacheInv, [Next]_vars,
         NEW q \in Callers, call[q].op \notin {NoCall, "getById"}
  PROVE  UNCHANGED <<realmName, roleName>>
<1>1. ~Quiet
  BY DEF CacheInv, TypeInv, CallOK, Quiet
<1>2. ASSUME NEW p \in Callers, GetReturns(p) PROVE UNCHANGED <<realmName, roleName>>
  <2>1. /\ call[p].pc \in {"lookup", "final"}
        /\ call[p].ans \in Rep \union {Null}
        /\ WriteBack(call[p].ans)
        /\ UNCHANGED realm
    BY <1>2 DEF GetReturns, Answered, CacheInv, TypeInv, CallOK
  <2>2. call[p].op # "getById"
    <3>1. call[q].pc # "idle"
      BY DEF CacheInv, TypeInv, CallOK
    <3> QED
      BY <3>1 DEF CacheInv, AloneOK
  <2>3. call[p].ans \in Rep => call[p].ans.name = roleName
    BY <2>1, <2>2 DEF CacheInv, FlightOK, TypeInv, CallOK, Lookups
  <2> QED
    BY <2>1, <2>3 DEF WriteBack, realm
<1>3. CASE UNCHANGED vars
  BY <1>3 DEF vars
<1>4. CASE Next
  BY <1>1, <1>2, <1>4
     DEF Next, Calls, Step, Rebind, RebindRealm, MayRetarget, ReadRole, Begin, BeginGet,
         BeginGetById, BeginRequireRole, Serve, Throw, Resume, ReadBack, Deleted, Listed,
         AdminWrites, handle, realm
<1> QED
  BY <1>3, <1>4

\* An operation that a step leaves alone keeps what it has.
LEMMA BystanderWrite ==
  ASSUME ~OverlapRetarget, CacheInv, WriteInv, [Next]_vars,
         NEW q \in Callers, call'[q] = call[q]
  PROVE  WriteOK(q)'
<1>1. CASE call[q].op \notin {NoCall, "getById"}
  <2>1. UNCHANGED <<realmName, roleName>>
    BY <1>1, TargetHeld
  <2> QED
    BY <2>1 DEF WriteInv, WriteOK, OfTarget, Target
<1>2. CASE call[q].op \in {NoCall, "getById"}
  BY <1>2 DEF WriteInv, WriteOK, CacheInv, TypeInv, CallOK
<1> QED
  BY <1>1, <1>2

\* What an operation goes on to send is about what it found.
LEMMA NextRequestTarget ==
  ASSUME TypeOK, NEW one, one = Null \/ OfTarget(one),
         NEW op \in AllOps \ {"get", "getById"}, NEW req \in NextRequest(op, one)
  PROVE  /\ req.realm = realmName /\ req.name = roleName
         /\ req.kind # "create" => OfTarget(one) /\ req.id = one.id
<1>1. req = Create \/ (one # Null /\ req \in {Put(one), Del(one), Use(one)})
  BY Zenon DEF NextRequest, AllOps
<1> QED
  BY <1>1 DEF Create, Put, Del, Use

LEMMA StepWriteInv ==
  ASSUME ~OverlapRetarget, CacheInv, CacheInv', WriteInv, [Next]_vars
  PROVE  WriteInv'
<1>1. ASSUME NEW p \in Callers,
             \A q \in Callers : q # p => call'[q] = call[q],
             WriteOK(p)'
      PROVE  WriteInv'
  BY <1>1, BystanderWrite DEF WriteInv
<1>2. \A p \in Callers : call[p].pc = "idle" <=> call[p].op = NoCall
  BY DEF CacheInv, TypeInv, CallOK
<1>3. ASSUME call' = call PROVE WriteInv'
  BY <1>3, BystanderWrite DEF WriteInv
<1>4. ASSUME NEW p \in Callers, Finish(p) PROVE WriteInv'
  <2>1. call'[p] = Idle /\ \A q \in Callers : q # p => call'[q] = call[q]
    BY <1>4 DEF Finish, CacheInv, TypeInv, TypeOK
  <2> QED
    BY <1>1, <2>1 DEF WriteOK, Idle
<1>5. ASSUME NEW p \in Callers, NEW op \in AllOps, BeginGet(p, op) PROVE WriteInv'
  <2>1. /\ call'[p].op = op /\ call'[p].pc = "lookup" /\ call'[p].asked = Target
        /\ \A q \in Callers : q # p => call'[q] = call[q]
        /\ UNCHANGED Target
    BY <1>5 DEF BeginGet, CacheInv, TypeInv, TypeOK, Target, realm
  <2> QED
    BY <1>1, <2>1 DEF WriteOK
<1>6. ASSUME NEW p \in Callers, NEW i \in Ids, BeginGetById(p, i) PROVE WriteInv'
  <2>1. /\ call'[p].op = "getById" /\ call'[p].pc = "lookup"
        /\ \A q \in Callers : q # p => call'[q] = call[q]
    BY <1>6 DEF BeginGetById, CacheInv, TypeInv, TypeOK
  <2> QED
    BY <1>1, <2>1 DEF WriteOK
<1>7. ASSUME NEW p \in Callers, BeginRequireRole(p) PROVE WriteInv'
  <2>1. CASE VisibleRole \in {Undefined, Null}
    BY <1>5, <1>7, <2>1 DEF BeginRequireRole, AllOps
  <2>2. CASE VisibleRole \notin {Undefined, Null}
    <3>1. role \in Rep /\ ~Stale
      BY <2>2 DEF VisibleRole, CacheInv, TypeInv, TypeOK
    <3>2. OfTarget(role)
      BY <3>1 DEF CacheInv, CacheOK, OfTarget
    <3>3. /\ call'[p].op = "listRealmComposites" /\ call'[p].pc = "looked"
          /\ call'[p].asked = Target /\ call'[p].found = role
          /\ \A q \in Callers : q # p => call'[q] = call[q]
          /\ UNCHANGED <<realmName, roleName>>
      BY <1>7, <2>2 DEF BeginRequireRole, CacheInv, TypeInv, TypeOK, realm
    <3> QED
      BY <1>1, <3>2, <3>3 DEF WriteOK, OfTarget, Target
  <2> QED
    BY <2>1, <2>2
<1>8. ASSUME NEW p \in Callers, Serve(p) PROVE WriteInv'
  <2>1. PICK o \in Outcomes(store, call[p].req) : call' = [call EXCEPT ![p].ans = o[2]]
    BY <1>8 DEF Serve
  <2>2. /\ call'[p].op = call[p].op /\ call'[p].pc = call[p].pc
        /\ call'[p].asked = call[p].asked /\ call'[p].found = call[p].found
        /\ call'[p].req = call[p].req
        /\ \A q \in Callers : q # p => call'[q] = call[q]
        /\ UNCHANGED <<realmName, roleName>>
    BY <1>8, <2>1 DEF Serve, CacheInv, TypeInv, TypeOK, Call, realm, handle
  <2> QED
    BY <1>1, <2>2 DEF WriteInv, WriteOK, OfTarget, Target
<1>9. ASSUME NEW p \in Callers, NEW pc, NEW found, NEW req,
             Move(p, pc, found, req), UNCHANGED <<realmName, roleName>>,
             call[p].op \notin {NoCall, "getById"},
             pc = "looked" => found = Null \/ OfTarget(found),
             pc = "write" => /\ req.realm = realmName /\ req.name = roleName
                             /\ req.kind # "create" =>
                                  OfTarget(found) /\ req.id = found.id
      PROVE  WriteInv'
  <2>1. /\ call'[p] = [op |-> call[p].op, pc |-> pc, asked |-> call[p].asked,
                       found |-> found, req |-> req, ans |-> Pending]
        /\ \A q \in Callers : q # p => call'[q] = call[q]
    BY <1>9 DEF Move, CacheInv, TypeInv, TypeOK
  <2>2. call'[p].asked = call[p].asked /\ call'[p].op = call[p].op
    BY <2>1
  <2>3. /\ call'[p].pc = pc /\ call'[p].found = found /\ call'[p].req = req
        /\ OfTarget(found)' = OfTarget(found) /\ Target' = Target
    BY <1>9, <2>1 DEF OfTarget, Target
  <2>4. WriteOK(p)'
    BY <1>9, <2>2, <2>3 DEF WriteInv, WriteOK
  <2> QED
    BY <1>1, <2>1, <2>4
<1>10. ASSUME NEW p \in Callers, GetReturns(p) PROVE WriteInv'
  <2>1. CASE Finish(p)
    BY <1>4, <2>1
  <2>2. CASE ~Finish(p)
    <3>1. /\ Move(p, "looked", Got(call[p].ans), Null)
          /\ call[p].pc = "lookup" /\ call[p].op \notin {"get", "getById"}
          /\ call[p].ans # Pending /\ call[p].ans # Failed
      BY <1>10, <2>2 DEF GetReturns, Answered
    <3>2. call[p].op \notin {NoCall, "getById"}
      BY <1>2, <3>1
    <3>3. UNCHANGED <<realmName, roleName>>
      BY <3>2, TargetHeld
    <3>4. FlightOK(p) /\ CallOK(p)
      BY DEF CacheInv, TypeInv
    <3>5. Got(call[p].ans) = Null \/ OfTarget(Got(call[p].ans))
      BY <3>1, <3>4 DEF FlightOK, CallOK, Lookups, Got, OfTarget
    <3> QED
      BY <1>9, <3>1, <3>2, <3>3, <3>5
  <2> QED
    BY <2>1, <2>2
<1>11. ASSUME NEW p \in Callers, Resume(p) PROVE WriteInv'
  <2>1. CASE Finish(p)
    BY <1>4, <2>1
  <2>2. CASE ~Finish(p)
    <3>1. PICK req \in NextRequest(call[p].op, call[p].found) :
            Move(p, "write", call[p].found, req)
      BY <1>11, <2>2 DEF Resume
    <3>2. call[p].pc = "looked" /\ UNCHANGED <<realmName, roleName>>
      BY <1>11 DEF Resume, realm, handle
    <3>3. call[p].op \in AllOps \ {"get", "getById"}
      BY <3>2 DEF CacheInv, TypeInv, TypeOK, CallOK, Call
    <3>4. call[p].found = Null \/ OfTarget(call[p].found)
      BY <3>2 DEF WriteInv, WriteOK
    <3>5. /\ req.realm = realmName /\ req.name = roleName
          /\ req.kind # "create" => OfTarget(call[p].found) /\ req.id = call[p].found.id
      BY <3>3, <3>4, NextRequestTarget DEF CacheInv, TypeInv
    <3> QED
      BY <1>2, <1>9, <3>1, <3>2, <3>3, <3>5
  <2> QED
    BY <2>1, <2>2
<1>12. ASSUME NEW p \in Callers, ReadBack(p) PROVE WriteInv'
  <2>1. /\ Move(p, "final", call[p].found, ByName)
        /\ UNCHANGED <<realmName, roleName>>
        /\ call[p].op \in {"create", "update", "ensure"}
    BY <1>12 DEF ReadBack, realm
  <2>2. call[p].op \notin {NoCall, "getById"}
    BY <2>1, RoleHandleAssumption DEF AllOps
  <2> QED
    BY <1>9, <2>1, <2>2
<1>13. CASE Next
  BY <1>3, <1>4, <1>5, <1>6, <1>7, <1>8, <1>10, <1>11, <1>12, <1>13
     DEF Next, Calls, Step, Rebind, RebindRealm, ReadRole, Begin, Throw, Deleted, Listed,
         AdminWrites
<1> QED
  BY <1>3, <1>13 DEF vars

\* Every operation writes where it looked: no create lands under another name,
\* and no id is carried to another realm or renamed, as long as no call that
\* retargets the handle overlaps another.
THEOREM WritesWhatItFound ==
  ASSUME ~OverlapRetarget
  PROVE  Spec => []WriteMatchesLookup
<1>1. Init => CacheInv
  BY InitCacheInv
<1>2. Init => WriteInv
  BY DEF Init, Idle, WriteInv, WriteOK
<1>3. CacheInv /\ [Next]_vars => CacheInv'
  BY StepCacheInv
<1>4. CacheInv /\ CacheInv' /\ WriteInv /\ [Next]_vars => WriteInv'
  BY StepWriteInv
<1>5. CacheInv /\ WriteInv => WriteMatchesLookup
  <2> SUFFICES ASSUME CacheInv, WriteInv, NEW p \in Callers, call[p].pc = "write"
               PROVE  /\ call[p].req.realm = call[p].asked.realm
                      /\ call[p].req.name = call[p].asked.name
                      /\ call[p].req.kind # "create" =>
                           /\ call[p].req.id = call[p].found.id
                           /\ call[p].req.realm = call[p].found.realm
                           /\ call[p].req.name = call[p].found.name
    BY DEF WriteMatchesLookup
  <2>1. call[p].asked = Target
    BY DEF CacheInv, TypeInv, CallOK, WriteInv, WriteOK
  <2> QED
    BY <2>1 DEF WriteInv, WriteOK, OfTarget, Target
<1> QED
  BY <1>1, <1>2, <1>3, <1>4, <1>5, PTL DEF Spec

-----------------------------------------------------------------------------
\* What is visible of a step of the handle is a step of the contract.
LEMMA SumMonotone ==
  ASSUME NEW a \in Nat, NEW b \in Nat, NEW c \in Nat, NEW d \in Nat, c >= a, d >= b
  PROVE  /\ c + d \in Nat
         /\ (c = a /\ d = b) \/ c + d > a + b
  OBVIOUS

LEMMA StepContract ==
  ASSUME CacheInv, CacheInv', [Next]_vars
  PROVE  [Contract!Next]_Contract!vars
<1>1. TypeOK /\ TypeOK' /\ CacheOK'
  BY DEF CacheInv, TypeInv
<1>2. Target' \in Identity
  BY <1>1 DEF TypeOK, Target, Identity
<1>3. VisibleGen \in Nat
  BY <1>1 DEF TypeOK, VisibleGen
<1>4. VisibleGen' \in Nat
  <2>1. gen' \in Nat
    BY <1>1 DEF TypeOK
  <2>2. VisibleGen' = gen' \/ VisibleGen' = gen' + 1
    BY Zenon DEF VisibleGen
  <2> QED
    BY <2>1, <2>2
<1>5. realmGen \in Nat /\ realmGen' \in Nat
  BY <1>1 DEF TypeOK
<1>6. VisibleRole' \in Contract!Servable(Target')
  BY <1>1 DEF CacheOK, TypeOK, VisibleRole, Contract!Servable, Target
<1>7. CASE UNCHANGED vars
  BY <1>6, <1>7 DEF vars, Contract!Next, Contract!Resolve, Target, VisibleGen, Stale
<1>8. CASE Next
  <2>1. [VersionStep]_vars
    BY <1>8, StepVersion DEF CacheInv
  <2>2. CASE UNCHANGED vars
    BY <1>7, <2>2
  <2>3. CASE VersionStep
    <3>1. realmGen' >= realmGen
      BY <2>3 DEF VersionStep
    <3>2. VisibleGen' >= VisibleGen
      BY <2>3 DEF VersionStep
    <3>3. (realmGen + VisibleGen)' \in Nat
      BY <1>3, <1>4, <1>5, <3>1, <3>2, SumMonotone
    <3>4. \/ realmGen' = realmGen /\ VisibleGen' = VisibleGen
          \/ (realmGen + VisibleGen)' > realmGen + VisibleGen
      BY <1>3, <1>4, <1>5, <3>1, <3>2, SumMonotone
    <3>5. CASE realmGen' = realmGen /\ VisibleGen' = VisibleGen
      <4>1. Target' = Target
        BY <2>3, <3>5 DEF VersionStep
      <4> QED
        BY <1>6, <3>5, <4>1 DEF Contract!Next, Contract!Resolve
    <3>6. CASE (realmGen + VisibleGen)' > realmGen + VisibleGen
      BY <1>2, <1>6, <3>3, <3>6 DEF Contract!Next, Contract!Retarget
    <3> QED
      BY <3>4, <3>5, <3>6
  <2> QED
    BY <2>1, <2>2, <2>3
<1> QED
  BY <1>7, <1>8

\* The role handle implements the contract of HandleContract, as long as no
\* call that retargets it overlaps another.
THEOREM ImplementsContract ==
  ASSUME ~OverlapRetarget
  PROVE  Spec => KeepsContract
<1>1. Init => Contract!Init
  BY DEF Init, Contract!Init, Contract!Servable, Target, Identity, VisibleRole,
         VisibleGen, Stale, ParentMoved, RootVersion
<1>2. Init => CacheInv
  BY InitCacheInv
<1>3. CacheInv /\ [Next]_vars => CacheInv'
  BY StepCacheInv
<1>4. CacheInv /\ CacheInv' /\ [Next]_vars => [Contract!Next]_Contract!vars
  BY StepContract
<1> QED
  BY <1>1, <1>2, <1>3, <1>4, PTL DEF Spec, KeepsContract, Contract!Spec
=============================================================================
