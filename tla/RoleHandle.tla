------------------------------ MODULE RoleHandle ----------------------------
(***************************************************************************)
(* A realm handle, one role handle created from it, the server, and the    *)
(* application code that calls them (src/src/role.ts, src/src/realm.ts).   *)
(*                                                                         *)
(* JavaScript runs one callback at a time, so what is atomic here is the   *)
(* code between two awaits.  A caller is in one of these places:           *)
(*                                                                         *)
(*   idle      no operation of this caller is under way                    *)
(*   lookup    an operation awaits the lookup of its leading get()         *)
(*   looked    get() (or the cache) answered; the caller has yet to resume *)
(*   write     the operation awaits its mutation, or its dependent read    *)
(*   final     the mutation was done; the trailing get() is awaited        *)
(*                                                                         *)
(* Several callers may share the handle, and other administrators change   *)
(* the same realm.  Retargeting calls (rebind of the handle or its realm,  *)
(* and getById, which adopts the name it finds) overlap operations only    *)
(* when OverlapRetarget is TRUE.                                           *)
(***************************************************************************)
EXTENDS HandleIdentity, AdminRegistry

CONSTANTS
  Callers,            \* concurrent asynchronous calls on the handle
  Ops,                \* operations the callers use, a subset of AllOps
  Undefined,          \* JavaScript undefined: not looked up
  Pending,            \* the answer of a request still under way
  NoCall,             \* the op of an idle caller
  OverlapRetarget,    \* may the target change while a call is under way?
  MaxGen              \* bound on the generation a retarget may start from

AllOps == {"get", "getById", "create", "update", "delete", "discard",
           "ensure", "listRealmComposites"}

ASSUME RoleHandleAssumption ==
  /\ Ops \subseteq AllOps
  /\ Undefined \notin Rep \union {Null}
  /\ Pending \notin Answer
  /\ NoCall \notin AllOps
  /\ OverlapRetarget \in BOOLEAN
  /\ MaxGen \in Nat

VARIABLES
  realmName,          \* RealmHandle._realmName
  realmGen,           \* RealmHandle._identityGeneration
  roleName,           \* RoleHandle._roleName
  role,               \* RoleHandle._role: Undefined, Null or a representation
  gen,                \* RoleHandle._identityGeneration
  seen,               \* the parent version RoleHandle.parentIdentity saw last
  store,              \* the server's roles
  call                \* what each caller is doing

handle == <<roleName, role, gen, seen>>
realm  == <<realmName, realmGen>>
vars   == <<realmName, realmGen, roleName, role, gen, seen, store, call>>

Idle == [op |-> NoCall, pc |-> "idle",
         asked |-> Null,       \* the identity the leading lookup asked for
         found |-> Undefined,  \* what the operation resolved: "one" in the code
         req |-> Null,         \* the request awaited
         ans |-> Pending]

Init ==
  /\ realmName \in Realms
  /\ realmGen = 0
  /\ roleName \in Names
  /\ role = Undefined
  /\ gen = 0
  /\ seen = RootVersion(0)
  /\ store \in {s \in [Ids -> Identity \union {Unissued}] :
                  \A i, j \in Ids : i # j /\ s[i] = s[j] => s[i] = Unissued}
  /\ call = [p \in Callers |-> Idle]

-----------------------------------------------------------------------------
(* Identity and cache                                                      *)

Stale        == ParentMoved(seen, RootVersion(realmGen))
VisibleRole  == IF Stale THEN Undefined ELSE role
VisibleGen   == IF Stale THEN gen + 1 ELSE gen
Target       == [realm |-> realmName, name |-> roleName]

\* Fault: the tracker notes the new parent version and keeps the cache.
InvalidateKeepsCache ==
  /\ seen' = RootVersion(realmGen)
  /\ role' = role
  /\ gen' = VisibleGen

\* invalidateParentCache, after which the cache and generation are the visible.
InvalidateParentCache ==
  /\ seen' = RootVersion(realmGen)
  /\ role' = VisibleRole
  /\ gen' = VisibleGen

\* The code after the await of get() and getById(): the answer is cached and
\* its name adopted; the read of "this.role" that follows invalidates again.
WriteBack(answer) ==
  LET renamed == answer # Null /\ answer.name # roleName
      bumped  == IF renamed THEN gen + 1 ELSE gen
  IN  /\ roleName' = IF answer # Null THEN answer.name ELSE roleName
      /\ seen' = RootVersion(realmGen)
      /\ role' = IF Stale THEN Undefined ELSE answer
      /\ gen' = IF Stale THEN bumped + 1 ELSE bumped

\* "this.role ?? null" after that read.
Got(answer) == IF Stale THEN Null ELSE answer

Quiet == \A p \in Callers : call[p].pc = "idle"
MayRetarget == ~OverlapRetarget => Quiet
MayBegin == ~OverlapRetarget => \A p \in Callers : call[p].op # "getById"

\* Fault: rebind leaves the cached representation in place.
RebindKeepsCache(n) ==
  /\ MayRetarget
  /\ gen < MaxGen
  /\ n # roleName
  /\ roleName' = n
  /\ gen' = gen + 1
  /\ UNCHANGED <<role, realm, seen, store, call>>

\* RoleHandle.rebind; a rebind to the current name returns early.
Rebind(n) ==
  /\ MayRetarget
  /\ gen < MaxGen
  /\ n # roleName
  /\ roleName' = n
  /\ role' = Undefined
  /\ gen' = gen + 1
  /\ UNCHANGED <<realm, seen, store, call>>

\* Fault: the realm is renamed under its children without a new generation.
RebindRealmKeepsGeneration(r) ==
  /\ MayRetarget
  /\ r # realmName
  /\ realmName' = r
  /\ UNCHANGED <<handle, realmGen, store, call>>

\* RealmHandle.rebind: the children notice by the version alone.
RebindRealm(r) ==
  /\ MayRetarget
  /\ realmGen < MaxGen
  /\ r # realmName
  /\ realmName' = r
  /\ realmGen' = realmGen + 1
  /\ UNCHANGED <<handle, store, call>>

\* Reading handle.role or handle.identityVersion is not pure: it invalidates.
ReadRole ==
  /\ Stale
  /\ InvalidateParentCache
  /\ UNCHANGED <<roleName, realm, store, call>>

-----------------------------------------------------------------------------
(* Requests                                                                *)

ByName   == [kind |-> "byName", realm |-> realmName, name |-> roleName, id |-> Null]
ById(i)  == [kind |-> "byId", realm |-> realmName, name |-> roleName, id |-> i]

\* A mutation takes its realm and name from the handle at the moment it is
\* sent, and its id from the representation resolved earlier.
Create   == [kind |-> "create", realm |-> realmName, name |-> roleName, id |-> Null]
Put(one) == [kind |-> "put", realm |-> realmName, name |-> roleName, id |-> one.id]
Del(one) == [kind |-> "del", realm |-> realmName, name |-> roleName, id |-> one.id]
Use(one) == [kind |-> "use", realm |-> realmName, name |-> roleName, id |-> one.id]

Waiting(p) == call[p].pc \in {"lookup", "write", "final"}

Serve(p) ==
  /\ Waiting(p)
  /\ call[p].ans = Pending
  /\ \E outcome \in Outcomes(store, call[p].req) :
       /\ store' = outcome[1]
       /\ call' = [call EXCEPT ![p].ans = outcome[2]]
  /\ UNCHANGED <<realm, handle>>

Answered(p, pc) == call[p].pc = pc /\ call[p].ans # Pending

\* The operation goes on to another place, to await another request there.
Move(p, pc, found, req) ==
  call' = [call EXCEPT ![p] = [op |-> call[p].op, pc |-> pc, asked |-> call[p].asked,
                               found |-> found, req |-> req, ans |-> Pending]]

Finish(p) == call' = [call EXCEPT ![p] = Idle]

\* Fault: an error is cached as if it were the role.
ThrowCachesError(p) ==
  /\ Waiting(p)
  /\ call[p].ans = Failed
  /\ role' = call[p].ans
  /\ Finish(p)
  /\ UNCHANGED <<realm, roleName, gen, seen, store>>

\* The awaited request was rejected: the operation throws, the cache stays.
Throw(p) ==
  /\ Waiting(p)
  /\ call[p].ans = Failed
  /\ Finish(p)
  /\ UNCHANGED <<realm, handle, store>>

-----------------------------------------------------------------------------
(* Operations                                                              *)

BeginGet(p, op) ==
  /\ InvalidateParentCache
  /\ call' = [call EXCEPT ![p] = [op |-> op, pc |-> "lookup", asked |-> Target,
                                  found |-> Undefined, req |-> ByName, ans |-> Pending]]
  /\ UNCHANGED <<roleName, realm, store>>

\* get, create, update, delete, discard and ensure all begin with get().
Begin(p, op) ==
  /\ op \in Ops
  /\ call[p].pc = "idle"
  /\ MayBegin
  /\ op \notin {"getById", "listRealmComposites"}
  /\ BeginGet(p, op)

\* getById moves the handle to whatever name the id has.
BeginGetById(p, i) ==
  /\ "getById" \in Ops
  /\ call[p].pc = "idle"
  /\ MayRetarget
  /\ gen < MaxGen
  /\ InvalidateParentCache
  /\ call' = [call EXCEPT ![p] = [op |-> "getById", pc |-> "lookup", asked |-> Target,
                                  found |-> Undefined, req |-> ById(i), ans |-> Pending]]
  /\ UNCHANGED <<roleName, realm, store>>

\* An operation that needs the role only: requireRole takes the cached one,
\* and looks it up when there is none.
BeginRequireRole(p) ==
  /\ "listRealmComposites" \in Ops
  /\ call[p].pc = "idle"
  /\ MayBegin
  /\ IF VisibleRole \in {Undefined, Null}
     THEN BeginGet(p, "listRealmComposites")
     ELSE /\ InvalidateParentCache
          /\ call' = [call EXCEPT ![p] = [op |-> "listRealmComposites", pc |-> "looked",
                        asked |-> Target, found |-> role, req |-> Null, ans |-> Pending]]
          /\ UNCHANGED <<roleName, realm, store>>

\* The tail of get() and getById(); the caller of an inner get() resumes later.
GetReturns(p) ==
  /\ Answered(p, "lookup") \/ Answered(p, "final")
  /\ call[p].ans # Failed
  /\ WriteBack(call[p].ans)
  /\ IF call[p].pc = "final" \/ call[p].op \in {"get", "getById"}
     THEN Finish(p)
     ELSE Move(p, "looked", Got(call[p].ans), Null)
  /\ UNCHANGED <<realm, store>>

\* What each operation does once it knows the role: the request it sends, or
\* nothing when it returns (discard) or throws (the others) instead.
NextRequest(op, one) ==
  CASE op = "create" -> IF one = Null THEN {Create} ELSE {}
    [] op = "update" -> IF one = Null THEN {} ELSE {Put(one)}
    [] op \in {"delete", "discard"} -> IF one = Null THEN {} ELSE {Del(one)}
    [] op = "ensure" -> IF one = Null THEN {Create} ELSE {Put(one)}
    [] op = "listRealmComposites" -> IF one = Null THEN {} ELSE {Use(one)}

Resume(p) ==
  /\ call[p].pc = "looked"
  /\ \/ \E req \in NextRequest(call[p].op, call[p].found) :
          Move(p, "write", call[p].found, req)
     \/ /\ NextRequest(call[p].op, call[p].found) = {}
        /\ Finish(p)
  /\ UNCHANGED <<realm, handle, store>>

\* create, update and ensure end with a get().
ReadBack(p) ==
  /\ Answered(p, "write")
  /\ call[p].ans = Done
  /\ call[p].op \in {"create", "update", "ensure"}
  /\ InvalidateParentCache
  /\ Move(p, "final", call[p].found, ByName)
  /\ UNCHANGED <<roleName, realm, store>>

\* delete and discard remember that the role is gone.
Deleted(p) ==
  /\ Answered(p, "write")
  /\ call[p].ans = Done
  /\ call[p].op \in {"delete", "discard"}
  /\ role' = Null
  /\ Finish(p)
  /\ UNCHANGED <<roleName, gen, seen, realm, store>>

Listed(p) ==
  /\ Answered(p, "write")
  /\ call[p].ans = Done
  /\ call[p].op = "listRealmComposites"
  /\ Finish(p)
  /\ UNCHANGED <<handle, realm, store>>

-----------------------------------------------------------------------------
(* Another administrator, through the console or another process           *)

AdminWrites ==
  /\ \E r \in Realms, n \in Names, i \in Ids, kind \in {"create", "put", "del"} :
       store' \in Applied(store, [kind |-> kind, realm |-> r, name |-> n, id |-> i])
  /\ store' # store
  /\ UNCHANGED <<realm, handle, call>>

-----------------------------------------------------------------------------
Step(p) ==
  \/ Throw(p) \/ GetReturns(p) \/ Resume(p)
  \/ ReadBack(p) \/ Deleted(p) \/ Listed(p)

Calls(p) ==
  \/ \E op \in AllOps : Begin(p, op)
  \/ \E i \in Ids : BeginGetById(p, i)
  \/ BeginRequireRole(p)

Next ==
  \/ \E n \in Names : Rebind(n)
  \/ \E r \in Realms : RebindRealm(r)
  \/ ReadRole
  \/ \E p \in Callers : Calls(p) \/ Serve(p) \/ Step(p)
  \/ AdminWrites

Spec == Init /\ [][Next]_vars

-----------------------------------------------------------------------------
(* Properties                                                              *)

Call == [op : AllOps \union {NoCall},
         pc : {"idle", "lookup", "looked", "write", "final"},
         asked : Identity \union {Null},
         found : Rep \union {Null, Undefined},
         req : Request \union {Null},
         ans : Answer \union {Pending}]

\* Every variable keeps its type, and every answer fits its request.
TypeOK ==
  /\ realmName \in Realms
  /\ realmGen \in Nat
  /\ roleName \in Names
  /\ role \in Rep \union {Null, Undefined}
  /\ gen \in Nat
  /\ seen \in {RootVersion(g) : g \in 0..realmGen}
  /\ store \in Store
  /\ call \in [Callers -> Call]

\* What handle.role returns is a role of the handle's current name in the
\* realm its parent now names, or nothing: a representation of an old target
\* is never served (handle-identity.mdx, "Re-Targeting A Handle").
ServedRoleIsCurrent ==
  VisibleRole \in Rep =>
    VisibleRole.realm = realmName /\ VisibleRole.name = roleName

\* The request of every operation belongs to what that operation looked up:
\* a role is created where it was found missing, and an id goes back to the
\* realm it came from, under the name it was found with, so no call renames
\* a role or carries an id to another realm.
WriteMatchesLookup ==
  \A p \in Callers : call[p].pc = "write" =>
    LET req == call[p].req
        one == call[p].found
    IN  /\ req.realm = call[p].asked.realm
        /\ req.name = call[p].asked.name
        /\ req.kind # "create" =>
             req.id = one.id /\ req.realm = one.realm /\ req.name = one.name

\* The identity version moves forward only, and moves whenever the realm or
\* the name does, so a child that sees the version it saw before has the same
\* parent (what ParentIdentityTracker relies on).
VersionStep ==
  /\ realmGen' >= realmGen
  /\ VisibleGen' >= VisibleGen
  /\ Target' # Target =>
       ChildVersion(realmGen', VisibleGen') # ChildVersion(realmGen, VisibleGen)

VersionTracksTarget == [][VersionStep]_vars

\* Only rebind and getById move the handle to another name: no other call
\* ends by naming another role (handle-identity.mdx, "the only supported way
\* to retarget a handle").
OnlyRebindRenames ==
  [][ roleName' # roleName =>
        \/ \E n \in Names : Rebind(n)
        \/ \E p \in Callers : call[p].op = "getById" /\ GetReturns(p) ]_vars

\* The handle keeps the contract of HandleContract.
Contract == INSTANCE HandleContract WITH
  Targets <- Identity,
  Reps    <- Rep,
  Absent  <- {Null, Undefined},
  target  <- Target,
  epoch   <- realmGen + VisibleGen,
  served  <- VisibleRole

KeepsContract == Contract!Spec
=============================================================================
