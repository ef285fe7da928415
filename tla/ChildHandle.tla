----------------------------- MODULE ChildHandle ----------------------------
(***************************************************************************)
(* Three levels of handles: a realm, a parent (client, client scope,       *)
(* identity provider or group) and the child created from it: client role, *)
(* protocol mapper of a client or of a client scope, mapper of an identity *)
(* provider, child group, nested child group.                              *)
(*                                                                         *)
(* A child keeps what it resolved and drops it when its parent's version   *)
(* moved; it takes the parent's id from the parent's cache, or looks the   *)
(* parent up and, but for nested groups, leaves it in that cache.  Most    *)
(* operations resolve the parent, then get() the child, which resolves the *)
(* parent once more, then write under the parent resolved first.  A call   *)
(* is in one of these places:                                              *)
(*                                                                         *)
(*   idle      no operation of this caller is under way                    *)
(*   parent    the operation resolves the parent, before anything else     *)
(*   get       get() resolves the parent                                   *)
(*   lookup    get() awaits the child                                      *)
(*   looked    get() (or the cache) answered; the caller has yet to resume *)
(*   again     create() of a group resolves the parent it creates under    *)
(*   partner   a method awaits the other handle it was given               *)
(*   write     the mutation or the dependent request is awaited            *)
(*   sleep     getWithRetry() waits before it reads again                  *)
(*   own       the parent's own get() is awaited                           *)
(*                                                                         *)
(* What the parent does besides is ResourceHandle's subject; so are the    *)
(* two requests of a group lookup, one step here, and the representation.  *)
(***************************************************************************)
EXTENDS HandleIdentity, Sequences

CONSTANTS
  Kinds,              \* the kinds of child explored, a subset of AllKinds
  Realms,             \* realm names
  ParentNames, ChildNames,
  ParentIds, ChildIds,\* ids the server may issue (bounds the creations)
  Callers,            \* concurrent asynchronous calls on the handles
  Usages,             \* ways to use the handles, by name: records of Usage
  Null, Undefined,    \* JavaScript null and undefined
  Pending,            \* the answer of a request still under way
  Failed, Done,       \* a request answered by an error; a mutation done
  Unissued, Gone,     \* ids never issued; ids of deleted resources
  Attempts            \* reads of getWithRetry(), 4 in the code

AllKinds == {"clientRole", "clientMapper", "scopeMapper", "idpMapper",
             "childGroup", "nestedGroup"}

AllOps == {"get", "getById", "create", "update", "delete", "ensure", "discard",
           "use", "link", "listUsers", "parentGet"}

\* The operations of each caller, and bounds on how often handles are retargeted
\* (rebind() and getById()) and other administrators act.
Usage == [kinds : SUBSET AllKinds, ops : [Callers -> SUBSET AllOps],
          retargets : Nat, edits : Nat]

Identity  == [realm : Realms, name : ParentNames]
ParentRep == [id : ParentIds, realm : Realms, name : ParentNames]

\* "of" (history) is the parent a child was looked up under; Null for a group
\* looked up by its id alone.
ChildRep  == [id : ChildIds, under : ParentIds, name : ChildNames,
              of : Identity \union {Null}]

Mutations == {"create", "put", "del", "use", "useUnder"}

Requests ==
  [kind : Mutations \union {"parentByName", "childByName", "childById", "groupById", "partner"},
   realm : Realms, up : ParentRep \union {Null}, key : ParentNames \union {Null},
   name : ChildNames, id : ChildIds \union {Null}]

ASSUME ChildHandleAssumption ==
  /\ Kinds \subseteq AllKinds
  /\ \A u \in DOMAIN Usages : Usages[u] \in Usage
  /\ Attempts \in Nat \ {0}
  /\ {Null, Undefined, Unissued, Gone, Pending, Failed, Done}
       \intersect (ParentRep \union ChildRep) = {}
  /\ Null \notin Requests \union [realm : Realms, name : ChildNames]
  /\ Undefined # Null
  /\ Pending # Failed /\ Failed # Done /\ Done # Pending

VARIABLES
  usage,              \* how the handles are used
  kind,               \* which child this is
  realmName, realmGen,\* RealmHandle._realmName, _identityGeneration
  parentName,         \* _clientId, _scopeName, _alias, _groupName of the parent
  parent,             \* its cache: _client, _clientScope, ...
  parentGen,          \* its _identityGeneration
  parentSeen,         \* the realm version its tracker saw last
  childName,          \* _roleName, _mapperName, _groupName of the child
  child,              \* its cache: _role, _clientProtocolMapper, _group, ...
  childGen,           \* its _identityGeneration
  childSeen,          \* the parent version its tracker saw last
  parents, children,  \* the server's resources
  retargets, edits,   \* how often each happened (history)
  overtaken,          \* a handle was retargeted during a call (history)
  call                \* what each caller is doing

setting  == <<usage, kind>>
realm    == <<realmName, realmGen>>
pcache   == <<parentName, parent, parentGen, parentSeen>>
ccache   == <<childName, child, childGen, childSeen>>
server   == <<parents, children>>
history  == <<retargets, edits, overtaken>>
vars     == <<setting, realm, pcache, ccache, server, history, call>>

Idle == [op |-> "none", pc |-> "idle",
         last |-> FALSE,       \* this get() is the last step of its operation
         asked |-> Null,       \* realm and name get() was called with
         up |-> Null,          \* the parent the operation resolved
         one |-> Null,         \* the child it found, or the id getById() was given
         req |-> Null,         \* the request awaited; none when the cache answered
         ans |-> {Pending},    \* what was answered, or one of the three marks
         tries |-> 0,          \* reads getWithRetry() has begun
         alone |-> TRUE]       \* history: nobody else changed anything since

-----------------------------------------------------------------------------
(* What tells the children apart                                           *)

Groups       == {"childGroup", "nestedGroup"}
ClientKinds  == {"clientRole", "clientMapper"}

\* Operations that resolve the parent before they call get().
ParentFirst(op) ==
  \/ op \in {"update", "ensure", "listUsers"}
  \/ op \in {"create", "delete", "discard"} /\ kind \notin Groups

\* The operations each child has: composites and role mappings are "use", or
\* "link" with another handle.
OpsOfKind ==
  AllOps \ CASE kind = "clientRole"  -> {"getById"}
             [] kind = "childGroup"  -> {"listUsers"}
             [] kind = "nestedGroup" -> {"listUsers", "getById"}
             [] OTHER                -> {"use", "link", "listUsers"}

-----------------------------------------------------------------------------
(* The server                                                              *)

LiveParents  == {parents[i] : i \in {j \in ParentIds : parents[j] \in ParentRep}}
LiveChildren == {children[i] : i \in {j \in ChildIds : children[j] \in ChildRep}}
FreshChild   == {i \in ChildIds : children[i] = Unissued}

ParentRecord(i, r, n)    == [id |-> i, realm |-> r, name |-> n]
ChildRecord(i, under, n) == [id |-> i, under |-> under, name |-> n, of |-> Null]

\* Identity providers are addressed by alias, the other parents by id.
ParentAt(req) ==
  {x \in LiveParents : /\ x.realm = req.realm
                       /\ IF kind = "idpMapper" THEN x.name = req.up.name
                                                ELSE x.id = req.up.id}

Under(ps)       == {c \in LiveChildren : \E x \in ps : c.under = x.id}
InRealm(r)      == Under({x \in LiveParents : x.realm = r})
FreeUnder(x, n) == \A c \in Under({x}) : c.name # n
As(cs, of)      == {[c EXCEPT !.of = of] : c \in cs}

\* The child a mutation is about: roles go by name, mappers by id under their
\* parent, groups by id in the realm.
Addressed(req) ==
  CASE kind = "clientRole" /\ req.kind # "use" ->
         {c \in Under(ParentAt(req)) : c.name = req.name}
    [] kind \in Groups \/ req.kind = "use" -> {c \in InRealm(req.realm) : c.id = req.id}
    [] OTHER -> {c \in Under(ParentAt(req)) : c.id = req.id}

\* The children a request may leave when it succeeds; none when refused.  An
\* update of a group is a POST under its parent, which moves it there.
Applied(req) ==
  CASE req.kind = "create" ->
         {[children EXCEPT ![i] = ChildRecord(i, x.id, req.name)] :
            x \in {y \in ParentAt(req) : FreeUnder(y, req.name)}, i \in FreshChild}
    [] req.kind = "put" ->
         {[children EXCEPT ![c.id] = ChildRecord(c.id, x.id, req.name)] :
            c \in Addressed(req),
            x \in {y \in ParentAt(req) :
                     \A d \in Under({y}) : d.name = req.name => d \in Addressed(req)}}
    [] req.kind = "del" -> {[children EXCEPT ![c.id] = Gone] : c \in Addressed(req)}
    [] OTHER -> {children : c \in Addressed(req)}

\* What a read finds.  The list of a group's children may not show yet what
\* was just created, which is what getWithRetry() is for.
Reads(p, req) ==
  CASE req.kind = "parentByName" ->
         {{x \in LiveParents :
             x.realm = req.realm /\ (x.name = req.key \/ kind = "scopeMapper")}}
    [] req.kind = "childByName" ->
         {As({c \in Under(ParentAt(req)) : c.name = req.name \/ kind = "idpMapper"},
             [realm |-> req.up.realm, name |-> req.up.name])}
           \union (IF call[p].tries > 0 THEN {{}} ELSE {})
    [] req.kind = "childById" ->
         {As({c \in Under(ParentAt(req)) : c.id = req.id},
             [realm |-> req.up.realm, name |-> req.up.name])}
    [] req.kind = "groupById" -> {{c \in InRealm(req.realm) : c.id = req.id}}
    [] req.kind = "partner" -> {{Done}}

\* <<children afterwards, answer>>: a request may fail before it is handled,
\* and a mutation may be applied and its answer be lost.
Outcomes(p, req) ==
  {<<children, {Failed}>>} \union
  IF req.kind \in Mutations THEN Applied(req) \X {{Done}, {Failed}}
                            ELSE {children} \X Reads(p, req)

-----------------------------------------------------------------------------
(* Identity and caches                                                     *)

ParentStale      == ParentMoved(parentSeen, RootVersion(realmGen))
VisibleParent    == IF ParentStale THEN Undefined ELSE parent
VisibleParentGen == IF ParentStale THEN parentGen + 1 ELSE parentGen
ParentVersion    == ChildVersion(realmGen, VisibleParentGen)

ChildStale       == ParentMoved(childSeen, ParentVersion)
VisibleChild     == IF ChildStale THEN Undefined ELSE child
VisibleChildGen  == IF ChildStale THEN childGen + 1 ELSE childGen

\* The identity version of the child, and what it names.
Version == Append(ParentVersion, VisibleChildGen)
Target  == <<realmName, parentName, childName>>
Here    == [realm |-> realmName, name |-> parentName]

\* Reading the parent's representation or version.
LookAtParent ==
  /\ parentSeen' = RootVersion(realmGen)
  /\ parent' = VisibleParent
  /\ parentGen' = VisibleParentGen
  /\ UNCHANGED parentName

\* Fault: the version is noted and the cache kept.
LookAtChildKeepsCache ==
  /\ LookAtParent
  /\ childSeen' = ParentVersion
  /\ childGen' = VisibleChildGen
  /\ UNCHANGED <<childName, child>>

\* invalidateParentCache of the child, which reads the parent's version.
LookAtChild ==
  /\ LookAtParent
  /\ childSeen' = ParentVersion
  /\ child' = VisibleChild
  /\ childGen' = VisibleChildGen
  /\ UNCHANGED childName

-----------------------------------------------------------------------------
(* Calls                                                                   *)

\* The calls under way, but for those of "me", are no longer alone.
Disturb(calls, me) ==
  [q \in Callers |-> IF q \in me \/ calls[q].pc = "idle" THEN calls[q]
                     ELSE [calls[q] EXCEPT !.alone = FALSE]]

\* Caller p goes to another place; the others notice what it changed there.
Goes(p, record) ==
  LET moved == [call EXCEPT ![p] = record]
      same  == /\ <<parentName', childName', children'>> = <<parentName, childName, children>>
               /\ VisibleParent \in ParentRep => parent' = VisibleParent
  IN  call' = IF same THEN moved ELSE Disturb(moved, {p})

Finish(p) == Goes(p, Idle)

Await(c, pc, req)   == [c EXCEPT !.pc = pc, !.req = req, !.ans = {Pending}]
Known(c, pc, found) == [c EXCEPT !.pc = pc, !.req = Null, !.ans = found]

Request(k, r, up, key, n, i) ==
  [kind |-> k, realm |-> r, up |-> up, key |-> key, name |-> n, id |-> i]

\* The realm and the child's name are read when a request is sent.
ParentByName      == Request("parentByName", realmName, Null, parentName, childName, Null)
Send(k, up, i)    == Request(k, realmName, up, Null, childName, i)

\* The parent from its cache, or a request for it; nested groups keep none.
ResolveParent(c, pc) ==
  IF kind # "nestedGroup" /\ VisibleParent \in ParentRep
  THEN Known(c, pc, {VisibleParent})
  ELSE Await(c, pc, ParentByName)

LookForParent ==
  /\ IF kind = "nestedGroup" THEN UNCHANGED pcache ELSE LookAtParent
  /\ UNCHANGED ccache

\* get(), as an operation's first step (last = FALSE) or its last.
Get(p, c) ==
  /\ IF kind \in Groups THEN LookForParent ELSE LookAtChild
  /\ UNCHANGED <<setting, realm, server>>
  /\ Goes(p, ResolveParent([c EXCEPT !.asked = [realm |-> realmName, name |-> childName]], "get"))

Init ==
  /\ usage \in DOMAIN Usages
  /\ kind \in Kinds \intersect Usages[usage].kinds
  /\ realmName \in Realms /\ realmGen = 0
  /\ parentName \in ParentNames /\ parentGen = 0 /\ parentSeen = RootVersion(0)
  /\ childName \in ChildNames /\ childGen = 0 /\ childSeen = ChildVersion(0, 0)
  /\ parent = IF kind = "childGroup" THEN Null ELSE Undefined
  /\ child = IF kind \in Groups THEN Null ELSE Undefined
  /\ \E held \in [ParentIds -> Identity \union {Unissued}] :
       /\ \A i, j \in ParentIds : i # j /\ held[i] = held[j] => held[i] = Unissued
       /\ parents = [i \in ParentIds |-> IF held[i] = Unissued THEN Unissued
                                         ELSE ParentRecord(i, held[i].realm, held[i].name)]
  /\ \E held \in [ChildIds -> [under : ParentIds, name : ChildNames] \union {Unissued}] :
       /\ \A i, j \in ChildIds : i # j /\ held[i] = held[j] => held[i] = Unissued
       /\ \A i \in ChildIds : held[i] # Unissued => parents[held[i].under] # Unissued
       /\ children = [i \in ChildIds |-> IF held[i] = Unissued THEN Unissued
                                         ELSE ChildRecord(i, held[i].under, held[i].name)]
  /\ retargets = 0 /\ edits = 0 /\ overtaken = FALSE
  /\ call = [p \in Callers |-> Idle]

-----------------------------------------------------------------------------
(* Retargeting, and reading the child                                      *)

Retarget ==
  /\ retargets < Usages[usage].retargets
  /\ retargets' = retargets + 1
  /\ overtaken' = (overtaken \/ \E p \in Callers : call[p].pc # "idle")
  /\ call' = Disturb(call, {})
  /\ UNCHANGED <<setting, server, edits>>

RebindRealm(r) ==
  /\ Retarget
  /\ r # realmName
  /\ realmName' = r
  /\ realmGen' = realmGen + 1
  /\ UNCHANGED <<pcache, ccache>>

RebindParent(n) ==
  /\ Retarget
  /\ n # parentName
  /\ parentName' = n
  /\ parent' = Undefined
  /\ parentGen' = parentGen + 1
  /\ UNCHANGED <<realm, parentSeen, ccache>>

RebindChild(n) ==
  /\ Retarget
  /\ n # childName
  /\ childName' = n
  /\ child' = Undefined
  /\ childGen' = childGen + 1
  /\ UNCHANGED <<realm, pcache, childSeen>>

\* Reading handle.role, handle.identityVersion, ... invalidates.
ReadChild ==
  /\ ChildStale
  /\ LookAtChild
  /\ UNCHANGED <<setting, realm, server, history, call>>

-----------------------------------------------------------------------------
(* Answers                                                                 *)

Serve(p) ==
  /\ call[p].req # Null
  /\ call[p].ans = {Pending}
  /\ \E outcome \in Outcomes(p, call[p].req) :
       /\ children' = outcome[1]
       /\ UNCHANGED <<setting, realm, pcache, ccache, parents, history>>
       /\ Goes(p, [call[p] EXCEPT !.ans = outcome[2]])

Answered(p, pcs) == call[p].pc \in pcs /\ call[p].ans \notin {{Pending}, {Failed}}

\* A request failed; or there is no parent, and the operation cannot do without
\* (get() of a group can).
Throw(p) ==
  /\ \/ call[p].ans = {Failed}
     \/ call[p].pc \in {"parent", "get", "again"} /\ call[p].ans = {} /\ call[p].req = Null
          /\ ~(call[p].pc = "get" /\ kind \in Groups)
  /\ UNCHANGED <<setting, realm, pcache, ccache, server, history>>
  /\ Finish(p)

\* The parent's own get(), and a group's: what was answered is adopted.
ParentsGet(found) ==
  LET keepsLate == kind \in Groups
      adopted   == IF found = {} THEN parentName ELSE (CHOOSE x \in found : TRUE).name
      bump      == (IF adopted # parentName THEN 1 ELSE 0) + (IF ParentStale THEN 1 ELSE 0)
  IN  /\ parentName' = adopted
      /\ parentSeen' = RootVersion(realmGen)
      /\ parentGen' = parentGen + bump
      /\ parent' = IF ParentStale /\ ~keepsLate THEN Undefined
                   ELSE IF found = {} THEN Null ELSE CHOOSE x \in found : TRUE

\* Fault: a name adopted from a child is no new identity.
SetResolvedKeepsGeneration(found) ==
  /\ \E x \in found : parent' = x /\ parentName' = x.name
  /\ UNCHANGED <<parentGen, parentSeen>>

\* _setResolvedClient: a child puts what it looked up into its parent.
SetResolved(found) ==
  /\ \E x \in found :
       /\ parent' = x
       /\ parentName' = x.name
       /\ parentGen' = IF x.name # parentName THEN parentGen + 1 ELSE parentGen
  /\ UNCHANGED parentSeen

\* Client scopes are listed and filtered by the name the handle has by then.
Matches(p) == IF kind = "scopeMapper" THEN {x \in call[p].ans : x.name = parentName}
                                      ELSE call[p].ans

\* What resolveClient(), resolveClientScope(), ... return.
Resolved(p) == IF kind \in {"scopeMapper", "idpMapper"} /\ ParentStale THEN {} ELSE Matches(p)

\* The parent that was asked for is there, or is not.
ParentReturns(p) ==
  /\ Answered(p, {"parent", "get", "again"})
  /\ call[p].req # Null
  /\ CASE kind = "nestedGroup" \/ (kind \in ClientKinds /\ Matches(p) = {}) -> UNCHANGED pcache
       [] kind \in ClientKinds /\ Matches(p) # {} -> SetResolved(Matches(p))
       [] OTHER -> ParentsGet(Matches(p))
  /\ UNCHANGED <<setting, realm, ccache, server, history>>
  /\ Goes(p, Known(call[p], call[p].pc, Resolved(p)))

\* The parent's own get(), called by the application or by another child.
OwnReturns(p) ==
  /\ Answered(p, {"own"})
  /\ ParentsGet(Matches(p))
  /\ UNCHANGED <<setting, realm, ccache, server, history>>
  /\ Finish(p)

-----------------------------------------------------------------------------
(* Operations                                                              *)

New(op) == [Idle EXCEPT !.op = op, !.last = op \in {"get", "getById"}]

Starts(p, op) ==
  /\ op \in Usages[usage].ops[p] \intersect OpsOfKind
  /\ call[p].pc = "idle"
  /\ UNCHANGED <<setting, realm, server>>

FromCache(op) == op \in {"use", "link"} /\ VisibleChild \in ChildRep

\* An operation that resolves the parent first.
BeginAtParent(p, op) ==
  /\ Starts(p, op)
  /\ ParentFirst(op)
  /\ LookForParent
  /\ UNCHANGED history
  /\ Goes(p, ResolveParent(New(op), "parent"))

\* An operation that begins with get(), in requireRole() and requireGroup() only
\* for want of a cached child.
BeginAtChild(p, op) ==
  /\ Starts(p, op)
  /\ ~ParentFirst(op) /\ op \notin {"parentGet", "getById"}
  /\ UNCHANGED history
  /\ IF FromCache(op)
     THEN /\ LookAtChild
          /\ Goes(p, [New(op) EXCEPT !.pc = "looked", !.one = VisibleChild])
     ELSE Get(p, New(op))

\* A mapper is read by id under its parent, a group in the realm.
BeginGetById(p, i) ==
  /\ Starts(p, "getById")
  /\ retargets < Usages[usage].retargets
  /\ retargets' = retargets + 1
  /\ UNCHANGED <<edits, overtaken>>
  /\ IF kind = "childGroup"
     THEN /\ UNCHANGED <<pcache, ccache>>
          /\ Goes(p, Await(New("getById"), "lookup", Send("groupById", Null, i)))
     ELSE /\ LookAtChild
          /\ Goes(p, ResolveParent([New("getById") EXCEPT !.one = i], "get"))

\* The parent's own get() looks at the realm's version first, a group's does not.
BeginParentGet(p) ==
  /\ Starts(p, "parentGet")
  /\ IF kind \in Groups THEN UNCHANGED pcache ELSE LookAtParent
  /\ UNCHANGED <<ccache, history>>
  /\ Goes(p, Await(New("parentGet"), "own", ParentByName))

ParentKnown(p, pc) == call[p].pc = pc /\ call[p].req = Null /\ call[p].ans # {}

\* The operation has its parent, and calls get() (or asks for its users).
HasParent(p) ==
  /\ ParentKnown(p, "parent")
  /\ UNCHANGED <<setting, realm, server, history>>
  /\ \E x \in call[p].ans :
       IF call[p].op = "listUsers"
       THEN /\ UNCHANGED <<pcache, ccache>>
            /\ Goes(p, Await([call[p] EXCEPT !.up = x], "write", Send("useUnder", x, Null)))
       ELSE Get(p, [call[p] EXCEPT !.up = x])

\* Fault: a child is looked for in the whole realm, by its name.
LookupAnywhere(p, x) ==
  LET holders == {y \in LiveParents :
                    y.realm = realmName /\ \E c \in Under({y}) : c.name = childName}
  IN  Await(call[p], "lookup",
        Send("childByName", IF holders = {} THEN x ELSE CHOOSE y \in holders : TRUE, Null))

\* get() has its parent: the request for the child.  A nested group's names are
\* those get() was called with.
Lookup(p, x) ==
  Await(call[p], "lookup",
    IF call[p].op = "getById" THEN Send("childById", x, call[p].one)
    ELSE IF kind = "nestedGroup"
    THEN Request("childByName", call[p].asked.realm, x, Null, call[p].asked.name, Null)
    ELSE Send("childByName", x, Null))

LooksUp(p) ==
  /\ ParentKnown(p, "get")
  /\ UNCHANGED <<setting, realm, pcache, ccache, server, history>>
  /\ \E x \in call[p].ans : Goes(p, Lookup(p, x))

\* create() of a group has its parent.
CreatesUnder(p) ==
  /\ ParentKnown(p, "again")
  /\ UNCHANGED <<setting, realm, pcache, ccache, server, history>>
  /\ \E x \in call[p].ans :
       Goes(p, Await([call[p] EXCEPT !.up = x], "write", Send("create", x, Null)))

\* Which of the children answered the handle takes for its own: mappers of an
\* identity provider are listed and filtered by the name the handle has by then.
Mine(p) ==
  {c \in call[p].ans :
     kind = "idpMapper" /\ call[p].req.kind = "childByName" => c.name = childName}

Found(p) == IF call[p].req = Null \/ Mine(p) = {} THEN Null
            ELSE CHOOSE c \in Mine(p) : TRUE

\* The code after the await of get() and getById().  "this.role" after it looks
\* at the parent again; a group looks first and keeps the answer all the same.
WriteBack(c) ==
  LET renamed == c # Null /\ c.name # childName
  IN  /\ LookAtParent
      /\ childSeen' = ParentVersion
      /\ childName' = IF c # Null THEN c.name ELSE childName
      /\ childGen' = VisibleChildGen + (IF renamed THEN 1 ELSE 0)
      /\ child' = IF ChildStale /\ kind \notin Groups THEN Undefined ELSE c

Got(c) == IF ChildStale /\ kind \notin Groups THEN Null ELSE c

\* Fault: one read more.
ReadsAgainOnceMore(p, c) == c = Null /\ call[p].tries > 0 /\ call[p].tries <= Attempts

\* getWithRetry() reads again after the creation of a group.
ReadsAgain(p, c) == c = Null /\ call[p].tries > 0 /\ call[p].tries < Attempts

\* get() and getById() return; a group's also when it has no parent.
GetReturns(p) ==
  /\ \/ Answered(p, {"lookup"})
     \/ call[p].pc = "get" /\ call[p].req = Null /\ call[p].ans = {} /\ kind \in Groups
  /\ WriteBack(Found(p))
  /\ UNCHANGED <<setting, realm, server, history>>
  /\ LET one == Got(Found(p))
     IN  Goes(p, IF ~call[p].last THEN [Known(call[p], "looked", {Pending}) EXCEPT !.one = one]
                 ELSE IF ReadsAgain(p, one) THEN Known(call[p], "sleep", {Pending})
                 ELSE Idle)

Wakes(p) ==
  /\ call[p].pc = "sleep"
  /\ UNCHANGED history
  /\ Get(p, [call[p] EXCEPT !.tries = @ + 1])

\* The request of each operation once it knows the child; none when it returns
\* or throws instead.  The parent is the one resolved first.
NextRequest(p) ==
  LET op == call[p].op  one == call[p].one  up == call[p].up
  IN  CASE one = Null -> IF op \in {"create", "ensure"} THEN {Send("create", up, Null)} ELSE {}
        [] one # Null /\ op \in {"update", "ensure"}    -> {Send("put", up, one.id)}
        [] one # Null /\ op \in {"delete", "discard"}   -> {Send("del", up, one.id)}
        [] one # Null /\ op = "use"                     -> {Send("use", Null, one.id)}
        [] one # Null /\ op = "link"                    -> {Send("partner", Null, Null)}
        [] one # Null /\ op = "create"                  -> {}

Resume(p) ==
  /\ call[p].pc = "looked"
  /\ UNCHANGED <<setting, realm, server, history, ccache>>
  /\ IF call[p].op = "create" /\ call[p].one = Null /\ kind \in Groups
     THEN /\ LookForParent
          /\ Goes(p, ResolveParent(call[p], "again"))
     ELSE /\ UNCHANGED pcache
          /\ \/ NextRequest(p) = {} /\ Finish(p)
             \/ \E req \in NextRequest(p) :
                  Goes(p, Await(call[p], IF req.kind = "partner" THEN "partner" ELSE "write", req))

PartnerResolved(p) ==
  /\ Answered(p, {"partner"})
  /\ UNCHANGED <<setting, realm, pcache, ccache, server, history>>
  /\ Goes(p, Await(call[p], "write", Send("use", Null, call[p].one.id)))

\* create, update and ensure end with a get(); groups created, with several.
ReadBack(p) ==
  /\ Answered(p, {"write"})
  /\ call[p].op \in {"create", "update", "ensure"}
  /\ UNCHANGED history
  /\ Get(p, [call[p] EXCEPT !.last = TRUE,
               !.tries = IF kind \in Groups /\ call[p].one = Null THEN 1 ELSE 0])

\* delete and discard remember that the child is gone; a group looks at its
\* parent first.
Deleted(p) ==
  /\ Answered(p, {"write"})
  /\ call[p].op \in {"delete", "discard"}
  /\ IF kind \in Groups THEN WriteBack(Null)
     ELSE child' = Null /\ UNCHANGED <<pcache, childName, childGen, childSeen>>
  /\ UNCHANGED <<setting, realm, server, history>>
  /\ Finish(p)

Used(p) ==
  /\ Answered(p, {"write"})
  /\ call[p].op \in {"use", "link", "listUsers"}
  /\ UNCHANGED <<setting, realm, pcache, ccache, server, history>>
  /\ Finish(p)

-----------------------------------------------------------------------------
(* Other administrators create, rename and delete parents and children.    *)

AdminParents ==
  \E i \in ParentIds, r \in Realms, n \in ParentNames :
    LET free == \A x \in LiveParents : <<x.realm, x.name>> # <<r, n>>
    IN  \/ /\ parents[i] = Unissued /\ free
           /\ parents' = [parents EXCEPT ![i] = ParentRecord(i, r, n)]
           /\ UNCHANGED children
        \/ /\ parents[i] \in ParentRep /\ parents[i].realm = r /\ free
           /\ parents' = [parents EXCEPT ![i].name = n]
           /\ UNCHANGED children
        \/ /\ parents[i] \in ParentRep
           /\ parents' = [parents EXCEPT ![i] = Gone]
           /\ children' = [j \in ChildIds |-> IF children[j] \in Under({parents[i]})
                                             THEN Gone ELSE children[j]]

AdminChildren ==
  /\ \E j \in ChildIds, x \in LiveParents, n \in ChildNames :
       \/ /\ children[j] = Unissued /\ FreeUnder(x, n)
          /\ children' = [children EXCEPT ![j] = ChildRecord(j, x.id, n)]
       \/ /\ children[j] \in Under({x}) /\ FreeUnder(x, n)
          /\ children' = [children EXCEPT ![j].name = n]
       \/ /\ children[j] \in Under({x})
          /\ children' = [children EXCEPT ![j] = Gone]
  /\ UNCHANGED parents

Admin ==
  /\ edits < Usages[usage].edits
  /\ edits' = edits + 1
  /\ AdminParents \/ AdminChildren
  /\ call' = Disturb(call, {})
  /\ UNCHANGED <<setting, realm, pcache, ccache, retargets, overtaken>>

-----------------------------------------------------------------------------
Step(p) ==
  \/ Throw(p) \/ ParentReturns(p) \/ OwnReturns(p) \/ HasParent(p) \/ LooksUp(p)
  \/ CreatesUnder(p) \/ GetReturns(p) \/ Wakes(p) \/ Resume(p) \/ PartnerResolved(p)
  \/ ReadBack(p) \/ Deleted(p) \/ Used(p)

Next ==
  \/ \E r \in Realms : RebindRealm(r)
  \/ \E n \in ParentNames : RebindParent(n)
  \/ \E n \in ChildNames : RebindChild(n)
  \/ ReadChild
  \/ \E p \in Callers :
       \/ \E op \in AllOps : BeginAtParent(p, op) \/ BeginAtChild(p, op)
       \/ \E i \in ChildIds : BeginGetById(p, i)
       \/ BeginParentGet(p)
       \/ Serve(p) \/ Step(p)
  \/ Admin

Spec == Init /\ [][Next]_vars

-----------------------------------------------------------------------------
(* Properties                                                              *)

Call == [op : AllOps \union {"none"},
         pc : {"idle", "parent", "get", "lookup", "looked", "again", "partner",
               "write", "sleep", "own"},
         last : BOOLEAN,
         asked : [realm : Realms, name : ChildNames] \union {Null},
         up : ParentRep \union {Null},
         one : ChildRep \union ChildIds \union {Null},
         req : Requests \union {Null},
         ans : SUBSET (ParentRep \union ChildRep \union {Pending, Failed, Done}),
         tries : 0..Attempts,
         alone : BOOLEAN]

\* Every variable keeps its type, children live under parents that do, and
\* names are taken once.
TypeOK ==
  /\ usage \in DOMAIN Usages /\ kind \in Kinds
  /\ realmName \in Realms /\ parentName \in ParentNames /\ childName \in ChildNames
  /\ realmGen \in 0..retargets /\ parentGen \in Nat /\ childGen \in Nat
  /\ parent \in ParentRep \union {Null, Undefined}
  /\ child \in ChildRep \union {Null, Undefined}
  /\ parentSeen \in {RootVersion(g) : g \in 0..realmGen}
  /\ childSeen \in {ChildVersion(g, h) : g \in 0..realmGen, h \in 0..parentGen}
  /\ parents \in [ParentIds -> ParentRep \union {Unissued, Gone}]
  /\ children \in [ChildIds -> ChildRep \union {Unissued, Gone}]
  /\ \A c \in LiveChildren : parents[c.under] \in ParentRep
  /\ \A c, d \in LiveChildren : c.under = d.under /\ c.name = d.name => c = d
  /\ retargets \in 0..Usages[usage].retargets /\ edits \in 0..Usages[usage].edits /\ overtaken \in BOOLEAN
  /\ call \in [Callers -> Call]

\* A write that nothing crossed goes to the realm the handles name, under a
\* parent that was found there under the parent's name, and to a child that was
\* found under that very parent by the child's name; so no update, which for a
\* group is a POST under the parent, moves one there from elsewhere.  (Mappers of
\* an identity provider are listed and written under its alias: one.of says so.)
WritesUnderParent ==
  \A p \in Callers :
    LET up == call[p].up  one == call[p].one
    IN  call[p].pc = "write" /\ call[p].alone /\ ~overtaken =>
          /\ call[p].req.realm = realmName
          /\ up \in ParentRep => [realm |-> up.realm, name |-> up.name] = Here
          /\ up \in ParentRep /\ one \in ChildRep /\ kind # "idpMapper" => one.under = up.id
          /\ one \in ChildRep =>
               /\ one.name = childName
               /\ one.of = Here \/ (one.of = Null /\ call[p].op \in {"use", "link"})

\* What handle.role, handle.group, ... return was found under the parent the
\* handles now name, by the child's name, or is a group fetched by its id:
\* "Rebinding a parent bumps that version, so existing children notice ...
\* [and] clear any cached representation from the old parent"
\* (handle-identity.mdx), as long as no call was under way then.
ServedUnderParent ==
  VisibleChild \in ChildRep /\ ~overtaken =>
    VisibleChild.name = childName /\ VisibleChild.of \in {Here, Null}

\* Whatever is in flight, the child's identity version never goes back, level
\* by level, and moves whenever realm, parent or child is another; on this the
\* trackers of the levels below rest.
VersionStep ==
  /\ \A i \in 1..3 : Version'[i] >= Version[i]
  /\ Target' # Target => Version' # Version

VersionTracksTarget == [][VersionStep]_vars
=============================================================================
