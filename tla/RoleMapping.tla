---------------------------- MODULE RoleMapping -----------------------------
(***************************************************************************)
(* The realm roles of a user (src/src/user.ts): assignRealmRoles,          *)
(* unassignRealmRoles and reconcileRealmRoles, called by several           *)
(* concurrent callers on one user handle, while the realms are rebound,    *)
(* requests fail and other administrators change roles, mappings and the   *)
(* user.  reconcileRealmRoles is a chain of requests: the roles one after  *)
(* the other (made first, if they are missing), the user, the roles the    *)
(* user has, then one request that grants and one that revokes.  A call is *)
(* in one of these places:                                                 *)
(*                                                                         *)
(*   idle    none is under way, or the last one threw                      *)
(*   roles   between the roles it resolves                                 *)
(*   ensure  RoleHandle.ensure() of one role is awaited                    *)
(*   read    one role is awaited                                           *)
(*   user    requireUser() is awaited                                      *)
(*   again   requireUser() of listAssignedRealmRoles() is                  *)
(*   list    the roles of the user are                                     *)
(*   add     roles are being granted                                       *)
(*   del     roles are being revoked                                       *)
(*   done    it returned                                                   *)
(*                                                                         *)
(* Of the role handles given to assignRealmRoles only what RoleHandle      *)
(* promises is used: one holds a role of its target, or none.  The role    *)
(* handles of reconcileRealmRoles are its own.                             *)
(***************************************************************************)
EXTENDS HandleIdentity, FiniteSets

CONSTANTS
  Realms, Names,      \* realm names, role names
  Callers,            \* concurrent calls
  Plans,              \* what callers ask for: records of Plan
  MaxRoles,           \* the maxRoles option
  Null, Undefined,    \* JavaScript null and undefined
  Pending, Failed,    \* an answer to come; an error
  MaxIncarnation,     \* bound on creations and deletions of one name
  RebindsOverlap,     \* whether the realm is rebound while calls are under way
  MaxRetargets,       \* bound on rebinds
  MaxEdits            \* bound on what other administrators do

\* managedRoleNames is left out: this is no set of names.
NotGiven == {Null}

Plan == [op : {"reconcile", "assign", "unassign"}, desired : SUBSET Names,
         managed : (SUBSET Names) \union {NotGiven}, ensure : BOOLEAN]

\* A role or a user is one incarnation of its name: deleted and made anew, it
\* has another id.  The odd incarnations exist.
RoleRep == [realm : Realms, name : Names, inc : 0..MaxIncarnation]
UserRep == [realm : Realms, inc : 0..MaxIncarnation]

Requests == [kind : {"ensure", "read", "user", "list", "add", "del"}, realm : Realms,
             name : Names \union {Null}, user : UserRep \union {Null}, roles : SUBSET RoleRep]

Odd(n) == n % 2 = 1

ASSUME RoleMappingAssumption ==
  /\ Plans \subseteq Plan
  /\ {MaxRoles, MaxRetargets, MaxEdits} \subseteq Nat
  /\ MaxIncarnation \in Nat \ {0}
  /\ \A plan \in Plans : IsFiniteSet(plan.desired)
  /\ RebindsOverlap \in BOOLEAN
  /\ Null \notin Names \union Requests
  /\ {Null, Undefined, Pending, Failed} \intersect (RoleRep \union UserRep) = {}
  /\ Undefined # Null /\ Pending # Failed

VARIABLES
  realmName, realmGen,\* the user's realm handle, whose roles reconcile takes
  user, seen,         \* UserHandle._user, and the realm version seen last
  roles,              \* the server: the incarnation of each role
  users,              \* ... and of the user in each realm
  mapped,             \* ... and the roles of that user
  retargets, edits,   \* how often each happened (history)
  call                \* what each caller is doing

handles == <<realmName, realmGen, user, seen, retargets>>
server  == <<roles, users, mapped>>
vars    == <<handles, server, edits, call>>

NoPlan == [op |-> "reconcile", desired |-> {}, managed |-> NotGiven, ensure |-> FALSE]

Idle == [plan |-> NoPlan, pc |-> "idle",
         asked |-> Null,       \* the realm assign() resolves roles in
         todo |-> {},          \* names of roles still to be resolved
         got |-> {},           \* the roles resolved
         user |-> Null,        \* the user resolved
         req |-> Null,         \* the request awaited
         ans |-> {Pending},    \* what was answered, or a mark
         revoke |-> {},        \* the roles to revoke once others were granted
         alone |-> TRUE]       \* history: nobody else touched these roles since

-----------------------------------------------------------------------------
(* The plan                                                                *)

Given(plan) == plan.managed # NotGiven

\* The desired names that are managed: the others are left alone.
Effective(plan) ==
  IF plan.op = "reconcile" /\ Given(plan) THEN plan.desired \intersect plan.managed
                                          ELSE plan.desired

\* The names a call may grant or revoke.
Touches(plan) == IF Given(plan) THEN Effective(plan) \union plan.managed ELSE Effective(plan)

NamesOf(rs) == {x.name : x \in rs}

\* Desired roles are granted unless a role of that name is there already.
ToAdd(c, assigned) == {x \in c.got : x.name \notin NamesOf(assigned)}

\* Fault: what is managed is revoked, wanted or not.
RevokesManaged(c, assigned) ==
  IF Given(c.plan) THEN {x \in assigned : x.name \in c.plan.managed} ELSE {}

\* Managed roles that are not desired are revoked; without managedRoleNames none.
ToRemove(c, assigned) ==
  IF Given(c.plan)
  THEN {x \in assigned : x.name \in c.plan.managed \ Effective(c.plan)} ELSE {}

-----------------------------------------------------------------------------
(* The server                                                              *)

RoleOf(r, n)   == [realm |-> r, name |-> n, inc |-> roles[r][n]]
Exists(x)      == Odd(x.inc) /\ x = RoleOf(x.realm, x.name)
UserOf(r)      == [realm |-> r, inc |-> users[r]]
Held(r)        == {x \in mapped[r] : Exists(x)}
MayCreate(inc) == ~Odd(inc) /\ inc < MaxIncarnation

\* The user and all the roles must be of the realm the request names.
Mappable(req) == Odd(req.user.inc) /\ req.user = UserOf(req.realm)
                   /\ \A x \in req.roles : Exists(x) /\ x.realm = req.realm

\* <<roles, mapped>> as a request may leave them; none when it is refused.
Applied(req) ==
  CASE req.kind = "ensure" ->
         IF Odd(roles[req.realm][req.name]) THEN {<<roles, mapped>>}
         ELSE {<<[roles EXCEPT ![req.realm][req.name] = @ + 1], mapped>> :
                 x \in {y \in {req.name} : MayCreate(roles[req.realm][y])}}
    [] req.kind = "add" ->
         {<<roles, [mapped EXCEPT ![req.realm] = @ \union req.roles]>> :
            x \in {y \in {req} : Mappable(y)}}
    [] req.kind = "del" ->
         {<<roles, [mapped EXCEPT ![req.realm] = @ \ req.roles]>> :
            x \in {y \in {req} : Mappable(y)}}

Answer(req) ==
  CASE req.kind = "read" -> {x \in {RoleOf(req.realm, req.name)} : Exists(x)}
    [] req.kind = "user" -> {x \in {UserOf(req.realm)} : Odd(x.inc)}
    [] req.kind = "list" -> IF req.user = UserOf(req.realm) THEN Held(req.realm) ELSE {Failed}

\* <<roles, mapped, answer>>: a request may fail before it is handled, and a
\* mutation may be applied and its answer be lost.
Outcomes(req) ==
  {<<roles, mapped, {Failed}>>} \union
  IF req.kind \in {"read", "user", "list"} THEN {<<roles, mapped, Answer(req)>>}
  ELSE {<<o[1], o[2], a>> : o \in Applied(req), a \in {{}, {Failed}}}

-----------------------------------------------------------------------------
(* Calls                                                                   *)

Stale       == ParentMoved(seen, RootVersion(realmGen))
VisibleUser == IF Stale THEN Undefined ELSE user

InvalidateParentCache ==
  /\ seen' = RootVersion(realmGen)
  /\ user' = VisibleUser
  /\ UNCHANGED <<realmName, realmGen, retargets>>

\* The calls under way about these names, but for those of "me", are not alone.
Disturb(calls, names, me) ==
  [q \in Callers |->
     IF q \in me \/ calls[q].pc = "idle" \/ Touches(calls[q].plan) \intersect names = {}
     THEN calls[q] ELSE [calls[q] EXCEPT !.alone = FALSE]]

Request(k, r, n, u, rs) == [kind |-> k, realm |-> r, name |-> n, user |-> u, roles |-> rs]

Goes(p, record)     == call' = [call EXCEPT ![p] = record]
Await(c, pc, req)   == [c EXCEPT !.pc = pc, !.req = req, !.ans = {Pending}]
Known(c, pc, found) == [c EXCEPT !.pc = pc, !.req = Null, !.ans = found]
Finished(c)         == [Idle EXCEPT !.plan = c.plan, !.pc = "done", !.alone = c.alone]

\* The realm named first may have any of the roles, and the user some of them;
\* another realm has them all.
Init ==
  /\ realmName \in Realms /\ realmGen = 0
  /\ user = Undefined /\ seen = RootVersion(0)
  /\ \E there, held \in SUBSET Names, userThere \in BOOLEAN :
       /\ held \subseteq there /\ (held # {} => userThere)
       /\ roles = [r \in Realms |-> [n \in Names |-> IF r = realmName /\ n \notin there THEN 0 ELSE 1]]
       /\ users = [r \in Realms |-> IF r = realmName /\ ~userThere THEN 0 ELSE 1]
       /\ mapped = [r \in Realms |-> {[realm |-> r, name |-> n, inc |-> 1] :
                                       n \in IF r = realmName THEN held ELSE {}}]
  /\ retargets = 0 /\ edits = 0
  /\ call = [p \in Callers |-> Idle]

Quiet == \A p \in Callers : call[p].pc \in {"idle", "done"}

RebindRealm(r) ==
  /\ retargets < MaxRetargets
  /\ ~Quiet => RebindsOverlap
  /\ retargets' = retargets + 1
  /\ r # realmName
  /\ realmName' = r
  /\ realmGen' = realmGen + 1
  /\ call' = Disturb(call, Names, {})
  /\ UNCHANGED <<user, seen, server, edits>>

Serve(p) ==
  /\ call[p].req # Null /\ call[p].ans = {Pending}
  /\ \E o \in Outcomes(call[p].req) :
       LET answered == [call EXCEPT ![p].ans = o[3]]
           names    == IF o[1] # roles THEN {call[p].req.name} ELSE NamesOf(call[p].req.roles)
       IN  /\ roles' = o[1] /\ mapped' = o[2]
           /\ call' = IF <<o[1], o[2]>> = <<roles, mapped>> THEN answered
                      ELSE Disturb(answered, names, {p})
  /\ UNCHANGED <<handles, users, edits>>

Answered(p, pc) == call[p].pc = pc /\ call[p].ans \notin {{Pending}, {Failed}}

\* A request failed, or there is no such role or user: the call throws.
Throw(p) ==
  /\ \/ call[p].ans = {Failed}
     \/ call[p].pc \in {"read", "user", "again"} /\ call[p].ans = {}
  /\ Goes(p, Idle)
  /\ UNCHANGED <<handles, server, edits>>

-----------------------------------------------------------------------------
(* Operations                                                              *)

\* Fault: role handles of any realm are taken.
AnyRealm(r) == TRUE

\* assertRealmRoleOwnership of every role handle, before anything is awaited.
SameRealm(r) == r = realmName

\* What a role handle of realm r may hold: nothing, or a role it was once given
\* by that realm (RoleHandle!ServedRoleIsCurrent).
MayHold(r, n) ==
  {{}} \union {{[realm |-> r, name |-> n, inc |-> i]} : i \in {k \in 0..roles[r][n] : Odd(k)}}

\* assign and unassign of role handles of realm r read what these hold at once.
BeginMapping(p, plan, r) ==
  /\ plan.op \in {"assign", "unassign"}
  /\ call[p].pc \in {"idle", "done"}
  /\ SameRealm(r)
  /\ \E held \in [plan.desired -> UNION {MayHold(r, n) : n \in plan.desired}] :
       /\ \A n \in plan.desired : held[n] \in MayHold(r, n)
       /\ Goes(p, [Idle EXCEPT !.plan = plan, !.pc = "roles", !.asked = realmName,
                               !.todo = {n \in plan.desired : held[n] = {}},
                               !.got = UNION {held[n] : n \in plan.desired}])
  /\ UNCHANGED <<handles, server, edits>>

BeginReconcile(p, plan) ==
  /\ plan.op = "reconcile"
  /\ call[p].pc \in {"idle", "done"}
  /\ Cardinality(plan.desired) <= MaxRoles
  /\ Goes(p, [Idle EXCEPT !.plan = plan, !.pc = "roles", !.todo = Effective(plan)])
  /\ UNCHANGED <<handles, server, edits>>

\* The next role: reconcile's handle is new and of the user's realm as it is now
\* called; assign asks in the realm it began with.
NextRole(p) ==
  /\ call[p].pc = "roles"
  /\ \E n \in call[p].todo :
       LET k == IF call[p].plan.op = "reconcile" /\ call[p].plan.ensure THEN "ensure" ELSE "read"
           r == IF call[p].plan.op = "reconcile" THEN realmName ELSE call[p].asked
       IN  Goes(p, Await(call[p], k, Request(k, r, n, Null, {})))
  /\ UNCHANGED <<handles, server, edits>>

\* ensure() ends by reading the role.
Ensured(p) ==
  /\ Answered(p, "ensure")
  /\ Goes(p, Await(call[p], "read", Request("read", realmName, call[p].req.name, Null, {})))
  /\ UNCHANGED <<handles, server, edits>>

\* Fault: the role stays on the list.
RoleReadAgain(p) ==
  /\ Answered(p, "read")
  /\ \E x \in call[p].ans :
       Goes(p, [Known(call[p], "roles", {Pending}) EXCEPT !.got = @ \union {x}])
  /\ UNCHANGED <<handles, server, edits>>

RoleRead(p) ==
  /\ Answered(p, "read")
  /\ \E x \in call[p].ans :
       Goes(p, [Known(call[p], "roles", {Pending}) EXCEPT
                 !.got = @ \union {x}, !.todo = @ \ {call[p].req.name}])
  /\ UNCHANGED <<handles, server, edits>>

\* requireUser(): the user the handle holds, or a lookup.
RequireUser(c, pc) ==
  IF VisibleUser \in UserRep THEN Known(c, pc, {VisibleUser})
  ELSE Await(c, pc, Request("user", realmName, Null, Null, {}))

ResolvesUser(p) ==
  /\ call[p].pc = "roles" /\ call[p].todo = {}
  /\ InvalidateParentCache
  /\ Goes(p, RequireUser(call[p], "user"))
  /\ UNCHANGED <<server, edits>>

\* The tail of get(): the user is kept, unless the realm was rebound meanwhile.
UserReturns(p) ==
  /\ Answered(p, "user") \/ Answered(p, "again")
  /\ call[p].req # Null
  /\ seen' = RootVersion(realmGen)
  /\ user' = IF Stale THEN Undefined
             ELSE IF call[p].ans = {} THEN Null ELSE CHOOSE u \in call[p].ans : TRUE
  /\ Goes(p, Known(call[p], call[p].pc, IF Stale THEN {} ELSE call[p].ans))
  /\ UNCHANGED <<realmName, realmGen, retargets, server, edits>>

Change(k, c, rs) == Await(c, k, Request(k, realmName, Null, c.user, rs))

\* The user is there: assign and unassign send their request, if they have roles;
\* reconcile calls listAssignedRealmRoles(), which requires the user again.
HasUser(p) ==
  /\ call[p].pc = "user" /\ call[p].req = Null
  /\ \E u \in call[p].ans :
       LET c == [call[p] EXCEPT !.user = u]
       IN  IF c.plan.op = "reconcile"
           THEN InvalidateParentCache /\ Goes(p, RequireUser(c, "again"))
           ELSE /\ UNCHANGED handles
                /\ Goes(p, IF c.got = {} THEN Finished(c)
                           ELSE Change(IF c.plan.op = "assign" THEN "add" ELSE "del", c, c.got))
  /\ UNCHANGED <<server, edits>>

ListsRoles(p) ==
  /\ call[p].pc = "again" /\ call[p].req = Null
  /\ \E u \in call[p].ans :
       Goes(p, Await(call[p], "list", Request("list", realmName, Null, u, {})))
  /\ UNCHANGED <<handles, server, edits>>

\* Fault: roles are revoked first.
RevokesFirst(c, add, remove) ==
  IF remove # {} THEN Change("del", [c EXCEPT !.revoke = add], remove)
  ELSE IF add # {} THEN Change("add", c, add) ELSE Finished(c)

\* Roles are granted, then revoked, each in a request if there are any.
Reconcile(c, add, remove) ==
  IF add # {} THEN Change("add", [c EXCEPT !.revoke = remove], add)
  ELSE IF remove # {} THEN Change("del", c, remove) ELSE Finished(c)

Listed(p) ==
  /\ Answered(p, "list")
  /\ Goes(p, Reconcile(call[p], ToAdd(call[p], call[p].ans), ToRemove(call[p], call[p].ans)))
  /\ UNCHANGED <<handles, server, edits>>

Added(p) ==
  /\ Answered(p, "add")
  /\ Goes(p, IF call[p].revoke = {} THEN Finished(call[p])
             ELSE Change("del", [call[p] EXCEPT !.revoke = {}], call[p].revoke))
  /\ UNCHANGED <<handles, server, edits>>

Removed(p) ==
  /\ Answered(p, "del")
  /\ Goes(p, Finished(call[p]))
  /\ UNCHANGED <<handles, server, edits>>

-----------------------------------------------------------------------------
(* Other administrators: roles, the user, and who has which role.          *)

AdminRole(r, n) ==
  /\ roles[r][n] < MaxIncarnation
  /\ roles' = [roles EXCEPT ![r][n] = @ + 1]
  /\ mapped' = [mapped EXCEPT ![r] = {x \in @ : x.name # n}]
  /\ UNCHANGED users
  /\ call' = Disturb(call, {n}, {})

AdminUser(r) ==
  /\ users[r] < MaxIncarnation
  /\ users' = [users EXCEPT ![r] = @ + 1]
  /\ mapped' = [mapped EXCEPT ![r] = {}]
  /\ UNCHANGED roles
  /\ call' = Disturb(call, Names, {})

AdminMapping(r, n) ==
  /\ Odd(users[r]) /\ Odd(roles[r][n])
  /\ mapped' = [mapped EXCEPT ![r] =
       IF RoleOf(r, n) \in @ THEN @ \ {RoleOf(r, n)} ELSE @ \union {RoleOf(r, n)}]
  /\ UNCHANGED <<roles, users>>
  /\ call' = Disturb(call, {n}, {})

Admin ==
  /\ edits < MaxEdits
  /\ edits' = edits + 1
  /\ \E r \in Realms : AdminUser(r) \/ \E n \in Names : AdminRole(r, n) \/ AdminMapping(r, n)
  /\ UNCHANGED handles

-----------------------------------------------------------------------------
Step(p) ==
  \/ Throw(p) \/ NextRole(p) \/ Ensured(p) \/ RoleRead(p) \/ ResolvesUser(p) \/ UserReturns(p)
  \/ HasUser(p) \/ ListsRoles(p) \/ Listed(p) \/ Added(p) \/ Removed(p)

Next ==
  \/ \E r \in Realms : RebindRealm(r)
  \/ \E p \in Callers :
       \/ \E plan \in Plans : BeginReconcile(p, plan) \/ \E r \in Realms : BeginMapping(p, plan, r)
       \/ Serve(p) \/ Step(p)
  \/ Admin

Spec == Init /\ [][Next]_vars

-----------------------------------------------------------------------------
(* Properties                                                              *)

Call == [plan : Plans \union {NoPlan},
         pc : {"idle", "roles", "ensure", "read", "user", "again", "list", "add", "del", "done"},
         asked : Realms \union {Null}, todo : SUBSET Names, got : SUBSET RoleRep,
         user : UserRep \union {Null}, req : Requests \union {Null},
         ans : SUBSET (RoleRep \union UserRep \union {Pending, Failed}),
         revoke : SUBSET RoleRep, alone : BOOLEAN]

\* Every variable keeps its type; a user has roles of its own realm that exist,
\* and a call asks for one role of a name.
TypeOK ==
  /\ realmName \in Realms /\ realmGen \in 0..retargets
  /\ user \in UserRep \union {Null, Undefined}
  /\ seen \in {RootVersion(g) : g \in 0..realmGen}
  /\ roles \in [Realms -> [Names -> 0..MaxIncarnation]]
  /\ users \in [Realms -> 0..MaxIncarnation]
  /\ mapped \in [Realms -> SUBSET RoleRep]
  /\ \A r \in Realms : \A x \in mapped[r] : x.realm = r /\ Exists(x) /\ Odd(users[r])
  /\ retargets \in 0..MaxRetargets /\ edits \in 0..MaxEdits
  /\ call \in [Callers -> Call]
  /\ \A p \in Callers : Cardinality(call[p].got) + Cardinality(call[p].todo)
                          <= Cardinality(call[p].plan.desired)

\* When a call has returned and nobody else touched the roles it is about, the
\* user has what it asked for: after reconcile every desired role and no other
\* managed one ("Only roles in this set can be removed", user.ts), after assign
\* all, after unassign none.  Other calls may have worked on other
\* roles of the same user all the while.
ReturnedMeansMapped ==
  \A p \in Callers :
    LET plan == call[p].plan
        has  == NamesOf(Held(realmName))
    IN  call[p].pc = "done" /\ call[p].alone =>
          /\ plan.op # "unassign" => Effective(plan) \subseteq has
          /\ plan.op = "unassign" => plan.desired \intersect has = {}
          /\ plan.op = "reconcile" /\ Given(plan) =>
               has \intersect plan.managed = Effective(plan)

\* No call changes a role it was not given: reconcile neither grants an
\* unmanaged name nor revokes one that is desired or unmanaged, whatever others
\* do in between.  It revokes only when every role desired is held: should it
\* fail half-way, the user has lost nothing it is meant to have.
ChangesFollowPlan ==
  [][\A p \in Callers, r \in Realms :
       call[p].pc \in {"add", "del"} /\ call[p].ans = {Pending} /\ call'[p].ans # {Pending} =>
         LET plan    == call[p].plan
             granted == NamesOf(mapped'[r] \ mapped[r])
             revoked == NamesOf(mapped[r] \ mapped'[r])
         IN  /\ granted \subseteq IF plan.op = "unassign" THEN {} ELSE Effective(plan)
             /\ revoked \subseteq CASE plan.op = "assign"    -> {}
                                    [] plan.op = "unassign"  -> plan.desired
                                    [] plan.op = "reconcile" -> Touches(plan) \ plan.desired
             /\ plan.op = "reconcile" /\ call[p].alone /\ revoked # {} =>
                  Effective(plan) \subseteq NamesOf(mapped[r])
    ]_vars

\* A mapping that no rebind or edit crossed names one realm three times: in the
\* request, of the user and of the roles, though role handles of another realm
\* handle may be given: "Cross-realm mappings are not supported by the underlying
\* endpoints and must be rejected before any network mutation" (role-ownership.ts).
MapsOneRealm ==
  \A p \in Callers :
    LET req == call[p].req
    IN  call[p].pc \in {"add", "del"} /\ call[p].alone /\ req # Null =>
          /\ req.user.realm = req.realm
          /\ \A x \in req.roles : x.realm = req.realm
=============================================================================
