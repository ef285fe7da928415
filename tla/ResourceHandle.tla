---------------------------- MODULE ResourceHandle --------------------------
(***************************************************************************)
(* The ten handles that name one resource and keep the representation they *)
(* resolved: client, client scope, identity provider, organization,        *)
(* workflow, component, authentication flow, root group and user of a      *)
(* realm, and the realm itself.  They share the shape of RoleHandle and    *)
(* differ in what this module tells apart: which operations trust the      *)
(* cache, what a lookup asks and filters by, what two holders of one name  *)
(* mean, and how a write is addressed and read back.                       *)
(*                                                                         *)
(* A representation shows two fields: the one the callers set ("mine", the *)
(* caller that wrote it last) and one they leave alone, which other        *)
(* administrators edit ("other", the number of the edit it shows).  An     *)
(* update sends both: the given field over the representation it merges.   *)
(*                                                                         *)
(* The generation of the handle itself, which only its children read, is   *)
(* left to RoleHandle; its realm's is here, since it drops the cache.      *)
(* The places of a call are those of RoleHandle, and                       *)
(*   partner   a dependent operation awaits the other handle it was given  *)
(***************************************************************************)
EXTENDS HandleIdentity, Functions

CONSTANTS
  Kinds,              \* the kinds of handle explored, a subset of AllKinds
  Realms, Names,      \* realm names, resource names
  Ids,                \* ids the server may issue (bounds the creations)
  Callers,            \* concurrent asynchronous calls on the handle
  Usages,             \* ways to use a handle, by name: records of Usage
  Null, Undefined,    \* JavaScript null and undefined
  Pending,            \* the answer of a request still under way
  Failed, Done,       \* a request answered by an error; a mutation done
  Unissued, Gone,     \* ids never issued; ids of deleted resources
  MaxEdits            \* bound on what other administrators do

AllOps == {"get", "getById", "create", "update", "delete", "ensure", "discard",
           "use", "pages", "useThenRead", "link", "linkThenRead", "rewrite", "refresh"}

AllKinds == {"client", "clientScope", "identityProvider", "organization",
             "workflow", "component", "flow", "group", "user", "realm"}

\* What an application does with a handle: by which concurrent calls, with
\* which operations, over which ids (the others were used up before), and how
\* often it retargets (rebind, RealmHandle.rebind, getById).
Usage == [kinds : SUBSET AllKinds, callers : SUBSET Callers, ops : SUBSET AllOps,
          ids : SUBSET Ids, retargets : Nat]

Identity == [realm : Realms, name : Names]

Rep == [id : Ids, realm : Realms, name : Names,
        other : 0..MaxEdits, mine : Callers \union {Null}]

Request == [kind : {"list", "byId", "create", "put", "del", "use", "partner"},
            realm : Realms, name : Names, id : Ids \union {Null},
            key : Names \union {Null}, other : 0..MaxEdits, mine : Callers \union {Null}]

ASSUME ResourceHandleAssumption ==
  /\ Kinds \subseteq AllKinds
  /\ \A u \in DOMAIN Usages : Usages[u] \in Usage
  /\ MaxEdits \in Nat
  /\ {Null, Undefined, Unissued, Gone, Pending, Failed, Done} \intersect Rep = {}
  /\ Null \notin Request \union Ids /\ Undefined # Null
  /\ Pending # Failed /\ Failed # Done /\ Done # Pending

VARIABLES
  usage,              \* how it is used
  kind,               \* which handle this is
  realmName,          \* RealmHandle._realmName
  realmGen,           \* RealmHandle._identityGeneration
  name,               \* _clientId, _scopeName, _alias, _workflowName, ...
  rep,                \* _client, _clientScope, _flow, _workflow, ...
  pin,                \* UserHandle._userId; Null is its undefined
  seen,               \* the parent version parentIdentity saw last
  store,              \* the server's resources of this kind
  retargets,          \* how often the target was moved (history)
  overtaken,          \* the handle was moved while a lookup was under way that
                      \* will be kept in spite of it (history)
  edits,              \* how many things other administrators did (history)
  call                \* what each caller is doing

target == <<usage, kind, realmName, realmGen, retargets, overtaken>>
cache  == <<name, rep, pin, seen>>
server == <<store, edits>>
vars   == <<usage, kind, realmName, realmGen, retargets, overtaken,
            name, rep, pin, seen, store, edits, call>>

Idle == [op |-> "none", pc |-> "idle",
         found |-> Undefined,  \* the resource the operation resolved
         req |-> Null,         \* the request awaited
         ans |-> {Pending},    \* the resources answered, or one of the three marks
         since |-> 0,          \* history: the edits made before the call, while alone
         alone |-> TRUE]       \* history: nobody wrote or retargeted since

-----------------------------------------------------------------------------
(* What tells the handles apart                                            *)
(*   trustsCache       update() and delete() take the cached representation *)
(*                     when there is one; otherwise they look up first      *)
(*   servesCache       get() returns the cached one without a request       *)
(*   filtersLive       the answer is filtered after the await, by the name  *)
(*                     the handle has then, not the one it asked with       *)
(*   refusesAmbiguous  two holders of the name are an error, not a choice   *)
(*   readsUpdateById   update() reads its result back by id, not by name    *)
(*   keyedByName       requests carry the name found, there being no id     *)
(*   namedLive         they carry the name of the handle, and an update puts *)
(*                     the name it found into what it sends                 *)
(*   pinsId            a handle given an id looks it up by that id           *)
(*   asksTwice         a lookup lists by name, then reads what it found by id *)
(*   keepsLate         the parent's version is looked at when an answer is  *)
(*                     there and not before it is asked for, and the answer *)
(*                     is kept whatever became of the parent meanwhile      *)

\* Fault: update() merges into what the cache holds.
IdentityProviderTrustsCache == {"keyedByName", "trustsCache"}

ClientTraits           == {}
ClientScopeTraits      == {"filtersLive"}
IdentityProviderTraits == {"keyedByName"}
OrganizationTraits     == {"trustsCache", "refusesAmbiguous", "readsUpdateById"}
WorkflowTraits         == {"trustsCache", "servesCache", "refusesAmbiguous"}
ComponentTraits        == {"trustsCache", "filtersLive", "refusesAmbiguous"}
FlowTraits             == {"trustsCache"}
GroupTraits            == {"refusesAmbiguous", "asksTwice", "keepsLate"}
UserTraits             == {"filtersLive", "pinsId"}
RealmTraits            == {"keyedByName", "namedLive"}

Traits ==
  [client |-> ClientTraits, clientScope |-> ClientScopeTraits,
   identityProvider |-> IdentityProviderTraits, organization |-> OrganizationTraits,
   workflow |-> WorkflowTraits, component |-> ComponentTraits, flow |-> FlowTraits,
   group |-> GroupTraits, user |-> UserTraits, realm |-> RealmTraits]

Has(trait) == trait \in Traits[kind]

(* The methods that use the resource, by the shape of what they do once it  *)
(* is resolved: one request (use) or one per page (pages), after another    *)
(* handle was resolved too (link), followed by the method that reads the    *)
(* result (thenRead) or by get() (refresh), or a write of the whole         *)
(* representation with some of its fields replaced, then get() (rewrite).   *)

ClientScopeAssignments ==
  [searchRoles |-> "use",
   addDefaultClientScope |-> "link", removeDefaultClientScope |-> "link",
   listDefaultClientScopes |-> "use",
   addOptionalClientScope |-> "link", removeOptionalClientScope |-> "link",
   listOptionalClientScopes |-> "use",
   getSecret |-> "use", regenerateSecret |-> "use", invalidateSecret |-> "use"]

ClientScopeMappings ==
  [listProtocolMappers |-> "use", listProtocolMappersByProtocol |-> "use",
   addProtocolMappers |-> "use", listScopeMappings |-> "use",
   addRealmScopeMappings |-> "link", removeRealmScopeMappings |-> "link",
   listRealmScopeMappings |-> "use", listAvailableRealmScopeMappings |-> "use",
   listCompositeRealmScopeMappings |-> "use"]

ClientRoleScopeMappings ==
  [addClientScopeMappings |-> "link", removeClientScopeMappings |-> "link",
   listClientScopeMappings |-> "link", listAvailableClientScopeMappings |-> "link",
   listCompositeClientScopeMappings |-> "link"]

ClientSessions ==
  [listSessions |-> "use", listOfflineSessions |-> "use",
   listSessionsAll |-> "pages", listOfflineSessionsAll |-> "pages",
   getSessionCount |-> "use", getOfflineSessionCount |-> "use",
   generateRegistrationAccessToken |-> "use", getInstallationProvider |-> "use",
   pushRevocation |-> "use", addClusterNode |-> "use"]

ClientKeys ==
  [removeClusterNode |-> "use", testNodesAvailable |-> "use", getKeyInfo |-> "use",
   generateKey |-> "use", downloadKey |-> "use", generateAndDownloadKey |-> "use",
   uploadKey |-> "use", uploadCertificate |-> "use",
   listPermissions |-> "use", updatePermissions |-> "use"]

ClientResources ==
  [getResourceServer |-> "use", updateResourceServer |-> "useThenRead",
   importResourceServer |-> "use", exportResourceServer |-> "use",
   evaluateAuthorization |-> "use", listResources |-> "use",
   listResourcesAll |-> "pages", getResource |-> "use", createResource |-> "use"]

ClientPolicies ==
  [updateResource |-> "useThenRead", deleteResource |-> "use",
   listAuthorizationPolicies |-> "use", findAuthorizationPolicyByName |-> "use",
   createAuthorizationPolicy |-> "use", getAuthorizationPolicy |-> "use",
   updateAuthorizationPolicy |-> "useThenRead", deleteAuthorizationPolicy |-> "use",
   listDependentAuthorizationPolicies |-> "use"]

ClientAuthorizationScopes ==
  [listAuthorizationPolicyProviders |-> "use", listAuthorizationScopes |-> "use",
   listAuthorizationScopesAll |-> "pages", listAuthorizationPermissionsByScope |-> "use",
   listAuthorizationResourcesByScope |-> "use", getAuthorizationScope |-> "use",
   createAuthorizationScope |-> "use", updateAuthorizationScope |-> "useThenRead",
   deleteAuthorizationScope |-> "use"]

ClientPermissions ==
  [findAuthorizationPermissions |-> "use", getAuthorizationPermission |-> "use",
   createAuthorizationPermission |-> "use", updateAuthorizationPermission |-> "useThenRead",
   deleteAuthorizationPermission |-> "use", getAssociatedAuthorizationScopes |-> "use",
   getAssociatedAuthorizationResources |-> "use", getAssociatedAuthorizationPolicies |-> "use"]

ClientDependents ==
  {ClientScopeAssignments, ClientScopeMappings, ClientRoleScopeMappings,
   ClientSessions, ClientKeys, ClientResources, ClientPolicies,
   ClientAuthorizationScopes, ClientPermissions}

IdentityProviderDependents == [listMappers |-> "use", listMapperTypes |-> "use"]

OrganizationDependents ==
  [listMembers |-> "use", listMembersAll |-> "pages",
   addMember |-> "linkThenRead", removeMember |-> "linkThenRead",
   invite |-> "use", inviteExistingUser |-> "use", listIdentityProviders |-> "use",
   linkIdentityProvider |-> "linkThenRead", unlinkIdentityProvider |-> "linkThenRead"]

ComponentDependents == [listSubComponents |-> "use"]

\* copy() ends with a get() of a new handle, which is that handle's call;
\* updateExecution() of another flow than this one is left out.
FlowDependents ==
  [copy |-> "use", listExecutions |-> "use", addExecution |-> "use",
   addSubFlow |-> "use", updateExecution |-> "useThenRead"]

GroupDependents ==
  [listAssignedUsers |-> "pages", assignRole |-> "link", unassignRole |-> "link",
   listAssignedRoles |-> "use", assignClientRole |-> "link",
   unassignClientRole |-> "link", listAssignedClientRoles |-> "link"]

\* Realm roles are the subject of RoleMapping.  addRequiredAction and
\* removeRequiredAction take the actions from the same cache as the rest.
UserClientRoles ==
  [assignClientRole |-> "link", unassignClientRole |-> "link",
   listAssignedClientRoles |-> "link"]

UserGroups ==
  [assignGroup |-> "link", unassignGroup |-> "link", listAssignedGroups |-> "pages"]

UserAttributes == [reconcileAttributes |-> "rewrite"]

UserRequiredActions ==
  [setRequiredActions |-> "rewrite", addRequiredAction |-> "rewrite",
   removeRequiredAction |-> "rewrite"]

UserRequests ==
  [executeActionsEmail |-> "use", sendVerifyEmail |-> "use",
   listFederatedIdentities |-> "use", linkFederatedIdentity |-> "link",
   unlinkFederatedIdentity |-> "link", listSessions |-> "use",
   listOfflineSessions |-> "link", logoutSessions |-> "use"]

UserDependents ==
  {[resetPassword |-> "refresh", listAssignedRealmRoles |-> "use"],
   UserClientRoles, UserGroups, UserAttributes, UserRequiredActions, UserRequests}

\* updateUserProfile reads the profile, then writes it: two requests as well.
RealmProfile ==
  [getUserProfile |-> "use", getUserProfileMetadata |-> "use",
   updateUserProfile |-> "useThenRead"]

RealmSettings ==
  [partialImport |-> "use", export |-> "use", listDefaultGroups |-> "use",
   addDefaultGroup |-> "linkThenRead", removeDefaultGroup |-> "linkThenRead",
   getEventsConfig |-> "use", updateEventsConfig |-> "useThenRead",
   findEvents |-> "use", clearEvents |-> "use", findAdminEvents |-> "use",
   clearAdminEvents |-> "use"]

RealmAccess ==
  [listClientsInitialAccess |-> "use", createClientsInitialAccess |-> "use",
   deleteClientsInitialAccess |-> "use", getUsersManagementPermissions |-> "use",
   updateUsersManagementPermissions |-> "use", getClientSessionStats |-> "use",
   logoutAllSessions |-> "use", removeSession |-> "use", deleteSession |-> "use",
   pushRevocation |-> "use", getKeys |-> "use", listLocales |-> "use",
   getLocalizationTexts |-> "use", setLocalizationText |-> "useThenRead",
   deleteLocalizationTexts |-> "use"]

RealmSearches ==
  [searchClients |-> "use", searchClientsAll |-> "pages", searchClientScopes |-> "use",
   searchRoles |-> "use", searchRolesAll |-> "pages",
   searchGroups |-> "use", searchGroupsAll |-> "pages"]

RealmUserSearches ==
  [searchUsers |-> "use", searchUsersAll |-> "pages",
   searchIdentityProviders |-> "use"]

RealmOtherSearches ==
  [searchOrganizations |-> "use", searchOrganizationsAll |-> "pages",
   searchAuthenticationFlows |-> "use", searchWorkflows |-> "use"]

RealmDependents ==
  {RealmProfile, RealmSettings, RealmAccess, RealmSearches, RealmUserSearches,
   RealmOtherSearches}

ShapesIn(methods) == UNION {Range(some) : some \in methods}

\* The shapes each kind has; client scope and workflow have no such methods.
ShapesOf ==
  [client |-> ShapesIn(ClientDependents), clientScope |-> {},
   identityProvider |-> Range(IdentityProviderDependents),
   organization |-> Range(OrganizationDependents), workflow |-> {},
   component |-> Range(ComponentDependents), flow |-> Range(FlowDependents),
   group |-> Range(GroupDependents), user |-> ShapesIn(UserDependents),
   realm |-> ShapesIn(RealmDependents)]

Shapes == {"use", "pages", "useThenRead", "link", "linkThenRead", "rewrite", "refresh"}

\* The realm's methods name the realm in their request and resolve nothing.
ResolvesNothing(op) == kind = "realm" /\ op \in Shapes

\* The operations whose last step is a get().
ReadsBack == {"create", "update", "ensure", "rewrite", "refresh"}

\* The operation begins with require*(), or with a get() that reads the cache.
UsesCache(op) ==
  \/ op \in Shapes
  \/ op \in {"update", "delete"} /\ Has("trustsCache")
  \/ Has("servesCache")

\* The server lets two of these have one name (external).
MayShareName == {"organization", "workflow", "component"}

-----------------------------------------------------------------------------
(* The server                                                              *)

Live(s)         == {s[i] : i \in {j \in Ids : s[j] \in Rep}}
Held(s, r, n)   == {x \in Live(s) : x.realm = r /\ x.name = n}
NameFree(r, n)  == kind \in MayShareName \/ Held(store, r, n) = {}
FreshIds        == {i \in Ids : store[i] = Unissued}

Record(i, r, n, other, mine) ==
  [id |-> i, realm |-> r, name |-> n, other |-> other, mine |-> mine]

\* Identity providers are addressed by alias throughout, and flows by alias in
\* the requests about their executions.
ByKey(req) == Has("keyedByName") \/ (kind = "flow" /\ req.kind = "use")

\* The resource a mutation or a dependent request is about.
Addressed(req) ==
  {x \in Live(store) : /\ x.realm = req.realm
                       /\ IF ByKey(req) THEN x.name = req.key ELSE x.id = req.id}

\* The stores a mutation may leave when it succeeds; none when refused.
Applied(req) ==
  CASE req.kind = "create" ->
         IF FreshIds = {} \/ ~NameFree(req.realm, req.name) THEN {}
         ELSE LET i == CHOOSE i \in FreshIds : TRUE
              IN  {[store EXCEPT ![i] = Record(i, req.realm, req.name, 0, req.mine)]}
    [] req.kind = "put" ->
         {[store EXCEPT ![x.id] = Record(x.id, req.realm, req.name, req.other, req.mine)] :
            x \in {y \in Addressed(req) : y.name = req.name \/ NameFree(req.realm, req.name)}}
    [] req.kind = "del" -> {[store EXCEPT ![x.id] = Gone] : x \in Addressed(req)}
    [] OTHER -> {store : x \in Addressed(req)}

\* <<store afterwards, answer>>: a request may fail before it is handled, and
\* a mutation may be applied and its answer be lost.
Outcomes(req) ==
  {<<store, {Failed}>>} \union
  CASE req.kind = "list" ->
         {<<store, IF kind = "clientScope" THEN {x \in Live(store) : x.realm = req.realm}
                                           ELSE Held(store, req.realm, req.name)>>}
    [] req.kind = "byId" -> {<<store, {x \in Live(store) : x.realm = req.realm /\ x.id = req.id}>>}
    [] req.kind = "partner" -> {<<store, {Done}>>}
    [] OTHER -> Applied(req) \X {{Done}, {Failed}}

-----------------------------------------------------------------------------
(* Identity and cache                                                      *)

Stale      == ParentMoved(seen, RootVersion(realmGen))
VisibleRep == IF Stale THEN Undefined ELSE rep
VisiblePin == IF Stale THEN Null ELSE pin

\* Fault: the version after the parent's is noted.
InvalidateAhead ==
  /\ seen' = RootVersion(realmGen + 1)
  /\ rep' = VisibleRep
  /\ pin' = VisiblePin

InvalidateParentCache ==
  /\ seen' = RootVersion(realmGen)
  /\ rep' = VisibleRep
  /\ pin' = VisiblePin

\* Which of the resources answered the handle takes for its own.
Matches(p) ==
  IF Has("filtersLive") /\ call[p].req.kind = "list"
  THEN {x \in call[p].ans : x.name = name}
  ELSE call[p].ans

Ambiguous(p) == Has("refusesAmbiguous") /\ \E x, y \in Matches(p) : x # y

Taken(p) == IF Matches(p) = {} THEN Null ELSE CHOOSE x \in Matches(p) : TRUE

\* The code after the await of get() and getById(): see RoleHandle.WriteBack.
\* A user looked up by id is known by it from then on, found or not.
WriteBack(p, one) ==
  /\ name' = IF one # Null THEN one.name ELSE name
  /\ seen' = RootVersion(realmGen)
  /\ rep' = IF Stale /\ ~Has("keepsLate") THEN Undefined ELSE one
  /\ pin' = IF Stale THEN Null
            ELSE IF Has("pinsId") /\ call[p].req.kind = "byId" THEN call[p].req.id ELSE pin

Got(one) == IF Stale /\ ~Has("keepsLate") THEN Null ELSE one

-----------------------------------------------------------------------------
(* Calls                                                                   *)

Move(p, pc, found, req) ==
  [call EXCEPT ![p] = [op |-> call[p].op, pc |-> pc, found |-> found, req |-> req,
                       ans |-> {Pending}, since |-> call[p].since, alone |-> call[p].alone]]

Finish(p) == call' = [call EXCEPT ![p] = Idle]

\* The calls under way, but for those of "me", are no longer alone.
Disturb(calls, me) ==
  [q \in Callers |-> IF q \in me \/ calls[q].pc = "idle" THEN calls[q]
                     ELSE [calls[q] EXCEPT !.alone = FALSE, !.since = 0]]

Init ==
  /\ usage \in DOMAIN Usages
  /\ kind \in Kinds \intersect Usages[usage].kinds
  /\ realmName \in Realms
  /\ realmGen = 0
  /\ name \in Names
  /\ rep = IF kind = "group" THEN Null ELSE Undefined
  /\ pin = Null
  /\ retargets = 0
  /\ overtaken = FALSE
  /\ seen = RootVersion(0)
  /\ \E held \in [Ids -> Identity \union {Unissued}] :
       /\ \A i, j \in Ids :
            i # j /\ held[i] = held[j] => held[i] = Unissued \/ kind \in MayShareName
       /\ \A i \in Ids \ Usages[usage].ids : held[i] = Unissued
       /\ store = [i \in Ids |-> IF i \notin Usages[usage].ids THEN Gone
                                 ELSE IF held[i] = Unissued THEN Unissued
                                 ELSE Record(i, held[i].realm, held[i].name, 0, Null)]
  /\ edits = 0
  /\ call = [p \in Callers |-> Idle]

CountRetarget ==
  /\ retargets < Usages[usage].retargets
  /\ retargets' = retargets + 1

\* rebind of the handle.
Rebind(n) ==
  /\ CountRetarget
  /\ n # name
  /\ name' = n
  /\ rep' = Undefined
  /\ pin' = Null
  /\ call' = Disturb(call, {})
  /\ UNCHANGED <<usage, kind, realmName, realmGen, overtaken, seen, server>>

\* An answer that the parent overtook is dropped, unless a group's, or unless
\* another call noticed the parent first.
KeepsOvertaken(p) == Has("keepsLate") \/ Usages[usage].callers \ {p} # {}

\* RealmHandle.rebind.
RebindRealm(r) ==
  /\ kind # "realm"
  /\ CountRetarget
  /\ r # realmName
  /\ realmName' = r
  /\ realmGen' = realmGen + 1
  /\ overtaken' = (overtaken \/ \E p \in Callers : call[p].pc # "idle" /\ KeepsOvertaken(p))
  /\ call' = Disturb(call, {})
  /\ UNCHANGED <<usage, kind, cache, server>>

-----------------------------------------------------------------------------
(* Requests: the realm and the name are read when a request is sent, the   *)
(* id and the untouched fields come from the resource resolved earlier.    *)

Send(k, i, key, other, mine) ==
  [kind |-> k, realm |-> realmName, name |-> name, id |-> i, key |-> key,
   other |-> other, mine |-> mine]

Key(one) == IF Has("namedLive") THEN name ELSE one.name

List        == Send("list", Null, Null, 0, Null)
ById(i)     == Send("byId", i, Null, 0, Null)

\* Fault: get() forgets the id the handle was given.
LookupByName == List

\* get() asks by the id the handle was given, if any.
Lookup == IF VisiblePin # Null THEN ById(VisiblePin) ELSE List

Create(p)   == Send("create", Null, Null, 0, p)
Put(p, one) == [Send("put", one.id, Key(one), one.other, p) EXCEPT
                  !.name = IF Has("namedLive") THEN one.name ELSE name]
Del(one)    == Send("del", one.id, Key(one), 0, Null)
Use(one)    == Send("use", IF one = Undefined THEN Null ELSE one.id, Key(one), 0, Null)
Partner     == Send("partner", Null, Null, 0, Null)

\* The closures given to the retry loop that take realm and name from the
\* handle; the others got them as arguments.
Rereads(req) ==
  \/ kind = "clientScope" /\ req.kind \in {"list", "byId"}
  \/ kind \in {"component", "realm"} /\ req.kind = "list"
  \/ kind \notin {"identityProvider", "user"} /\ req.kind = "use"

Reread(req) == [req EXCEPT !.realm = realmName, !.name = name,
                           !.key = IF Has("namedLive") THEN name ELSE @]

\* A read that failed is sent again.
Resend(p) ==
  /\ call[p].pc \notin {"idle", "looked"}
  /\ call[p].ans = {Pending}
  /\ Rereads(call[p].req)
  /\ <<realmName, name>> # <<call[p].req.realm, call[p].req.name>>
  /\ call' = [call EXCEPT ![p].req = Reread(@)]
  /\ UNCHANGED <<target, cache, server>>

Serve(p) ==
  /\ call[p].pc \notin {"idle", "looked"}
  /\ call[p].ans = {Pending}
  /\ \E outcome \in Outcomes(call[p].req) :
       LET answered == [call EXCEPT ![p].ans = outcome[2]]
       IN  /\ store' = outcome[1]
           /\ call' = IF outcome[1] = store THEN answered ELSE Disturb(answered, {p})
  /\ UNCHANGED <<target, cache, edits>>

Answered(p, pcs) == call[p].pc \in pcs /\ call[p].ans \notin {{Pending}, {Failed}}

\* A request failed, or its answer names more than one resource.
Throw(p) ==
  /\ call[p].pc \notin {"idle", "looked"}
  /\ call[p].ans = {Failed} \/ (Answered(p, {"lookup", "final"}) /\ Ambiguous(p))
  /\ Finish(p)
  /\ UNCHANGED <<target, cache, server>>

-----------------------------------------------------------------------------
(* Operations                                                              *)

\* get() and getById() look at the parent's version before they ask.
LookAtParent == IF Has("keepsLate") THEN UNCHANGED <<rep, pin, seen>> ELSE InvalidateParentCache

\* Fault: a cached null counts as an answer.
ResolveFromNull(p, op, since, alone) ==
  /\ InvalidateParentCache
  /\ call' = [call EXCEPT ![p] =
       IF UsesCache(op) /\ VisibleRep # Undefined
       THEN [op |-> op, pc |-> "looked", found |-> VisibleRep, req |-> Null,
             ans |-> {Pending}, since |-> since, alone |-> alone]
       ELSE [op |-> op, pc |-> "lookup", found |-> Undefined, req |-> Lookup,
             ans |-> {Pending}, since |-> since, alone |-> alone]]
  /\ UNCHANGED <<name, target, server>>

\* get(), or a require*() in its place: the cache if it may answer, a lookup
\* otherwise.
Resolve(p, op, since, alone) ==
  /\ IF UsesCache(op) THEN InvalidateParentCache ELSE LookAtParent
  /\ call' = [call EXCEPT ![p] =
       IF ResolvesNothing(op)
       THEN [op |-> op, pc |-> "looked", found |-> Undefined, req |-> Null,
             ans |-> {Pending}, since |-> since, alone |-> alone]
       ELSE IF UsesCache(op) /\ VisibleRep \in Rep
       THEN [op |-> op, pc |-> "looked", found |-> VisibleRep, req |-> Null,
             ans |-> {Pending}, since |-> since, alone |-> alone]
       ELSE [op |-> op, pc |-> "lookup", found |-> Undefined, req |-> Lookup,
             ans |-> {Pending}, since |-> since, alone |-> alone]]
  /\ UNCHANGED <<name, target, server>>

\* create() refuses a user that was given by id before it looks anything up.
Begin(p, op) ==
  /\ p \in Usages[usage].callers /\ op \in Usages[usage].ops
  /\ op \in Shapes => op \in ShapesOf[kind]
  /\ op = "create" => pin = Null
  /\ call[p].pc = "idle"
  /\ Resolve(p, op, edits, TRUE)

BeginGetById(p, i) ==
  /\ p \in Usages[usage].callers /\ "getById" \in Usages[usage].ops
  /\ kind \notin {"identityProvider", "realm"}
  /\ call[p].pc = "idle"
  /\ CountRetarget
  /\ LookAtParent
  /\ call' = [call EXCEPT ![p] = [op |-> "getById", pc |-> "lookup", found |-> Undefined,
                req |-> ById(i), ans |-> {Pending}, since |-> edits, alone |-> TRUE]]
  /\ UNCHANGED <<usage, kind, realmName, realmGen, overtaken, name, server>>

\* A group listed by name is read by id, in the realm it was listed in.
AsksAgain(p) == /\ Has("asksTwice") /\ call[p].req.kind = "list"
                /\ ~Ambiguous(p) /\ Matches(p) # {}

ReadById(p) ==
  /\ Answered(p, {"lookup", "final"})
  /\ AsksAgain(p)
  /\ call' = [call EXCEPT ![p].req.kind = "byId", ![p].req.id = Taken(p).id,
                          ![p].ans = {Pending}]
  /\ UNCHANGED <<target, cache, server>>

\* The tail of get() and getById().  A handle that is moved to another name or
\* id disturbs the calls of the others; and overtakes them if it is an id, which
\* stays when they return.
GetReturns(p) ==
  /\ Answered(p, {"lookup", "final"})
  /\ ~Ambiguous(p) /\ ~AsksAgain(p)
  /\ WriteBack(p, Taken(p))
  /\ LET moved == IF call[p].pc = "final" \/ call[p].op \in {"get", "getById"}
                  THEN [call EXCEPT ![p] = Idle]
                  ELSE Move(p, "looked", Got(Taken(p)), Null)
     IN  call' = IF name' = name /\ pin' = pin THEN moved ELSE Disturb(moved, {p})
  /\ overtaken' = (overtaken \/ (pin' # pin /\ \E q \in Callers \ {p} : call[q].pc # "idle"))
  /\ UNCHANGED <<usage, kind, realmName, realmGen, retargets, server>>

\* The request of each operation once it knows the resource; none when it
\* returns or throws instead.
NextRequest(p, op, one) ==
  CASE op = "create" -> IF one = Null THEN {Create(p)} ELSE {}
    [] op = "update" -> IF one = Null THEN {} ELSE {Put(p, one)}
    [] op = "ensure" -> IF one = Null THEN {Create(p)} ELSE {Put(p, one)}
    [] op \in {"delete", "discard"} -> IF one = Null THEN {} ELSE {Del(one)}
    [] op \in {"use", "pages", "useThenRead", "refresh"} ->
         IF one = Null THEN {} ELSE {Use(one)}
    [] op = "rewrite" -> IF one = Null THEN {} ELSE {Put(p, one)}
    [] op \in {"link", "linkThenRead"} -> IF one = Null THEN {} ELSE {Partner}
    [] op = "get" -> {}

Resume(p) ==
  /\ call[p].pc = "looked"
  /\ LET reqs == NextRequest(p, call[p].op, call[p].found)
     IN  \/ /\ reqs = {}
            /\ Finish(p)
         \/ \E req \in reqs :
              call' = Move(p, IF req.kind = "partner" THEN "partner" ELSE "write",
                           call[p].found, req)
  /\ UNCHANGED <<target, cache, server>>

\* The other handle of addMember, addDefaultClientScope, ... is resolved.
PartnerResolved(p) ==
  /\ Answered(p, {"partner"})
  /\ call' = Move(p, "write", call[p].found, Use(call[p].found))
  /\ UNCHANGED <<target, cache, server>>

\* Fault: a write is not read back.
NoReadBack(p) ==
  /\ Answered(p, {"write"})
  /\ call[p].op \in ReadsBack
  /\ Finish(p)
  /\ UNCHANGED <<target, cache, server>>

\* ensure() of a realm with a user profile reads and writes that next.
EnsureProfile(p) ==
  /\ Answered(p, {"write"})
  /\ \/ /\ kind = "realm" /\ call[p].op = "ensure"
        /\ call' = [Move(p, "write", call[p].found, Use(Undefined)) EXCEPT ![p].op = "profile"]
     \/ /\ call[p].op = "profile"
        /\ call' = [Move(p, "write", call[p].found, Use(Undefined)) EXCEPT ![p].op = "refresh"]
  /\ UNCHANGED <<target, cache, server>>

\* The writes end with a get(), except that the organization reads its update
\* back by id; a workflow in the cache is served from there.
ReadBack(p) ==
  /\ Answered(p, {"write"})
  /\ call[p].op \in ReadsBack
  /\ IF UsesCache("get") THEN InvalidateParentCache ELSE LookAtParent
  /\ call' =
       IF UsesCache("get") /\ VisibleRep \in Rep THEN [call EXCEPT ![p] = Idle]
       ELSE Move(p, "final", call[p].found,
                 IF Has("readsUpdateById") /\ call[p].op = "update"
                 THEN ById(call[p].found.id) ELSE Lookup)
  /\ UNCHANGED <<name, target, server>>

\* addMember, updateResource, ... end by calling the method that reads.
ReadDependent(p) ==
  /\ Answered(p, {"write"})
  /\ call[p].op \in {"useThenRead", "linkThenRead"}
  /\ Resolve(p, "use", call[p].since, call[p].alone)

Deleted(p) ==
  /\ Answered(p, {"write"})
  /\ call[p].op \in {"delete", "discard"}
  /\ rep' = Null
  /\ seen' = IF Has("keepsLate") THEN RootVersion(realmGen) ELSE seen
  /\ Finish(p)
  /\ UNCHANGED <<name, pin, target, server>>

\* The closure fetchAll calls for every page keeps the id resolved first.
NextPage(p) ==
  /\ Answered(p, {"write"})
  /\ call[p].op = "pages"
  /\ call' = Move(p, "write", call[p].found, Use(call[p].found))
  /\ UNCHANGED <<target, cache, server>>

Used(p) ==
  /\ Answered(p, {"write"})
  /\ call[p].op \in {"use", "pages", "link"}
  /\ Finish(p)
  /\ UNCHANGED <<target, cache, server>>

-----------------------------------------------------------------------------
(* Other administrators: an edit of a field the callers leave alone, or a  *)
(* creation, renaming or deletion.                                         *)

AdminEdits(i) ==
  /\ store[i] \in Rep
  /\ store' = [store EXCEPT ![i].other = edits + 1]
  /\ call' = call

AdminReplaces(i) ==
  /\ \E r \in Realms, n \in Names :
       \/ /\ store[i] = Unissued
          /\ NameFree(r, n)
          /\ store' = [store EXCEPT ![i] = Record(i, r, n, edits + 1, Null)]
       \/ /\ store[i] \in Rep
          /\ n # store[i].name
          /\ NameFree(store[i].realm, n)
          /\ store' = [store EXCEPT ![i] =
                         Record(i, store[i].realm, n, edits + 1, store[i].mine)]
       \/ /\ store[i] \in Rep
          /\ store' = [store EXCEPT ![i] = Gone]
  /\ call' = Disturb(call, {})

Admin ==
  /\ edits < MaxEdits
  /\ edits' = edits + 1
  /\ \E i \in Ids : AdminEdits(i) \/ AdminReplaces(i)
  /\ UNCHANGED <<target, cache>>

-----------------------------------------------------------------------------
Step(p) ==
  \/ Throw(p) \/ ReadById(p) \/ GetReturns(p) \/ Resume(p) \/ PartnerResolved(p)
  \/ EnsureProfile(p) \/ ReadBack(p) \/ ReadDependent(p) \/ NextPage(p) \/ Deleted(p) \/ Used(p)

Next ==
  \/ \E n \in Names : Rebind(n)
  \/ \E r \in Realms : RebindRealm(r)
  \/ \E p \in Callers :
       \/ \E op \in AllOps \ {"getById"} : Begin(p, op)
       \/ \E i \in Ids : BeginGetById(p, i)
       \/ Serve(p) \/ Resend(p)
       \/ Step(p)
  \/ Admin

Spec == Init /\ [][Next]_vars

-----------------------------------------------------------------------------
(* Properties                                                              *)

Call == [op : AllOps \union {"profile", "none"},
         pc : {"idle", "lookup", "looked", "partner", "write", "final"},
         found : Rep \union {Null, Undefined},
         req : Request \union {Null},
         ans : SUBSET (Rep \union {Pending, Failed, Done}),
         since : 0..MaxEdits,
         alone : BOOLEAN]

\* Every variable keeps its type, and the ids name their own resources.
TypeOK ==
  /\ usage \in DOMAIN Usages /\ kind \in Kinds
  /\ realmName \in Realms /\ name \in Names
  /\ retargets \in 0..Usages[usage].retargets /\ realmGen \in 0..retargets
  /\ overtaken \in BOOLEAN
  /\ rep \in Rep \union {Null, Undefined}
  /\ pin \in IF Has("pinsId") THEN Ids \union {Null} ELSE {Null}
  /\ seen \in {RootVersion(g) : g \in 0..realmGen}
  /\ store \in [Ids -> Rep \union {Unissued, Gone}]
  /\ \A i \in Ids : store[i] \in Rep => store[i].id = i
  /\ edits \in 0..MaxEdits
  /\ call \in [Callers -> Call]

Serves(p) == call[p].ans = {Pending} /\ call'[p].ans # {Pending}

\* The server handles a write of caller p, and what an administrator edited
\* before the call began is replaced by an older version.
Undoes(p) ==
  \E i \in Ids : /\ store[i] \in Rep /\ store'[i] \in Rep
                 /\ store'[i].other < store[i].other
                 /\ store[i].other <= call[p].since
                 /\ Serves(p)

LooksUpFirst(op) ==
  \/ op = "update" /\ kind \in {"client", "clientScope", "identityProvider",
                                "group", "user", "realm"}
  \/ op = "ensure" /\ kind # "workflow"

\* An update() or ensure() that looks its resource up, and that nothing
\* crossed, sends back every field it was not given as it was when the call
\* began: only an edit made during the call can be undone.
LookedUpUpdatesKeepEdits ==
  [][\A p \in Callers : call[p].alone /\ LooksUpFirst(call[p].op) => ~Undoes(p)]_vars

\* The same of every handle: "The update path preserves unspecified fields by
\* merging your partial input into the current workflow representation"
\* (workflow.mdx), the current one being the server's.
UpdatesKeepEdits ==
  [][ \A p \in Callers : call[p].alone => ~Undoes(p) ]_vars

\* create(), update(), ensure() and the methods that rewrite the representation,
\* when nothing crossed them, leave the handle with what they wrote.  Not so if
\* a workflow was cached when it was written, which stays (its get() "returns the
\* cache"), nor if a user was created through a handle of an id.
WritesAreServed ==
  [][ \A p \in Callers :
        /\ call[p].alone
        /\ call[p].op \in {"create", "update", "ensure", "rewrite"}
        /\ Answered(p, {"write", "final"}) /\ ~AsksAgain(p)
        /\ call'[p].pc = "idle"
        /\ ~(overtaken /\ UsesCache(call[p].op))
        /\ ~(kind = "workflow" /\ call[p].pc = "write" /\ rep \in Rep)
        /\ ~(pin \in Ids /\ call[p].found = Null)
        /\ ~(call[p].pc = "final" /\ Ambiguous(p))
        => rep' \in Rep /\ rep'.mine = p ]_vars

\* create() and ensure() that nothing crossed never add a second resource of
\* one name, though the server would let them: a repeated call finds what the
\* first one created, even when its answer was lost.
NothingCreatedTwice ==
  [][ \A p \in Callers, i \in Ids :
        /\ store[i] = Unissued /\ store'[i] \in Rep
        /\ Serves(p) /\ call[p].alone
        => Held(store, store'[i].realm, store'[i].name) = {} ]_vars

\* A write that nothing crossed goes to the realm the handle names, and to a
\* resource that was found there under the handle's name; a user handle that was
\* given an id writes to the user with that id, whatever the users are called by
\* now.  A handle may keep what it looked up before it was moved (overtaken): a
\* group's does, see GroupsFollowRealm, and all do that several calls share.
WritesHitTarget ==
  \A p \in Callers :
    call[p].pc = "write" /\ call[p].alone /\ ~overtaken =>
      /\ call[p].req.realm = realmName
      /\ call[p].found \in Rep =>
           call[p].found.name = name /\ call[p].found.realm = realmName
      /\ pin \in Ids => call[p].req.id \in {pin, Null}

\* The same of groups whose realm was rebound during a lookup: "Child handles ...
\* notice the parent-generation change, clear any cached representation from
\* the old parent, and re-resolve on their next operation" (handle-identity.mdx).
GroupsFollowRealm ==
  \A p \in Callers :
    call[p].pc = "write" /\ call[p].alone /\ call[p].found \in Rep =>
      call[p].found.realm = realmName

\* A handle that was given an id adds no user: "Cannot create user from ID
\* handle" (user.ts), the error of create().
IdHandlesCreateNothing ==
  \A p \in Callers :
    call[p].pc = "write" /\ call[p].alone /\ pin \in Ids => call[p].req.kind # "create"
=============================================================================
