# keycloak-fluent in TLA+

`src/src` is a TypeScript library of *fluent handles* over the Keycloak admin
REST API: `client.realm('r').role('admin').ensure({...})`. This directory holds
its specification: modules that follow the code action by action, TLC
configurations that check them on small instances, and proofs that TLAPS checks
for every instance.

    tlc -workers 2 -config RoleHandleShared.cfg MCRoleHandle     # one run
    tlapm RoleHandleProofs.tla                                   # one proof module

`PROJECT.json` lists the runs, what each definition stands for (`map`), the
hazards the properties are aimed at, the disagreements found between code and
documentation, and the theorems.

## 1. The system

Everything runs on one JavaScript thread. What is atomic is the code between
two `await`s; everything else (other calls on the same handle, rebinds, other
administrators, lost answers, the death of the process) can happen in between.
The server is Keycloak; nothing in the library locks, and there are no
transactions.

| Component | State it keeps | Operations | What is hard |
|---|---|---|---|
| Identity contract (`utils/handle-identity.ts`) | a generation per handle, the parent version a child saw last | version, compare | a child learns of a parent's rebind only when it looks |
| Realm handle (`realm.ts`) | name, generation, cached realm | rebind, CRUD, lists, user profile | parent of every other handle |
| Role handle (`role.ts`) | name, generation, cached role | get, getById, create, update, delete, ensure, discard, rebind, composites | answers that arrive after a retarget; ids resolved before one await and used after the next |
| User handle (`user.ts`) | name or id, cached user | CRUD with a password, role/group/identity assignment, reconcileRealmRoles, reconcileAttributes | three requests per account, rollback, retry |
| Group handles (`groups/*`) | name, cached group, parent handle | CRUD in a tree, role assignment | two-request lookups, parents resolved twice in one operation, polling after create |
| Client and client-role handles (`clients/*`, `client-role.ts`) | clientId, cached client; role | CRUD, secrets, scopes, resources, policies | a child writes the resolved client back into its parent |
| Protocol mappers (`protocol-mappers/*`) | name, cached mapper | CRUD | the same write-back |
| Client scopes, identity providers, their mappers | name or alias, cache | CRUD | as the role handle |
| Organizations, workflows, components (`organization.ts`, `workflow.ts`, `component.ts`) | name, cache | CRUD | merge bases and answers from the cache; names that are not unique |
| Authentication flows (`authentication-flow.ts`) | alias, cache | CRUD, executions | several requests for one change |
| Ownership guards (`utils/*-ownership.ts`) | none | reject handles of another realm or client | checked before the awaits of what they guard |
| Retry loop (`utils/retry.ts`) | attempt counter, last error, timer | retry, two transient entries | replays, aborts between any two callbacks |
| Page fetching (`utils/fetch-all.ts`) | offset, rows, last page | fetchAll, fetchAllStream | lists that change between pages, endpoints that cap or ignore the offset |
| Managed authentication (`managed-client.ts`) | the authentication under way, the token | getAccessToken | single flight, failed attempts, rotation |
| Fluent client (`index.ts`) | the token, the realm handles | authentication forms, `realm()` | |
| Single-page queries, facades, types | none | one request each | integer boundaries |

How they interact: a handle holds its parent handle and takes the realm's (or
client's) name from it when it sends a request; it caches the last
representation it received, and drops it when the parent's version changed
since it last looked. Every request goes through the retry loop (reads and
lookups are replayed, mutations are not), and list operations through
`fetchAll`. The managed client gives each request its token.

For each component, what makes it correct:

- handles: what is served from the cache belongs to the current target; a write
  goes to what was looked up; the version tells two targets apart;
- children: what is written or served was found under the parent the handles now
  name, though the parent is resolved before the child and again for it;
- role mappings: a reconciliation that returns leaves what was asked for, grants
  before it revokes, and touches nothing else;
- provisioning: no failure of a creation leaves an account usable without its
  password (that of a retry can, finding 4), and nobody is told of a success then;
  what is reported is so; retrying gets to what was asked for;
- retry: a mutation is never replayed; nothing runs after an abort; the caller learns
  which error was the last, and whether it cancelled (though not the status of a
  cancelled error, section 5);
- single pages: every row is asked for once, within the safe integers;
- fetching: complete, in order and without repetition as far as an offset can
  give that; bounded; terminates;
- authentication: one at a time, from fresh credentials; a failure leaves
  nothing behind.

The hazards behind these, with their lines, are in `PROJECT.json`.

## 2. Modules

| Module | Models | Composes |
|---|---|---|
| `HandleIdentity` | `utils/handle-identity.ts` | |
| `HandleContract` | the abstract promise of a handle: it serves its target, and its epoch grows with every retarget | |
| `AdminRegistry` | the server's side of one kind of resource, and the outcomes of one request (external) | |
| `RoleHandle` | `role.ts` and the rebind of `realm.ts` | `HandleIdentity`, `AdminRegistry`, implements `HandleContract` |
| `ResourceHandle` | `clients/client.ts`, `client-scope.ts`, `identity-provider.ts`, `organization.ts`, `workflow.ts`, `component.ts`, `authentication-flow.ts`, `groups/group.ts`, `user.ts`, `realm.ts` | `HandleIdentity` |
| `ChildHandle` | `client-role.ts`, `protocol-mappers/*`, `identity-provider-mapper.ts`, `groups/child-group.ts`, `groups/nested-child-group.ts`, each with its parent and realm | `HandleIdentity` (three levels) |
| `RoleMapping` | the realm roles of `user.ts` and their ownership guard | `HandleIdentity`; rests on what `RoleHandle` promises |
| `UserProvisioning` | create, update, ensure of `user.ts` | |
| `SinglePageQuery` | `utils/single-page-query.ts` | |
| `Retry` | `utils/retry.ts` | |
| `FetchAll` | `utils/fetch-all.ts` | |
| `ManagedAuth` | `managed-client.ts` over `simpleAuth` | |
| `MC*` | the instances TLC checks | the module of that name; `MCPaging` has `FetchAll` and `SinglePageQuery`, of which one is at rest |
| `*Proofs` | theorems about the module of that name; `PagingProofs` about `FetchAll` and `SinglePageQuery` | `TLAPS` |

Operators marked `Fault:` are not part of any specification. Each is the form a
definition would have after a plausible mistake; `PROJECT.json` (`mutants`)
pairs each with the property that has to catch it.

### RoleHandle

A caller is an asynchronous call on the handle: `idle`, at its leading `lookup`,
`looked` (that get has answered, and the code after its await has not run yet),
at its `write`, or at its `final` get. Each action is the code between two
awaits: `BeginGet` is everything up to the request of `get()`, `GetReturns` the
whole tail of `get()`/`getById()` (cache, adopt the name, count the generation,
and the invalidation hidden in the trailing read of `this.role`), `Resume` the
decision of the operation on what was found, `ReadBack`, `Deleted` and `Listed`
what follows the mutation. `Serve` is the server: any request may fail, and a
mutation may be applied and its answer lost. `ReadRole` is a read of `handle.role`
or `handle.identityVersion`, which is not pure. A mutation takes realm and name
from the handle when it is sent, its id from the representation found before;
exactly this is what `WriteMatchesLookup` is about. The four composite
operations share one shape, an optional lookup and one request, which
`listRealmComposites` stands for.

`OverlapRetarget` says whether the application may retarget the handle (rebind,
a realm rebind, getById) while one of its own operations is in flight. With
`FALSE` the handle implements its contract. With `TRUE` it does not (section 5).

### ResourceHandle

Ten handles repeat one protocol with small differences, and the differences
are where they go wrong. The module has the protocol once, and a variable `kind`,
fixed in `Init`, that says which handle it is. What tells the kinds apart are ten
traits:

| Trait | Kinds | What it says |
|---|---|---|
| `trustsCache` | organization, workflow, component, flow | update and delete begin with `require...()`, which answers from the cache; the others look up |
| `servesCache` | workflow | so does `get()` itself |
| `filtersLive` | client scope, component, user | the answer is filtered after the await, by the name the handle has by then |
| `refusesAmbiguous` | organization, workflow, component, group | two holders of a name are an error, not a choice |
| `readsUpdateById` | organization | update reads its result back by id |
| `keyedByName` | identity provider, realm | requests carry the name found, there being no id |
| `namedLive` | realm | requests carry the name the handle has when they are sent |
| `pinsId` | user | a handle given an id looks it up by that id |
| `asksTwice` | group | a lookup lists by name, then reads what it found by id |
| `keepsLate` | group | the parent's version is looked at when the answer is there, and the answer is kept |

The methods that use a resource once it is resolved (members, scope mappings,
sessions, keys, authorization resources and policies, executions, searches) are
listed by name with the shape of what they do: one request (`use`), a page at a
time with the id resolved first (`pages`), after another handle was resolved
(`link`), with a read at the end (`...ThenRead`), a write of the whole
representation with some fields replaced (`rewrite`), or a request followed by
`get()` (`refresh`). Methods of one shape take the same steps, so a run explores
each shape a kind has.

A representation shows who of the callers wrote it last and which edit of the
other administrators it holds: enough to tell a merge base from what the server
has. `alone` is a ghost of each call: no other write, rename or retarget happened
since it began. Edits of fields the callers leave alone do not end it; they are
what `LookedUpUpdatesKeepEdits` is about. `overtaken` is a ghost, too: the handle
was moved while a lookup was under way whose answer it keeps all the same. A group's
handle does that whenever its realm is rebound (`keepsLate`), the others when a second
call noticed the rebind first, or pinned an id (`KeepsOvertaken`, `GetReturns`).
`Resend` is a read that the retry
loop sends again: some closures take realm and name from the handle each time.

### ChildHandle

Three levels with a tracker between each two, for six kinds of child. A call goes
through `parent` (the operation resolves the parent first), `get` (get() resolves
it again), `lookup`, `looked`, `write`, and a last `get`; groups add `again`
(create resolves the parent it creates under) and `sleep` (polling). Resolving
answers from the parent's cache, or looks the parent up and, but for nested
groups, leaves it in that cache (`SetResolved` is `_setResolvedClient` and its
like), which may rename the parent and so count a generation that the child
itself has to notice. The update of a group is a POST under its parent, and the
server moves there what it is given the id of; `WritesUnderParent` therefore asks
for a child found under the very parent the write names. Only the mappers of an
identity provider are addressed by its alias: a provider deleted and made anew under
the same alias while a call is under way is the parent the write reaches, and the
mapper listed there is the one to write, whichever provider was resolved before. For
them the property asks that the child was found under the alias and realm named now
(`one.of`). `of` and `overtaken` are ghosts.

### RoleMapping

Several calls of assignRealmRoles, unassignRealmRoles and reconcileRealmRoles on one
user handle, request by request: each desired role made (`ensureMissing`) and
read, the user, the roles the user has, one request that grants and one that
revokes. Roles and users are incarnations of their names, so that one deleted and
made anew has another id, and a request with the old one is refused. The role
handles given to assign and unassign are represented by what `ServedRoleIsCurrent`
guarantees of them: nothing, or a role their realm once gave under that name.

### UserProvisioning

One account, and callers that each run create, update or ensure on a handle of
their own, calling `ensure()` again with the same data until a call succeeds.
The places of a call are the requests of the code: lookup, create, update,
password, cleanup, enable, final. Every request may be refused, may fail without
effect, and (with `LostAnswers`) may be carried out and yet answered by an
error; a caller may die at any of them. A report is the part of
`UserPasswordProvisioningError` that speaks of the account. `guarded`, `by` and
`who` are ghosts (whether the creation of the account is to be followed by a
password, which step enabled it last, and whose), and so is `interfered`. The
updates of `update()` and of `ensure()` have different tags, and creation and the
enable step have theirs: `OnlyUpdatesExpose` names the step that exposes an account,
and looks at the call it belongs to.

### Retry, FetchAll, SinglePageQuery, ManagedAuth

`Retry` has one action per callback of the loop; the abort signal may fire
between any two. A rejected transient request may have been `applied`. An error is
the call it came from, whether the classifier retries it, and whether it is an
`Error` at all; what is thrown shows an error's message, holds it in its cause, or
is that error itself with its class and status. `withAbortCause` makes a new `Error`
of the message alone, and `WithAbortCause` says what of that a caller can see.
`FetchAll` has the request, its answer and the yield of a stream as separate
actions; the endpoint may cap pages, ignore the offset, say that a page is the
last; others insert and remove rows. `SinglePageQuery` is the conversion, as one
function with its validation, and a caller that turns pages with it; the largest
safe integer is a constant. `ManagedAuth` has the attempts as a
sequence of records, so that an attempt that should not exist is visible, and
the `finally` callback that clears the slot as an action of its own, since
another request may join before it runs.

## 3. Runs

| Run | Asks |
|---|---|
| `RoleHandleShared` | two callers on one handle, retargeted between operations: `ServedRoleIsCurrent`, `WriteMatchesLookup`, and the refinement `KeepsContract` |
| `ResourceHandle` | every operation of the ten kinds by one caller, retargeted at any moment, and two callers on the identity provider and the workflow, among other administrators: `WritesHitTarget`, `NothingCreatedTwice`, `LookedUpUpdatesKeepEdits`, `WritesAreServed` |
| `ChildHandle` | every operation of the six kinds by one caller, retargeted at any moment; two callers and an administrator; two retargets: `WritesUnderParent`, `ServedUnderParent`, `VersionTracksTarget` |
| `RoleMapping` | two callers map roles of one user, through failures, lost answers, a rebind between calls and an edit: `ReturnedMeansMapped`, `MapsOneRealm`, `ChangesFollowPlan` |
| `UserProvisioning` | two callers, three faults, crashes, lost answers, other administrators: `OnlyUpdatesExpose`, `SuccessMeansProvisioned`, `ConfirmedReportsAreTrue`, `RetriesConverge` |
| `RetryAny` | every option: `MutationRunsOnce`, `NoReplay`, `ThrowsLastError`, `CallSettles`; the bound on attempts is part of `TypeOK` |
| `Paging` | a list collected by `FetchAll`, with every option and endpoint and two changes of the list: `CompleteOrCut`, `NothingSkipped`, `AbortStops`, `CallEnds`, and the bounds on rows and pages in `TypeOK`; or turned page by page with `SinglePageQuery`, with every combination of options around the bounds: `PagesFollow`, `RowsAreSafe`, `StopsAtLimit` |
| `ManagedAuth` | two callers, two parts of a credential: `SingleFlight`, `NeverWithoutToken`, `ResolvedAgain`, `AllServed` |
| `RoleHandleLostRebind`, `WorkflowStaleBase`, `UserProvisioningDefaultEnabled`, `UserProvisioningRetryExposes` | expected violations, section 5 |

What the properties do not claim: `NothingSkipped` says nothing once a row was
removed (offset-based paging misses the rows that move up), and `CompleteOrCut`
nothing when `maxItems` is reached exactly: the loop then returns what it has,
although the list may go on. `LookedUpUpdatesKeepEdits` grants that an edit made
*during* an update may be undone (there is no version in the request), and leaves
out the updates that merge into the cache. `WritesAreServed` leaves out a workflow
written while one was cached, whose `get()` "returns the cache" by its documentation, a
user created though the handle was given an id, and a name that turns out ambiguous
when it is read back. `WritesHitTarget` and, for what comes from the cache,
`WritesAreServed` leave out a handle that keeps a lookup it was moved during
(`overtaken`; section 5 has what happens then).
The properties of `ResourceHandle`, `ChildHandle` and `RoleMapping` speak of calls
nothing crossed (`alone`, and for what comes from the cache `~overtaken`), save that
`VersionTracksTarget` and the limits of `ChangesFollowPlan` on what is granted and
revoked hold of all; a rebind during a call can be lost in most handles, as in the
role handle. `MapsOneRealm` and the properties of `RoleHandleShared` hold with
retargets between the calls; with one inside a call all of them but the types fail
(section 5).
`OnlyUpdatesExpose` grants that an update enables an account before its password is
set, be it asked for by the caller or by the retry of an `ensure()`; finding 4 is
what then can remain. `SuccessMeansProvisioned` and `ConfirmedReportsAreTrue` say
nothing of an account other administrators changed, and the run gives every input
with a password its `enabled` field (the input without is finding 3);
`OnlyUpdatesDoExpose` of section 6 covers all inputs.

### Bounds, and why they are enough

- *Two callers.* The code never counts or compares calls; interference is
  between one call and whatever happened since its last await. The proofs of
  section 6 remove the bound for what they cover.
- *Two realms, names and ids.* A stale target needs one other target; a name
  reused under a new id needs two ids. Ids are issued once (`Unissued`, then
  `Gone`), so a deleted resource never comes back under its id. `ChildHandle` has
  one child id: no property compares two children, and which of two of one name
  is meant is told apart by their parents.
- *MaxGen 1* (2 in the violation run) bounds the generation a retarget may start
  from; versions are only compared for equality, and two steps suffice for
  "there and back".
- *One retarget and one edit* (`Usages`) in `ResourceHandle`, `ChildHandle` and
  `RoleMapping`: one retarget makes the cache, the id resolved or the answer
  under way one of another target, and one edit makes a merge base old. `Moved` of
  `MCChildHandle` has two retargets, since the versions of different levels could
  add up to the same one. A second caller is given the operations that can cross:
  those that keep something, and the parent's own get().
- *Attempts 2* of the polling after a creation (4 in the code): a read that
  finds the group, one that does not, and giving up.
- *Four plans over two roles* in `RoleMapping`: reconciliation with and without
  managed names and creation, one role given and one taken; overlap and
  difference of desired, managed and held need no third role.
- *MaxFaults 3* lets every request of one provisioning fail in a row, or a crash
  and its retry fail again; more faults repeat an earlier state, since a retry
  starts from the account alone.
- *MaxSafe and DefaultSize* of `SinglePageQuery` are small numbers: nothing
  depends on their size, and the theorems hold for all.
- *Lists of up to three rows, pages of up to two, two edits*: a list that needs
  zero, one, two and three pages, with a short, a full and an empty last page,
  and an edit before, inside and after the page under way.
- *Options of Retry*: attempts 0 to 4, factors 0 to 2, base delays on both sides
  of the cap; of FetchAll: limits below, at and above the length of the lists.
- *MaxGets 2, one rotation per part, one expiry, one fault*: a second token after
  the first expired, a rotation before, during and after a resolution, and a
  failed attempt followed by another.

`CallerSymmetry` and `TargetSymmetry` (runs without liveness only) are sound because
no definition tells the permuted values apart; each MC module says which these
are. Ids are permuted only where no `CHOOSE` picks the next one.

### Fairness

Every fairness condition is weak and on steps the JavaScript runtime or the
server takes by itself: a request is answered (by success or failure; HTTP
timeouts make the latter certain), the continuation of a settled promise runs,
a timer fires. In `UserProvisioning` and `ManagedAuth` the application calls
again after an error, which is what `RetriesConverge` and `AllServed` are about;
both also rest on the bound on faults, that is on faults coming to an end.
`CallEnds` assumes one thing more, of the application: the consumer of a stream asks
for the next page or leaves the loop (`Resumes` and `Leaves` are steps of
`FetchAll`), as nobody else can end a `for await` that is held up. Nobody has to turn
another single page. The step of `Retry` that ends a wait rests on a sleeper of the
caller's that settles. Nothing is assumed of rebinds, aborts, rotations, crashes or
other administrators.

## 4. Checked only

Liveness (`RetriesConverge`, `CallSettles`, `CallEnds`, `AllServed`) is out of the
prover's reach and stays with TLC. Every safety property the passing runs check,
invariants and action properties alike, is a theorem (section 6).

## 5. Where the code and its documentation disagree

1. **A rebind can be lost** (`RoleHandleLostRebind`). `get()` adopts the name of
   the role it receives. A `rebind` made while the request is in flight is undone
   when the old role arrives. `handle-identity.mdx` calls rebind the only way to
   retarget a handle and promises that later operations never see the old one.
2. **An update takes back what others changed** (`WorkflowStaleBase`). `update()` of a
   workflow merges into what an earlier operation cached, and the workflow's `get()`
   never renews it. The documentation says it merges "into the current workflow
   representation". `update()` of organization, component and flow does the same
   with a cached one, and so do reconcileAttributes and the required actions of a
   user (the run with `Kinds = {"user"}`); `ensure()` of the first three looks up.
3. **A retry that succeeds and leaves the account disabled**
   (`UserProvisioningDefaultEnabled`). An input without `enabled` means enabled on
   creation; after a failed enable step the same input merges with the server's
   `enabled: false`. The error message promises that `ensure()` completes it.

4. **A retry that fails and leaves the account usable**
   (`UserProvisioningRetryExposes`). `create()` fails at the password, and its cleanup
   fails, too; the disabled account stays. The retry with `ensure()` finds it and takes
   the update branch, which writes `enabled: true` before it resets the password. When
   the reset fails again the account is enabled without a password. The comment in
   `create()` and `user.mdx` say that "a password-reset failure can never leave an
   enabled, usable account". The creating branches do keep to that, and the caller of
   such an update is never told of a success (`OnlyUpdatesExpose`).

Seen while modelling, without a run of their own; each follows from the run named
with the change given:

- `get()` compares parent versions before its request and stores the answer after
  it. If any getter notices the realm's rebind in between, the answer of the old
  realm stays cached as current: `ServedRoleIsCurrent` fails in `RoleHandleShared`
  with `OverlapRetarget = TRUE`. So do `KeepsContract`, and `WriteMatchesLookup`: the
  update of a role takes realm and name from the handle when it is sent.
- The same of users reaches a mutation: a lookup of the user that a realm rebind
  overtook is kept when another call noticed the rebind first (`user.ts:363-374`),
  and the next mapping names a user of the old realm and roles of the new one,
  which the ownership guard cannot see. `MapsOneRealm` fails in `RoleMapping` with
  `RebindsOverlap = TRUE`.
- A group handle looks at its parent's version only when the answer is there
  (`abstract-group.ts:78`), so it keeps the group of the old realm even without a
  second call. `GroupsFollowRealm` fails as the INVARIANT of
  `WorkflowStaleBase.cfg` with `Kinds = {"group"}`.
- `getById()` of one call pins an id, of a user there is not, while the lookup by name of
  another call is in flight (`user.ts:346-374`). Its answer is kept beside the new id: the
  methods that begin with the cache then use that user, `get()` the pinned one.
  `WritesHitTarget` without `~overtaken` fails for `kind = "user"`, two callers,
  one retarget and the operations get, getById and use.
- The answer of a workflow's `get()` that is in flight while that workflow is deleted is
  cached all the same (`workflow.ts:251-269`), and since `get()` is served from there, a
  `create()` under way returns the deleted one. `WritesAreServed` without its exception for
  a cached workflow fails for `kind = "workflow"` and two callers with get and create.
- `ensure()` of a user handle that was given an id, whose user is gone, creates
  another user (`user.ts:525`), which `create()` refuses to do.
  `IdHandlesCreateNothing` fails as the INVARIANT of `WorkflowStaleBase.cfg` with
  `Kinds = {"user"}`.
- When the answer of the last enable request is lost the account may be enabled;
  the error always carries `accountEnabled: false`, a field documented as `null`
  when unknown. `ConfirmedReportsAreTrue` claims only what an answer confirmed.
- What a cancelled retry throws is a new `Error` with the message of the last error and
  the reason of the abort (`retry.ts:167-178`). Its class, `response` and `responseData`
  are gone, so `getErrorStatus` finds no status, although the comment has "the
  original operation error ... preserved across cancellation"; the test of it looks at
  message and reason only. `ThrowsLastError` states what is left;
  `CancelPreservesError` fails as an INVARIANT of `RetryAny.cfg`.
- `maxDelay` defaults to 800 ms whatever the base delay (`MaxDelay` of `Retry`); the
  option is documented as `baseDelay * 16`.

## 6. Proofs

Each `*Proofs` module has an inductive invariant, a lemma per action that it is
kept, and the theorems, which read the properties off it. The instances of section
3 bound callers, names, realms, rows, attempts and faults; the theorems do not.

| Module | Invariant | Theorems, and what they state |
|---|---|---|
| `RoleHandleProofs` | `TypeInv`, `CacheInv`, `WriteInv` | `TypeCorrect`; `VersionIdentifies`: `VersionTracksTarget`; under `~OverlapRetarget`, `ServesCurrentRole`: `ServedRoleIsCurrent`, `WritesWhatItFound`: `WriteMatchesLookup`, `ImplementsContract`: `KeepsContract` |
| `ResourceHandleProofs` | `TypeInv`, `HereInv`, `FreshInv`, `MissingInv`, `WrittenInv` | `TypeCorrect`; `WritesStayOnTarget`: `WritesHitTarget`; `LookedUpUpdatesKeep`: `LookedUpUpdatesKeepEdits`; `CreatesOnce`: `NothingCreatedTwice`; `WritesServed`: `WritesAreServed` |
| `ChildHandleProofs` | `TypeInv`, `HereInv` | `TypeCorrect`; `VersionTracks`: `VersionTracksTarget`; `ServesUnderParent`: `ServedUnderParent`; `WritesWhereFound`: `WritesUnderParent` |
| `RoleMappingProofs` | `MapInv`, `RealmInv` | `TypeCorrect`; `ReturnsMapped`: `ReturnedMeansMapped`; `FollowsPlan`: `ChangesFollowPlan`; under `~RebindsOverlap`, `MapsInOneRealm`: `MapsOneRealm` |
| `UserProvisioningProofs` | `GuardInv`, `ToldInv`, `TruthInv`, `AskedInv` | `TypeCorrect`; `OnlyUpdatesDoExpose`: `OnlyUpdatesExpose`; `ReportsAreTrue`: `ConfirmedReportsAreTrue`; under `EnabledGiven`, `SuccessProvisions`: `SuccessMeansProvisioned` |
| `RetryProofs` | `LoopInv` | `TypeCorrect`; `MutationOnce`: `MutationRunsOnce`; `CancelIsHonest`: `ThrowsLastError`; `ReplaysTransient`: `NoReplay` |
| `ManagedAuthProofs` | `FlightInv` | `TypeCorrect`; `OneAttemptAtATime`: `SingleFlight`; `AlwaysResolvedAgain`: `ResolvedAgain`; `TokenForEveryCaller`: `NeverWithoutToken` |
| `PagingProofs` | `FetchInv`; `Paging` | of `FetchAll`: `TypeCorrect`; `FetchesAll`: `CompleteOrCut`; `SkipsNothing`: `NothingSkipped`; `AbortIsFinal`: `AbortStops`; of `SinglePageQuery`: `SafeRows`: `RowsAreSafe`; `PagesFollowOn`: `PagesFollow`; `StopsAtTheLimit`: `StopsAtLimit` |

What the invariants add to the properties, and why without it a step could break
them:

- *RoleHandle.* While a caller is away from `idle` the target is the one its lookup
  asked for, and an answer that has arrived and is not yet written back is one of
  that target; otherwise `GetReturns` could cache anything. `WriteInv` carries the
  same on to the representation found and the request made of it. For
  `VersionIdentifies`, with retargets at any moment, each action leaves the target
  alone or counts a generation, and the version a child saw last is at or below
  the realm's.
- *ResourceHandle.* `TypeInv` says which operation gets to which place, with what it
  found, and that an answer of the server is of the realm and the name or id that was
  asked for. `WritesHitTarget` speaks of one write; what it writes may come from the
  cache, and what is in the cache from any call before. So `HereInv` has three parts:
  until the handle is `overtaken`, the cache has a resource of the present target
  (`CacheHere`), and so will have every lookup under way (`LookupHere`), whoever else
  wrote in the meantime; and a call nothing crossed asks for, keeps and writes what
  belongs there (`AloneAsks`, `AloneKeeps`). That a call drops an answer when its parent
  moved is sound only if no second call can notice the parent first: `LoneWhenStale`.
  The other three properties are about steps, and each needs to know, a step before,
  what a call knows of the server. `FreshInv`: what it looked up is there still, except
  that later edits may have changed it. `MissingInv`: where it found nothing there is
  nothing. `WrittenInv`: what it wrote is there, under the id it wrote to, and is
  what it reads back. Any other write, rename or retarget ends all three, so their
  proofs look at what a step does to calls and server (`Acts`, `StepsAre`) and no
  longer at how each operation goes on.
- *ChildHandle.* `TypeInv` says which operation gets to which place, and what it
  asks for and is answered there. Every step of a call moves the handle as `Moves`
  allows (a level looked at, a name adopted, an answer kept), and whatever does so
  either leaves the target alone or counts a generation at its level; what the
  tracker of a level saw is at or below the level above. From that
  `VersionTracksTarget` follows with retargets at any moment. `HereInv` is about
  what calls keep on the way to a write. Until a retarget overtakes a call
  (`KeepsHere`, `AsksHere`), the parent it resolved, the request it sent, an answer
  that has arrived and the child it found are of the parent and realm named now.
  While it is alone (`KeepsCurrent`, `AsksCurrent`), they are more: the parent is
  the one a resolution would give now (`Current`), the child has the child's name
  and lives under that parent. Both are needed: what a handle *serves* must be
  right although other calls wrote meanwhile, which ends `alone`, while what a call
  *writes* must match names as well. An answer of the parent may carry another name,
  and the handle adopts it; the step that `HereInv` is kept by it (`ParentReturnsHere`)
  rests on the claim that an answer that was asked for by the present name has it
  (`AsksHere`), so that until a retarget nothing moves (`Stays`).
- *RoleMapping.* `ReturnedMeansMapped` speaks of calls that returned; `MapInv` says
  what a call counts on at each place before. The roles it resolved and the names
  it has yet to resolve are what it wants, one role of each name. The answer to
  `list` is, on the names the call may touch, what the user has. While roles are
  being granted, what is missing is in the request and what is too much in
  `revoke`; while they are being revoked, nothing is missing and what is too much is
  in the request. All this holds until somebody else touches one of those names,
  whatever happens to others (`BystanderOK`, `AccountsAgree`). `RealmInv` adds that
  the user a handle hands out, and all that calls asked for and kept, is of the
  realm it names.
- *UserProvisioning.* A caller at `enable` has set the password of the account with
  its id, if that account still exists, and ids are issued upwards, so an id never
  comes to mean another account (`GuardInv`); so the enable step exposes nothing, and
  neither does a creation. `ToldInv` adds that while an account is exposed the call
  that exposed it is still before its password, or threw: it gets to its end only
  through `PasswordSet`, which ends the exposure (`StepExposes`, `StepTells`). For `SuccessMeansProvisioned` no
  property of a single caller is inductive: one may report success while another
  rolls the account back. `AskedInv` says that then somebody *owes*: a call is under
  way that has still to establish the account, or one threw and will be repeated.
- *Retry.* The counter is one less than the calls made, and a second turn comes only
  out of the wait, which is entered only when another attempt is allowed. From the first
  failure on the last error is that of the last call (`LastFailed`), which is what a
  throw has to tell (`Tells`).
- *FetchAll* (`PagingProofs`). The rows taken and the page under way are a run of the list
  from its first row on; while the list only grows, all that stood before the offset has been
  taken (`Covered`); with an offset ignored, all that was taken is the first page.
- *ManagedAuth.* The attempt in the slot is the last that began, and one that worked
  has left its own token or a younger one.
- *SinglePageQuery* (`PagingProofs`). `Paging` says what the options are once a page was
  turned: of the same style, continuing the last request, with a size accepted before.

The assumptions are those named in the modules (`RoleHandleAssumption`,
`ResourceHandleAssumption`,
`ChildHandleAssumption`, `RegistryAssumption`, `UserProvisioningAssumption`, `RetryAssumption`,
`FetchAllAssumption`, `ManagedAuthAssumption`, `RoleMappingAssumption`,
`SinglePageQueryAssumption`): special values are none of the ordinary ones, bounds
are natural numbers, a plan desires finitely many roles. TLC evaluates them in every
run. Three theorem groups assume more, and in each case a run or section 5 shows
that they must:

- `~OverlapRetarget` and `~RebindsOverlap`: handles are retargeted only between
  operations. Otherwise a rebind can be lost (finding 1), and a user of the old realm
  comes to be mapped to roles of the new one. The other theorems about role mappings
  hold with rebinds at any moment.
- `EnabledGiven`: whoever gives a password gives `enabled`, too. Otherwise finding 3.

## 7. Not modelled, and the plan

Not modelled: the representation's fields other than those a property tells
apart, logging, error texts, TypeScript types, and the single-request facades
(attack detection, caches, client policies, server info, who-am-i; executions by
id, configurations and required actions of flows), which keep no state. The
service accounts and login clients build payloads for the client handle, the user
storage provider for the component handle. The ownership guards other than
`assertRealmRoleOwnership` throw before anything is awaited. Of the fluent client
(`index.ts`) only `simpleAuth` is. A resolver that itself uses the managed client
would wait for itself; the model has resolvers answer without it. Scripts, website
and sandbox are no part of the library.

Plan, in order:

1. An abstract token service that `ManagedAuth` implements, and an abstract
   at-most-once call that `Retry` implements.
2. The second handle of addComposite and removeComposite, and updateExecution of
   another flow.
