---------------------------- MODULE AdminRegistry ---------------------------
(***************************************************************************)
(* The Keycloak side of one kind of resource, as the handles use it: a     *)
(* registry of (realm, name) records under ids the server issues once and  *)
(* never again, a request that reads or changes it, and the answers one    *)
(* request may get.  The server is not under src/; what it does is what    *)
(* the callers in src/ rely on.                                            *)
(***************************************************************************)

CONSTANTS
  Realms,             \* realm names
  Names,              \* resource names
  Ids,                \* ids the server may issue (bounds the creations)
  Null,               \* JavaScript null: looked up and missing
  Failed,             \* the request was answered by an error
  Done,               \* a mutation or a dependent read was answered
  Unissued,           \* the id was not issued yet
  Gone                \* the id was issued, and its resource deleted

Identity == [realm : Realms, name : Names]
Rep      == [id : Ids, realm : Realms, name : Names]

ASSUME RegistryAssumption ==
  /\ Null \notin Rep
  /\ Failed \notin Rep
  /\ Failed # Null
  /\ Done # Failed
  /\ Unissued \notin Identity
  /\ Gone \notin Identity

Request ==
  [kind : {"byName", "byId", "create", "put", "del", "use"},
   realm : Realms, name : Names, id : Ids \union {Null}]

Answer == Rep \union {Null, Failed, Done}

Store == [Ids -> Identity \union {Unissued, Gone}]

Holders(store, who) == {i \in Ids : store[i] = who}
Fresh(store)        == {i \in Ids : store[i] = Unissued}
InRealm(store, i, r) == \E n \in Names : store[i] = [realm |-> r, name |-> n]

\* find*ByName: at most one, names being unique in a realm.
FindByName(store, r, n) ==
  {x \in Rep : x.realm = r /\ x.name = n /\ store[x.id] = [realm |-> r, name |-> n]}

\* find*ById finds nothing under an id of another realm.
FindById(store, r, i) ==
  {x \in Rep : x.realm = r /\ x.id = i /\ store[x.id] = [realm |-> r, name |-> x.name]}

\* A lookup answers with the resource, or with null when there is none.
Found(reps) == IF reps = {} THEN {Null} ELSE reps

\* The stores a mutation may leave when it succeeds; none when it is refused
\* (name taken, resource missing, no id left to issue).
Applied(store, req) ==
  LET who == [realm |-> req.realm, name |-> req.name] IN
  CASE req.kind = "create" ->
         IF Holders(store, who) # {} \/ Fresh(store) = {} THEN {}
         ELSE LET i == CHOOSE i \in Fresh(store) : TRUE
              IN  {[store EXCEPT ![i] = who]}
    [] req.kind = "put" ->
         IF /\ req.id \in Ids
            /\ InRealm(store, req.id, req.realm)
            /\ Holders(store, who) \subseteq {req.id}
         THEN {[store EXCEPT ![req.id] = who]} ELSE {}
    [] req.kind = "del" ->
         IF req.id \in Ids /\ InRealm(store, req.id, req.realm)
         THEN {[store EXCEPT ![req.id] = Gone]} ELSE {}
    [] OTHER ->
         IF req.id \in Ids /\ InRealm(store, req.id, req.realm)
         THEN {store} ELSE {}

\* Everything one request may do: <<store afterwards, answer>>.  Any request
\* may fail before it is handled; a mutation may also be applied and its
\* answer be lost on the way back.
Outcomes(store, req) ==
  {<<store, Failed>>} \union
  CASE req.kind = "byName" ->
         {<<store, a>> : a \in Found(FindByName(store, req.realm, req.name))}
    [] req.kind = "byId" ->
         {<<store, a>> : a \in Found(FindById(store, req.realm, req.id))}
    [] OTHER -> Applied(store, req) \X {Done, Failed}
=============================================================================
