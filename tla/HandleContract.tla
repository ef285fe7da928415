--------------------------- MODULE HandleContract ---------------------------
(***************************************************************************)
(* What a fluent handle promises to the code that holds it, and to its     *)
(* child handles, whatever requests are in flight:                         *)
(*                                                                         *)
(*  - the representation it serves is one of its current target;           *)
(*  - its epoch (what the identity version tells apart) moves strictly     *)
(*    forward whenever the target does, so two readings of one epoch name  *)
(*    one target.                                                          *)
(*                                                                         *)
(* The handle modules implement this one under a refinement mapping.       *)
(***************************************************************************)
EXTENDS Naturals

CONSTANTS
  Targets,            \* identities a handle may have: [realm, name] records
  Reps,               \* representations: [id, realm, name] records
  Absent              \* what is served when there is no representation

VARIABLES
  target,             \* the identity the handle routes to
  epoch,              \* its identity version, as a position in its history
  served              \* what a read of the cached representation returns

vars == <<target, epoch, served>>

Servable(t) == Absent \union {r \in Reps : r.realm = t.realm /\ r.name = t.name}

Init ==
  /\ target \in Targets
  /\ epoch = 0
  /\ served \in Servable(target)

\* The handle is pointed elsewhere: a rebind, a parent's rebind, or a name the
\* handle adopts from the representation it looked up.
Retarget ==
  /\ target' \in Targets
  /\ epoch' \in Nat
  /\ epoch' > epoch
  /\ served' \in Servable(target')

\* A lookup, a deletion or an invalidation changes what is served.
Resolve ==
  /\ served' \in Servable(target)
  /\ UNCHANGED <<target, epoch>>

Next == Retarget \/ Resolve

Spec == Init /\ [][Next]_vars
=============================================================================
