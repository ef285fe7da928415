--------------------------- MODULE MCResourceHandle -------------------------
(***************************************************************************)
(* Model-checking instances of ResourceHandle.  Realms and names are       *)
(* interchangeable in every definition (no CHOOSE ranges over them where   *)
(* more than one would do), so safety runs identify them up to             *)
(* permutation; ids and callers, which the usages tell apart, are not.     *)
(***************************************************************************)
EXTENDS ResourceHandle, TLC

CONSTANTS c1, c2, i1, i2

\* One call at a time with every operation; the handle is retargeted meanwhile.
Solo == [kinds |-> AllKinds, callers |-> {c1}, ops |-> AllOps,
         ids |-> {i1, i2}, retargets |-> 1]

\* Two callers share a handle of the kinds that differ most.
Shared == [kinds |-> {"identityProvider", "workflow"},
           callers |-> {c1, c2}, ops |-> {"get", "update", "delete", "ensure"},
           ids |-> {i1}, retargets |-> 0]

SoloAndShared == [solo |-> Solo, shared |-> Shared]

OnlySolo == [solo |-> Solo]

TargetSymmetry == Permutations(Realms) \union Permutations(Names)
=============================================================================
