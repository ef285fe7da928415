---------------------------- MODULE MCChildHandle ---------------------------
(***************************************************************************)
(* Model-checking instances of ChildHandle.  Realms, names and ids are     *)
(* interchangeable in every definition: CHOOSE picks from at most one.     *)
(***************************************************************************)
EXTENDS ChildHandle, TLC

CONSTANTS c1, c2

Ops(first, second) == (c1 :> first) @@ (c2 :> second)

\* One caller with every operation on every kind, retargeted meanwhile.
Solo == [kinds |-> AllKinds, ops |-> Ops(AllOps, {}), retargets |-> 1, edits |-> 0]

\* Writes, while another caller renews the parent and an administrator edits.
Shared == [kinds |-> {"clientRole", "childGroup"},
           ops |-> Ops({"update", "ensure", "use"}, {"parentGet"}), retargets |-> 0, edits |-> 1]

\* Reads, while more than one level is retargeted.
Moved == [kinds |-> {"clientRole", "idpMapper", "nestedGroup"},
          ops |-> Ops({"get", "use"}, {}), retargets |-> 2, edits |-> 0]

AllUsages == [solo |-> Solo, shared |-> Shared, moved |-> Moved]

TargetSymmetry ==
  Permutations(Realms) \union Permutations(ParentNames) \union Permutations(ChildNames)
    \union Permutations(ParentIds) \union Permutations(ChildIds)
=============================================================================
