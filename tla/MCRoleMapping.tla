---------------------------- MODULE MCRoleMapping ---------------------------
(* Model-checking instances of RoleMapping: what the callers ask for.      *)
EXTENDS RoleMapping, TLC

CONSTANTS a, b

Make(op, desired, managed, ensure) ==
  [op |-> op, desired |-> desired, managed |-> managed, ensure |-> ensure]

\* A reconciliation that manages every role and makes what is missing, and one
\* that only adds; one role given, one taken.
SomePlans ==
  {Make("reconcile", {a}, {a, b}, TRUE), Make("reconcile", {b}, NotGiven, FALSE),
   Make("assign", {b}, NotGiven, FALSE), Make("unassign", {b}, NotGiven, FALSE)}

TargetSymmetry == Permutations(Realms) \union Permutations(Callers)
=============================================================================
