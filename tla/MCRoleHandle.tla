----------------------------- MODULE MCRoleHandle ---------------------------
(***************************************************************************)
(* Model-checking instances of RoleHandle.  Callers are interchangeable    *)
(* in every definition, so safety runs may identify them up to permutation;*)
(* ids are not (the server issues the one CHOOSE picks).                   *)
(***************************************************************************)
EXTENDS RoleHandle, TLC

CallerSymmetry == Permutations(Callers)
=============================================================================
