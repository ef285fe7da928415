------------------------- MODULE MCUserProvisioning -------------------------
(* Model-checking instances of UserProvisioning: the data callers pass.    *)
EXTENDS UserProvisioning

\* Where a password is set, the enabled field is there.
Given == [password : BOOLEAN, enabled : BOOLEAN]
           \union {[password |-> FALSE, enabled |-> Omitted]}

DefaultWithPassword == {[password |-> TRUE, enabled |-> Omitted]}

EnabledWithPassword == {[password |-> TRUE, enabled |-> TRUE]}
=============================================================================
