--------------------------- MODULE HandleIdentity ---------------------------
(***************************************************************************)
(* The identity contract every fluent handle shares                        *)
(* (src/src/utils/handle-identity.ts).  A handle carries a local           *)
(* generation; its identity version joins that generation to the identity  *)
(* version of its parent ("parent:local" in the code, a sequence of        *)
(* generations here).  A child keeps the parent version it saw last and    *)
(* drops its cached representation when the parent's has moved on.         *)
(***************************************************************************)
EXTENDS Naturals

\* The version of a handle with no parent (RealmHandle).
RootVersion(generation) == <<generation>>

\* The version of a handle whose parent is a root handle.
ChildVersion(parentGeneration, generation) == <<parentGeneration, generation>>

\* ParentIdentityTracker.invalidateIfChanged answers TRUE exactly here.
ParentMoved(seenVersion, parentVersion) == seenVersion # parentVersion
=============================================================================
