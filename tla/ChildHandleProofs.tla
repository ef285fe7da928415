-------------------------- MODULE ChildHandleProofs -------------------------
(***************************************************************************)
(* Theorems about ChildHandle, for any kinds, realms, names, ids, callers  *)
(* and usages.  The argument has three parts, in this order:               *)
(*                                                                         *)
(*  - types.  TypeInv adds to TypeOK which operation gets to which place   *)
(*    and what it asks for and is answered there, and what the server      *)
(*    holds.  One lemma per action (...Types) shows that it is kept, and   *)
(*    that all steps of a call move the handle as Moves says.              *)
(*                                                                         *)
(*  - versions.  What Moves allows either leaves realm, parent and child   *)
(*    as they are named, or counts a generation; and the version of three  *)
(*    levels never goes back to one that stood for another target.         *)
(*                                                                         *)
(*  - targets.  HereInv: until a retarget overtakes a call, everything it  *)
(*    keeps, asks for and is answered is of the parent named now; and      *)
(*    while nobody else changed anything, it is the one parent and child   *)
(*    of these names.  Again one lemma per action (...Here).  The two      *)
(*    invariants of the runs follow from it.                               *)
(***************************************************************************)
EXTENDS ChildHandle, SequenceTheorems, TLAPS

-----------------------------------------------------------------------------
(* The inductive invariant: types                                          *)

Resolving == {"parent", "get", "again"}

IsAnswer(a) == a \notin {{Pending}, {Failed}}

\* Which operations get to which place.
OpAt(c) ==
  /\ c.op \in {"get", "getById"} => c.last
  /\ c.op = "getById" => c.pc \in {"get", "lookup"} /\ c.tries = 0
  /\ c.op = "getById" /\ c.pc = "get" => c.one \in ChildIds
  /\ c.op # "getById" => c.one \in ChildRep \union {Null}
  /\ c.pc = "get" /\ c.op # "getById" => c.asked # Null
  /\ c.pc \in {"get", "lookup"} => c.op \notin {"none", "parentGet", "listUsers"}
  /\ c.pc = "parent" => c.op \notin {"none", "parentGet", "get", "getById"}
  /\ c.pc = "looked" =>
       c.op \in {"create", "update", "ensure", "delete", "discard", "use", "link"}
  /\ c.pc \in {"parent", "again"} => c.one = Null
  /\ c.pc = "partner" => c.one \in ChildRep
  /\ c.pc = "sleep" => c.tries < Attempts /\ c.op \notin {"none", "parentGet", "listUsers"}

\* What a call asks for at each place ...
ReqAt(c) ==
  /\ c.pc \in {"idle", "looked", "sleep"} => c.req = Null
  /\ c.pc \in {"lookup", "partner", "write", "own"} => c.req # Null
  /\ c.req # Null =>
       /\ c.req.kind = "parentByName" <=> c.pc \in Resolving \union {"own"}
       /\ c.req.kind \in {"childByName", "childById", "groupById"} <=> c.pc = "lookup"
       /\ c.req.kind \in Mutations <=> c.pc = "write"
       /\ c.req.kind \in {"childByName", "childById"} => c.req.up \in ParentRep
       /\ c.req.kind \in {"childById", "groupById"} => c.op = "getById"

\* ... and what it is answered.
AnsAt(c) ==
  /\ c.pc \in Resolving /\ c.req = Null => c.ans \subseteq ParentRep
  /\ IsAnswer(c.ans) /\ c.pc \in Resolving \union {"own"} => c.ans \subseteq ParentRep
  /\ IsAnswer(c.ans) /\ c.pc = "lookup" => c.ans \subseteq ChildRep

Shape(c) == c \in Call /\ OpAt(c) /\ ReqAt(c) /\ AnsAt(c)

IdentityOK ==
  /\ usage \in DOMAIN Usages /\ kind \in Kinds
  /\ realmName \in Realms /\ parentName \in ParentNames /\ childName \in ChildNames
  /\ retargets \in 0..Usages[usage].retargets /\ edits \in 0..Usages[usage].edits
  /\ overtaken \in BOOLEAN
  /\ realmGen \in 0..retargets /\ parentGen \in Nat /\ childGen \in Nat
  /\ parentSeen \in {RootVersion(g) : g \in 0..realmGen}
  /\ childSeen \in {ChildVersion(g, h) : g \in 0..realmGen, h \in 0..parentGen}

CachesOK ==
  /\ parent \in ParentRep \union {Null, Undefined}
  /\ child \in ChildRep \union {Null, Undefined}

\* What the server holds: ids name their own resources, names are taken once,
\* and children live under parents that do.
Sound(ps, cs) ==
  /\ ps \in [ParentIds -> ParentRep \union {Unissued, Gone}]
  /\ cs \in [ChildIds -> ChildRep \union {Unissued, Gone}]
  /\ \A i \in ParentIds : ps[i] \in ParentRep => ps[i].id = i
  /\ \A i, j \in ParentIds :
       ps[i] \in ParentRep /\ ps[j] \in ParentRep /\ ps[i].realm = ps[j].realm
         /\ ps[i].name = ps[j].name => i = j
  /\ \A i \in ChildIds :
       cs[i] \in ChildRep => cs[i].id = i /\ cs[i].of = Null /\ ps[cs[i].under] \in ParentRep
  /\ \A i, j \in ChildIds :
       cs[i] \in ChildRep /\ cs[j] \in ChildRep /\ cs[i].under = cs[j].under
         /\ cs[i].name = cs[j].name => i = j

ServerOK == Sound(parents, children)

CallsOK == call \in [Callers -> Call] /\ \A p \in Callers : Shape(call[p])

TypeInv == IdentityOK /\ CachesOK /\ ServerOK /\ CallsOK

-----------------------------------------------------------------------------
(* The inductive invariant: what is kept was found where the handles point *)

IsHere(x) == x.realm = realmName /\ x.name = parentName

\* The parents a resolution would give.
Current == IF kind = "nestedGroup" THEN {x \in LiveParents : IsHere(x)} ELSE {VisibleParent}

\* Until a retarget overtakes a call, all it keeps is of the parent named now.
KeepsHere(c) ==
  /\ c.asked # Null => c.asked.realm = realmName
  /\ c.up \in ParentRep => IsHere(c.up)
  /\ c.op # "getById" /\ c.one \in ChildRep => c.one.of \in {Here, Null}

AsksHere(c) ==
  /\ c.pc \in Resolving /\ kind # "nestedGroup" => ~ParentStale
  /\ c.pc \in Resolving /\ c.req = Null => \A x \in c.ans : IsHere(x)
  /\ c.req # Null =>
       /\ c.req.realm = realmName
       /\ c.req.kind = "parentByName" =>
            /\ c.req.key = parentName
            /\ IsAnswer(c.ans) =>
                 /\ \A x \in c.ans : x.realm = realmName /\ (x.name = parentName \/ kind = "scopeMapper")
                 /\ \A x, y \in c.ans : x.name = y.name => x = y
       /\ c.req.kind \in {"childByName", "childById"} =>
            /\ IsHere(c.req.up)
            /\ IsAnswer(c.ans) => \A x \in c.ans : x.of = Here
       /\ c.req.kind = "groupById" /\ IsAnswer(c.ans) => \A x \in c.ans : x.of = Null

\* And if nobody else changed anything, it is the one parent and the child.
KeepsCurrent(c) ==
  /\ c.asked # Null => c.asked.name = childName
  /\ c.up \in ParentRep => c.up \in Current
  /\ c.op # "getById" /\ c.one \in ChildRep =>
       /\ c.one.name = childName
       /\ c.up \in ParentRep /\ kind # "idpMapper" => c.one.under = c.up.id
       /\ c.one.of = Here \/ (c.one.of = Null /\ c.op \in {"use", "link"})

AsksCurrent(c) ==
  /\ c.pc \in Resolving /\ c.req = Null => c.ans \subseteq Current
  /\ c.pc \in Resolving /\ c.req # Null =>
       IF kind = "nestedGroup" THEN IsAnswer(c.ans) => c.ans \subseteq Current
                               ELSE c.up = Null
  /\ c.pc = "lookup" /\ c.req.kind = "childByName" =>
       /\ c.req.name = childName
       /\ c.up \in ParentRep => c.req.up = c.up
       /\ IsAnswer(c.ans) /\ kind # "idpMapper" =>
            \A x \in c.ans : x.name = childName /\ x.under = c.req.up.id

CallHere(c) ==
  c.pc # "idle" /\ ~overtaken =>
    /\ KeepsHere(c) /\ AsksHere(c)
    /\ c.alone => KeepsCurrent(c) /\ AsksCurrent(c)

CachesHere ==
  ~overtaken =>
    /\ VisibleParent \in ParentRep => IsHere(VisibleParent)
    /\ VisibleChild \in ChildRep =>
         VisibleChild.name = childName /\ VisibleChild.of \in {Here, Null}

HereInv == CachesHere /\ \A p \in Callers : CallHere(call[p])

-----------------------------------------------------------------------------
(* Identity versions                                                       *)

LEMMA Marks ==
  /\ Null \notin ParentRep \union ChildRep /\ Undefined \notin ParentRep \union ChildRep
  /\ Pending \notin ParentRep \union ChildRep /\ Failed \notin ParentRep \union ChildRep
  /\ Unissued \notin ParentRep \union ChildRep /\ Gone \notin ParentRep \union ChildRep
  /\ Null \notin Requests /\ Null \notin [realm : Realms, name : ChildNames]
  /\ Undefined # Null /\ Pending # Failed /\ Failed # Done /\ Done # Pending
  /\ Attempts \in Nat \ {0}
  BY ChildHandleAssumption

LEMMA Appended ==
  ASSUME NEW a \in Nat, NEW b \in Nat, NEW c \in Nat
  PROVE  Append(<<a, b>>, c) = <<a, b, c>>
<1>1. <<a, b>> \in Seq(Nat) /\ Len(<<a, b>>) = 2 /\ <<a, b, c>> \in Seq(Nat)
  OBVIOUS
<1>2. Append(<<a, b>>, c) \in Seq(Nat) /\ Len(Append(<<a, b>>, c)) = 3
  BY <1>1, AppendProperties
<1>3. /\ Append(<<a, b>>, c)[1] = a /\ Append(<<a, b>>, c)[2] = b
      /\ Append(<<a, b>>, c)[3] = c
  BY <1>1
<1>4. \A i \in 1..3 : Append(<<a, b>>, c)[i] = <<a, b, c>>[i]
  BY <1>3
<1> QED
  BY <1>1, <1>2, <1>4, SeqEqual

\* A version is three generations, each of them natural.
LEMMA Versions ==
  ASSUME IdentityOK
  PROVE  /\ realmGen \in Nat /\ VisibleParentGen \in Nat /\ VisibleChildGen \in Nat
         /\ VisibleParentGen >= parentGen /\ VisibleChildGen >= childGen
         /\ ParentVersion = <<realmGen, VisibleParentGen>>
         /\ Version = <<realmGen, VisibleParentGen, VisibleChildGen>>
<1>1. /\ realmGen \in Nat /\ VisibleParentGen \in Nat /\ VisibleChildGen \in Nat
      /\ VisibleParentGen >= parentGen /\ VisibleChildGen >= childGen
  BY DEF IdentityOK, VisibleParentGen, VisibleChildGen
<1>2. ParentVersion = <<realmGen, VisibleParentGen>>
  BY DEF ParentVersion, ChildVersion
<1>3. Append(<<realmGen, VisibleParentGen>>, VisibleChildGen)
        = <<realmGen, VisibleParentGen, VisibleChildGen>>
  BY <1>1, Appended
<1> QED
  BY <1>1, <1>2, <1>3 DEF Version

\* What the tracker of the child saw is no later than what the parent is at now.
LEMMA SeenBefore ==
  ASSUME IdentityOK
  PROVE  \E g \in 0..realmGen, h \in 0..parentGen : childSeen = <<g, h>>
  BY DEF IdentityOK, ChildVersion

\* What one step may do to the handles, but for a rebind.
Moves ==
  /\ UNCHANGED realm
  /\ \/ UNCHANGED <<pcache, ccache>>
     \/ LookAtParent /\ UNCHANGED ccache
     \/ LookAtChild
     \/ \E found \in SUBSET ParentRep : ParentsGet(found) /\ UNCHANGED ccache
     \/ \E found \in SUBSET ParentRep : SetResolved(found) /\ UNCHANGED ccache
     \/ \E c \in ChildRep \union {Null} : WriteBack(c)
     \/ child' = Null /\ UNCHANGED <<pcache, childName, childGen, childSeen>>

\* The parent looked at: its version is what it was, and no longer stale.
LEMMA LookedParent ==
  ASSUME IdentityOK, CachesOK, LookAtParent, UNCHANGED realm
  PROVE  /\ ~ParentStale' /\ VisibleParentGen' = VisibleParentGen
         /\ ParentVersion' = ParentVersion /\ VisibleParent' = VisibleParent
         /\ parentName' = parentName /\ parentGen' = VisibleParentGen
         /\ parent' = VisibleParent
         /\ parentSeen' = RootVersion(realmGen')
<1>1. ~ParentStale' /\ parentGen' = VisibleParentGen /\ realmGen' = realmGen
  BY DEF LookAtParent, realm, ParentStale, ParentMoved
<1> QED
  BY <1>1 DEF LookAtParent, VisibleParentGen, VisibleParent, ParentVersion

\* With the parent where it was, a child that is left alone is as stale as it was;
\* once its parent moved on, it is.
LEMMA LeftChild ==
  ASSUME IdentityOK, UNCHANGED <<realm, ccache>>, VisibleParentGen' \in Nat,
         VisibleParentGen' >= VisibleParentGen
  PROVE  /\ VisibleChildGen' >= VisibleChildGen /\ VisibleChildGen' \in Nat
         /\ VisibleParentGen' = VisibleParentGen =>
              /\ VisibleChildGen' = VisibleChildGen /\ VisibleChild' = VisibleChild
         /\ VisibleChild' \in {VisibleChild, Undefined}
<1>1. PICK g \in 0..realmGen, h \in 0..parentGen : childSeen = <<g, h>>
  BY SeenBefore
<1>2. /\ ParentVersion = <<realmGen, VisibleParentGen>>
      /\ ParentVersion' = <<realmGen, VisibleParentGen'>>
      /\ childSeen' = childSeen /\ childGen' = childGen /\ child' = child
  BY DEF ParentVersion, ChildVersion, realm, ccache
<1>3. ChildStale => ChildStale'
  <2>1. CASE VisibleParentGen' = VisibleParentGen
    BY <1>2, <2>1 DEF ChildStale, ParentMoved
  <2>2. CASE VisibleParentGen' > VisibleParentGen
    <3>1. h # VisibleParentGen'
      BY <1>1, <2>2, Versions DEF IdentityOK
    <3> QED
      BY <1>1, <1>2, <3>1 DEF ChildStale, ParentMoved
  <2> QED
    BY <2>1, <2>2, Versions
<1>4. VisibleParentGen' = VisibleParentGen => (ChildStale' <=> ChildStale)
  BY <1>2 DEF ChildStale, ParentMoved
<1> QED
  BY <1>2, <1>3, <1>4 DEF VisibleChildGen, VisibleChild, IdentityOK

\* Whatever a step does to the handles, the generations only grow, and a handle
\* with another name has another generation.
LEMMA MovesGenerations ==
  ASSUME IdentityOK, CachesOK, Moves
  PROVE  /\ parentName' \in ParentNames /\ childName' \in ChildNames
         /\ parentGen' \in Nat /\ childGen' \in Nat /\ parentGen' >= parentGen
         /\ parent' \in ParentRep \union {Null, Undefined}
         /\ child' \in ChildRep \union {Null, Undefined}
         /\ parentSeen' \in {parentSeen, RootVersion(realmGen)}
         /\ \E g \in 0..realmGen, h \in 0..parentGen' : childSeen' = ChildVersion(g, h)
         /\ VisibleParentGen' \in Nat /\ VisibleParentGen' >= VisibleParentGen
         /\ VisibleChildGen' \in Nat /\ VisibleChildGen' >= VisibleChildGen
         /\ parentName' # parentName => VisibleParentGen' # VisibleParentGen
         /\ childName' # childName => VisibleChildGen' # VisibleChildGen
<1> DEFINE Kept ==
      /\ parentName' \in ParentNames /\ parentGen' \in Nat /\ parentGen' >= parentGen
      /\ parent' \in ParentRep \union {Null, Undefined}
      /\ parentSeen' \in {parentSeen, RootVersion(realmGen)}
      /\ VisibleParentGen' \in Nat /\ VisibleParentGen' >= VisibleParentGen
      /\ parentName' # parentName => VisibleParentGen' # VisibleParentGen
<1> DEFINE Child ==
      /\ childName' \in ChildNames /\ childGen' \in Nat
      /\ child' \in ChildRep \union {Null, Undefined}
      /\ \E g \in 0..realmGen, h \in 0..parentGen' : childSeen' = ChildVersion(g, h)
      /\ VisibleChildGen' \in Nat /\ VisibleChildGen' >= VisibleChildGen
      /\ childName' # childName => VisibleChildGen' # VisibleChildGen
<1>1. /\ realmGen' = realmGen /\ realmGen \in Nat /\ UNCHANGED realm
      /\ parentGen \in Nat /\ childGen \in Nat
      /\ parentName \in ParentNames /\ childName \in ChildNames
  BY DEF Moves, realm, IdentityOK
<1>2. ASSUME Kept, UNCHANGED ccache PROVE Child
  <2>1. PICK g \in 0..realmGen, h \in 0..parentGen : childSeen = ChildVersion(g, h)
    BY DEF IdentityOK
  <2>2. h \in 0..parentGen' /\ childSeen' = childSeen
    BY <1>1, <1>2, <2>1 DEF ccache
  <2>3. VisibleChildGen' \in Nat /\ VisibleChildGen' >= VisibleChildGen
    BY <1>1, <1>2, LeftChild
  <2> QED
    BY <1>1, <1>2, <2>1, <2>2, <2>3 DEF ccache, CachesOK
<1>3. ASSUME LookAtParent PROVE Kept
  <2>1. /\ VisibleParentGen' = VisibleParentGen /\ parentGen' = VisibleParentGen
        /\ parentName' = parentName /\ parent' = VisibleParent
        /\ parentSeen' = RootVersion(realmGen)
    BY <1>1, <1>3, LookedParent
  <2> QED
    BY <1>1, <2>1, Versions DEF VisibleParent, CachesOK
<1>4. ASSUME LookAtParent, childSeen' = ParentVersion, NEW bump \in {0, 1},
             childGen' = VisibleChildGen + bump, childName' # childName => bump = 1,
             childName' \in ChildNames, child' \in ChildRep \union {Null, Undefined}
      PROVE  Child
  <2>1. /\ VisibleParentGen' = VisibleParentGen /\ parentGen' = VisibleParentGen
        /\ ParentVersion' = ParentVersion
    BY <1>1, <1>4, LookedParent
  <2>2. ~ChildStale' /\ VisibleChildGen' = childGen'
    BY <1>4, <2>1 DEF ChildStale, ParentMoved, VisibleChildGen
  <2>3. VisibleChildGen \in Nat /\ VisibleParentGen \in Nat
    BY Versions
  <2>4. childSeen' = ChildVersion(realmGen, VisibleParentGen)
    BY <1>4 DEF ParentVersion
  <2>5. realmGen \in 0..realmGen /\ VisibleParentGen \in 0..parentGen'
    BY <1>1, <2>1, <2>3
  <2> QED
    BY <1>4, <2>2, <2>3, <2>4, <2>5
<1>5. ASSUME UNCHANGED <<pcache, ccache>> PROVE Kept /\ Child
  <2>1. ParentStale' = ParentStale /\ VisibleParentGen' = VisibleParentGen
    BY <1>1, <1>5 DEF ParentStale, VisibleParentGen, pcache
  <2>2. Kept
    BY <1>1, <1>5, <2>1, Versions DEF pcache, CachesOK
  <2> QED
    BY <1>2, <1>5, <2>2
<1>6. ASSUME LookAtParent, UNCHANGED ccache PROVE Kept /\ Child
  BY <1>2, <1>3, <1>6
<1>7. ASSUME LookAtChild PROVE Kept /\ Child
  <2>1. /\ LookAtParent /\ childSeen' = ParentVersion /\ childGen' = VisibleChildGen + 0
        /\ childName' = childName /\ child' \in ChildRep \union {Null, Undefined}
    BY <1>1, <1>7, Versions DEF LookAtChild, VisibleChild, CachesOK
  <2> QED
    BY <1>1, <1>3, <1>4, <2>1
<1>8. ASSUME NEW found \in SUBSET ParentRep, ParentsGet(found), UNCHANGED ccache
      PROVE  Kept /\ Child
  <2> DEFINE chosen == CHOOSE x \in found : TRUE
             adopted == IF found = {} THEN parentName ELSE chosen.name
             renamed == adopted # parentName
             bump == (IF renamed THEN 1 ELSE 0) + (IF ParentStale THEN 1 ELSE 0)
  <2>1. /\ parentName' = adopted
        /\ parentSeen' = RootVersion(realmGen) /\ parentGen' = parentGen + bump
        /\ parent' = IF ParentStale /\ ~(kind \in Groups) THEN Undefined
                     ELSE IF found = {} THEN Null ELSE chosen
    BY <1>8 DEF ParentsGet
  <2>2. found # {} => chosen \in ParentRep /\ chosen \in found
    OBVIOUS
  <2>3. ~ParentStale' /\ VisibleParentGen' = parentGen + bump
    BY <1>1, <2>1 DEF ParentStale, ParentMoved, VisibleParentGen
  <2>4. VisibleParentGen = parentGen + (IF ParentStale THEN 1 ELSE 0)
    BY <1>1 DEF VisibleParentGen
  <2>5. parentName' # parentName => renamed
    BY <2>1
  <2>6. bump \in {0, 1, 2} /\ bump >= (IF ParentStale THEN 1 ELSE 0)
        /\ (renamed => bump > (IF ParentStale THEN 1 ELSE 0))
    OBVIOUS
  <2>7. /\ parentName' \in ParentNames
        /\ parent' \in ParentRep \union {Null, Undefined}
    BY <1>1, <2>1, <2>2 DEF ParentRep
  <2>8. Kept
    <3> HIDE DEF bump, renamed, chosen
    <3> QED
      BY <1>1, <2>1, <2>3, <2>4, <2>5, <2>6, <2>7
  <2> QED
    BY <1>2, <1>8, <2>8
<1>9. ASSUME NEW found \in SUBSET ParentRep, SetResolved(found), UNCHANGED ccache
      PROVE  Kept /\ Child
  <2>1. PICK x \in found :
          /\ parent' = x /\ parentName' = x.name /\ parentSeen' = parentSeen
          /\ parentGen' = IF x.name # parentName THEN parentGen + 1 ELSE parentGen
    BY <1>9 DEF SetResolved
  <2>2. ParentStale' = ParentStale
    BY <1>1, <2>1 DEF ParentStale
  <2>3. x \in ParentRep /\ x.name \in ParentNames
    BY <1>9, <2>1 DEF ParentRep
  <2>4. Kept
    BY <1>1, <2>1, <2>2, <2>3 DEF VisibleParentGen
  <2> QED
    BY <1>2, <1>9, <2>4
<1>10. ASSUME NEW c \in ChildRep \union {Null}, WriteBack(c) PROVE Kept /\ Child
  <2> DEFINE renamed == c # Null /\ c.name # childName
             bump == IF renamed THEN 1 ELSE 0
  <2>1. /\ LookAtParent /\ childSeen' = ParentVersion
        /\ childName' = IF c # Null THEN c.name ELSE childName
        /\ childGen' = VisibleChildGen + bump
        /\ child' = IF ChildStale /\ kind \notin Groups THEN Undefined ELSE c
    BY <1>10 DEF WriteBack
  <2>2. c # Null => c.name \in ChildNames
    BY <1>10 DEF ChildRep
  <2>3. /\ bump \in {0, 1} /\ (childName' # childName => bump = 1)
        /\ childName' \in ChildNames /\ child' \in ChildRep \union {Null, Undefined}
    BY <1>1, <1>10, <2>1, <2>2
  <2>4. Child
    <3> HIDE DEF bump
    <3> QED
      BY <1>4, <2>1, <2>3
  <2> QED
    BY <1>3, <2>1, <2>4
<1>11. ASSUME child' = Null /\ UNCHANGED <<pcache, childName, childGen, childSeen>> PROVE Kept /\ Child
  <2>1. /\ ParentStale' = ParentStale /\ VisibleParentGen' = VisibleParentGen
        /\ VisibleChildGen' = VisibleChildGen
    BY <1>1, <1>11 DEF ParentStale, VisibleParentGen, ChildStale, ParentVersion, VisibleChildGen,
                       pcache, realm
  <2>2. Kept
    BY <1>1, <1>11, <2>1, Versions DEF pcache, CachesOK
  <2>3. PICK g \in 0..realmGen, h \in 0..parentGen : childSeen = ChildVersion(g, h)
    BY DEF IdentityOK
  <2>4. h \in 0..parentGen' /\ childSeen' = childSeen
    BY <1>11 DEF pcache
  <2> QED
    BY <1>1, <1>11, <2>1, <2>2, <2>3, <2>4, Versions
<1> HIDE DEF Kept, Child
<1>12. (\E found \in SUBSET ParentRep : ParentsGet(found) /\ UNCHANGED ccache) => Kept /\ Child
  BY <1>8
<1>13. (\E found \in SUBSET ParentRep : SetResolved(found) /\ UNCHANGED ccache) => Kept /\ Child
  BY <1>9
<1>14. (\E c \in ChildRep \union {Null} : WriteBack(c)) => Kept /\ Child
  BY <1>10
<1>15. Kept /\ Child
  BY <1>5, <1>7, <1>11, <1>6, <1>12, <1>13, <1>14, Zenon DEF Moves
<1> QED
  BY <1>15 DEF Kept, Child

LEMMA VersionGrows ==
  ASSUME IdentityOK,
         NEW a \in Nat, a = realmGen', NEW b \in Nat, b = VisibleParentGen',
         NEW c \in Nat, c = VisibleChildGen',
         a >= realmGen, b >= VisibleParentGen, c >= VisibleChildGen,
         \/ Target' = Target
         \/ a # realmGen \/ b # VisibleParentGen \/ c # VisibleChildGen
  PROVE  VersionStep
<1>1. Version = <<realmGen, VisibleParentGen, VisibleChildGen>>
  BY Versions
<1>2. Version' = <<a, b, c>>
  BY Appended DEF Version, ParentVersion, ChildVersion
<1>3. \A i \in 1..3 : Version'[i] >= Version[i]
  BY <1>1, <1>2
<1>4. Target' # Target => Version' # Version
  BY <1>1, <1>2
<1> QED
  BY <1>3, <1>4 DEF VersionStep

LEMMA MovesVersion == ASSUME IdentityOK, CachesOK, Moves PROVE VersionStep
<1>1. realmGen' = realmGen /\ realmName' = realmName /\ realmGen \in Nat
  BY DEF Moves, realm, IdentityOK
<1>2. /\ VisibleParentGen' \in Nat /\ VisibleParentGen' >= VisibleParentGen
      /\ VisibleChildGen' \in Nat /\ VisibleChildGen' >= VisibleChildGen
      /\ parentName' # parentName => VisibleParentGen' # VisibleParentGen
      /\ childName' # childName => VisibleChildGen' # VisibleChildGen
  BY MovesGenerations
<1>3. \/ Target' = Target
      \/ VisibleParentGen' # VisibleParentGen \/ VisibleChildGen' # VisibleChildGen
  BY <1>1, <1>2 DEF Target
<1> QED
  BY <1>1, <1>2, <1>3, VersionGrows

LEMMA MovesTypes ==
  ASSUME IdentityOK, CachesOK, Moves, UNCHANGED setting,
         retargets' \in retargets..Usages[usage].retargets,
         edits' \in 0..Usages[usage].edits, overtaken' \in BOOLEAN
  PROVE  IdentityOK' /\ CachesOK'
<1>1. /\ realmGen' = realmGen /\ realmName' = realmName /\ usage' = usage /\ kind' = kind
  BY DEF Moves, realm, setting
<1>2. /\ usage \in DOMAIN Usages /\ kind \in Kinds /\ realmName \in Realms
      /\ retargets \in Nat /\ realmGen \in 0..retargets /\ Usages[usage].retargets \in Nat
  BY ChildHandleAssumption DEF IdentityOK, Usage
<1>3. /\ parentName' \in ParentNames /\ childName' \in ChildNames
      /\ parentGen' \in Nat /\ childGen' \in Nat
      /\ parent' \in ParentRep \union {Null, Undefined}
      /\ child' \in ChildRep \union {Null, Undefined}
      /\ parentSeen' \in {parentSeen, RootVersion(realmGen)}
      /\ \E g \in 0..realmGen, h \in 0..parentGen' : childSeen' = ChildVersion(g, h)
  BY MovesGenerations
<1>4. parentSeen' \in {RootVersion(g) : g \in 0..realmGen}
  BY <1>2, <1>3 DEF IdentityOK
<1>5. childSeen' \in {ChildVersion(g, h) : g \in 0..realmGen, h \in 0..parentGen'}
  BY <1>3
<1>6. retargets' \in 0..Usages[usage].retargets /\ realmGen \in 0..retargets'
  BY <1>2
<1> QED
  BY <1>1, <1>2, <1>3, <1>4, <1>5, <1>6 DEF IdentityOK, CachesOK

\* A handle moved to another name or realm: its own generation is another, and
\* those below it are stale.
RealmMoves ==
  /\ realmName' \in Realms /\ realmGen' = realmGen + 1 /\ UNCHANGED <<pcache, ccache>>

ParentMoves ==
  /\ parentName' \in ParentNames /\ parentGen' = parentGen + 1 /\ parent' = Undefined
  /\ UNCHANGED <<realm, parentSeen, ccache>>

ChildMoves ==
  /\ childName' \in ChildNames /\ childGen' = childGen + 1 /\ child' = Undefined
  /\ UNCHANGED <<realm, pcache, childSeen>>

LEMMA RealmMovesOn ==
  ASSUME IdentityOK, RealmMoves
  PROVE  VersionStep /\ VisibleParent' = Undefined /\ VisibleChild' = Undefined
<1>1. PICK g \in 0..realmGen : parentSeen = <<g>>
  BY DEF IdentityOK, RootVersion
<1>2. PICK h \in 0..realmGen, k \in 0..parentGen : childSeen = <<h, k>>
  BY SeenBefore
<1>3. realmGen' = realmGen + 1 /\ realmGen \in Nat /\ parentGen \in Nat /\ childGen \in Nat
  BY DEF RealmMoves, IdentityOK
<1>4. ParentStale'
  BY <1>1, <1>3 DEF ParentStale, ParentMoved, RootVersion, RealmMoves, pcache
<1>5. ChildStale'
  BY <1>2, <1>3 DEF ChildStale, ParentMoved, ParentVersion, ChildVersion, RealmMoves, ccache
<1>6. VisibleParentGen' = parentGen + 1 /\ VisibleChildGen' = childGen + 1
  BY <1>4, <1>5 DEF VisibleParentGen, VisibleChildGen, RealmMoves, pcache, ccache
<1>7. VisibleParentGen' >= VisibleParentGen /\ VisibleChildGen' >= VisibleChildGen
  BY <1>3, <1>6 DEF VisibleParentGen, VisibleChildGen
<1>8. VersionStep
  BY <1>3, <1>6, <1>7, VersionGrows
<1> QED
  BY <1>4, <1>5, <1>8 DEF VisibleParent, VisibleChild

LEMMA ParentMovesOn ==
  ASSUME IdentityOK, ParentMoves
  PROVE  VersionStep /\ VisibleParent' = Undefined /\ VisibleChild' = Undefined
<1>1. PICK g \in 0..realmGen, h \in 0..parentGen : childSeen = <<g, h>>
  BY SeenBefore
<1>2. /\ realmGen' = realmGen /\ realmName' = realmName /\ parentGen' = parentGen + 1
      /\ ParentStale' = ParentStale
      /\ realmGen \in Nat /\ parentGen \in Nat /\ childGen \in Nat
  BY DEF ParentMoves, realm, ParentStale, IdentityOK
<1>3. VisibleParentGen' = VisibleParentGen + 1 /\ VisibleParentGen' > parentGen
  BY <1>2 DEF VisibleParentGen
<1>4. ChildStale'
  BY <1>1, <1>2, <1>3, Versions
     DEF ChildStale, ParentMoved, ParentVersion, ChildVersion, ParentMoves, ccache
<1>5. VisibleChildGen' = childGen + 1 /\ VisibleChildGen' >= VisibleChildGen
  BY <1>2, <1>4 DEF VisibleChildGen, ParentMoves, ccache
<1>6. VersionStep
  BY <1>2, <1>3, <1>5, Versions, VersionGrows
<1> QED
  BY <1>4, <1>6 DEF VisibleParent, VisibleChild, ParentMoves

LEMMA ChildMovesOn ==
  ASSUME IdentityOK, ChildMoves
  PROVE  VersionStep /\ VisibleParent' = VisibleParent /\ VisibleChild' = Undefined
<1>1. /\ realmGen' = realmGen /\ childGen' = childGen + 1
      /\ ParentStale' = ParentStale /\ VisibleParentGen' = VisibleParentGen
      /\ VisibleParent' = VisibleParent
      /\ realmGen \in Nat /\ childGen \in Nat
  BY DEF ChildMoves, realm, pcache, ParentStale, VisibleParentGen, VisibleParent, IdentityOK
<1>2. ChildStale' = ChildStale
  BY <1>1 DEF ChildStale, ParentVersion, ChildMoves
<1>3. VisibleChildGen' = VisibleChildGen + 1
  BY <1>1, <1>2 DEF VisibleChildGen
<1>4. VersionStep
  BY <1>1, <1>3, Versions, VersionGrows
<1> QED
  BY <1>1, <1>4 DEF VisibleChild, ChildMoves

LEMMA RebindTypes ==
  ASSUME IdentityOK, CachesOK, RealmMoves \/ ParentMoves \/ ChildMoves,
         UNCHANGED <<setting, edits>>, retargets < Usages[usage].retargets,
         retargets' = retargets + 1, overtaken' \in BOOLEAN
  PROVE  IdentityOK' /\ CachesOK'
<1>1. /\ usage' = usage /\ kind' = kind /\ edits' = edits
      /\ retargets \in Nat /\ Usages[usage].retargets \in Nat
      /\ realmGen \in 0..retargets /\ parentGen \in Nat /\ childGen \in Nat
  BY ChildHandleAssumption DEF setting, IdentityOK, Usage
<1>2. retargets' \in 0..Usages[usage].retargets
  BY <1>1
<1>3. PICK g \in 0..realmGen : parentSeen = RootVersion(g)
  BY DEF IdentityOK
<1>4. PICK h \in 0..realmGen, k \in 0..parentGen : childSeen = ChildVersion(h, k)
  BY DEF IdentityOK
<1>5. /\ parentSeen' = parentSeen /\ childSeen' = childSeen
      /\ realmGen' \in {realmGen, realmGen + 1} /\ parentGen' \in {parentGen, parentGen + 1}
      /\ childGen' \in {childGen, childGen + 1}
      /\ realmName' \in Realms /\ parentName' \in ParentNames /\ childName' \in ChildNames
      /\ parent' \in {parent, Undefined} /\ child' \in {child, Undefined}
  BY DEF RealmMoves, ParentMoves, ChildMoves, realm, pcache, ccache, IdentityOK
<1>6. g \in 0..realmGen' /\ h \in 0..realmGen' /\ k \in 0..parentGen' /\ realmGen' \in 0..retargets'
  BY <1>1, <1>5
<1>7. /\ parentSeen' \in {RootVersion(x) : x \in 0..realmGen'}
      /\ childSeen' \in {ChildVersion(x, y) : x \in 0..realmGen', y \in 0..parentGen'}
  BY <1>3, <1>4, <1>5, <1>6
<1>8. usage \in DOMAIN Usages /\ kind \in Kinds /\ edits \in 0..Usages[usage].edits
  BY DEF IdentityOK
<1>9. parentGen' \in Nat /\ childGen' \in Nat
  BY <1>1, <1>5
<1>10. IdentityOK'
  BY <1>1, <1>2, <1>5, <1>6, <1>7, <1>8, <1>9 DEF IdentityOK
<1> QED
  BY <1>5, <1>10 DEF CachesOK

-----------------------------------------------------------------------------
(* Calls and requests as records                                           *)

Places == {"idle", "parent", "get", "lookup", "looked", "again", "partner", "write", "sleep", "own"}

Marked == ParentRep \union ChildRep \union {Pending, Failed, Done}

LEMMA AwaitFields ==
  ASSUME NEW c \in Call, NEW pc \in Places, NEW req \in Requests
  PROVE  /\ Await(c, pc, req) \in Call
         /\ Await(c, pc, req).pc = pc /\ Await(c, pc, req).req = req
         /\ Await(c, pc, req).ans = {Pending} /\ Await(c, pc, req).alone = c.alone
         /\ Await(c, pc, req).op = c.op /\ Await(c, pc, req).last = c.last
         /\ Await(c, pc, req).asked = c.asked /\ Await(c, pc, req).up = c.up
         /\ Await(c, pc, req).one = c.one /\ Await(c, pc, req).tries = c.tries
  BY ZenonT(60) DEF Await, Call, Places

LEMMA KnownFields ==
  ASSUME NEW c \in Call, NEW pc \in Places, NEW found \in SUBSET Marked
  PROVE  /\ Known(c, pc, found) \in Call
         /\ Known(c, pc, found).pc = pc /\ Known(c, pc, found).req = Null
         /\ Known(c, pc, found).ans = found /\ Known(c, pc, found).alone = c.alone
         /\ Known(c, pc, found).op = c.op /\ Known(c, pc, found).last = c.last
         /\ Known(c, pc, found).asked = c.asked /\ Known(c, pc, found).up = c.up
         /\ Known(c, pc, found).one = c.one /\ Known(c, pc, found).tries = c.tries
  BY ZenonT(60) DEF Known, Call, Places, Marked

LEMMA RequestFields ==
  ASSUME NEW k \in Mutations \union {"parentByName", "childByName", "childById", "groupById", "partner"},
         NEW r \in Realms, NEW up \in ParentRep \union {Null},
         NEW key \in ParentNames \union {Null}, NEW n \in ChildNames,
         NEW i \in ChildIds \union {Null}
  PROVE  /\ Request(k, r, up, key, n, i) \in Requests
         /\ Request(k, r, up, key, n, i).kind = k /\ Request(k, r, up, key, n, i).realm = r
         /\ Request(k, r, up, key, n, i).up = up /\ Request(k, r, up, key, n, i).key = key
         /\ Request(k, r, up, key, n, i).name = n /\ Request(k, r, up, key, n, i).id = i
         /\ Request(k, r, up, key, n, i) # Null
<1>1. Request(k, r, up, key, n, i) \in Requests
  BY DEF Request, Requests
<1> QED
  BY <1>1, Marks DEF Request

LEMMA SendFields ==
  ASSUME IdentityOK,
         NEW k \in Mutations \union {"childByName", "childById", "groupById", "partner"},
         NEW up \in ParentRep \union {Null}, NEW i \in ChildIds \union {Null}
  PROVE  /\ Send(k, up, i) \in Requests
         /\ Send(k, up, i).kind = k /\ Send(k, up, i).realm = realmName
         /\ Send(k, up, i).up = up /\ Send(k, up, i).name = childName
         /\ Send(k, up, i).id = i /\ Send(k, up, i) # Null
<1>1. /\ realmName \in Realms /\ childName \in ChildNames /\ Null \in ParentNames \union {Null}
      /\ k \in Mutations \union {"parentByName", "childByName", "childById", "groupById", "partner"}
  BY DEF IdentityOK
<1>2. Send(k, up, i) = Request(k, realmName, up, Null, childName, i)
  BY DEF Send
<1> QED
  BY <1>1, <1>2, RequestFields, SMTT(30)

LEMMA IdleShape == Shape(Idle) /\ Idle \in Call
<1>1. Idle \in Call
  BY Marks DEF Idle, Call
<1>2. /\ Idle.op = "none" /\ Idle.pc = "idle" /\ Idle.one = Null /\ Idle.req = Null
      /\ Idle.ans = {Pending}
  BY DEF Idle
<1> QED
  BY <1>1, <1>2 DEF Shape, OpAt, ReqAt, AnsAt, Resolving

\* Losing "alone" takes nothing else away.
LEMMA Crossed ==
  ASSUME NEW c \in Call
  PROVE  LET d == [c EXCEPT !.alone = FALSE]
         IN  /\ d \in Call /\ d.alone = FALSE
             /\ d.op = c.op /\ d.pc = c.pc /\ d.last = c.last /\ d.asked = c.asked
             /\ d.up = c.up /\ d.one = c.one /\ d.req = c.req /\ d.ans = c.ans
             /\ d.tries = c.tries
             /\ Shape(c) => Shape(d)
<1> DEFINE d == [c EXCEPT !.alone = FALSE]
<1>1. /\ d \in Call /\ d.alone = FALSE
      /\ d.op = c.op /\ d.pc = c.pc /\ d.last = c.last /\ d.asked = c.asked
      /\ d.up = c.up /\ d.one = c.one /\ d.req = c.req /\ d.ans = c.ans
      /\ d.tries = c.tries
  BY DEF Call
<1>2. Shape(c) => Shape(d)
  <2> HIDE DEF d
  <2> QED
    BY <1>1 DEF Shape, OpAt, ReqAt, AnsAt
<1> QED
  BY <1>1, <1>2

\* One call moves on; the others are as they were, or no longer alone.
LEMMA GoesParts ==
  ASSUME CallsOK, NEW p \in Callers, NEW r \in Call, Goes(p, r)
  PROVE  /\ call' \in [Callers -> Call] /\ call'[p] = r
         /\ \A q \in Callers \ {p} :
              call'[q] = call[q] \/ call'[q] = [call[q] EXCEPT !.alone = FALSE]
<1> DEFINE moved == [call EXCEPT ![p] = r]
<1>1. /\ moved \in [Callers -> Call] /\ moved[p] = r
      /\ \A q \in Callers \ {p} : moved[q] = call[q]
  BY DEF CallsOK
<1>2. call' = moved \/ call' = Disturb(moved, {p})
  BY DEF Goes
<1>3. \A q \in Callers : [call[q] EXCEPT !.alone = FALSE] \in Call
  BY Crossed DEF CallsOK
<1> QED
  <2> HIDE DEF moved
  <2>1. CASE call' = moved
    BY <1>1, <2>1
  <2>2. CASE call' = Disturb(moved, {p})
    BY <1>1, <1>3, <2>2 DEF Disturb
  <2> QED
    BY <1>2, <2>1, <2>2

LEMMA GoesTypes ==
  ASSUME CallsOK, NEW p \in Callers, NEW r, Shape(r), Goes(p, r) PROVE CallsOK'
<1>1. r \in Call
  BY DEF Shape
<1>2. /\ call' \in [Callers -> Call] /\ call'[p] = r
      /\ \A q \in Callers \ {p} :
           call'[q] = call[q] \/ call'[q] = [call[q] EXCEPT !.alone = FALSE]
  BY <1>1, GoesParts
<1>3. ASSUME NEW q \in Callers PROVE Shape(call'[q])
  <2>1. q # p => Shape(call[q]) /\ Shape([call[q] EXCEPT !.alone = FALSE])
    BY Crossed DEF CallsOK
  <2> QED
    BY <1>2, <2>1
<1> QED
  BY <1>2, <1>3 DEF CallsOK

LEMMA NewFields ==
  ASSUME NEW op \in AllOps
  PROVE  /\ New(op) \in Call /\ New(op).op = op /\ New(op).pc = "idle"
         /\ New(op).last <=> op \in {"get", "getById"}
         /\ New(op).asked = Null /\ New(op).up = Null /\ New(op).one = Null
         /\ New(op).req = Null /\ New(op).ans = {Pending} /\ New(op).tries = 0
         /\ New(op).alone = TRUE
<1>1. /\ Idle \in Call /\ Idle.pc = "idle" /\ Idle.asked = Null /\ Idle.up = Null
      /\ Idle.one = Null /\ Idle.req = Null /\ Idle.ans = {Pending} /\ Idle.tries = 0
      /\ Idle.alone = TRUE
  BY IdleShape DEF Idle
<1>2. (op \in {"get", "getById"}) \in BOOLEAN /\ op \in AllOps \union {"none"}
  OBVIOUS
<1> QED
  BY <1>1, <1>2 DEF New, Call

\* A parent is resolved from the cache, or asked for by its name.
LEMMA ResolveFields ==
  ASSUME IdentityOK, NEW c \in Call, NEW pc \in Resolving
  PROVE  LET d == ResolveParent(c, pc)
         IN  /\ d \in Call /\ d.pc = pc /\ d.alone = c.alone
             /\ d.op = c.op /\ d.last = c.last /\ d.asked = c.asked
             /\ d.up = c.up /\ d.one = c.one /\ d.tries = c.tries
             /\ \/ /\ kind # "nestedGroup" /\ VisibleParent \in ParentRep
                   /\ d.req = Null /\ d.ans = {VisibleParent}
                \/ /\ kind = "nestedGroup" \/ VisibleParent \notin ParentRep
                   /\ d.req # Null /\ d.ans = {Pending}
                   /\ d.req.kind = "parentByName" /\ d.req.realm = realmName
                   /\ d.req.key = parentName /\ d.req.name = childName
<1>1. pc \in Places
  BY DEF Places, Resolving
<1>2. /\ ParentByName \in Requests /\ ParentByName # Null
      /\ ParentByName.kind = "parentByName" /\ ParentByName.realm = realmName
      /\ ParentByName.key = parentName /\ ParentByName.name = childName
  BY RequestFields DEF ParentByName, IdentityOK
<1>3. CASE kind # "nestedGroup" /\ VisibleParent \in ParentRep
  <2>1. ResolveParent(c, pc) = Known(c, pc, {VisibleParent})
    BY <1>3 DEF ResolveParent
  <2>2. {VisibleParent} \in SUBSET Marked
    BY <1>3 DEF Marked
  <2> QED
    BY <1>1, <1>3, <2>1, <2>2, KnownFields
<1>4. CASE ~(kind # "nestedGroup" /\ VisibleParent \in ParentRep)
  <2>1. ResolveParent(c, pc) = Await(c, pc, ParentByName)
    BY <1>4 DEF ResolveParent
  <2> QED
    BY <1>1, <1>2, <1>4, <2>1, AwaitFields
<1> QED
  BY <1>3, <1>4

LEMMA ResolveShape ==
  ASSUME IdentityOK, NEW c \in Call, NEW pc \in Resolving, OpAt(ResolveParent(c, pc))
  PROVE  Shape(ResolveParent(c, pc))
<1> DEFINE d == ResolveParent(c, pc)
<1>1. /\ d \in Call /\ d.pc = pc
      /\ \/ VisibleParent \in ParentRep /\ d.req = Null /\ d.ans = {VisibleParent}
         \/ d.req # Null /\ d.ans = {Pending} /\ d.req.kind = "parentByName"
  BY ResolveFields
<1>2. ReqAt(d)
  <2> HIDE DEF d
  <2> QED
    BY <1>1 DEF ReqAt, Resolving, Mutations
<1>3. AnsAt(d)
  <2> HIDE DEF d
  <2> QED
    BY <1>1 DEF AnsAt, Resolving, IsAnswer
<1> QED
  BY <1>1, <1>2, <1>3 DEF Shape

\* A call that may call get(), other than getById().
MayGet(c) ==
  /\ c \in Call /\ c.op \notin {"none", "parentGet", "listUsers", "getById"}
  /\ c.op = "get" => c.last
  /\ c.one \in ChildRep \union {Null}

Getting(c) == ResolveParent([c EXCEPT !.asked = [realm |-> realmName, name |-> childName]], "get")

LEMMA GettingFields ==
  ASSUME IdentityOK, NEW c \in Call
  PROVE  LET d == Getting(c)
         IN  /\ d \in Call /\ d.pc = "get" /\ d.alone = c.alone
             /\ d.op = c.op /\ d.last = c.last /\ d.up = c.up /\ d.one = c.one
             /\ d.tries = c.tries
             /\ d.asked # Null /\ d.asked.realm = realmName /\ d.asked.name = childName
             /\ \/ /\ kind # "nestedGroup" /\ VisibleParent \in ParentRep
                   /\ d.req = Null /\ d.ans = {VisibleParent}
                \/ /\ kind = "nestedGroup" \/ VisibleParent \notin ParentRep
                   /\ d.req # Null /\ d.ans = {Pending}
                   /\ d.req.kind = "parentByName" /\ d.req.realm = realmName
                   /\ d.req.key = parentName
<1> DEFINE asked == [realm |-> realmName, name |-> childName]
           e == [c EXCEPT !.asked = asked]
<1>1. asked \in [realm : Realms, name : ChildNames] /\ asked # Null
  BY Marks DEF IdentityOK
<1>2. /\ e \in Call /\ e.alone = c.alone /\ e.op = c.op /\ e.last = c.last /\ e.up = c.up
      /\ e.one = c.one /\ e.tries = c.tries /\ e.asked = asked
  <2> HIDE DEF asked
  <2> QED
    BY <1>1 DEF Call
<1>3. Getting(c) = ResolveParent(e, "get") /\ "get" \in Resolving
  BY DEF Getting, Resolving
<1>4. asked.realm = realmName /\ asked.name = childName
  OBVIOUS
<1> HIDE DEF e, asked
<1> QED
  BY <1>1, <1>2, <1>3, <1>4, ResolveFields

LEMMA GetTypes ==
  ASSUME IdentityOK, CachesOK, CallsOK, NEW p \in Callers, NEW c, MayGet(c), Get(p, c)
  PROVE  CallsOK' /\ Moves /\ UNCHANGED <<setting, server>>
<1>1. Goes(p, Getting(c)) /\ UNCHANGED <<setting, realm, server>>
  BY DEF Get, Getting
<1>2. LookForParent \/ LookAtChild
  BY DEF Get
<1>3. Moves
  BY <1>1, <1>2 DEF Moves, LookForParent
<1>4. c \in Call
  BY DEF MayGet
<1>5. /\ Getting(c).pc = "get" /\ Getting(c).op = c.op /\ Getting(c).last = c.last
      /\ Getting(c).asked # Null /\ Getting(c).one = c.one
  BY <1>4, GettingFields
<1>6. OpAt(Getting(c))
  BY <1>5 DEF OpAt, MayGet
<1>7. Shape(Getting(c))
  <2> DEFINE e == [c EXCEPT !.asked = [realm |-> realmName, name |-> childName]]
  <2>1. e \in Call
    BY <1>4 DEF Call, IdentityOK
  <2>2. "get" \in Resolving /\ Getting(c) = ResolveParent(e, "get")
    BY DEF Resolving, Getting
  <2> HIDE DEF e
  <2> QED
    BY <1>6, <2>1, <2>2, ResolveShape
<1>8. CallsOK'
  BY <1>1, <1>7, GoesTypes
<1> QED
  BY <1>1, <1>3, <1>8

-----------------------------------------------------------------------------
(* What each step leaves of the types                                      *)

LEMMA CallFields ==
  ASSUME TypeInv, NEW p \in Callers
  PROVE  /\ call[p] \in Call /\ Shape(call[p]) /\ OpAt(call[p]) /\ ReqAt(call[p]) /\ AnsAt(call[p])
         /\ call[p].op \in AllOps \union {"none"} /\ call[p].last \in BOOLEAN
         /\ call[p].up \in ParentRep \union {Null} /\ call[p].tries \in 0..Attempts
         /\ call[p].asked \in [realm : Realms, name : ChildNames] \union {Null}
         /\ call[p].req \in Requests \union {Null}
         /\ call[p].alone \in BOOLEAN
<1>1. Shape(call[p])
  BY DEF TypeInv, CallsOK
<1>2. call[p] \in Call /\ OpAt(call[p]) /\ ReqAt(call[p]) /\ AnsAt(call[p])
  BY <1>1 DEF Shape
<1> QED
  BY <1>1, <1>2 DEF Call

LEMMA FinishTypes == ASSUME TypeInv, NEW p \in Callers, Finish(p) PROVE CallsOK'
  BY IdleShape, GoesTypes DEF Finish, TypeInv

LEMMA ThrowTypes ==
  ASSUME TypeInv, NEW p \in Callers, Throw(p)
  PROVE  CallsOK' /\ Moves /\ UNCHANGED <<setting, server>>
  BY FinishTypes DEF Throw, Moves

\* The parents answered are representations of parents, and so are those taken.
LEMMA MatchesTypes ==
  ASSUME TypeInv, NEW p \in Callers, Answered(p, Resolving \union {"own"})
  PROVE  Matches(p) \in SUBSET ParentRep /\ Resolved(p) \in SUBSET Matches(p)
<1>1. call[p].ans \subseteq ParentRep
  BY CallFields DEF Answered, AnsAt, IsAnswer
<1> QED
  BY <1>1 DEF Matches, Resolved

LEMMA ParentReturnsTypes ==
  ASSUME TypeInv, NEW p \in Callers, ParentReturns(p)
  PROVE  CallsOK' /\ Moves /\ UNCHANGED <<setting, server>>
<1> DEFINE r == Known(call[p], call[p].pc, Resolved(p))
<1>1. /\ Answered(p, {"parent", "get", "again"}) /\ call[p].pc \in Resolving
      /\ UNCHANGED <<setting, realm, ccache, server>> /\ Goes(p, r)
  BY DEF ParentReturns, Answered, Resolving
<1>2. Answered(p, Resolving \union {"own"})
  BY <1>1 DEF Answered
<1>3. Matches(p) \in SUBSET ParentRep /\ Resolved(p) \in SUBSET ParentRep
  BY <1>2, MatchesTypes
<1>4. UNCHANGED pcache \/ SetResolved(Matches(p)) \/ ParentsGet(Matches(p))
  <2>1. CASE kind = "nestedGroup" \/ (kind \in ClientKinds /\ Matches(p) = {})
    BY <2>1 DEF ParentReturns
  <2>2. CASE kind # "nestedGroup" /\ kind \in ClientKinds /\ Matches(p) # {}
    BY <2>2 DEF ParentReturns
  <2>3. CASE kind # "nestedGroup" /\ kind \notin ClientKinds
    BY <2>3 DEF ParentReturns
  <2> QED
    BY <2>1, <2>2, <2>3
<1>5. Moves
  BY <1>1, <1>3, <1>4 DEF Moves
<1>6. call[p].pc \in Places /\ Resolved(p) \in SUBSET Marked
  BY <1>1, <1>3 DEF Places, Resolving, Marked
<1>7. /\ r \in Call /\ r.pc = call[p].pc /\ r.req = Null /\ r.ans = Resolved(p)
      /\ r.op = call[p].op /\ r.last = call[p].last /\ r.asked = call[p].asked
      /\ r.one = call[p].one /\ r.tries = call[p].tries
  BY <1>6, CallFields, KnownFields
<1>8. Shape(r)
  <2> HIDE DEF r
  <2>1. OpAt(r)
    BY <1>7, CallFields DEF OpAt
  <2>2. ReqAt(r) /\ AnsAt(r)
    BY <1>1, <1>3, <1>7 DEF ReqAt, AnsAt, Resolving
  <2> QED
    BY <1>7, <2>1, <2>2 DEF Shape
<1> QED
  BY <1>1, <1>5, <1>8, GoesTypes DEF TypeInv

LEMMA OwnReturnsTypes ==
  ASSUME TypeInv, NEW p \in Callers, OwnReturns(p)
  PROVE  CallsOK' /\ Moves /\ UNCHANGED <<setting, server>>
<1>1. /\ ParentsGet(Matches(p)) /\ UNCHANGED <<setting, realm, ccache, server>> /\ Finish(p)
      /\ Answered(p, Resolving \union {"own"})
  BY DEF OwnReturns, Answered
<1>2. Matches(p) \in SUBSET ParentRep
  BY <1>1, MatchesTypes
<1> QED
  BY <1>1, <1>2, FinishTypes DEF Moves

LEMMA BeginAtParentTypes ==
  ASSUME TypeInv, NEW p \in Callers, NEW op \in AllOps, BeginAtParent(p, op)
  PROVE  CallsOK' /\ Moves /\ UNCHANGED <<setting, server>>
<1> DEFINE r == ResolveParent(New(op), "parent")
<1>1. /\ UNCHANGED <<setting, realm, server>> /\ Goes(p, r) /\ LookForParent
      /\ op \in {"create", "update", "ensure", "delete", "discard", "listUsers"}
  BY DEF BeginAtParent, Starts, ParentFirst
<1>2. "parent" \in Resolving
  BY DEF Resolving
<1>3. r.pc = "parent" /\ r.op = op /\ r.one = Null
  <2>1. New(op) \in Call /\ New(op).op = op /\ New(op).one = Null
    BY NewFields
  <2> QED
    BY <1>2, <2>1, ResolveFields DEF TypeInv
<1>4. OpAt(r)
  <2> HIDE DEF r
  <2> QED
    BY <1>1, <1>3 DEF OpAt
<1>5. Shape(r)
  BY <1>2, <1>4, NewFields, ResolveShape DEF TypeInv
<1>6. Moves
  BY <1>1 DEF Moves, LookForParent
<1> QED
  BY <1>1, <1>5, <1>6, GoesTypes DEF TypeInv

LEMMA FromCacheTypes ==
  ASSUME TypeInv, NEW p \in Callers, NEW op \in {"use", "link"}, VisibleChild \in ChildRep,
         Goes(p, [New(op) EXCEPT !.pc = "looked", !.one = VisibleChild])
  PROVE  CallsOK'
<1> DEFINE r == [New(op) EXCEPT !.pc = "looked", !.one = VisibleChild]
<1>1. /\ r \in Call /\ r.pc = "looked" /\ r.one = VisibleChild /\ r.op = op /\ r.req = Null
      /\ r.ans = {Pending}
  <2>1. /\ New(op) \in Call /\ New(op).op = op /\ New(op).req = Null /\ New(op).ans = {Pending}
    BY NewFields DEF AllOps
  <2> QED
    BY <2>1 DEF Call
<1>2. Shape(r)
  <2> HIDE DEF r
  <2> QED
    BY <1>1, Marks DEF Shape, OpAt, ReqAt, AnsAt, Resolving, IsAnswer
<1> QED
  BY <1>2, GoesTypes DEF TypeInv

LEMMA BeginAtChildTypes ==
  ASSUME TypeInv, NEW p \in Callers, NEW op \in AllOps, BeginAtChild(p, op)
  PROVE  CallsOK' /\ Moves /\ UNCHANGED <<setting, server>>
<1>1. /\ UNCHANGED <<setting, realm, server>> /\ op \notin {"parentGet", "getById", "listUsers"}
  BY DEF BeginAtChild, Starts, ParentFirst
<1>2. CASE FromCache(op)
  <2>1. /\ LookAtChild /\ op \in {"use", "link"} /\ VisibleChild \in ChildRep
        /\ Goes(p, [New(op) EXCEPT !.pc = "looked", !.one = VisibleChild])
    BY <1>2 DEF BeginAtChild, FromCache
  <2> QED
    BY <1>1, <2>1, FromCacheTypes DEF Moves
<1>3. CASE ~FromCache(op)
  <2>1. Get(p, New(op))
    BY <1>3 DEF BeginAtChild
  <2>2. MayGet(New(op))
    BY <1>1, NewFields DEF MayGet, AllOps
  <2> QED
    BY <2>1, <2>2, GetTypes DEF TypeInv
<1> QED
  BY <1>2, <1>3

LEMMA BeginGetByIdTypes ==
  ASSUME TypeInv, NEW p \in Callers, NEW i \in ChildIds, BeginGetById(p, i)
  PROVE  CallsOK' /\ Moves /\ UNCHANGED <<setting, server>>
<1>1. UNCHANGED <<setting, realm, server>> /\ "getById" \in AllOps
  BY DEF BeginGetById, Starts, AllOps
<1>2. /\ New("getById") \in Call /\ New("getById").op = "getById" /\ New("getById").last
      /\ New("getById").req = Null /\ New("getById").tries = 0 /\ New("getById").one = Null
  BY <1>1, NewFields
<1>3. CASE kind = "childGroup"
  <2> DEFINE req == Send("groupById", Null, i)
             r == Await(New("getById"), "lookup", req)
  <2>1. Goes(p, r) /\ UNCHANGED <<pcache, ccache>>
    BY <1>3 DEF BeginGetById
  <2>2. req \in Requests /\ req # Null /\ req.kind = "groupById"
    BY SendFields DEF TypeInv
  <2>3. /\ r \in Call /\ r.pc = "lookup" /\ r.req = req /\ r.ans = {Pending}
        /\ r.op = "getById" /\ r.last /\ r.tries = 0 /\ r.one = Null
    <3>1. "lookup" \in Places
      BY DEF Places
    <3> HIDE DEF req
    <3> QED
      BY <1>2, <2>2, <3>1, AwaitFields
  <2>4. Shape(r)
    <3> HIDE DEF req, r
    <3> QED
      BY <2>2, <2>3 DEF Shape, OpAt, ReqAt, AnsAt, Resolving, Mutations, IsAnswer
  <2> QED
    BY <1>1, <2>1, <2>4, GoesTypes DEF TypeInv, Moves
<1>4. CASE kind # "childGroup"
  <2> DEFINE e == [New("getById") EXCEPT !.one = i]
             r == ResolveParent(e, "get")
  <2>1. Goes(p, r) /\ LookAtChild
    BY <1>4 DEF BeginGetById
  <2>2. e \in Call /\ e.op = "getById" /\ e.last /\ e.tries = 0 /\ e.one = i
    BY <1>2 DEF Call
  <2>3. "get" \in Resolving
    BY DEF Resolving
  <2>4. Shape(r)
    <3> HIDE DEF e
    <3>1. r.pc = "get" /\ r.op = "getById" /\ r.last /\ r.tries = 0 /\ r.one = i
      BY <2>2, <2>3, ResolveFields DEF TypeInv
    <3>2. OpAt(r)
      <4> HIDE DEF r
      <4> QED
        BY <3>1 DEF OpAt
    <3> QED
      BY <2>2, <2>3, <3>2, ResolveShape DEF TypeInv
  <2> QED
    BY <1>1, <2>1, <2>4, GoesTypes DEF TypeInv, Moves
<1> QED
  BY <1>3, <1>4

LEMMA BeginParentGetTypes ==
  ASSUME TypeInv, NEW p \in Callers, BeginParentGet(p)
  PROVE  CallsOK' /\ Moves /\ UNCHANGED <<setting, server>>
<1> DEFINE r == Await(New("parentGet"), "own", ParentByName)
<1>1. /\ UNCHANGED <<setting, realm, server>> /\ Goes(p, r) /\ UNCHANGED ccache
      /\ UNCHANGED pcache \/ LookAtParent
      /\ "parentGet" \in AllOps
  BY DEF BeginParentGet, Starts, AllOps
<1>2. /\ ParentByName \in Requests /\ ParentByName # Null
      /\ ParentByName.kind = "parentByName"
  BY RequestFields DEF ParentByName, TypeInv, IdentityOK
<1>3. /\ New("parentGet") \in Call /\ New("parentGet").op = "parentGet"
      /\ New("parentGet").one = Null
  BY <1>1, NewFields
<1>4. /\ r \in Call /\ r.pc = "own" /\ r.req = ParentByName /\ r.ans = {Pending}
      /\ r.op = "parentGet" /\ r.one = Null
  <2>1. "own" \in Places
    BY DEF Places
  <2> QED
    BY <1>2, <1>3, <2>1, AwaitFields
<1>5. Shape(r)
  <2> HIDE DEF r
  <2> QED
    BY <1>2, <1>4 DEF Shape, OpAt, ReqAt, AnsAt, Resolving, Mutations, IsAnswer
<1>6. Moves
  BY <1>1 DEF Moves
<1> QED
  BY <1>1, <1>5, <1>6, GoesTypes DEF TypeInv

\* A call asks the next thing: the request belongs to the place it goes to.
LEMMA AwaitShape ==
  ASSUME NEW c \in Call, NEW pc \in {"lookup", "partner", "write"}, NEW req \in Requests,
         OpAt(Await(c, pc, req)),
         req.kind \in {"childByName", "childById", "groupById"} <=> pc = "lookup",
         req.kind \in Mutations <=> pc = "write",
         req.kind # "parentByName",
         req.kind \in {"childByName", "childById"} => req.up \in ParentRep,
         req.kind \in {"childById", "groupById"} => c.op = "getById"
  PROVE  Shape(Await(c, pc, req))
<1> DEFINE r == Await(c, pc, req)
<1>1. r \in Call /\ r.pc = pc /\ r.req = req /\ r.ans = {Pending} /\ r.op = c.op
  <2>1. pc \in Places
    BY DEF Places
  <2> QED
    BY <2>1, AwaitFields
<1>2. req # Null
  BY Marks
<1>3. ReqAt(r) /\ AnsAt(r)
  <2> HIDE DEF r
  <2> QED
    BY <1>1, <1>2 DEF ReqAt, AnsAt, Resolving, IsAnswer
<1> QED
  BY <1>1, <1>3 DEF Shape

LEMMA HasParentTypes ==
  ASSUME TypeInv, NEW p \in Callers, HasParent(p)
  PROVE  CallsOK' /\ Moves /\ UNCHANGED <<setting, server>>
<1>1. PICK x \in call[p].ans :
        IF call[p].op = "listUsers"
        THEN /\ UNCHANGED <<pcache, ccache>>
             /\ Goes(p, Await([call[p] EXCEPT !.up = x], "write", Send("useUnder", x, Null)))
        ELSE Get(p, [call[p] EXCEPT !.up = x])
  BY DEF HasParent
<1>2. /\ call[p].pc = "parent" /\ call[p].req = Null
      /\ UNCHANGED <<setting, realm, server>>
  BY DEF HasParent, ParentKnown
<1>3. x \in ParentRep
  BY <1>1, <1>2, CallFields DEF AnsAt, Resolving
<1> DEFINE e == [call[p] EXCEPT !.up = x]
<1>4. /\ call[p].op \notin {"none", "parentGet", "get", "getById"}
      /\ call[p].one \in ChildRep \union {Null} /\ call[p] \in Call
  BY <1>2, CallFields DEF OpAt
<1>5. /\ e \in Call /\ e.op = call[p].op /\ e.one = call[p].one /\ e.last = call[p].last
  BY <1>3, <1>4 DEF Call
<1>6. CASE call[p].op = "listUsers"
  <2> DEFINE req == Send("useUnder", x, Null)
             r == Await(e, "write", req)
  <2>1. Goes(p, r) /\ UNCHANGED <<pcache, ccache>>
    BY <1>1, <1>6
  <2>2. req \in Requests /\ req.kind = "useUnder"
    BY <1>3, SendFields DEF TypeInv, Mutations
  <2>3. OpAt(r)
    <3> HIDE DEF req, e
    <3>1. r.pc = "write" /\ r.op = "listUsers" /\ r.one \in ChildRep \union {Null}
      <4>1. "write" \in Places
        BY DEF Places
      <4>2. r.pc = "write" /\ r.op = e.op /\ r.one = e.one
        BY <1>5, <2>2, <4>1, AwaitFields
      <4> QED
        BY <1>4, <1>5, <1>6, <4>2
    <3> HIDE DEF r
    <3> QED
      BY <3>1 DEF OpAt
  <2>4. Shape(r)
    <3> HIDE DEF req, e
    <3> QED
      BY <1>5, <2>2, <2>3, AwaitShape DEF Mutations
  <2> QED
    BY <1>2, <2>1, <2>4, GoesTypes DEF TypeInv, Moves
<1>7. CASE call[p].op # "listUsers"
  <2>1. MayGet(e)
    <3> HIDE DEF e
    <3> QED
      BY <1>4, <1>5, <1>7 DEF MayGet
  <2> QED
    BY <1>1, <1>7, <2>1, GetTypes DEF TypeInv
<1> QED
  BY <1>6, <1>7

\* The request for the child names it and the parent found.
LEMMA LookupFields ==
  ASSUME TypeInv, NEW p \in Callers, call[p].pc = "get", call[p].req = Null,
         NEW x \in ParentRep
  PROVE  LET r == Lookup(p, x)
         IN  /\ r \in Call /\ r.pc = "lookup" /\ r.ans = {Pending} /\ r.alone = call[p].alone
             /\ r.op = call[p].op /\ r.last = call[p].last /\ r.asked = call[p].asked
             /\ r.up = call[p].up /\ r.one = call[p].one /\ r.tries = call[p].tries
             /\ r.req \in Requests /\ r.req # Null /\ r.req.up = x
             /\ call[p].op = "getById" => r.req.kind = "childById" /\ r.req.realm = realmName
             /\ call[p].op # "getById" =>
                  /\ r.req.kind = "childByName" /\ call[p].asked # Null
                  /\ \/ r.req.realm = realmName /\ r.req.name = childName
                     \/ r.req.realm = call[p].asked.realm /\ r.req.name = call[p].asked.name
<1>1. call[p].op = "getById" => call[p].one \in ChildIds
  BY CallFields DEF OpAt
<1>2. call[p].op # "getById" =>
        call[p].asked # Null /\ call[p].asked.realm \in Realms /\ call[p].asked.name \in ChildNames
  BY CallFields DEF OpAt
<1>3. PICK req \in Requests :
        /\ Lookup(p, x) = Await(call[p], "lookup", req) /\ req # Null /\ req.up = x
        /\ call[p].op = "getById" => req.kind = "childById" /\ req.realm = realmName
        /\ call[p].op # "getById" =>
             /\ req.kind = "childByName"
             /\ \/ req.realm = realmName /\ req.name = childName
                \/ req.realm = call[p].asked.realm /\ req.name = call[p].asked.name
  <2>1. CASE call[p].op = "getById"
    <3> DEFINE req == Send("childById", x, call[p].one)
    <3>1. Lookup(p, x) = Await(call[p], "lookup", req)
      BY <2>1 DEF Lookup
    <3>2. /\ req \in Requests /\ req # Null /\ req.up = x /\ req.kind = "childById"
          /\ req.realm = realmName
      BY <1>1, <2>1, SendFields DEF TypeInv
    <3> HIDE DEF req
    <3> QED
      BY <2>1, <3>1, <3>2
  <2>2. CASE call[p].op # "getById" /\ kind = "nestedGroup"
    <3> DEFINE req == Request("childByName", call[p].asked.realm, x, Null, call[p].asked.name, Null)
    <3>1. Lookup(p, x) = Await(call[p], "lookup", req)
      BY <2>2 DEF Lookup
    <3>2. /\ req \in Requests /\ req # Null /\ req.up = x /\ req.kind = "childByName"
          /\ req.realm = call[p].asked.realm /\ req.name = call[p].asked.name
      <4>1. x \in ParentRep \union {Null} /\ Null \in ParentNames \union {Null}
            /\ Null \in ChildIds \union {Null}
            /\ "childByName" \in Mutations
                 \union {"parentByName", "childByName", "childById", "groupById", "partner"}
        OBVIOUS
      <4>2. call[p].asked.realm \in Realms /\ call[p].asked.name \in ChildNames
        BY <1>2, <2>2
      <4>3. ASSUME NEW r \in Realms, NEW n \in ChildNames
            PROVE  LET q == Request("childByName", r, x, Null, n, Null)
                   IN  /\ q \in Requests /\ q # Null /\ q.up = x /\ q.kind = "childByName"
                       /\ q.realm = r /\ q.name = n
        BY <4>1, RequestFields
      <4> QED
        BY <4>2, <4>3
    <3> HIDE DEF req
    <3> QED
      BY <2>2, <3>1, <3>2
  <2>3. CASE call[p].op # "getById" /\ kind # "nestedGroup"
    BY <2>3, SendFields DEF Lookup, TypeInv
  <2> QED
    BY <2>1, <2>2, <2>3
<1> QED
  <2>1. "lookup" \in Places
    BY DEF Places
  <2> QED
    BY <1>2, <1>3, <2>1, CallFields, AwaitFields

LEMMA LooksUpTypes ==
  ASSUME TypeInv, NEW p \in Callers, LooksUp(p)
  PROVE  CallsOK' /\ Moves /\ UNCHANGED <<setting, server>>
<1>1. PICK x \in call[p].ans : Goes(p, Lookup(p, x))
  BY DEF LooksUp
<1>2. /\ call[p].pc = "get" /\ call[p].req = Null
      /\ UNCHANGED <<setting, realm, pcache, ccache, server>>
  BY DEF LooksUp, ParentKnown
<1>3. x \in ParentRep
  BY <1>1, <1>2, CallFields DEF AnsAt, Resolving
<1> DEFINE r == Lookup(p, x)
<1>4. /\ r \in Call /\ r.pc = "lookup" /\ r.ans = {Pending}
      /\ r.op = call[p].op /\ r.last = call[p].last
      /\ r.one = call[p].one /\ r.tries = call[p].tries
      /\ r.req \in Requests /\ r.req # Null /\ r.req.up = x
      /\ r.req.kind \in {"childById", "childByName"}
      /\ r.req.kind = "childById" => call[p].op = "getById"
  BY <1>2, <1>3, LookupFields
<1>5. OpAt(r)
  <2> HIDE DEF r
  <2> QED
    BY <1>2, <1>4, CallFields DEF OpAt
<1>6. Shape(r)
  <2> HIDE DEF r
  <2> QED
    BY <1>3, <1>4, <1>5 DEF Shape, ReqAt, AnsAt, Resolving, Mutations, IsAnswer
<1> QED
  BY <1>1, <1>2, <1>6, GoesTypes DEF TypeInv, Moves

LEMMA CreatesUnderTypes ==
  ASSUME TypeInv, NEW p \in Callers, CreatesUnder(p)
  PROVE  CallsOK' /\ Moves /\ UNCHANGED <<setting, server>>
<1>1. PICK x \in call[p].ans :
        Goes(p, Await([call[p] EXCEPT !.up = x], "write", Send("create", x, Null)))
  BY DEF CreatesUnder
<1>2. /\ call[p].pc = "again" /\ call[p].req = Null
      /\ UNCHANGED <<setting, realm, pcache, ccache, server>>
  BY DEF CreatesUnder, ParentKnown
<1>3. x \in ParentRep
  BY <1>1, <1>2, CallFields DEF AnsAt, Resolving
<1> DEFINE e == [call[p] EXCEPT !.up = x]
           req == Send("create", x, Null)
           r == Await(e, "write", req)
<1>4. /\ e \in Call /\ e.op = call[p].op /\ e.one = call[p].one /\ e.last = call[p].last
  BY <1>3, CallFields DEF Call
<1>5. req \in Requests /\ req.kind = "create"
  BY <1>3, SendFields DEF TypeInv, Mutations
<1>6. r.pc = "write" /\ r.op = call[p].op /\ r.one = call[p].one /\ r.last = call[p].last
  <2>1. "write" \in Places
    BY DEF Places
  <2> HIDE DEF e, req
  <2> QED
    BY <1>4, <1>5, <2>1, AwaitFields
<1>7. OpAt(r)
  <2> HIDE DEF r
  <2> QED
    BY <1>2, <1>6, CallFields DEF OpAt
<1>8. Shape(r)
  <2> HIDE DEF e, req
  <2> QED
    BY <1>4, <1>5, <1>7, AwaitShape DEF Mutations
<1> QED
  BY <1>1, <1>2, <1>8, GoesTypes DEF TypeInv, Moves

LEMMA FoundTypes ==
  ASSUME TypeInv, NEW p \in Callers,
         \/ Answered(p, {"lookup"})
         \/ call[p].pc = "get" /\ call[p].req = Null
  PROVE  /\ Found(p) \in ChildRep \union {Null} /\ Got(Found(p)) \in {Found(p), Null}
         /\ Found(p) # Null => Answered(p, {"lookup"}) /\ Found(p) \in Mine(p)
<1>1. Answered(p, {"lookup"}) => call[p].ans \subseteq ChildRep
  BY CallFields DEF Answered, AnsAt, IsAnswer
<1>2. Mine(p) \subseteq call[p].ans
  BY DEF Mine
<1>3. call[p].req # Null /\ Mine(p) # {} => Found(p) \in Mine(p)
  BY DEF Found
<1>4. call[p].req = Null \/ Mine(p) = {} => Found(p) = Null
  BY DEF Found
<1> QED
  BY <1>1, <1>2, <1>3, <1>4 DEF Got

LEMMA GetReturnsTypes ==
  ASSUME TypeInv, NEW p \in Callers, GetReturns(p)
  PROVE  CallsOK' /\ Moves /\ UNCHANGED <<setting, server>>
<1> DEFINE one == Got(Found(p))
           found == [Known(call[p], "looked", {Pending}) EXCEPT !.one = one]
           waits == Known(call[p], "sleep", {Pending})
<1>1. /\ Answered(p, {"lookup"}) \/ (call[p].pc = "get" /\ call[p].req = Null)
      /\ WriteBack(Found(p)) /\ UNCHANGED <<setting, realm, server>>
      /\ \/ ~call[p].last /\ Goes(p, found)
         \/ call[p].last /\ ReadsAgain(p, one) /\ Goes(p, waits)
         \/ Goes(p, Idle)
  BY DEF GetReturns
<1>2. Found(p) \in ChildRep \union {Null} /\ one \in ChildRep \union {Null}
  BY <1>1, FoundTypes
<1>3. Moves
  BY <1>1, <1>2 DEF Moves
<1>4. /\ call[p].pc \in {"get", "lookup"}
      /\ call[p].op \in AllOps /\ call[p].op \notin {"none", "parentGet", "listUsers"}
      /\ {"looked", "sleep"} \subseteq Places /\ {Pending} \in SUBSET Marked
  BY <1>1, CallFields DEF Answered, OpAt, Places, Marked
<1>5. ASSUME ~call[p].last PROVE Shape(found)
  <2> DEFINE known == Known(call[p], "looked", {Pending})
  <2>1. /\ known \in Call /\ known.pc = "looked" /\ known.req = Null /\ known.ans = {Pending}
        /\ known.op = call[p].op
    BY <1>4, CallFields, KnownFields
  <2>2. /\ found \in Call /\ found.pc = "looked" /\ found.req = Null /\ found.ans = {Pending}
        /\ found.op = call[p].op /\ found.one = one
    <3> HIDE DEF known, one
    <3> QED
      BY <1>2, <2>1, ZenonT(60) DEF Call, known
  <2>3. call[p].op \notin {"get", "getById"}
    BY <1>5, CallFields DEF OpAt
  <2> HIDE DEF found, one
  <2> QED
    BY <1>2, <1>4, <2>2, <2>3 DEF Shape, OpAt, ReqAt, AnsAt, Resolving, IsAnswer, AllOps
<1>6. ASSUME ReadsAgain(p, one) PROVE Shape(waits)
  <2>1. /\ waits \in Call /\ waits.pc = "sleep" /\ waits.req = Null /\ waits.ans = {Pending}
        /\ waits.op = call[p].op /\ waits.one = call[p].one /\ waits.tries = call[p].tries
        /\ waits.last = call[p].last
    BY <1>4, CallFields, KnownFields
  <2>2. call[p].tries > 0 /\ call[p].tries < Attempts
    BY <1>6 DEF ReadsAgain
  <2> HIDE DEF waits, one
  <2> QED
    BY <1>4, <2>1, <2>2, CallFields DEF Shape, OpAt, ReqAt, AnsAt, Resolving, IsAnswer
<1>7. CallsOK'
  <2> HIDE DEF found, waits
  <2> QED
    BY <1>1, <1>5, <1>6, IdleShape, GoesTypes DEF TypeInv
<1> QED
  BY <1>1, <1>3, <1>7

LEMMA WakesTypes ==
  ASSUME TypeInv, NEW p \in Callers, Wakes(p)
  PROVE  CallsOK' /\ Moves /\ UNCHANGED <<setting, server>>
<1> DEFINE e == [call[p] EXCEPT !.tries = @ + 1]
<1>1. call[p].pc = "sleep" /\ Get(p, e)
  BY DEF Wakes
<1>2. /\ call[p].tries < Attempts /\ call[p].op \notin {"none", "parentGet", "listUsers", "getById"}
      /\ call[p].one \in ChildRep \union {Null}
      /\ call[p].op = "get" => call[p].last
  BY <1>1, CallFields DEF OpAt
<1>3. call[p].tries + 1 \in 0..Attempts
  BY <1>2, CallFields, Marks
<1>4. e \in Call /\ e.op = call[p].op /\ e.one = call[p].one /\ e.last = call[p].last
  BY <1>3, CallFields DEF Call
<1>5. MayGet(e)
  <2> HIDE DEF e
  <2> QED
    BY <1>2, <1>4 DEF MayGet
<1> QED
  BY <1>1, <1>5, GetTypes DEF TypeInv

\* What each operation asks once it knows the child.
LEMMA NextRequestFields ==
  ASSUME TypeInv, NEW p \in Callers, call[p].pc = "looked", NEW req \in NextRequest(p)
  PROVE  /\ req \in Requests /\ req.realm = realmName
         /\ \/ /\ req = Send("create", call[p].up, Null) /\ req.kind = "create"
               /\ call[p].one = Null
            \/ /\ call[p].one \in ChildRep
               /\ \/ req.kind \in {"put", "del", "use"}
                  \/ req.kind = "partner" /\ call[p].op = "link"
<1>1. /\ call[p].one \in ChildRep \union {Null} /\ call[p].up \in ParentRep \union {Null}
      /\ call[p].op \in {"create", "update", "ensure", "delete", "discard", "use", "link"}
      /\ call[p].one \in ChildRep => call[p].one # Null /\ call[p].one.id \in ChildIds
  BY CallFields, Marks DEF OpAt, ChildRep
<1> DEFINE one == call[p].one
<1>2. CASE one = Null
  <2>1. req = Send("create", call[p].up, Null)
    BY <1>2 DEF NextRequest
  <2> QED
    BY <1>1, <1>2, <2>1, SendFields DEF TypeInv, Mutations
<1>3. CASE one # Null /\ call[p].op \in {"update", "ensure"}
  <2>1. req = Send("put", call[p].up, one.id)
    BY <1>3 DEF NextRequest
  <2> QED
    BY <1>1, <1>3, <2>1, SendFields DEF TypeInv, Mutations
<1>4. CASE one # Null /\ call[p].op \in {"delete", "discard"}
  <2>1. req = Send("del", call[p].up, one.id)
    BY <1>4 DEF NextRequest
  <2> QED
    BY <1>1, <1>4, <2>1, SendFields DEF TypeInv, Mutations
<1>5. CASE one # Null /\ call[p].op = "use"
  <2>1. req = Send("use", Null, one.id)
    BY <1>5 DEF NextRequest
  <2> QED
    BY <1>1, <1>5, <2>1, SendFields DEF TypeInv, Mutations
<1>6. CASE one # Null /\ call[p].op = "link"
  <2>1. req = Send("partner", Null, Null)
    BY <1>6 DEF NextRequest
  <2> QED
    BY <1>1, <1>6, <2>1, SendFields DEF TypeInv, Mutations
<1>7. CASE one # Null /\ call[p].op = "create"
  BY <1>7 DEF NextRequest
<1> QED
  BY <1>1, <1>2, <1>3, <1>4, <1>5, <1>6, <1>7

LEMMA ResumeTypes ==
  ASSUME TypeInv, NEW p \in Callers, Resume(p)
  PROVE  CallsOK' /\ Moves /\ UNCHANGED <<setting, server>>
<1>1. /\ call[p].pc = "looked" /\ UNCHANGED <<setting, realm, server, ccache>>
      /\ call[p].one \in ChildRep \union {Null}
      /\ call[p].op \in {"create", "update", "ensure", "delete", "discard", "use", "link"}
  BY CallFields DEF Resume, OpAt
<1>2. CASE call[p].op = "create" /\ call[p].one = Null /\ kind \in Groups
  <2> DEFINE r == ResolveParent(call[p], "again")
  <2>1. LookForParent /\ Goes(p, r) /\ "again" \in Resolving
    BY <1>2 DEF Resume, Resolving
  <2>2. r.pc = "again" /\ r.op = call[p].op /\ r.one = call[p].one
    BY <2>1, CallFields, ResolveFields DEF TypeInv
  <2>3. OpAt(r)
    <3> HIDE DEF r
    <3> QED
      BY <1>2, <2>2 DEF OpAt
  <2>4. Shape(r)
    BY <2>1, <2>3, CallFields, ResolveShape DEF TypeInv
  <2> QED
    BY <1>1, <2>1, <2>4, GoesTypes DEF TypeInv, Moves, LookForParent
<1>3. CASE ~(call[p].op = "create" /\ call[p].one = Null /\ kind \in Groups)
  <2>1. /\ UNCHANGED pcache
        /\ \/ Finish(p)
           \/ \E req \in NextRequest(p) :
                Goes(p, Await(call[p], IF req.kind = "partner" THEN "partner" ELSE "write", req))
    BY <1>3 DEF Resume
  <2>2. ASSUME NEW req \in NextRequest(p),
               Goes(p, Await(call[p], IF req.kind = "partner" THEN "partner" ELSE "write", req))
        PROVE  CallsOK'
    <3> DEFINE pc == IF req.kind = "partner" THEN "partner" ELSE "write"
               r == Await(call[p], pc, req)
    <3>1. /\ req \in Requests /\ req.kind \in {"create", "put", "del", "use", "partner"}
          /\ req.kind = "partner" => call[p].one \in ChildRep
      BY <1>1, NextRequestFields
    <3>2. pc \in {"lookup", "partner", "write"} /\ pc \in Places
      BY DEF Places
    <3>3. r.pc = pc /\ r.op = call[p].op /\ r.one = call[p].one
      <4> HIDE DEF pc
      <4> QED
        BY <3>1, <3>2, CallFields, AwaitFields
    <3>4. OpAt(r)
      <4> HIDE DEF r
      <4> QED
        BY <1>1, <3>1, <3>3 DEF OpAt
    <3>5. Shape(r)
      <4>1. /\ (req.kind \in {"childByName", "childById", "groupById"} <=> pc = "lookup")
            /\ (req.kind \in Mutations <=> pc = "write")
            /\ req.kind # "parentByName" /\ req.kind \notin {"childByName", "childById", "groupById"}
        BY <3>1 DEF Mutations
      <4> HIDE DEF pc
      <4> QED
        BY <3>1, <3>2, <3>4, <4>1, CallFields, AwaitShape
    <3> QED
      BY <2>2, <3>5, GoesTypes DEF TypeInv
  <2> QED
    BY <1>1, <2>1, <2>2, FinishTypes DEF Moves
<1> QED
  BY <1>2, <1>3

LEMMA PartnerResolvedTypes ==
  ASSUME TypeInv, NEW p \in Callers, PartnerResolved(p)
  PROVE  CallsOK' /\ Moves /\ UNCHANGED <<setting, server>>
<1> DEFINE req == Send("use", Null, call[p].one.id)
           r == Await(call[p], "write", req)
<1>1. /\ call[p].pc = "partner" /\ Goes(p, r)
      /\ UNCHANGED <<setting, realm, pcache, ccache, server>>
  BY DEF PartnerResolved, Answered
<1>2. call[p].one \in ChildRep /\ call[p].one.id \in ChildIds
  BY <1>1, CallFields DEF OpAt, ChildRep
<1>3. req \in Requests /\ req.kind = "use"
  BY <1>2, SendFields DEF TypeInv, Mutations
<1>4. /\ r.pc = "write" /\ r.op = call[p].op /\ r.one = call[p].one /\ r.last = call[p].last
      /\ r.tries = call[p].tries
  <2>1. "write" \in Places
    BY DEF Places
  <2> HIDE DEF req
  <2> QED
    BY <1>3, <2>1, CallFields, AwaitFields
<1>5. OpAt(r)
  <2> HIDE DEF r
  <2> QED
    BY <1>1, <1>2, <1>4, CallFields DEF OpAt
<1>6. Shape(r)
  <2> HIDE DEF req
  <2> QED
    BY <1>3, <1>5, CallFields, AwaitShape DEF Mutations
<1> QED
  BY <1>1, <1>6, GoesTypes DEF TypeInv, Moves

LEMMA ReadBackTypes ==
  ASSUME TypeInv, NEW p \in Callers, ReadBack(p)
  PROVE  CallsOK' /\ Moves /\ UNCHANGED <<setting, server>>
<1> DEFINE n == IF kind \in Groups /\ call[p].one = Null THEN 1 ELSE 0
           e == [call[p] EXCEPT !.last = TRUE, !.tries = n]
<1>1. /\ call[p].pc = "write" /\ call[p].op \in {"create", "update", "ensure"}
      /\ Get(p, e)
  BY DEF ReadBack, Answered
<1>2. n \in 0..Attempts
  BY Marks
<1>3. call[p].one \in ChildRep \union {Null}
  BY <1>1, CallFields DEF OpAt
<1>4. e \in Call /\ e.op = call[p].op /\ e.one = call[p].one /\ e.last = TRUE
  <2> HIDE DEF n
  <2> QED
    BY <1>2, CallFields, ZenonT(60) DEF Call
<1>5. MayGet(e)
  <2> HIDE DEF e
  <2> QED
    BY <1>1, <1>3, <1>4 DEF MayGet
<1> QED
  BY <1>1, <1>5, GetTypes DEF TypeInv

LEMMA DeletedTypes ==
  ASSUME TypeInv, NEW p \in Callers, Deleted(p) \/ Used(p)
  PROVE  CallsOK' /\ Moves /\ UNCHANGED <<setting, server>>
<1>1. CallsOK' /\ UNCHANGED <<setting, realm, server>>
  BY FinishTypes DEF Deleted, Used
<1>2. CASE Used(p)
  BY <1>1, <1>2 DEF Used, Moves
<1>3. CASE Deleted(p) /\ kind \in Groups
  BY <1>1, <1>3 DEF Deleted, Moves
<1>4. CASE Deleted(p) /\ kind \notin Groups
  BY <1>1, <1>4 DEF Deleted, Moves
<1> QED
  BY <1>1, <1>2, <1>3, <1>4

-----------------------------------------------------------------------------
(* The server                                                              *)

LEMMA LiveAre ==
  ASSUME ServerOK
  PROVE  /\ \A x : x \in LiveParents <=> x \in ParentRep /\ parents[x.id] = x
         /\ \A x : x \in LiveChildren <=> x \in ChildRep /\ children[x.id] = x
<1>1. ASSUME NEW x PROVE x \in LiveParents <=> x \in ParentRep /\ parents[x.id] = x
  <2>1. x \in ParentRep => x.id \in ParentIds
    BY DEF ParentRep
  <2> QED
    BY <2>1 DEF ServerOK, Sound, LiveParents
<1>2. ASSUME NEW x PROVE x \in LiveChildren <=> x \in ChildRep /\ children[x.id] = x
  <2>1. x \in ChildRep => x.id \in ChildIds
    BY DEF ChildRep
  <2> QED
    BY <2>1 DEF ServerOK, Sound, LiveChildren
<1> QED
  BY <1>1, <1>2

\* A request names one parent, and one child.
LEMMA OneParent ==
  ASSUME ServerOK, NEW req, NEW x \in ParentAt(req), NEW y \in ParentAt(req)
  PROVE  x = y /\ x \in LiveParents /\ x.realm = req.realm
<1>1. /\ x \in LiveParents /\ y \in LiveParents /\ x.realm = req.realm /\ y.realm = req.realm
      /\ x.name = y.name \/ x.id = y.id
  BY DEF ParentAt
<1>2. x \in ParentRep /\ parents[x.id] = x /\ y \in ParentRep /\ parents[y.id] = y
  BY <1>1, LiveAre
<1>3. x.id \in ParentIds /\ y.id \in ParentIds
  BY <1>2 DEF ParentRep
<1>4. x.id = y.id
  BY <1>1, <1>2, <1>3 DEF ServerOK, Sound
<1> QED
  BY <1>1, <1>2, <1>4

LEMMA OneAddressed ==
  ASSUME ServerOK, NEW req, NEW c \in Addressed(req), NEW d \in Addressed(req)
  PROVE  c = d /\ c \in LiveChildren
<1>1. /\ c \in LiveChildren /\ d \in LiveChildren
      /\ \/ c.id = d.id
         \/ /\ c.name = d.name
            /\ \E x \in ParentAt(req) : c.under = x.id
            /\ \E x \in ParentAt(req) : d.under = x.id
  <2>1. CASE kind = "clientRole" /\ req.kind # "use"
    <3>1. Addressed(req) = {e \in Under(ParentAt(req)) : e.name = req.name}
      BY <2>1 DEF Addressed, Groups
    <3> QED
      BY <3>1 DEF Under
  <2>2. CASE kind \in Groups \/ req.kind = "use"
    <3>1. Addressed(req) = {e \in InRealm(req.realm) : e.id = req.id}
      BY <2>2 DEF Addressed, Groups
    <3> QED
      BY <3>1 DEF InRealm, Under
  <2>3. CASE ~(kind = "clientRole" /\ req.kind # "use") /\ ~(kind \in Groups \/ req.kind = "use")
    <3>1. Addressed(req) = {e \in Under(ParentAt(req)) : e.id = req.id}
      BY <2>3 DEF Addressed
    <3> QED
      BY <3>1 DEF Under
  <2> QED
    BY <2>1, <2>2, <2>3
<1>2. c \in ChildRep /\ children[c.id] = c /\ d \in ChildRep /\ children[d.id] = d
  BY <1>1, LiveAre
<1>3. c.id \in ChildIds /\ d.id \in ChildIds
  BY <1>2 DEF ChildRep
<1>4. c.id = d.id \/ (c.name = d.name /\ c.under = d.under)
  BY <1>1, OneParent
<1>5. c.id = d.id
  BY <1>2, <1>3, <1>4 DEF ServerOK, Sound
<1> QED
  BY <1>1, <1>2, <1>5

LEMMA ChildRecordFields ==
  ASSUME NEW i \in ChildIds, NEW u \in ParentIds, NEW n \in ChildNames
  PROVE  /\ ChildRecord(i, u, n) \in ChildRep
         /\ ChildRecord(i, u, n).id = i /\ ChildRecord(i, u, n).under = u
         /\ ChildRecord(i, u, n).name = n /\ ChildRecord(i, u, n).of = Null
  BY DEF ChildRecord, ChildRep

\* A child put where its name is free, or removed, leaves the server sound.
LEMMA PutSound ==
  ASSUME ServerOK, NEW i \in ChildIds, NEW u \in ParentIds, NEW n \in ChildNames,
         parents[u] \in ParentRep,
         \A j \in ChildIds : children[j] \in ChildRep /\ children[j].under = u
                               /\ children[j].name = n => j = i
  PROVE  Sound(parents, [children EXCEPT ![i] = ChildRecord(i, u, n)])
<1> DEFINE rec == ChildRecord(i, u, n)
           cs == [children EXCEPT ![i] = rec]
<1>1. rec \in ChildRep /\ rec.id = i /\ rec.under = u /\ rec.name = n /\ rec.of = Null
  BY ChildRecordFields
<1>2. /\ cs \in [ChildIds -> ChildRep \union {Unissued, Gone}] /\ cs[i] = rec
      /\ \A j \in ChildIds : j # i => cs[j] = children[j]
  <2> HIDE DEF rec
  <2> QED
    BY <1>1 DEF ServerOK, Sound
<1> HIDE DEF rec, cs
<1>3. Sound(parents, cs)
  BY <1>1, <1>2 DEF ServerOK, Sound
<1> QED
  BY <1>3 DEF cs, rec

LEMMA DropSound ==
  ASSUME ServerOK, NEW S \in SUBSET ChildIds
  PROVE  Sound(parents, [j \in ChildIds |-> IF j \in S THEN Gone ELSE children[j]])
  BY Marks DEF ServerOK, Sound

LEMMA UnderAre ==
  ASSUME ServerOK, NEW x \in LiveParents
  PROVE  /\ \A n : FreeUnder(x, n) <=>
              \A j \in ChildIds : children[j] \in ChildRep /\ children[j].under = x.id
                                    => children[j].name # n
         /\ \A c : c \in Under({x}) <=> c \in LiveChildren /\ c.under = x.id
<1>1. \A c : c \in Under({x}) <=> c \in LiveChildren /\ c.under = x.id
  BY DEF Under
<1>2. \A j \in ChildIds : children[j] \in ChildRep => children[j] \in LiveChildren
  BY DEF LiveChildren
<1>3. \A c \in LiveChildren : c \in ChildRep /\ c.id \in ChildIds /\ children[c.id] = c
  BY LiveAre DEF ChildRep
<1> QED
  BY <1>1, <1>2, <1>3 DEF FreeUnder

LEMMA AppliedSound ==
  ASSUME TypeInv, NEW req \in Requests, req.kind \in Mutations, NEW cs \in Applied(req)
  PROVE  Sound(parents, cs)
<1>1. ServerOK /\ req.name \in ChildNames
  BY DEF TypeInv, Requests
<1>2. CASE req.kind = "create"
  <2>1. PICK x \in {y \in ParentAt(req) : FreeUnder(y, req.name)}, i \in FreshChild :
          cs = [children EXCEPT ![i] = ChildRecord(i, x.id, req.name)]
    BY <1>2 DEF Applied
  <2>2. x \in LiveParents /\ FreeUnder(x, req.name)
    BY <1>1, <2>1, OneParent
  <2>3. x.id \in ParentIds /\ parents[x.id] \in ParentRep /\ i \in ChildIds
    BY <1>1, <2>1, <2>2, LiveAre DEF ParentRep, FreshChild
  <2>4. \A j \in ChildIds : children[j] \in ChildRep /\ children[j].under = x.id
                              => children[j].name # req.name
    BY <1>1, <2>2, UnderAre
  <2> QED
    BY <1>1, <2>1, <2>3, <2>4, PutSound
<1>3. CASE req.kind = "put"
  <2>1. PICK c \in Addressed(req), x \in ParentAt(req) :
          /\ \A d \in Under({x}) : d.name = req.name => d \in Addressed(req)
          /\ cs = [children EXCEPT ![c.id] = ChildRecord(c.id, x.id, req.name)]
    BY <1>3, SMTT(30) DEF Applied
  <2>2. x \in LiveParents /\ c \in LiveChildren
    BY <1>1, <2>1, OneParent, OneAddressed
  <2>3. /\ x.id \in ParentIds /\ parents[x.id] \in ParentRep
        /\ c.id \in ChildIds
    BY <1>1, <2>2, LiveAre DEF ParentRep, ChildRep
  <2>4. ASSUME NEW j \in ChildIds, children[j] \in ChildRep, children[j].under = x.id,
               children[j].name = req.name
        PROVE  j = c.id
    <3>1. children[j] \in Under({x})
      BY <1>1, <2>2, <2>4, UnderAre DEF LiveChildren
    <3>2. children[j] = c
      BY <1>1, <2>1, <2>4, <3>1, OneAddressed
    <3> QED
      BY <1>1, <2>4, <3>2 DEF ServerOK, Sound
  <2> QED
    BY <1>1, <2>1, <2>3, <2>4, PutSound
<1>4. CASE req.kind = "del"
  <2>1. PICK c \in Addressed(req) : cs = [children EXCEPT ![c.id] = Gone]
    BY <1>4 DEF Applied
  <2>2. c.id \in ChildIds
    BY <1>1, OneAddressed, LiveAre DEF ChildRep
  <2>3. cs = [j \in ChildIds |-> IF j \in {c.id} THEN Gone ELSE children[j]]
    BY <1>1, <2>1, <2>2 DEF ServerOK, Sound
  <2> QED
    BY <1>1, <2>2, <2>3, DropSound
<1>5. CASE req.kind \in {"use", "useUnder"}
  <2>1. cs = children
    BY <1>5 DEF Applied
  <2> QED
    BY <1>1, <2>1 DEF ServerOK
<1> QED
  BY <1>2, <1>3, <1>4, <1>5 DEF Mutations

-----------------------------------------------------------------------------
(* Answers, retargets and other administrators                             *)

\* A child read under a parent is one of its children, marked with the parent.
LEMMA AsFields ==
  ASSUME ServerOK, NEW cs \in SUBSET LiveChildren, NEW of \in Identity,
         NEW d \in As(cs, of)
  PROVE  \E c \in cs : d \in ChildRep /\ d.id = c.id /\ d.under = c.under /\ d.name = c.name
                         /\ d.of = of
<1>1. PICK c \in cs : d = [c EXCEPT !.of = of]
  BY DEF As
<1>2. c \in ChildRep
  BY LiveAre
<1> QED
  BY <1>1, <1>2 DEF ChildRep

LEMMA ReadsFields ==
  ASSUME TypeInv, NEW p \in Callers, NEW req \in Requests, req.kind \notin Mutations,
         req.kind \in {"childByName", "childById"} => req.up \in ParentRep,
         NEW a \in Reads(p, req), NEW d \in a
  PROVE  /\ req.kind = "parentByName" =>
              /\ d \in LiveParents /\ d.realm = req.realm
              /\ d.name = req.key \/ kind = "scopeMapper"
         /\ req.kind \in {"childByName", "childById"} =>
              /\ d \in ChildRep /\ d.of = [realm |-> req.up.realm, name |-> req.up.name]
              /\ \E x \in ParentAt(req) : d.under = x.id
              /\ req.kind = "childByName" /\ kind # "idpMapper" => d.name = req.name
         /\ req.kind = "groupById" => d \in ChildRep /\ d.of = Null
         /\ req.kind = "partner" => d = Done
<1>1. ServerOK
  BY DEF TypeInv
<1>2. LiveParents \subseteq ParentRep /\ LiveChildren \subseteq ChildRep
  BY <1>1, LiveAre
<1>3. CASE req.kind = "parentByName"
  <2>1. a = {x \in LiveParents :
               x.realm = req.realm /\ (x.name = req.key \/ kind = "scopeMapper")}
    BY <1>3 DEF Reads
  <2> QED
    BY <1>3, <2>1
<1>4. CASE req.kind \in {"childByName", "childById"}
  <2> DEFINE of == [realm |-> req.up.realm, name |-> req.up.name]
             cs == IF req.kind = "childByName"
                   THEN {c \in Under(ParentAt(req)) : c.name = req.name \/ kind = "idpMapper"}
                   ELSE {c \in Under(ParentAt(req)) : c.id = req.id}
  <2>1. d \in As(cs, of)
    BY <1>4 DEF Reads
  <2>2. of \in Identity
    BY <1>4 DEF Identity, ParentRep
  <2>3. cs \in SUBSET LiveChildren
    BY DEF Under
  <2>4. PICK c \in cs : d \in ChildRep /\ d.under = c.under /\ d.name = c.name /\ d.of = of
    <3> HIDE DEF cs, of
    <3> QED
      BY <1>1, <2>1, <2>2, <2>3, AsFields
  <2>5. /\ \E x \in ParentAt(req) : c.under = x.id
        /\ req.kind = "childByName" /\ kind # "idpMapper" => c.name = req.name
    BY <2>4 DEF Under
  <2> QED
    BY <1>4, <2>4, <2>5
<1>5. CASE req.kind = "groupById"
  <2>1. a = {c \in InRealm(req.realm) : c.id = req.id}
    BY <1>5 DEF Reads
  <2>2. d \in LiveChildren
    BY <2>1 DEF InRealm, Under
  <2>3. d \in ChildRep /\ d.of = Null
    BY <1>1, <2>2, LiveAre DEF ServerOK, Sound, ChildRep
  <2> QED
    BY <1>5, <2>3
<1>6. CASE req.kind = "partner"
  BY <1>6 DEF Reads
<1>7. req.kind \in {"parentByName", "childByName", "childById", "groupById", "partner"}
  BY DEF Requests
<1> QED
  BY <1>3, <1>4, <1>5, <1>6, <1>7

LEMMA ReadsTypes ==
  ASSUME TypeInv, NEW p \in Callers, NEW req \in Requests, req.kind \notin Mutations,
         req.kind \in {"childByName", "childById"} => req.up \in ParentRep,
         NEW a \in Reads(p, req)
  PROVE  /\ a \subseteq Marked
         /\ req.kind = "parentByName" => a \subseteq ParentRep
         /\ req.kind \in {"childByName", "childById", "groupById"} => a \subseteq ChildRep
<1>1. LiveParents \subseteq ParentRep
  BY LiveAre DEF TypeInv
<1>2. ASSUME NEW d \in a
      PROVE  /\ req.kind = "parentByName" => d \in ParentRep
             /\ req.kind \in {"childByName", "childById", "groupById"} => d \in ChildRep
             /\ req.kind = "partner" => d = Done
  BY <1>1, ReadsFields
<1>3. req.kind \in {"parentByName", "childByName", "childById", "groupById", "partner"}
  BY DEF Requests
<1> QED
  BY <1>2, <1>3 DEF Marked

\* What a request is answered: an error, that a mutation is done, or what was read.
LEMMA OutcomeFields ==
  ASSUME TypeInv, NEW p \in Callers, NEW req \in Requests,
         NEW outcome \in Outcomes(p, req)
  PROVE  \/ outcome[1] = children /\ outcome[2] = {Failed}
         \/ req.kind \in Mutations /\ outcome[1] \in Applied(req) /\ outcome[2] \in {{Done}, {Failed}}
         \/ req.kind \notin Mutations /\ outcome[1] = children /\ outcome[2] \in Reads(p, req)
  BY DEF Outcomes

LEMMA ServeTypes ==
  ASSUME TypeInv, NEW p \in Callers, Serve(p)
  PROVE  CallsOK' /\ Moves /\ ServerOK' /\ UNCHANGED setting
<1> DEFINE req == call[p].req
<1>1. PICK outcome \in Outcomes(p, req) :
        /\ children' = outcome[1]
        /\ UNCHANGED <<setting, realm, pcache, ccache, parents, history>>
        /\ Goes(p, [call[p] EXCEPT !.ans = outcome[2]])
  BY DEF Serve
<1> DEFINE a == outcome[2]
           r == [call[p] EXCEPT !.ans = a]
<1>2. req \in Requests /\ req # Null /\ call[p].ans = {Pending}
  BY CallFields DEF Serve
<1>3. \/ outcome[1] = children /\ a = {Failed}
      \/ req.kind \in Mutations /\ outcome[1] \in Applied(req) /\ a \in {{Done}, {Failed}}
      \/ req.kind \notin Mutations /\ outcome[1] = children /\ a \in Reads(p, req)
  BY <1>2, OutcomeFields
<1>4. ServerOK'
  <2>1. parents' = parents
    BY <1>1
  <2>2. Sound(parents, outcome[1])
    BY <1>2, <1>3, AppliedSound DEF TypeInv, ServerOK
  <2> QED
    BY <1>1, <2>1, <2>2 DEF ServerOK
<1>5. req.kind \in {"childByName", "childById"} => req.up \in ParentRep
  BY <1>2, CallFields DEF ReqAt
<1>6. /\ a \subseteq Marked
      /\ a # {Failed} =>
           /\ call[p].pc \in Resolving \union {"own"} => a \subseteq ParentRep
           /\ call[p].pc = "lookup" => a \subseteq ChildRep
  <2>1. CASE req.kind \notin Mutations /\ a \in Reads(p, req)
    <3> DEFINE child3 == {"childByName", "childById", "groupById"}
    <3>1. /\ a \subseteq Marked
          /\ req.kind = "parentByName" => a \subseteq ParentRep
          /\ req.kind \in child3 => a \subseteq ChildRep
      <4>1. LiveParents \subseteq ParentRep
        BY LiveAre DEF TypeInv
      <4>2. ASSUME NEW k \in Requests, k.kind \notin Mutations, NEW b \in Reads(p, k),
                   k.kind \in {"childByName", "childById"} => k.up \in ParentRep
            PROVE  /\ b \subseteq Marked
                   /\ k.kind = "parentByName" => b \subseteq ParentRep
                   /\ k.kind \in child3 => b \subseteq ChildRep
        BY <4>2, ReadsTypes
      <4> HIDE DEF req, a
      <4> QED
        BY <1>2, <1>5, <2>1, <4>2
    <3>2. /\ call[p].pc \in Resolving \union {"own"} => req.kind = "parentByName"
          /\ call[p].pc = "lookup" => req.kind \in child3
      BY <1>2, CallFields DEF ReqAt
    <3> QED
      BY <3>1, <3>2
  <2>2. CASE a = {Failed}
    BY <2>2 DEF Marked
  <2>3. CASE req.kind \in Mutations /\ a = {Done}
    BY <1>2, <2>3, CallFields DEF ReqAt, Resolving, Mutations, Marked
  <2> QED
    BY <1>3, <2>1, <2>2, <2>3
<1>7. /\ r \in Call /\ r.ans = a
      /\ r.op = call[p].op /\ r.pc = call[p].pc /\ r.last = call[p].last
      /\ r.asked = call[p].asked /\ r.up = call[p].up /\ r.one = call[p].one
      /\ r.req = req /\ r.tries = call[p].tries
  <2> HIDE DEF a
  <2> QED
    BY <1>6, CallFields DEF Call, Marked
<1>8. Shape(r)
  <2> HIDE DEF r, a
  <2>1. OpAt(r) /\ ReqAt(r)
    BY <1>7, CallFields DEF OpAt, ReqAt
  <2>2. AnsAt(r)
    BY <1>2, <1>6, <1>7 DEF AnsAt, IsAnswer
  <2> QED
    BY <1>7, <2>1, <2>2 DEF Shape
<1> QED
  BY <1>1, <1>4, <1>8, GoesTypes DEF TypeInv, Moves

\* Calls that others cross keep their types.
LEMMA DisturbTypes ==
  ASSUME CallsOK, call' = Disturb(call, {})
  PROVE  /\ CallsOK'
         /\ \A q \in Callers :
              call'[q] = IF call[q].pc = "idle" THEN call[q] ELSE [call[q] EXCEPT !.alone = FALSE]
<1>1. \A q \in Callers :
        call'[q] = IF call[q].pc = "idle" THEN call[q] ELSE [call[q] EXCEPT !.alone = FALSE]
  BY DEF Disturb
<1>2. \A q \in Callers :
        Shape(call[q]) /\ call[q] \in Call
          /\ Shape([call[q] EXCEPT !.alone = FALSE]) /\ [call[q] EXCEPT !.alone = FALSE] \in Call
  BY Crossed DEF CallsOK
<1>3. call' = [q \in Callers |-> IF call[q].pc = "idle" THEN call[q]
                                 ELSE [call[q] EXCEPT !.alone = FALSE]]
  BY DEF Disturb
<1>4. call' \in [Callers -> Call] /\ \A q \in Callers : Shape(call'[q])
  BY <1>1, <1>2, <1>3
<1> QED
  BY <1>1, <1>4 DEF CallsOK

LEMMA AdminSound ==
  ASSUME TypeInv, AdminParents \/ AdminChildren PROVE ServerOK'
<1>1. ServerOK
  BY DEF TypeInv
<1>2. CASE AdminChildren
  <2>1. /\ parents' = parents
        /\ \E j \in ChildIds, x \in LiveParents, n \in ChildNames :
             \/ /\ children[j] = Unissued /\ FreeUnder(x, n)
                /\ children' = [children EXCEPT ![j] = ChildRecord(j, x.id, n)]
             \/ /\ children[j] \in Under({x}) /\ FreeUnder(x, n)
                /\ children' = [children EXCEPT ![j].name = n]
             \/ /\ children[j] \in Under({x})
                /\ children' = [children EXCEPT ![j] = Gone]
    BY <1>2 DEF AdminChildren
  <2>2. PICK j \in ChildIds, x \in LiveParents, n \in ChildNames :
           \/ /\ FreeUnder(x, n)
              /\ children' = [children EXCEPT ![j] = ChildRecord(j, x.id, n)]
           \/ /\ children[j] \in Under({x}) /\ FreeUnder(x, n)
              /\ children' = [children EXCEPT ![j].name = n]
           \/ children' = [children EXCEPT ![j] = Gone]
    BY <2>1
  <2>3. x.id \in ParentIds /\ parents[x.id] \in ParentRep
    BY <1>1, LiveAre DEF ParentRep
  <2>4. CASE FreeUnder(x, n) /\ children' = [children EXCEPT ![j] = ChildRecord(j, x.id, n)]
    <3>1. \A i \in ChildIds : children[i] \in ChildRep /\ children[i].under = x.id
                                => children[i].name # n
      BY <1>1, <2>4, UnderAre
    <3>2. Sound(parents, [children EXCEPT ![j] = ChildRecord(j, x.id, n)])
      BY <1>1, <2>3, <3>1, PutSound
    <3> QED
      BY <2>1, <2>4, <3>2 DEF ServerOK
  <2>5. CASE /\ children[j] \in Under({x}) /\ FreeUnder(x, n)
             /\ children' = [children EXCEPT ![j].name = n]
    <3>1. \A i \in ChildIds : children[i] \in ChildRep /\ children[i].under = x.id
                                => children[i].name # n
      BY <1>1, <2>5, UnderAre
    <3>2. children[j] \in ChildRep /\ children[j].under = x.id /\ children[j].id = j
            /\ children[j].of = Null
      BY <1>1, <2>5, UnderAre, LiveAre DEF ServerOK, Sound
    <3>3. [children[j] EXCEPT !.name = n] = ChildRecord(j, x.id, n)
      BY <3>2 DEF ChildRep, ChildRecord
    <3>4. children' = [children EXCEPT ![j] = ChildRecord(j, x.id, n)]
      BY <1>1, <2>5, <3>3 DEF ServerOK, Sound
    <3>5. Sound(parents, [children EXCEPT ![j] = ChildRecord(j, x.id, n)])
      BY <1>1, <2>3, <3>1, PutSound
    <3> QED
      BY <2>1, <3>4, <3>5 DEF ServerOK
  <2>6. CASE children' = [children EXCEPT ![j] = Gone]
    <3>1. children' = [i \in ChildIds |-> IF i \in {j} THEN Gone ELSE children[i]]
      BY <1>1, <2>6 DEF ServerOK, Sound
    <3>2. Sound(parents, [i \in ChildIds |-> IF i \in {j} THEN Gone ELSE children[i]])
      BY <1>1, DropSound
    <3> QED
      BY <2>1, <3>1, <3>2 DEF ServerOK
  <2> QED
    BY <2>2, <2>4, <2>5, <2>6
<1>3. CASE AdminParents
  <2>1. PICK i \in ParentIds, r \in Realms, n \in ParentNames :
           \/ /\ parents[i] = Unissued
              /\ \A x \in LiveParents : <<x.realm, x.name>> # <<r, n>>
              /\ parents' = [parents EXCEPT ![i] = ParentRecord(i, r, n)]
              /\ UNCHANGED children
           \/ /\ parents[i] \in ParentRep /\ parents[i].realm = r
              /\ \A x \in LiveParents : <<x.realm, x.name>> # <<r, n>>
              /\ parents' = [parents EXCEPT ![i].name = n]
              /\ UNCHANGED children
           \/ /\ parents[i] \in ParentRep
              /\ parents' = [parents EXCEPT ![i] = Gone]
              /\ children' = [j \in ChildIds |-> IF children[j] \in Under({parents[i]})
                                                 THEN Gone ELSE children[j]]
    BY <1>3 DEF AdminParents
  <2> DEFINE rec == ParentRecord(i, r, n)
  <2>2. /\ rec \in ParentRep /\ rec.id = i /\ rec.realm = r /\ rec.name = n
    BY DEF ParentRecord, ParentRep
  <2>3. parents \in [ParentIds -> ParentRep \union {Unissued, Gone}]
    BY <1>1 DEF ServerOK, Sound
  <2>4. ASSUME \A x \in LiveParents : <<x.realm, x.name>> # <<r, n>>,
               parents' = [parents EXCEPT ![i] = rec], UNCHANGED children
        PROVE  ServerOK'
    <3>1. /\ parents' \in [ParentIds -> ParentRep \union {Unissued, Gone}] /\ parents'[i] = rec
          /\ \A j \in ParentIds : j # i => parents'[j] = parents[j]
      <4> HIDE DEF rec
      <4> QED
        BY <2>2, <2>3, <2>4
    <3>2. \A j \in ParentIds : parents[j] \in ParentRep =>
            ~(parents[j].realm = r /\ parents[j].name = n)
      BY <2>4 DEF LiveParents
    <3>3. \A j \in ParentIds : parents[j] \in ParentRep => parents'[j] \in ParentRep
      <4> HIDE DEF rec
      <4> QED
        BY <2>2, <3>1
    <3>4. \A c \in ChildIds : children[c] \in ChildRep => children[c].under \in ParentIds
      BY DEF ChildRep
    <3>5. Sound(parents', children)
      <4> HIDE DEF rec
      <4>1. \A j \in ParentIds : parents'[j] \in ParentRep => parents'[j].id = j
        BY <1>1, <2>2, <3>1 DEF ServerOK, Sound
      <4>2. \A j, k \in ParentIds :
              parents'[j] \in ParentRep /\ parents'[k] \in ParentRep
                /\ parents'[j].realm = parents'[k].realm /\ parents'[j].name = parents'[k].name
                => j = k
        BY <1>1, <2>2, <3>1, <3>2 DEF ServerOK, Sound
      <4>3. \A c \in ChildIds : children[c] \in ChildRep =>
               children[c].id = c /\ children[c].of = Null
                 /\ parents'[children[c].under] \in ParentRep
        BY <1>1, <3>3, <3>4 DEF ServerOK, Sound
      <4> QED
        BY <1>1, <3>1, <4>1, <4>2, <4>3 DEF ServerOK, Sound
    <3> QED
      BY <2>4, <3>5 DEF ServerOK
  <2>5. ASSUME parents[i] \in ParentRep, parents[i].realm = r,
               parents' = [parents EXCEPT ![i].name = n]
        PROVE  parents' = [parents EXCEPT ![i] = rec]
    <3>1. parents[i].id = i
      BY <1>1, <2>5 DEF ServerOK, Sound
    <3>2. [parents[i] EXCEPT !.name = n] = rec
      BY <2>5, <3>1 DEF ParentRep, ParentRecord
    <3> HIDE DEF rec
    <3> QED
      BY <2>3, <2>5, <3>2
  <2>6. ASSUME parents[i] \in ParentRep, parents' = [parents EXCEPT ![i] = Gone],
               children' = [j \in ChildIds |-> IF children[j] \in Under({parents[i]})
                                               THEN Gone ELSE children[j]]
        PROVE  ServerOK'
    <3>1. /\ parents' \in [ParentIds -> ParentRep \union {Unissued, Gone}] /\ parents'[i] = Gone
          /\ \A j \in ParentIds : j # i => parents'[j] = parents[j]
      BY <2>3, <2>6
    <3>2. Gone \notin ParentRep /\ Gone \notin ChildRep
      BY Marks
    <3>3. parents[i].id = i
      BY <1>1, <2>6 DEF ServerOK, Sound
    <3>4. \A c : c \in LiveChildren /\ c.under = i => c \in Under({parents[i]})
      BY <3>3 DEF Under
    <3>5. children' \in [ChildIds -> ChildRep \union {Unissued, Gone}]
      BY <1>1, <2>6 DEF ServerOK, Sound
    <3>6. \A j \in ChildIds : children'[j] \in ChildRep =>
            children'[j] = children[j] /\ children[j].under # i /\ children[j].under \in ParentIds
      <4>1. ASSUME NEW j \in ChildIds, children'[j] \in ChildRep
            PROVE  children'[j] = children[j] /\ children[j].under # i
                     /\ children[j].under \in ParentIds
        <5>1. children[j] \notin Under({parents[i]}) /\ children'[j] = children[j]
          BY <2>6, <3>2, <4>1
        <5>2. children[j] \in LiveChildren
          BY <4>1, <5>1 DEF LiveChildren
        <5> QED
          BY <3>4, <4>1, <5>1, <5>2 DEF ChildRep
      <4> QED
        BY <4>1
    <3>7. Sound(parents', children')
      <4>1. \A j \in ParentIds : parents'[j] \in ParentRep => parents'[j].id = j
        BY <1>1, <3>1, <3>2 DEF ServerOK, Sound
      <4>2. \A j, k \in ParentIds :
              parents'[j] \in ParentRep /\ parents'[k] \in ParentRep
                /\ parents'[j].realm = parents'[k].realm /\ parents'[j].name = parents'[k].name
                => j = k
        BY <1>1, <3>1, <3>2 DEF ServerOK, Sound
      <4>3. \A c \in ChildIds : children'[c] \in ChildRep =>
               children'[c].id = c /\ children'[c].of = Null
                 /\ parents'[children'[c].under] \in ParentRep
        BY <1>1, <3>1, <3>6 DEF ServerOK, Sound
      <4>4. \A j, k \in ChildIds :
              children'[j] \in ChildRep /\ children'[k] \in ChildRep
                /\ children'[j].under = children'[k].under /\ children'[j].name = children'[k].name
                => j = k
        BY <1>1, <3>6 DEF ServerOK, Sound
      <4> QED
        BY <3>1, <3>5, <4>1, <4>2, <4>3, <4>4 DEF Sound
    <3> QED
      BY <3>7 DEF ServerOK
  <2> QED
    <3> HIDE DEF rec
    <3> QED
      BY <2>1, <2>4, <2>5, <2>6 DEF rec
<1> QED
  BY <1>2, <1>3

-----------------------------------------------------------------------------
(* Type correctness, and the identity version                              *)

\* What Next lets a caller, or the application, do.
CallStep(p) ==
  \/ \E op \in AllOps : BeginAtParent(p, op) \/ BeginAtChild(p, op)
  \/ \E i \in ChildIds : BeginGetById(p, i)
  \/ BeginParentGet(p)
  \/ Serve(p) \/ Step(p)

Rebind ==
  \/ \E r \in Realms : RebindRealm(r)
  \/ \E n \in ParentNames : RebindParent(n)
  \/ \E n \in ChildNames : RebindChild(n)

LEMMA NextParts == Next <=> Rebind \/ ReadChild \/ (\E p \in Callers : CallStep(p)) \/ Admin
  BY Zenon DEF Next, Rebind, CallStep

LEMMA StepTypes ==
  ASSUME TypeInv, NEW p \in Callers, Step(p)
  PROVE  CallsOK' /\ Moves /\ UNCHANGED <<setting, server>> /\ UNCHANGED history
<1>1. UNCHANGED history
  BY DEF Step, Throw, ParentReturns, OwnReturns, HasParent, LooksUp, CreatesUnder, GetReturns,
         Wakes, Resume, PartnerResolved, ReadBack, Deleted, Used
<1>2. CallsOK' /\ Moves /\ UNCHANGED <<setting, server>>
  BY ThrowTypes, ParentReturnsTypes, OwnReturnsTypes, HasParentTypes, LooksUpTypes,
     CreatesUnderTypes, GetReturnsTypes, WakesTypes, ResumeTypes, PartnerResolvedTypes,
     ReadBackTypes, DeletedTypes, Zenon DEF Step
<1> QED
  BY <1>1, <1>2

LEMMA CallStepTypes ==
  ASSUME TypeInv, NEW p \in Callers, CallStep(p)
  PROVE  /\ CallsOK' /\ Moves /\ ServerOK' /\ UNCHANGED <<setting, edits, overtaken>>
         /\ retargets' \in retargets..Usages[usage].retargets
<1>1. ServerOK /\ retargets \in Nat /\ Usages[usage].retargets \in Nat
        /\ retargets <= Usages[usage].retargets
  BY ChildHandleAssumption DEF TypeInv, IdentityOK, Usage
<1>2. ASSUME UNCHANGED server PROVE ServerOK'
  BY <1>1, <1>2 DEF ServerOK, server
<1>3. CASE Step(p)
  <2>1. CallsOK' /\ Moves /\ UNCHANGED <<setting, server>> /\ UNCHANGED history
    BY <1>3, StepTypes
  <2> QED
    BY <1>1, <1>2, <2>1 DEF history
<1>4. CASE Serve(p)
  <2>1. UNCHANGED history
    BY <1>4 DEF Serve
  <2> QED
    BY <1>1, <1>4, <2>1, ServeTypes DEF history
<1>5. CASE BeginParentGet(p)
  <2>1. UNCHANGED history
    BY <1>5 DEF BeginParentGet
  <2> QED
    BY <1>1, <1>2, <1>5, <2>1, BeginParentGetTypes DEF history
<1>6. ASSUME NEW i \in ChildIds, BeginGetById(p, i)
      PROVE  /\ CallsOK' /\ Moves /\ ServerOK' /\ UNCHANGED <<setting, edits, overtaken>>
             /\ retargets' \in retargets..Usages[usage].retargets
  <2>1. /\ retargets < Usages[usage].retargets /\ retargets' = retargets + 1
        /\ UNCHANGED <<edits, overtaken>>
    BY <1>6 DEF BeginGetById
  <2> QED
    BY <1>1, <1>2, <1>6, <2>1, BeginGetByIdTypes
<1>7. ASSUME NEW op \in AllOps, BeginAtParent(p, op) \/ BeginAtChild(p, op)
      PROVE  /\ CallsOK' /\ Moves /\ ServerOK' /\ UNCHANGED <<setting, edits, overtaken>>
             /\ retargets' \in retargets..Usages[usage].retargets
  <2>1. UNCHANGED history
    BY <1>7 DEF BeginAtParent, BeginAtChild
  <2>2. CallsOK' /\ Moves /\ UNCHANGED <<setting, server>>
    BY <1>7, BeginAtParentTypes, BeginAtChildTypes
  <2> QED
    BY <1>1, <1>2, <2>1, <2>2 DEF history
<1> QED
  BY <1>3, <1>4, <1>5, <1>6, <1>7 DEF CallStep

LEMMA RebindMoves ==
  ASSUME TypeInv, Rebind
  PROVE  /\ RealmMoves \/ ParentMoves \/ ChildMoves
         /\ retargets < Usages[usage].retargets /\ retargets' = retargets + 1
         /\ overtaken' = (overtaken \/ \E p \in Callers : call[p].pc # "idle")
         /\ call' = Disturb(call, {}) /\ UNCHANGED <<setting, server, edits>>
<1>1. Retarget
  BY DEF Rebind, RebindRealm, RebindParent, RebindChild
<1>2. RealmMoves \/ ParentMoves \/ ChildMoves
  BY DEF Rebind, RebindRealm, RebindParent, RebindChild, RealmMoves, ParentMoves, ChildMoves
<1> QED
  BY <1>1, <1>2 DEF Retarget

LEMMA AdminLeaves ==
  ASSUME TypeInv, Admin
  PROVE  /\ ServerOK' /\ call' = Disturb(call, {})
         /\ UNCHANGED <<setting, realm, pcache, ccache, retargets, overtaken>>
         /\ edits' \in 0..Usages[usage].edits
<1>1. edits \in Nat /\ Usages[usage].edits \in Nat
  BY ChildHandleAssumption DEF TypeInv, IdentityOK, Usage
<1> QED
  BY <1>1, AdminSound DEF Admin

LEMMA ReadChildMoves ==
  ASSUME TypeInv, ReadChild PROVE Moves /\ UNCHANGED <<setting, server, history, call>>
  BY DEF ReadChild, Moves

LEMMA InitTypes == ASSUME Init PROVE TypeInv
<1>1. usage \in DOMAIN Usages /\ kind \in Kinds /\ Usages[usage] \in Usage
  BY ChildHandleAssumption DEF Init
<1>2. Usages[usage].retargets \in Nat /\ Usages[usage].edits \in Nat
  BY <1>1 DEF Usage
<1>3. IdentityOK
  <2>1. /\ retargets = 0 /\ edits = 0 /\ overtaken = FALSE
        /\ realmGen = 0 /\ parentGen = 0 /\ childGen = 0
        /\ parentSeen = RootVersion(0) /\ childSeen = ChildVersion(0, 0)
        /\ realmName \in Realms /\ parentName \in ParentNames /\ childName \in ChildNames
    BY DEF Init
  <2>2. 0 \in 0..Usages[usage].retargets /\ 0 \in 0..Usages[usage].edits /\ 0 \in 0..0
    BY <1>2
  <2>3. /\ parentSeen \in {RootVersion(g) : g \in 0..realmGen}
        /\ childSeen \in {ChildVersion(g, h) : g \in 0..realmGen, h \in 0..parentGen}
    BY <2>1, <2>2
  <2>4. /\ retargets \in 0..Usages[usage].retargets /\ edits \in 0..Usages[usage].edits
        /\ overtaken \in BOOLEAN /\ realmGen \in 0..retargets
        /\ parentGen \in Nat /\ childGen \in Nat
        /\ realmName \in Realms /\ parentName \in ParentNames /\ childName \in ChildNames
    BY <2>1, <2>2
  <2> QED
    BY <1>1, <2>3, <2>4 DEF IdentityOK
<1>4. CachesOK
  BY DEF Init, CachesOK
<1>5. CallsOK
  BY IdleShape DEF Init, CallsOK
<1>6. ServerOK
  <2>1. PICK held \in [ParentIds -> Identity \union {Unissued}] :
          /\ \A i, j \in ParentIds : i # j /\ held[i] = held[j] => held[i] = Unissued
          /\ parents = [i \in ParentIds |-> IF held[i] = Unissued THEN Unissued
                                            ELSE ParentRecord(i, held[i].realm, held[i].name)]
    BY DEF Init
  <2>2. ASSUME NEW i \in ParentIds
        PROVE  \/ held[i] = Unissued /\ parents[i] = Unissued
               \/ /\ held[i] \in Identity /\ parents[i] \in ParentRep
                  /\ parents[i].id = i /\ parents[i].realm = held[i].realm
                  /\ parents[i].name = held[i].name
    <3>1. held[i] \in Identity \union {Unissued}
      BY <2>1
    <3>2. held[i] = Unissued => parents[i] = Unissued
      BY <2>1
    <3>3. held[i] # Unissued => parents[i] = ParentRecord(i, held[i].realm, held[i].name)
      BY <2>1
    <3>4. \A h \in Identity :
            LET x == ParentRecord(i, h.realm, h.name)
            IN  x \in ParentRep /\ x.id = i /\ x.realm = h.realm /\ x.name = h.name
      BY DEF Identity, ParentRecord, ParentRep
    <3> QED
      BY <3>1, <3>2, <3>3, <3>4
  <2>3. Unissued \notin ParentRep /\ Unissued \notin ChildRep
    BY Marks
  <2>4. \A g, h \in Identity : g.realm = h.realm /\ g.name = h.name => g = h
    BY DEF Identity
  <2>5. PICK kept \in [ChildIds -> [under : ParentIds, name : ChildNames] \union {Unissued}] :
          /\ \A i, j \in ChildIds : i # j /\ kept[i] = kept[j] => kept[i] = Unissued
          /\ \A i \in ChildIds : kept[i] # Unissued => parents[kept[i].under] # Unissued
          /\ children = [i \in ChildIds |-> IF kept[i] = Unissued THEN Unissued
                                            ELSE ChildRecord(i, kept[i].under, kept[i].name)]
    BY DEF Init
  <2>6. ASSUME NEW i \in ChildIds
        PROVE  \/ kept[i] = Unissued /\ children[i] = Unissued
               \/ /\ kept[i] \in [under : ParentIds, name : ChildNames] /\ kept[i] # Unissued
                  /\ children[i] \in ChildRep
                  /\ children[i].id = i /\ children[i].under = kept[i].under
                  /\ children[i].name = kept[i].name /\ children[i].of = Null
                  /\ parents[children[i].under] \in ParentRep
    <3>1. kept[i] \in [under : ParentIds, name : ChildNames] \union {Unissued}
      BY <2>5
    <3>2. kept[i] = Unissued => children[i] = Unissued
      BY <2>5
    <3>3. kept[i] # Unissued =>
            /\ children[i] = ChildRecord(i, kept[i].under, kept[i].name)
            /\ parents[kept[i].under] # Unissued
      BY <2>5
    <3>4. \A h \in [under : ParentIds, name : ChildNames] :
            LET x == ChildRecord(i, h.under, h.name)
            IN  /\ x \in ChildRep /\ x.id = i /\ x.under = h.under /\ x.name = h.name
                /\ x.of = Null /\ h.under \in ParentIds
      BY ChildRecordFields
    <3> QED
      BY <2>2, <3>1, <3>2, <3>3, <3>4
  <2>7. \A g, h \in [under : ParentIds, name : ChildNames] :
          g.under = h.under /\ g.name = h.name => g = h
    OBVIOUS
  <2>8. /\ parents \in [ParentIds -> ParentRep \union {Unissued, Gone}]
        /\ children \in [ChildIds -> ChildRep \union {Unissued, Gone}]
    <3>1. parents = [i \in ParentIds |-> parents[i]] /\ children = [i \in ChildIds |-> children[i]]
      BY <2>1, <2>5
    <3> QED
      BY <2>2, <2>6, <3>1
  <2>9. /\ \A i \in ParentIds : parents[i] \in ParentRep => parents[i].id = i
        /\ \A i, j \in ParentIds :
             parents[i] \in ParentRep /\ parents[j] \in ParentRep
               /\ parents[i].realm = parents[j].realm /\ parents[i].name = parents[j].name => i = j
    BY <2>1, <2>2, <2>3, <2>4
  <2>10. /\ \A i \in ChildIds :
              children[i] \in ChildRep =>
                children[i].id = i /\ children[i].of = Null
                  /\ parents[children[i].under] \in ParentRep
         /\ \A i, j \in ChildIds :
              children[i] \in ChildRep /\ children[j] \in ChildRep
                /\ children[i].under = children[j].under
                /\ children[i].name = children[j].name => i = j
    BY <2>3, <2>5, <2>6, <2>7
  <2> QED
    BY <2>8, <2>9, <2>10 DEF ServerOK, Sound
<1> QED
  BY <1>3, <1>4, <1>5, <1>6 DEF TypeInv

LEMMA NextTypes == ASSUME TypeInv, [Next]_vars PROVE TypeInv'
<1>1. /\ IdentityOK /\ CachesOK /\ ServerOK /\ CallsOK
      /\ retargets \in 0..Usages[usage].retargets /\ edits \in 0..Usages[usage].edits
      /\ overtaken \in BOOLEAN /\ Usages[usage].retargets \in Nat
  BY ChildHandleAssumption DEF TypeInv, IdentityOK, Usage
<1>2. retargets \in retargets..Usages[usage].retargets
  BY <1>1
<1>3. CASE Rebind
  <2>1. /\ RealmMoves \/ ParentMoves \/ ChildMoves
        /\ retargets < Usages[usage].retargets /\ retargets' = retargets + 1
        /\ overtaken' = (overtaken \/ \E p \in Callers : call[p].pc # "idle")
        /\ call' = Disturb(call, {}) /\ UNCHANGED <<setting, server, edits>>
    BY <1>3, RebindMoves
  <2>2. overtaken' \in BOOLEAN
    BY <2>1
  <2>3. IdentityOK' /\ CachesOK'
    BY <1>1, <2>1, <2>2, RebindTypes
  <2>4. CallsOK' /\ ServerOK'
    BY <1>1, <2>1, DisturbTypes DEF server, ServerOK
  <2> QED
    BY <2>3, <2>4 DEF TypeInv
<1>4. CASE ReadChild
  <2>1. Moves /\ UNCHANGED <<setting, server, history, call>>
    BY <1>4, ReadChildMoves
  <2>2. IdentityOK' /\ CachesOK'
    BY <1>1, <1>2, <2>1, MovesTypes DEF history
  <2> QED
    BY <1>1, <2>1, <2>2 DEF TypeInv, server, ServerOK, CallsOK
<1>5. ASSUME NEW p \in Callers, CallStep(p) PROVE TypeInv'
  <2>1. /\ CallsOK' /\ Moves /\ ServerOK' /\ UNCHANGED <<setting, edits, overtaken>>
        /\ retargets' \in retargets..Usages[usage].retargets
    BY <1>5, CallStepTypes
  <2>2. IdentityOK' /\ CachesOK'
    BY <1>1, <2>1, MovesTypes
  <2> QED
    BY <2>1, <2>2 DEF TypeInv
<1>6. CASE Admin
  <2>1. /\ ServerOK' /\ call' = Disturb(call, {})
        /\ UNCHANGED <<setting, realm, pcache, ccache, retargets, overtaken>>
        /\ edits' \in 0..Usages[usage].edits
    BY <1>6, AdminLeaves
  <2>2. CallsOK'
    BY <1>1, <2>1, DisturbTypes
  <2>3. Moves
    BY <2>1 DEF Moves
  <2>4. IdentityOK' /\ CachesOK'
    BY <1>1, <1>2, <2>1, <2>3, MovesTypes
  <2> QED
    BY <2>1, <2>2, <2>4 DEF TypeInv
<1>7. CASE UNCHANGED vars
  BY <1>7 DEF vars, setting, realm, pcache, ccache, server, history, TypeInv, IdentityOK, CachesOK,
              ServerOK, CallsOK
<1> QED
  BY <1>3, <1>4, <1>5, <1>6, <1>7, NextParts

LEMMA TypesHold == TypeInv => TypeOK
<1> SUFFICES ASSUME TypeInv PROVE TypeOK
  OBVIOUS
<1>1. ServerOK
  BY DEF TypeInv
<1>2. \A c \in LiveChildren : c \in ChildRep /\ c.id \in ChildIds /\ children[c.id] = c
  BY <1>1, LiveAre DEF ChildRep
<1>3. /\ \A c \in LiveChildren : parents[c.under] \in ParentRep
      /\ \A c, d \in LiveChildren : c.under = d.under /\ c.name = d.name => c = d
  BY <1>1, <1>2 DEF ServerOK, Sound
<1> QED
  BY <1>1, <1>3 DEF TypeOK, TypeInv, IdentityOK, CachesOK, ServerOK, Sound, CallsOK

\* Whatever the callers, the application and other administrators do, and in
\* whatever order requests are answered, every variable keeps its type, children
\* live under parents that do and no name is taken twice under a parent.
THEOREM TypeCorrect == Spec => []TypeOK
<1>1. Init => TypeInv
  BY InitTypes
<1>2. TypeInv /\ [Next]_vars => TypeInv'
  BY NextTypes
<1> QED
  BY <1>1, <1>2, TypesHold, PTL DEF Spec

\* The identity version of the child (RealmHandle, the parent's and the child's
\* identityVersion) grows at every level of its own, whatever calls are under way,
\* and is another whenever realm, parent or child is: what the trackers of the
\* handles below (ParentIdentityTracker.invalidateIfChanged) rest on.
THEOREM VersionTracks == Spec => VersionTracksTarget
<1>1. Init => TypeInv
  BY InitTypes
<1>2. TypeInv /\ [Next]_vars => TypeInv'
  BY NextTypes
<1>3. ASSUME TypeInv, [Next]_vars PROVE [VersionStep]_vars
  <2>1. IdentityOK /\ CachesOK
    BY <1>3 DEF TypeInv
  <2>2. CASE Rebind
    BY <1>3, <2>1, <2>2, RebindMoves, RealmMovesOn, ParentMovesOn, ChildMovesOn
  <2>3. CASE ReadChild
    BY <1>3, <2>1, <2>3, ReadChildMoves, MovesVersion
  <2>4. ASSUME NEW p \in Callers, CallStep(p) PROVE VersionStep
    BY <1>3, <2>1, <2>4, CallStepTypes, MovesVersion
  <2>5. CASE Admin
    <3>1. Moves
      BY <1>3, <2>5, AdminLeaves DEF Moves
    <3> QED
      BY <2>1, <3>1, MovesVersion
  <2> QED
    BY <1>3, <2>2, <2>3, <2>4, <2>5, NextParts
<1> QED
  BY <1>1, <1>2, <1>3, PTL DEF Spec, VersionTracksTarget

-----------------------------------------------------------------------------
(* What is kept was found where the handles point: the handles             *)

\* What one step may do to the handles while no retarget has overtaken a call.
HereMoves ==
  /\ UNCHANGED realm
  /\ \/ UNCHANGED <<pcache, ccache>>
     \/ LookAtParent /\ UNCHANGED ccache
     \/ LookAtChild
     \/ \E found \in SUBSET {x \in ParentRep : IsHere(x)} : ParentsGet(found) /\ UNCHANGED ccache
     \/ \E found \in SUBSET {x \in ParentRep : IsHere(x)} : SetResolved(found) /\ UNCHANGED ccache
     \/ \E c \in ChildRep \union {Null} :
          (c \in ChildRep => c.of \in {Here, Null}) /\ WriteBack(c)
     \/ child' = Null /\ UNCHANGED <<pcache, childName, childGen, childSeen>>

\* Realm and parent keep their names, and the parent stays looked at.
Stays ==
  /\ realmName' = realmName /\ parentName' = parentName /\ kind' = kind
  /\ ~ParentStale => ~ParentStale'

LEMMA HereMovesKeep ==
  ASSUME IdentityOK, CachesOK, HereMoves, kind' = kind, ~overtaken, CachesHere
  PROVE  /\ Stays /\ CachesHere'
         /\ VisibleParent \in ParentRep /\ parent' = VisibleParent => VisibleParent' = VisibleParent
<1> DEFINE Kept ==
      /\ parentName' = parentName
      /\ ~ParentStale => ~ParentStale'
      /\ VisibleParent' \in ParentRep => IsHere(VisibleParent')
      /\ VisibleParent \in ParentRep /\ parent' = VisibleParent => VisibleParent' = VisibleParent
<1> DEFINE Own ==
      VisibleChild' \in ChildRep => VisibleChild'.name = childName' /\ VisibleChild'.of \in {Here, Null}
<1>1. /\ realmName' = realmName /\ realmGen' = realmGen
      /\ VisibleParent \in ParentRep => IsHere(VisibleParent)
      /\ VisibleChild \in ChildRep =>
           VisibleChild.name = childName /\ VisibleChild.of \in {Here, Null}
      /\ Null \notin ParentRep /\ Undefined \notin ParentRep
      /\ Null \notin ChildRep /\ Undefined \notin ChildRep
  BY Marks DEF HereMoves, realm, CachesHere
<1>2. Moves
  <2>1. (\E found \in SUBSET {x \in ParentRep : IsHere(x)} : ParentsGet(found) /\ UNCHANGED ccache)
          => \E found \in SUBSET ParentRep : ParentsGet(found) /\ UNCHANGED ccache
    <3>1. \A found \in SUBSET {x \in ParentRep : IsHere(x)} : found \in SUBSET ParentRep
      OBVIOUS
    <3> QED
      BY <3>1
  <2>2. (\E found \in SUBSET {x \in ParentRep : IsHere(x)} : SetResolved(found) /\ UNCHANGED ccache)
          => \E found \in SUBSET ParentRep : SetResolved(found) /\ UNCHANGED ccache
    <3>1. \A found \in SUBSET {x \in ParentRep : IsHere(x)} : found \in SUBSET ParentRep
      OBVIOUS
    <3> QED
      BY <3>1
  <2> QED
    BY <2>1, <2>2, Zenon DEF HereMoves, Moves
<1>3. VisibleParentGen' \in Nat /\ VisibleParentGen' >= VisibleParentGen
  BY <1>2, MovesGenerations
<1>4. ASSUME UNCHANGED ccache PROVE Own
  <2>1. VisibleChild' \in {VisibleChild, Undefined}
    BY <1>2, <1>3, <1>4, LeftChild DEF Moves
  <2>2. childName' = childName
    BY <1>4 DEF ccache
  <2> QED
    BY <1>1, <2>1, <2>2
<1>5. ASSUME LookAtParent PROVE Kept
  <2>1. ~ParentStale' /\ VisibleParent' = VisibleParent /\ parentName' = parentName
    BY <1>2, <1>5, LookedParent DEF Moves
  <2> QED
    BY <1>1, <2>1
<1>6. ASSUME UNCHANGED <<pcache, ccache>> PROVE Kept /\ Own
  <2>1. ParentStale' = ParentStale /\ parent' = parent /\ parentName' = parentName
    BY <1>1, <1>6 DEF ParentStale, pcache
  <2>2. VisibleParent' = VisibleParent
    BY <2>1 DEF VisibleParent
  <2> QED
    BY <1>1, <1>4, <1>6, <2>1, <2>2
<1>7. ASSUME LookAtParent, UNCHANGED ccache PROVE Kept /\ Own
  BY <1>4, <1>5, <1>7
<1>8. ASSUME LookAtChild PROVE Kept /\ Own
  <2>1. /\ LookAtParent /\ child' = VisibleChild /\ childName' = childName
    BY <1>8 DEF LookAtChild
  <2>2. VisibleChild' \in {VisibleChild, Undefined}
    BY <2>1 DEF VisibleChild
  <2> QED
    BY <1>1, <1>5, <2>1, <2>2
<1>9. ASSUME NEW found \in SUBSET {x \in ParentRep : IsHere(x)}, ParentsGet(found),
             UNCHANGED ccache
      PROVE  Kept /\ Own
  <2> DEFINE chosen == CHOOSE x \in found : TRUE
  <2>1. found # {} => chosen \in found /\ chosen \in ParentRep /\ IsHere(chosen)
    BY <1>9
  <2>2. /\ parentName' = (IF found = {} THEN parentName ELSE chosen.name)
        /\ parentSeen' = RootVersion(realmGen)
        /\ parent' \in {Undefined, Null} \/ (found # {} /\ parent' = chosen)
    <3> HIDE DEF chosen
    <3> QED
      BY <1>9 DEF ParentsGet, chosen
  <2> HIDE DEF chosen
  <2>3. ~ParentStale' /\ VisibleParent' = parent'
    BY <1>1, <2>2 DEF ParentStale, ParentMoved, VisibleParent
  <2>4. parentName' = parentName
    BY <2>1, <2>2 DEF IsHere
  <2> QED
    BY <1>1, <1>4, <1>9, <2>1, <2>2, <2>3, <2>4
<1>10. ASSUME NEW found \in SUBSET {x \in ParentRep : IsHere(x)}, SetResolved(found),
              UNCHANGED ccache
       PROVE  Kept /\ Own
  <2>1. PICK x \in found : parent' = x /\ parentName' = x.name /\ parentSeen' = parentSeen
    BY <1>10 DEF SetResolved
  <2>2. x \in ParentRep /\ IsHere(x)
    BY <1>10
  <2>3. ParentStale' = ParentStale /\ parentName' = parentName
    BY <1>1, <2>1, <2>2 DEF ParentStale, IsHere
  <2>4. VisibleParent' \in {x, Undefined} /\ (~ParentStale => VisibleParent' = x)
    BY <2>1, <2>3 DEF VisibleParent
  <2>5. VisibleParent \in ParentRep => ~ParentStale
    BY <1>1 DEF VisibleParent
  <2> QED
    BY <1>1, <1>4, <1>10, <2>1, <2>2, <2>3, <2>4, <2>5
<1>11. ASSUME NEW c \in ChildRep \union {Null}, c \in ChildRep => c.of \in {Here, Null},
              WriteBack(c)
       PROVE  Kept /\ Own
  <2>1. /\ LookAtParent /\ childName' = IF c # Null THEN c.name ELSE childName
        /\ child' \in {c, Undefined}
    BY <1>11 DEF WriteBack
  <2>2. VisibleChild' \in {c, Undefined}
    BY <2>1 DEF VisibleChild
  <2>3. Own
    BY <1>1, <1>11, <2>1, <2>2
  <2> QED
    BY <1>5, <2>1, <2>3
<1>12. ASSUME child' = Null, UNCHANGED <<pcache, childName, childGen, childSeen>>
       PROVE  Kept /\ Own
  <2>1. ParentStale' = ParentStale /\ parent' = parent /\ parentName' = parentName
    BY <1>1, <1>12 DEF ParentStale, pcache
  <2>2. VisibleParent' = VisibleParent
    BY <2>1 DEF VisibleParent
  <2>3. VisibleChild' \in {Null, Undefined}
    BY <1>12 DEF VisibleChild
  <2> QED
    BY <1>1, <2>1, <2>2, <2>3
<1> HIDE DEF Kept, Own
<1>13. (\E found \in SUBSET {x \in ParentRep : IsHere(x)} : ParentsGet(found) /\ UNCHANGED ccache)
         => Kept /\ Own
  BY <1>9
<1>14. (\E found \in SUBSET {x \in ParentRep : IsHere(x)} : SetResolved(found) /\ UNCHANGED ccache)
         => Kept /\ Own
  BY <1>10
<1>15. (\E c \in ChildRep \union {Null} : (c \in ChildRep => c.of \in {Here, Null}) /\ WriteBack(c))
         => Kept /\ Own
  BY <1>11
<1>16. Kept /\ Own
  BY <1>6, <1>7, <1>8, <1>12, <1>13, <1>14, <1>15, Zenon DEF HereMoves
<1>17. Here' = Here
  BY <1>1, <1>16 DEF Here, Kept
<1>18. Stays
  BY <1>1, <1>16 DEF Kept, Stays
<1>19. CachesHere'
  <2>1. /\ VisibleParent' \in ParentRep =>
             VisibleParent'.realm = realmName' /\ VisibleParent'.name = parentName'
        /\ VisibleChild' \in ChildRep =>
             VisibleChild'.name = childName' /\ VisibleChild'.of \in {Here', Null}
    BY <1>1, <1>16, <1>17 DEF Kept, Own, IsHere
  <2> QED
    BY <2>1 DEF CachesHere, IsHere
<1> QED
  BY <1>16, <1>18, <1>19 DEF Kept

-----------------------------------------------------------------------------
(* What is kept was found where the handles point: the calls               *)

\* Nothing of a call changed, but that it may no longer be alone.
Carries(q) ==
  /\ call'[q].op = call[q].op /\ call'[q].pc = call[q].pc /\ call'[q].last = call[q].last
  /\ call'[q].asked = call[q].asked /\ call'[q].up = call[q].up /\ call'[q].one = call[q].one
  /\ call'[q].req = call[q].req /\ call'[q].ans = call[q].ans
  /\ call'[q].tries = call[q].tries

\* A call that others pass by keeps to where the handles point; and to the parent
\* and the child, as long as it is alone.
LEMMA Carried ==
  ASSUME TypeInv, NEW q \in Callers, CallHere(call[q]), ~overtaken, Stays, Carries(q),
         call'[q].alone /\ call'[q].pc # "idle" =>
           /\ call[q].alone /\ childName' = childName
           /\ \A x \in ParentRep : x \in Current => x \in Current'
  PROVE  CallHere(call[q])'
<1> SUFFICES ASSUME call'[q].pc # "idle"
             PROVE  KeepsHere(call[q])' /\ AsksHere(call[q])'
                      /\ (call'[q].alone => KeepsCurrent(call[q])' /\ AsksCurrent(call[q])')
  BY DEF CallHere
<1>1. /\ KeepsHere(call[q]) /\ AsksHere(call[q])
      /\ call[q].alone => KeepsCurrent(call[q]) /\ AsksCurrent(call[q])
  BY DEF CallHere, Carries
<1>2. Here' = Here /\ \A x : IsHere(x)' <=> IsHere(x)
  BY DEF Stays, Here, IsHere
<1>3. KeepsHere(call[q])'
  BY <1>1, <1>2 DEF KeepsHere, Carries, Stays, IsHere
<1>4. AsksHere(call[q])'
  BY <1>1, <1>2 DEF AsksHere, Carries, Stays, IsHere
<1>5. ASSUME call'[q].alone PROVE KeepsCurrent(call[q])' /\ AsksCurrent(call[q])'
  <2>1. /\ KeepsCurrent(call[q]) /\ AsksCurrent(call[q]) /\ childName' = childName
        /\ \A x \in ParentRep : x \in Current => x \in Current'
    BY <1>1, <1>5
  <2>2. KeepsCurrent(call[q])'
    BY <1>2, <2>1 DEF KeepsCurrent, Carries, Stays
  <2>3. /\ call[q].pc \in Resolving /\ call[q].req = Null => call[q].ans \subseteq ParentRep
        /\ call[q].pc \in Resolving /\ IsAnswer(call[q].ans) => call[q].ans \subseteq ParentRep
    BY CallFields DEF AnsAt
  <2>4. AsksCurrent(call[q])'
    BY <2>1, <2>3 DEF AsksCurrent, Carries, Stays
  <2> QED
    BY <2>2, <2>4
<1> QED
  BY <1>3, <1>4, <1>5

LEMMA CrossedCarries ==
  ASSUME TypeInv, NEW q \in Callers,
         call'[q] = call[q] \/ call'[q] = [call[q] EXCEPT !.alone = FALSE]
  PROVE  Carries(q)
<1>1. call[q] \in Call
  BY CallFields
<1> DEFINE d == [call[q] EXCEPT !.alone = FALSE]
<1>2. /\ d.op = call[q].op /\ d.pc = call[q].pc /\ d.last = call[q].last
      /\ d.asked = call[q].asked /\ d.up = call[q].up /\ d.one = call[q].one
      /\ d.req = call[q].req /\ d.ans = call[q].ans /\ d.tries = call[q].tries
  BY <1>1, Crossed
<1> HIDE DEF d
<1>3. call'[q] = call[q] \/ call'[q] = d
  BY DEF d
<1> QED
  BY <1>2, <1>3 DEF Carries

\* Those a call passes by and leaves alone still find the child's name and the
\* parent where they were.
LEMMA GoesOthers ==
  ASSUME TypeInv, NEW p \in Callers, NEW r \in Call, Goes(p, r), NEW q \in Callers \ {p}
  PROVE  /\ Carries(q)
         /\ call'[q].alone /\ call'[q].pc # "idle" =>
              /\ call[q].alone /\ childName' = childName
              /\ VisibleParent \in ParentRep => parent' = VisibleParent
<1> DEFINE moved == [call EXCEPT ![p] = r]
           same  == /\ <<parentName', childName', children'>> = <<parentName, childName, children>>
                    /\ VisibleParent \in ParentRep => parent' = VisibleParent
<1>1. moved \in [Callers -> Call] /\ moved[q] = call[q] /\ call[q] \in Call
  BY CallFields DEF TypeInv, CallsOK
<1>2. call' = IF same THEN moved ELSE Disturb(moved, {p})
  BY DEF Goes
<1>3. same => call'[q] = call[q]
  BY <1>1, <1>2
<1>4. ~same => call'[q] = IF call[q].pc = "idle" THEN call[q] ELSE [call[q] EXCEPT !.alone = FALSE]
  <2>1. ~same => call'[q] = Disturb(moved, {p})[q]
    BY <1>2
  <2>2. Disturb(moved, {p})[q] = IF moved[q].pc = "idle" THEN moved[q]
                                 ELSE [moved[q] EXCEPT !.alone = FALSE]
    <3> HIDE DEF moved
    <3> QED
      BY DEF Disturb
  <2> HIDE DEF moved, same
  <2> QED
    BY <1>1, <2>1, <2>2
<1>5. same => childName' = childName /\ (VisibleParent \in ParentRep => parent' = VisibleParent)
  OBVIOUS
<1>6. [call[q] EXCEPT !.alone = FALSE].alone = FALSE
  BY <1>1, Crossed
<1>7. Carries(q)
  <2> HIDE DEF same
  <2> QED
    BY <1>3, <1>4, CrossedCarries
<1>8. call'[q].alone /\ call'[q].pc # "idle" => same /\ call[q].alone
  <2> HIDE DEF same
  <2> QED
    BY <1>3, <1>4, <1>6, <1>7 DEF Carries
<1> QED
  <2> HIDE DEF same
  <2> QED
    BY <1>5, <1>7, <1>8

LEMMA CurrentKept ==
  ASSUME Stays, UNCHANGED parents, VisibleParent \in ParentRep => VisibleParent' = VisibleParent
  PROVE  \A x \in ParentRep : x \in Current => x \in Current'
<1>1. LiveParents' = LiveParents
  BY DEF LiveParents
<1>2. \A x : IsHere(x)' <=> IsHere(x)
  BY DEF Stays, IsHere
<1>3. CASE kind = "nestedGroup"
  <2>1. Current = {x \in LiveParents : IsHere(x)} /\ Current' = {x \in LiveParents' : IsHere(x)'}
    BY <1>3 DEF Current, Stays
  <2> QED
    BY <1>1, <1>2, <2>1
<1>4. CASE kind # "nestedGroup"
  <2>1. Current = {VisibleParent} /\ Current' = {VisibleParent'}
    BY <1>4 DEF Current, Stays
  <2> QED
    BY <2>1
<1> QED
  BY <1>3, <1>4

LEMMA GoesTo ==
  ASSUME CallsOK, NEW p \in Callers, NEW r, Goes(p, r), CallsOK'
  PROVE  call'[p] = r /\ r \in Call
<1>1. call' = [call EXCEPT ![p] = r] \/ call' = Disturb([call EXCEPT ![p] = r], {p})
  BY DEF Goes
<1>2. call'[p] = r
  BY <1>1 DEF Disturb, CallsOK
<1> QED
  BY <1>2 DEF CallsOK

\* A step of caller p: what it leaves of the handles and of its own call suffices.
LEMMA StepHere ==
  ASSUME TypeInv, HereInv, NEW p \in Callers, NEW r, Goes(p, r), CallsOK',
         UNCHANGED <<setting, parents, overtaken>>,
         ~overtaken => HereMoves,
         ~overtaken /\ Stays => CallHere(call[p])'
  PROVE  HereInv'
<1>1. CASE overtaken
  BY <1>1 DEF HereInv, CachesHere, CallHere
<1>2. CASE ~overtaken
  <2>1. IdentityOK /\ CachesOK /\ kind' = kind /\ parents' = parents /\ r \in Call
    BY GoesTo DEF TypeInv, setting
  <2>2. /\ Stays /\ CachesHere'
        /\ VisibleParent \in ParentRep /\ parent' = VisibleParent => VisibleParent' = VisibleParent
    BY <1>2, <2>1, HereMovesKeep DEF HereInv
  <2>3. ASSUME NEW q \in Callers, q # p PROVE CallHere(call[q])'
    <3>1. q \in Callers \ {p}
      BY <2>3
    <3>2. /\ Carries(q)
          /\ call'[q].alone /\ call'[q].pc # "idle" =>
               /\ call[q].alone /\ childName' = childName
               /\ VisibleParent \in ParentRep => parent' = VisibleParent
      BY <2>1, <3>1, GoesOthers
    <3>3. call'[q].alone /\ call'[q].pc # "idle" =>
            /\ call[q].alone /\ childName' = childName
            /\ \A x \in ParentRep : x \in Current => x \in Current'
      BY <2>1, <2>2, <3>2, CurrentKept
    <3>4. CallHere(call[q])
      BY DEF HereInv
    <3> QED
      BY <1>2, <2>2, <3>2, <3>3, <3>4, Carried
  <2>4. \A q \in Callers : CallHere(call[q])'
    BY <1>2, <2>2, <2>3
  <2> QED
    BY <2>2, <2>4 DEF HereInv
<1> QED
  BY <1>1, <1>2

LEMMA FinishHere ==
  ASSUME TypeInv, HereInv, NEW p \in Callers, Finish(p),
         UNCHANGED <<setting, parents, overtaken>>, ~overtaken => HereMoves
  PROVE  HereInv'
<1>1. CallsOK'
  BY FinishTypes
<1>2. call'[p] = Idle
  BY <1>1, GoesTo DEF Finish, TypeInv
<1>3. CallHere(call[p])'
  BY <1>2 DEF CallHere, Idle
<1> QED
  BY <1>1, <1>3, StepHere DEF Finish

LEMMA ThrowHere ==
  ASSUME TypeInv, HereInv, NEW p \in Callers, Throw(p) PROVE HereInv'
  BY FinishHere DEF Throw, server, history, HereMoves

\* The parents answered go by the name the handle has, so there is at most one.
LEMMA MatchesHere ==
  ASSUME TypeInv, HereInv, NEW p \in Callers, Answered(p, Resolving \union {"own"}),
         call[p].req # Null, ~overtaken
  PROVE  /\ Matches(p) \in SUBSET {x \in ParentRep : IsHere(x)}
         /\ \A x, y \in Matches(p) : x = y
<1>1. /\ call[p].ans \subseteq ParentRep /\ IsAnswer(call[p].ans)
      /\ call[p].req.kind = "parentByName" /\ call[p].pc # "idle"
  BY CallFields DEF Answered, AnsAt, ReqAt, IsAnswer, Resolving
<1>2. AsksHere(call[p])
  BY <1>1 DEF HereInv, CallHere
<1>3. /\ \A x \in call[p].ans : x.realm = realmName /\ (x.name = parentName \/ kind = "scopeMapper")
      /\ \A x, y \in call[p].ans : x.name = y.name => x = y
  BY <1>1, <1>2 DEF AsksHere
<1>4. ASSUME NEW x \in Matches(p) PROVE x \in call[p].ans /\ IsHere(x)
  BY <1>3, <1>4 DEF Matches, IsHere
<1> QED
  BY <1>1, <1>3, <1>4 DEF IsHere

LEMMA OwnReturnsHere ==
  ASSUME TypeInv, HereInv, NEW p \in Callers, OwnReturns(p) PROVE HereInv'
<1>1. /\ ParentsGet(Matches(p)) /\ UNCHANGED <<setting, realm, ccache, server, history>>
      /\ Finish(p) /\ Answered(p, Resolving \union {"own"}) /\ call[p].pc = "own"
  BY DEF OwnReturns, Answered
<1>2. call[p].req # Null
  BY <1>1, CallFields DEF ReqAt
<1>3. ~overtaken => HereMoves
  BY <1>1, <1>2, MatchesHere DEF HereMoves
<1> QED
  BY <1>1, <1>3, FinishHere DEF server, history

LEMMA DeletedHere ==
  ASSUME TypeInv, HereInv, NEW p \in Callers, Deleted(p) \/ Used(p) PROVE HereInv'
<1>1. Finish(p) /\ UNCHANGED <<setting, realm, server, history>>
  BY DEF Deleted, Used
<1>2. HereMoves
  <2>1. CASE Used(p)
    BY <2>1 DEF Used, HereMoves
  <2>2. CASE Deleted(p) /\ kind \in Groups
    <3>1. WriteBack(Null) /\ Null \notin ChildRep
      BY <2>2, Marks DEF Deleted
    <3> QED
      BY <1>1, <3>1 DEF HereMoves
  <2>3. CASE Deleted(p) /\ kind \notin Groups
    BY <2>3 DEF Deleted, HereMoves
  <2> QED
    BY <2>1, <2>2, <2>3
<1> QED
  BY <1>1, <1>2, FinishHere DEF server, history

\* Looking at the parent, for a call that is to resolve it.
LEMMA LooksKeep ==
  ASSUME TypeInv, UNCHANGED <<setting, realm, parents>>, LookForParent \/ LookAtChild
  PROVE  /\ HereMoves /\ childName' = childName /\ parentName' = parentName
         /\ realmName' = realmName /\ kind' = kind /\ Current' = Current
         /\ VisibleParent' = VisibleParent
         /\ kind # "nestedGroup" => ~ParentStale'
<1>1. IdentityOK /\ CachesOK /\ kind' = kind /\ realmName' = realmName /\ UNCHANGED realm
      /\ LiveParents' = LiveParents
  BY DEF TypeInv, setting, realm, LiveParents
<1>2. HereMoves
  BY <1>1 DEF HereMoves, LookForParent
<1>3. childName' = childName
  BY DEF LookForParent, LookAtChild, ccache
<1>4. /\ parentName' = parentName /\ VisibleParent' = VisibleParent
      /\ kind # "nestedGroup" => ~ParentStale'
  <2>1. CASE LookAtParent
    BY <1>1, <2>1, LookedParent
  <2>2. CASE ~LookAtParent
    <3>1. kind = "nestedGroup" /\ UNCHANGED pcache
      BY <2>2 DEF LookForParent, LookAtChild
    <3> QED
      BY <1>1, <3>1 DEF pcache, realm, VisibleParent, ParentStale
  <2> QED
    BY <2>1, <2>2
<1>5. Current' = Current
  BY <1>1, <1>4 DEF Current, IsHere
<1> QED
  BY <1>1, <1>2, <1>3, <1>4, <1>5

\* A call that goes to resolve the parent, from the cache or by its name.
LEMMA ResolveHere ==
  ASSUME TypeInv, HereInv, ~overtaken, NEW p \in Callers, NEW c \in Call, NEW pc \in Resolving,
         KeepsHere(c), c.alone => KeepsCurrent(c), call'[p] = ResolveParent(c, pc),
         UNCHANGED <<setting, realm, parents>>, LookForParent \/ LookAtChild
  PROVE  CallHere(call[p])'
<1>1. /\ childName' = childName /\ parentName' = parentName /\ realmName' = realmName
      /\ kind' = kind /\ Current' = Current /\ VisibleParent' = VisibleParent
      /\ kind # "nestedGroup" => ~ParentStale'
      /\ Here' = Here
  BY LooksKeep DEF Here
<1>2. /\ call'[p].pc = pc /\ call'[p].alone = c.alone /\ call'[p].op = c.op
      /\ call'[p].asked = c.asked /\ call'[p].up = c.up /\ call'[p].one = c.one
      /\ \/ /\ kind # "nestedGroup" /\ VisibleParent \in ParentRep
            /\ call'[p].req = Null /\ call'[p].ans = {VisibleParent}
         \/ /\ kind = "nestedGroup" \/ VisibleParent \notin ParentRep
            /\ call'[p].req # Null /\ call'[p].ans = {Pending}
            /\ call'[p].req.kind = "parentByName" /\ call'[p].req.realm = realmName
            /\ call'[p].req.key = parentName
  BY ResolveFields DEF TypeInv
<1>3. /\ pc # "idle" /\ pc # "lookup" /\ {Pending} \notin {x \in {{Pending}} : IsAnswer(x)}
      /\ VisibleParent \in ParentRep => IsHere(VisibleParent)
      /\ c.up \in ParentRep \union {Null}
  BY DEF Resolving, IsAnswer, HereInv, CachesHere, Call
<1>4. KeepsHere(call[p])'
  BY <1>1, <1>2 DEF KeepsHere, IsHere
<1>5. AsksHere(call[p])'
  BY <1>1, <1>2, <1>3 DEF AsksHere, IsHere
<1>6. ASSUME c.alone PROVE KeepsCurrent(call[p])'
  BY <1>1, <1>2, <1>6 DEF KeepsCurrent
<1>7. ASSUME c.alone PROVE AsksCurrent(call[p])'
  <2>1. kind # "nestedGroup" => Current = {VisibleParent}
    BY DEF Current
  <2>2. kind # "nestedGroup" /\ VisibleParent \notin ParentRep => c.up = Null
    BY <1>3, <1>7, <2>1 DEF KeepsCurrent
  <2> QED
    BY <1>1, <1>2, <1>3, <2>1, <2>2 DEF AsksCurrent
<1> QED
  BY <1>2, <1>4, <1>5, <1>6, <1>7 DEF CallHere

LEMMA GetHere ==
  ASSUME TypeInv, HereInv, NEW p \in Callers, NEW c, MayGet(c), Get(p, c), UNCHANGED overtaken,
         ~overtaken => KeepsHere(c) /\ (c.alone => KeepsCurrent(c))
  PROVE  HereInv'
<1> DEFINE asked == [realm |-> realmName, name |-> childName]
           e == [c EXCEPT !.asked = asked]
<1>1. CallsOK' /\ UNCHANGED <<setting, server>>
  BY GetTypes DEF TypeInv
<1>2. Goes(p, ResolveParent(e, "get")) /\ UNCHANGED realm /\ (LookForParent \/ LookAtChild)
  BY DEF Get
<1>3. call'[p] = ResolveParent(e, "get")
  <2> HIDE DEF e
  <2> QED
    BY <1>1, <1>2, GoesTo DEF TypeInv
<1>4. asked.realm = realmName /\ asked.name = childName /\ asked # Null
      /\ asked \in [realm : Realms, name : ChildNames]
  BY Marks DEF TypeInv, IdentityOK
<1>5. /\ e \in Call /\ e.alone = c.alone /\ e.op = c.op /\ e.up = c.up /\ e.one = c.one
      /\ e.asked = asked
  <2> HIDE DEF asked
  <2> QED
    BY <1>4 DEF MayGet, Call
<1>6. ASSUME ~overtaken PROVE CallHere(call[p])'
  <2> HIDE DEF e, asked
  <2>1. KeepsHere(e) /\ (e.alone => KeepsCurrent(e))
    BY <1>4, <1>5, <1>6 DEF KeepsHere, KeepsCurrent
  <2>2. "get" \in Resolving
    BY DEF Resolving
  <2> QED
    BY <1>1, <1>2, <1>3, <1>5, <1>6, <2>1, <2>2, ResolveHere DEF server
<1>7. HereMoves
  BY <1>1, <1>2, LooksKeep DEF server
<1> QED
  <2> HIDE DEF e
  <2> QED
    BY <1>1, <1>2, <1>6, <1>7, StepHere DEF server

\* The facts of a call under way, while nothing was retargeted.
LEMMA HereNow ==
  ASSUME TypeInv, HereInv, ~overtaken, NEW p \in Callers, call[p].pc # "idle"
  PROVE  /\ KeepsHere(call[p]) /\ AsksHere(call[p])
         /\ call[p].alone => KeepsCurrent(call[p]) /\ AsksCurrent(call[p])
  BY DEF HereInv, CallHere

LEMMA ParentReturnsHere ==
  ASSUME TypeInv, HereInv, NEW p \in Callers, ParentReturns(p) PROVE HereInv'
<1> DEFINE r == Known(call[p], call[p].pc, Resolved(p))
<1>1. /\ Answered(p, {"parent", "get", "again"}) /\ call[p].pc \in Resolving
      /\ UNCHANGED <<setting, realm, ccache, server, history>> /\ Goes(p, r)
      /\ call[p].req # Null
  BY DEF ParentReturns, Answered, Resolving
<1>2. Answered(p, Resolving \union {"own"}) /\ call[p].pc # "idle"
  BY <1>1 DEF Answered, Resolving
<1>3. CallsOK'
  BY ParentReturnsTypes
<1>4. ASSUME ~overtaken
      PROVE  /\ Matches(p) \in SUBSET {x \in ParentRep : IsHere(x)}
             /\ \A x, y \in Matches(p) : x = y
             /\ KeepsHere(call[p]) /\ AsksHere(call[p])
             /\ call[p].alone => KeepsCurrent(call[p]) /\ AsksCurrent(call[p])
  BY <1>1, <1>2, <1>4, MatchesHere, HereNow
<1>5. \/ kind = "nestedGroup" /\ UNCHANGED pcache
      \/ kind # "nestedGroup" /\ Matches(p) = {} /\ UNCHANGED pcache
      \/ kind # "nestedGroup" /\ Matches(p) # {} /\ SetResolved(Matches(p))
      \/ kind # "nestedGroup" /\ ParentsGet(Matches(p))
  <2>1. CASE kind = "nestedGroup" \/ (kind \in ClientKinds /\ Matches(p) = {})
    <3>1. UNCHANGED pcache
      BY <2>1 DEF ParentReturns, ClientKinds
    <3> QED
      BY <2>1, <3>1
  <2>2. CASE kind # "nestedGroup" /\ kind \in ClientKinds /\ Matches(p) # {}
    <3>1. SetResolved(Matches(p))
      BY <2>2 DEF ParentReturns
    <3> QED
      BY <2>2, <3>1
  <2>3. CASE kind # "nestedGroup" /\ kind \notin ClientKinds
    <3>1. ParentsGet(Matches(p))
      BY <2>3 DEF ParentReturns
    <3> QED
      BY <2>3, <3>1
  <2> QED
    BY <2>1, <2>2, <2>3
<1>6. ~overtaken => HereMoves
  BY <1>1, <1>4, <1>5 DEF HereMoves
<1>7. /\ call'[p] = r /\ r.pc = call[p].pc /\ r.req = Null /\ r.ans = Resolved(p)
      /\ r.op = call[p].op /\ r.asked = call[p].asked /\ r.up = call[p].up
      /\ r.one = call[p].one /\ r.alone = call[p].alone
  <2>1. call[p].pc \in Places /\ Resolved(p) \in SUBSET Marked
    BY <1>1, <1>2, MatchesTypes DEF Places, Resolving, Marked
  <2>2. call'[p] = r
    <3> HIDE DEF r
    <3> QED
      BY <1>1, <1>3, GoesTo DEF TypeInv
  <2> QED
    BY <2>1, <2>2, CallFields, KnownFields
<1> HIDE DEF r
<1>8. ASSUME ~overtaken, Stays PROVE CallHere(call[p])'
  <2>1. /\ childName' = childName /\ parentName' = parentName /\ realmName' = realmName
        /\ kind' = kind /\ Here' = Here /\ LiveParents' = LiveParents
        /\ \A x : IsHere(x)' <=> IsHere(x)
    BY <1>1, <1>8 DEF Stays, ccache, Here, IsHere, LiveParents, server
  <2>2. kind # "nestedGroup" => ~ParentStale /\ ~ParentStale'
    BY <1>1, <1>4, <1>8 DEF AsksHere, Stays
  <2>3. Resolved(p) \subseteq Matches(p) /\ Resolved(p) \subseteq call[p].ans
    BY <1>2, MatchesTypes DEF Resolved, Matches
  <2>4. KeepsHere(call[p])'
    BY <1>4, <1>7, <1>8, <2>1 DEF KeepsHere
  <2>5. AsksHere(call[p])'
    BY <1>4, <1>7, <1>8, <2>1, <2>2, <2>3 DEF AsksHere
  <2>6. kind = "nestedGroup" => Current' = Current
    BY <1>1, <2>1 DEF Current
  <2>7. kind # "nestedGroup" => \A x \in Matches(p) : VisibleParent' = x
    <3>1. ASSUME kind # "nestedGroup", NEW x \in Matches(p) PROVE parent' = x
      <4>1. CASE SetResolved(Matches(p))
        BY <1>4, <1>8, <3>1, <4>1 DEF SetResolved
      <4>2. CASE ParentsGet(Matches(p))
        <5>1. (CHOOSE y \in Matches(p) : TRUE) = x
          BY <1>4, <1>8, <3>1
        <5> QED
          BY <2>2, <3>1, <4>2, <5>1 DEF ParentsGet
      <4> QED
        BY <1>5, <3>1, <4>1, <4>2
    <3> QED
      BY <2>2, <3>1 DEF VisibleParent
  <2>8. ASSUME call[p].alone PROVE KeepsCurrent(call[p])' /\ AsksCurrent(call[p])'
    <3>1. KeepsCurrent(call[p]) /\ AsksCurrent(call[p])
      BY <1>4, <1>8, <2>8
    <3>2. call[p].up \in ParentRep => kind = "nestedGroup"
      BY <1>1, <3>1, Marks DEF AsksCurrent
    <3>3. KeepsCurrent(call[p])'
      BY <1>7, <2>1, <2>6, <3>1, <3>2 DEF KeepsCurrent
    <3>4. Resolved(p) \subseteq Current'
      <4>1. CASE kind = "nestedGroup"
        <5>1. call[p].ans \subseteq Current
          BY <1>1, <1>2, <3>1, <4>1 DEF AsksCurrent, Answered, IsAnswer
        <5> QED
          BY <2>3, <2>6, <4>1, <5>1
      <4>2. CASE kind # "nestedGroup"
        <5>1. Current' = {VisibleParent'}
          BY <2>1, <4>2 DEF Current
        <5> QED
          BY <2>3, <2>7, <4>2, <5>1
      <4> QED
        BY <4>1, <4>2
    <3>5. AsksCurrent(call[p])'
      BY <1>1, <1>7, <3>4 DEF AsksCurrent, Resolving
    <3> QED
      BY <3>3, <3>5
  <2> QED
    BY <1>7, <2>4, <2>5, <2>8 DEF CallHere
<1> QED
  BY <1>1, <1>3, <1>6, <1>8, StepHere DEF server, history

LEMMA NewKeeps ==
  ASSUME NEW op \in AllOps PROVE KeepsHere(New(op)) /\ KeepsCurrent(New(op))
<1>1. New(op).asked = Null /\ New(op).up = Null /\ New(op).one = Null
  BY NewFields
<1> QED
  BY <1>1, Marks DEF KeepsHere, KeepsCurrent

LEMMA BeginAtParentHere ==
  ASSUME TypeInv, HereInv, NEW p \in Callers, NEW op \in AllOps, BeginAtParent(p, op)
  PROVE  HereInv'
<1>1. /\ UNCHANGED <<setting, realm, server, history>> /\ LookForParent
      /\ Goes(p, ResolveParent(New(op), "parent")) /\ "parent" \in Resolving
  BY DEF BeginAtParent, Starts, Resolving
<1>2. CallsOK'
  BY BeginAtParentTypes
<1>3. call'[p] = ResolveParent(New(op), "parent")
  BY <1>1, <1>2, GoesTo DEF TypeInv
<1>4. ~overtaken => CallHere(call[p])'
  <2>1. New(op) \in Call
    BY NewFields
  <2> QED
    BY <1>1, <1>3, <2>1, NewKeeps, ResolveHere DEF server
<1> QED
  BY <1>1, <1>2, <1>4, LooksKeep, StepHere DEF server, history

LEMMA BeginAtChildHere ==
  ASSUME TypeInv, HereInv, NEW p \in Callers, NEW op \in AllOps, BeginAtChild(p, op)
  PROVE  HereInv'
<1>1. /\ UNCHANGED <<setting, realm, server, history>>
      /\ op \notin {"parentGet", "getById", "listUsers"}
  BY DEF BeginAtChild, Starts, ParentFirst
<1>2. CASE FromCache(op)
  <2> DEFINE r == [New(op) EXCEPT !.pc = "looked", !.one = VisibleChild]
  <2>1. /\ LookAtChild /\ op \in {"use", "link"} /\ VisibleChild \in ChildRep /\ Goes(p, r)
    BY <1>2 DEF BeginAtChild, FromCache
  <2>2. CallsOK'
    BY BeginAtChildTypes
  <2>3. call'[p] = r
    <3> HIDE DEF r
    <3> QED
      BY <2>1, <2>2, GoesTo DEF TypeInv
  <2>4. /\ r.pc = "looked" /\ r.one = VisibleChild /\ r.op = op /\ r.req = Null
        /\ r.asked = Null /\ r.up = Null
    <3>1. /\ New(op) \in Call /\ New(op).op = op /\ New(op).req = Null
          /\ New(op).asked = Null /\ New(op).up = Null
      BY NewFields
    <3> QED
      BY <3>1 DEF Call
  <2>5. /\ childName' = childName /\ kind' = kind /\ Here' = Here /\ HereMoves
    BY <1>1, <2>1, LooksKeep DEF server, Here
  <2> HIDE DEF r
  <2>6. ASSUME ~overtaken PROVE CallHere(call[p])'
    <3>1. VisibleChild.name = childName /\ VisibleChild.of \in {Here, Null}
      BY <2>1, <2>6 DEF HereInv, CachesHere
    <3>2. Null \notin ParentRep
      BY Marks
    <3>3. KeepsHere(call[p])' /\ KeepsCurrent(call[p])'
      BY <2>1, <2>3, <2>4, <2>5, <3>1, <3>2 DEF KeepsHere, KeepsCurrent
    <3>4. AsksHere(call[p])' /\ AsksCurrent(call[p])'
      BY <2>3, <2>4 DEF AsksHere, AsksCurrent, Resolving
    <3> QED
      BY <3>3, <3>4 DEF CallHere
  <2> QED
    BY <1>1, <2>1, <2>2, <2>5, <2>6, StepHere DEF server, history
<1>3. CASE ~FromCache(op)
  <2>1. Get(p, New(op))
    BY <1>3 DEF BeginAtChild
  <2>2. MayGet(New(op))
    BY <1>1, NewFields DEF MayGet, AllOps
  <2> QED
    BY <1>1, <2>1, <2>2, NewKeeps, GetHere DEF history
<1> QED
  BY <1>2, <1>3

LEMMA LeftAlone ==
  ASSUME UNCHANGED <<setting, realm, pcache, ccache, server, history>>
  PROVE  /\ childName' = childName /\ parentName' = parentName /\ realmName' = realmName
         /\ kind' = kind /\ overtaken' = overtaken /\ parents' = parents
         /\ Here' = Here /\ Current' = Current /\ ParentStale' = ParentStale
         /\ HereMoves /\ \A x : IsHere(x)' <=> IsHere(x)
<1>1. /\ childName' = childName /\ parentName' = parentName /\ realmName' = realmName
      /\ kind' = kind /\ overtaken' = overtaken /\ parents' = parents
      /\ parent' = parent /\ parentSeen' = parentSeen /\ realmGen' = realmGen
  BY DEF setting, realm, pcache, ccache, server, history
<1>2. ParentStale' = ParentStale /\ LiveParents' = LiveParents
  BY <1>1 DEF ParentStale, LiveParents
<1>3. VisibleParent' = VisibleParent /\ Here' = Here /\ \A x : IsHere(x)' <=> IsHere(x)
  BY <1>1, <1>2 DEF VisibleParent, Here, IsHere
<1>4. Current' = Current
  BY <1>1, <1>2, <1>3 DEF Current
<1>5. HereMoves
  BY DEF HereMoves
<1> QED
  BY <1>1, <1>2, <1>3, <1>4, <1>5

\* A call that goes on to its write, or to the other handle.
LEMMA WriteHere ==
  ASSUME TypeInv, HereInv, NEW p \in Callers, NEW c \in Call, NEW pc \in {"partner", "write"},
         NEW req \in Requests, req.realm = realmName, req.kind \in Mutations \union {"partner"},
         ~overtaken => KeepsHere(c) /\ (c.alone => KeepsCurrent(c)),
         Goes(p, Await(c, pc, req)), CallsOK',
         UNCHANGED <<setting, realm, pcache, ccache, server, history>>
  PROVE  HereInv'
<1> DEFINE r == Await(c, pc, req)
<1>1. /\ childName' = childName /\ parentName' = parentName /\ realmName' = realmName
      /\ kind' = kind /\ Here' = Here /\ Current' = Current
      /\ HereMoves /\ \A x : IsHere(x)' <=> IsHere(x)
  BY LeftAlone
<1>2. /\ r.pc = pc /\ r.req = req /\ r.op = c.op /\ r.asked = c.asked /\ r.up = c.up
      /\ r.one = c.one /\ r.alone = c.alone
  <2>1. pc \in Places
    BY DEF Places
  <2> QED
    BY <2>1, AwaitFields
<1>3. call'[p] = r
  <2> HIDE DEF r
  <2> QED
    BY GoesTo DEF TypeInv, r
<1> HIDE DEF r
<1>4. ASSUME ~overtaken PROVE CallHere(call[p])'
  <2>1. KeepsHere(call[p])'
    BY <1>1, <1>2, <1>3, <1>4 DEF KeepsHere
  <2>2. AsksHere(call[p])'
    BY <1>1, <1>2, <1>3 DEF AsksHere, Resolving, Mutations
  <2>3. c.alone => KeepsCurrent(call[p])'
    BY <1>1, <1>2, <1>3, <1>4 DEF KeepsCurrent
  <2>4. AsksCurrent(call[p])'
    BY <1>2, <1>3 DEF AsksCurrent, Resolving
  <2> QED
    BY <1>2, <1>3, <2>1, <2>2, <2>3, <2>4 DEF CallHere
<1> QED
  BY <1>1, <1>4, StepHere DEF server, history, r

\* The parent found for an operation is where the handles point.
LEMMA KnownHere ==
  ASSUME TypeInv, HereInv, ~overtaken, NEW p \in Callers, call[p].pc \in Resolving,
         call[p].req = Null, NEW x \in call[p].ans
  PROVE  x \in ParentRep /\ IsHere(x) /\ (call[p].alone => x \in Current)
<1>1. call[p].pc # "idle"
  BY DEF Resolving
<1> QED
  BY <1>1, HereNow, CallFields DEF AnsAt, AsksHere, AsksCurrent

\* An operation that takes the parent it found keeps to it.
LEMMA TakesParent ==
  ASSUME TypeInv, HereInv, ~overtaken, NEW p \in Callers, call[p].pc \in {"parent", "again"},
         call[p].req = Null, NEW x \in call[p].ans, NEW c \in Call,
         c.op = call[p].op, c.asked = call[p].asked, c.up = x, c.one = call[p].one,
         c.alone = call[p].alone
  PROVE  KeepsHere(c) /\ (c.alone => KeepsCurrent(c))
<1>1. call[p].pc \in Resolving /\ call[p].pc # "idle"
  BY DEF Resolving
<1>2. /\ KeepsHere(call[p]) /\ (call[p].alone => KeepsCurrent(call[p]))
      /\ x \in ParentRep /\ IsHere(x) /\ (call[p].alone => x \in Current)
  BY <1>1, HereNow, KnownHere
<1>3. call[p].one = Null /\ Null \notin ChildRep
  BY CallFields, Marks DEF OpAt
<1> QED
  BY <1>2, <1>3 DEF KeepsHere, KeepsCurrent

LEMMA HasParentHere ==
  ASSUME TypeInv, HereInv, NEW p \in Callers, HasParent(p) PROVE HereInv'
<1>1. PICK x \in call[p].ans :
        IF call[p].op = "listUsers"
        THEN /\ UNCHANGED <<pcache, ccache>>
             /\ Goes(p, Await([call[p] EXCEPT !.up = x], "write", Send("useUnder", x, Null)))
        ELSE Get(p, [call[p] EXCEPT !.up = x])
  BY DEF HasParent
<1>2. /\ call[p].pc = "parent" /\ call[p].req = Null
      /\ UNCHANGED <<setting, realm, server, history>>
  BY DEF HasParent, ParentKnown
<1>3. x \in ParentRep
  BY <1>1, <1>2, CallFields DEF AnsAt, Resolving
<1> DEFINE e == [call[p] EXCEPT !.up = x]
<1>4. /\ call[p].op \notin {"none", "parentGet", "get", "getById"}
      /\ call[p].one \in ChildRep \union {Null} /\ call[p] \in Call
  BY <1>2, CallFields DEF OpAt
<1>5. /\ e \in Call /\ e.op = call[p].op /\ e.one = call[p].one /\ e.last = call[p].last
      /\ e.asked = call[p].asked /\ e.up = x /\ e.alone = call[p].alone
  BY <1>3, <1>4 DEF Call
<1>6. ~overtaken => KeepsHere(e) /\ (e.alone => KeepsCurrent(e))
  <2> HIDE DEF e
  <2> QED
    BY <1>1, <1>2, <1>5, TakesParent
<1>7. CASE call[p].op = "listUsers"
  <2> DEFINE req == Send("useUnder", x, Null)
  <2>1. Goes(p, Await(e, "write", req)) /\ UNCHANGED <<pcache, ccache>>
    BY <1>1, <1>7
  <2>2. req \in Requests /\ req.kind = "useUnder" /\ req.realm = realmName
    BY <1>3, SendFields DEF TypeInv, Mutations
  <2>3. CallsOK'
    BY HasParentTypes
  <2> HIDE DEF e, req
  <2> QED
    BY <1>2, <1>5, <1>6, <2>1, <2>2, <2>3, WriteHere DEF Mutations
<1>8. CASE call[p].op # "listUsers"
  <2>1. MayGet(e)
    <3> HIDE DEF e
    <3> QED
      BY <1>4, <1>5, <1>8 DEF MayGet
  <2>2. Get(p, e)
    BY <1>1, <1>8
  <2> HIDE DEF e
  <2> QED
    BY <1>2, <1>6, <2>1, <2>2, GetHere DEF history
<1> QED
  BY <1>7, <1>8

LEMMA CreatesUnderHere ==
  ASSUME TypeInv, HereInv, NEW p \in Callers, CreatesUnder(p) PROVE HereInv'
<1>1. PICK x \in call[p].ans :
        Goes(p, Await([call[p] EXCEPT !.up = x], "write", Send("create", x, Null)))
  BY DEF CreatesUnder
<1>2. /\ call[p].pc = "again" /\ call[p].req = Null
      /\ UNCHANGED <<setting, realm, pcache, ccache, server, history>>
  BY DEF CreatesUnder, ParentKnown
<1>3. x \in ParentRep
  BY <1>1, <1>2, CallFields DEF AnsAt, Resolving
<1> DEFINE e == [call[p] EXCEPT !.up = x]
           req == Send("create", x, Null)
<1>4. /\ e \in Call /\ e.op = call[p].op /\ e.one = call[p].one
      /\ e.asked = call[p].asked /\ e.up = x /\ e.alone = call[p].alone
  BY <1>3, CallFields DEF Call
<1>5. req \in Requests /\ req.kind = "create" /\ req.realm = realmName
  BY <1>3, SendFields DEF TypeInv, Mutations
<1>6. CallsOK'
  BY CreatesUnderTypes
<1>7. Goes(p, Await(e, "write", req))
  BY <1>1
<1> HIDE DEF e, req
<1>8. ~overtaken => KeepsHere(e) /\ (e.alone => KeepsCurrent(e))
  BY <1>1, <1>2, <1>4, TakesParent
<1> QED
  BY <1>2, <1>4, <1>5, <1>6, <1>7, <1>8, WriteHere DEF Mutations

LEMMA PartnerResolvedHere ==
  ASSUME TypeInv, HereInv, NEW p \in Callers, PartnerResolved(p) PROVE HereInv'
<1> DEFINE req == Send("use", Null, call[p].one.id)
<1>1. /\ call[p].pc = "partner" /\ Goes(p, Await(call[p], "write", req))
      /\ UNCHANGED <<setting, realm, pcache, ccache, server, history>>
  BY DEF PartnerResolved, Answered
<1>2. call[p].one \in ChildRep /\ call[p].one.id \in ChildIds /\ call[p] \in Call
  BY <1>1, CallFields DEF OpAt, ChildRep
<1>3. req \in Requests /\ req.kind = "use" /\ req.realm = realmName
  BY <1>2, SendFields DEF TypeInv, Mutations
<1>4. CallsOK'
  BY PartnerResolvedTypes
<1>5. ~overtaken => KeepsHere(call[p]) /\ (call[p].alone => KeepsCurrent(call[p]))
  BY <1>1, HereNow
<1> HIDE DEF req
<1> QED
  BY <1>1, <1>2, <1>3, <1>4, <1>5, WriteHere DEF Mutations

LEMMA WakesHere == ASSUME TypeInv, HereInv, NEW p \in Callers, Wakes(p) PROVE HereInv'
<1> DEFINE e == [call[p] EXCEPT !.tries = @ + 1]
<1>1. call[p].pc = "sleep" /\ Get(p, e) /\ UNCHANGED history
  BY DEF Wakes
<1>2. /\ call[p].tries < Attempts /\ call[p].op \notin {"none", "parentGet", "listUsers", "getById"}
      /\ call[p].one \in ChildRep \union {Null}
      /\ call[p].op = "get" => call[p].last
  BY <1>1, CallFields DEF OpAt
<1>3. call[p].tries + 1 \in 0..Attempts
  BY <1>2, CallFields, Marks
<1>4. /\ e \in Call /\ e.op = call[p].op /\ e.one = call[p].one /\ e.last = call[p].last
      /\ e.asked = call[p].asked /\ e.up = call[p].up /\ e.alone = call[p].alone
  BY <1>3, CallFields DEF Call
<1> HIDE DEF e
<1>5. MayGet(e)
  BY <1>2, <1>4 DEF MayGet
<1>6. ~overtaken => KeepsHere(call[p]) /\ (call[p].alone => KeepsCurrent(call[p]))
  BY <1>1, HereNow
<1>7. ~overtaken => KeepsHere(e) /\ (e.alone => KeepsCurrent(e))
  BY <1>4, <1>6 DEF KeepsHere, KeepsCurrent
<1> QED
  BY <1>1, <1>5, <1>7, GetHere DEF history

LEMMA ReadBackHere ==
  ASSUME TypeInv, HereInv, NEW p \in Callers, ReadBack(p) PROVE HereInv'
<1> DEFINE n == IF kind \in Groups /\ call[p].one = Null THEN 1 ELSE 0
           e == [call[p] EXCEPT !.last = TRUE, !.tries = n]
<1>1. /\ call[p].pc = "write" /\ call[p].op \in {"create", "update", "ensure"}
      /\ Get(p, e) /\ UNCHANGED history
  BY DEF ReadBack, Answered
<1>2. n \in 0..Attempts
  BY Marks
<1>3. call[p].one \in ChildRep \union {Null}
  BY <1>1, CallFields DEF OpAt
<1>4. /\ e \in Call /\ e.op = call[p].op /\ e.one = call[p].one /\ e.last = TRUE
      /\ e.asked = call[p].asked /\ e.up = call[p].up /\ e.alone = call[p].alone
  <2> HIDE DEF n
  <2> QED
    BY <1>2, CallFields, ZenonT(60) DEF Call
<1> HIDE DEF e
<1>5. MayGet(e)
  BY <1>1, <1>3, <1>4 DEF MayGet
<1>6. ~overtaken => KeepsHere(call[p]) /\ (call[p].alone => KeepsCurrent(call[p]))
  BY <1>1, HereNow
<1>7. ~overtaken => KeepsHere(e) /\ (e.alone => KeepsCurrent(e))
  BY <1>4, <1>6 DEF KeepsHere, KeepsCurrent
<1> QED
  BY <1>1, <1>5, <1>7, GetHere DEF history

LEMMA ResumeHere == ASSUME TypeInv, HereInv, NEW p \in Callers, Resume(p) PROVE HereInv'
<1>1. /\ call[p].pc = "looked" /\ UNCHANGED <<setting, realm, server, history, ccache>>
      /\ call[p] \in Call
  BY CallFields DEF Resume
<1>2. CallsOK'
  BY ResumeTypes
<1>3. ~overtaken => KeepsHere(call[p]) /\ (call[p].alone => KeepsCurrent(call[p]))
  BY <1>1, HereNow
<1>4. CASE call[p].op = "create" /\ call[p].one = Null /\ kind \in Groups
  <2>1. LookForParent /\ Goes(p, ResolveParent(call[p], "again")) /\ "again" \in Resolving
    BY <1>4 DEF Resume, Resolving
  <2>2. call'[p] = ResolveParent(call[p], "again")
    BY <1>2, <2>1, GoesTo DEF TypeInv
  <2>3. ~overtaken => CallHere(call[p])'
    BY <1>1, <1>3, <2>1, <2>2, ResolveHere DEF server
  <2> QED
    BY <1>1, <1>2, <2>1, <2>3, LooksKeep, StepHere DEF server, history
<1>5. CASE ~(call[p].op = "create" /\ call[p].one = Null /\ kind \in Groups)
  <2>1. /\ UNCHANGED pcache
        /\ \/ Finish(p)
           \/ \E req \in NextRequest(p) :
                Goes(p, Await(call[p], IF req.kind = "partner" THEN "partner" ELSE "write", req))
    BY <1>5 DEF Resume
  <2>2. ASSUME NEW req \in NextRequest(p),
               Goes(p, Await(call[p], IF req.kind = "partner" THEN "partner" ELSE "write", req))
        PROVE  HereInv'
    <3> DEFINE pc == IF req.kind = "partner" THEN "partner" ELSE "write"
    <3>1. /\ req \in Requests /\ req.realm = realmName
          /\ req.kind \in {"create", "put", "del", "use", "partner"}
      BY <1>1, NextRequestFields
    <3>2. pc \in {"partner", "write"} /\ Goes(p, Await(call[p], pc, req))
      BY <2>2
    <3> HIDE DEF pc
    <3> QED
      BY <1>1, <1>2, <1>3, <2>1, <3>1, <3>2, WriteHere DEF Mutations
  <2>3. ASSUME Finish(p) PROVE HereInv'
    BY <1>1, <2>1, <2>3, LeftAlone, FinishHere DEF server, history
  <2> QED
    BY <2>1, <2>2, <2>3
<1> QED
  BY <1>4, <1>5

LEMMA BeginParentGetHere ==
  ASSUME TypeInv, HereInv, NEW p \in Callers, BeginParentGet(p) PROVE HereInv'
<1> DEFINE r == Await(New("parentGet"), "own", ParentByName)
<1>1. /\ UNCHANGED <<setting, realm, server, history>> /\ Goes(p, r) /\ UNCHANGED ccache
      /\ UNCHANGED pcache \/ LookAtParent
      /\ "parentGet" \in AllOps /\ "own" \in Places
  BY DEF BeginParentGet, Starts, AllOps, Places
<1>2. /\ ParentByName \in Requests /\ ParentByName # Null
      /\ ParentByName.kind = "parentByName" /\ ParentByName.realm = realmName
      /\ ParentByName.key = parentName
  <2>1. realmName \in Realms /\ parentName \in ParentNames /\ childName \in ChildNames
    BY DEF TypeInv, IdentityOK
  <2> QED
    BY <2>1, RequestFields, SMTT(30) DEF ParentByName
<1>3. /\ New("parentGet") \in Call /\ New("parentGet").asked = Null /\ New("parentGet").up = Null
      /\ New("parentGet").one = Null
  BY <1>1, NewFields
<1>4. /\ r.pc = "own" /\ r.req = ParentByName /\ r.ans = {Pending}
      /\ r.asked = Null /\ r.up = Null /\ r.one = Null
  BY <1>1, <1>2, <1>3, AwaitFields
<1>5. CallsOK'
  BY BeginParentGetTypes
<1>6. call'[p] = r
  <2> HIDE DEF r
  <2> QED
    BY <1>1, <1>5, GoesTo DEF TypeInv
<1> HIDE DEF r
<1>7. HereMoves
  BY <1>1 DEF HereMoves
<1>8. ASSUME ~overtaken, Stays PROVE CallHere(call[p])'
  <2>1. KeepsHere(call[p])' /\ KeepsCurrent(call[p])'
    BY <1>4, <1>6, Marks DEF KeepsHere, KeepsCurrent
  <2>2. AsksHere(call[p])' /\ AsksCurrent(call[p])'
    BY <1>2, <1>4, <1>6, <1>8 DEF AsksHere, AsksCurrent, Resolving, IsAnswer, Stays
  <2> QED
    BY <2>1, <2>2 DEF CallHere
<1> QED
  BY <1>1, <1>5, <1>7, <1>8, StepHere DEF server, history, r

LEMMA BeginGetByIdHere ==
  ASSUME TypeInv, HereInv, NEW p \in Callers, NEW i \in ChildIds, BeginGetById(p, i)
  PROVE  HereInv'
<1>1. UNCHANGED <<setting, realm, server, overtaken>> /\ "getById" \in AllOps
  BY DEF BeginGetById, Starts, AllOps
<1>2. /\ New("getById") \in Call /\ New("getById").op = "getById"
      /\ New("getById").asked = Null /\ New("getById").up = Null /\ New("getById").one = Null
  BY <1>1, NewFields
<1>3. CallsOK'
  BY BeginGetByIdTypes
<1>4. CASE kind = "childGroup"
  <2> DEFINE req == Send("groupById", Null, i)
             r == Await(New("getById"), "lookup", req)
  <2>1. Goes(p, r) /\ UNCHANGED <<pcache, ccache>>
    BY <1>4 DEF BeginGetById
  <2>2. /\ req \in Requests /\ req # Null /\ req.kind = "groupById" /\ req.realm = realmName
    BY SendFields DEF TypeInv
  <2>3. /\ r.pc = "lookup" /\ r.req = req /\ r.ans = {Pending} /\ r.op = "getById"
        /\ r.asked = Null /\ r.up = Null /\ r.one = Null
    <3>1. "lookup" \in Places
      BY DEF Places
    <3> HIDE DEF req
    <3> QED
      BY <1>2, <2>2, <3>1, AwaitFields
  <2>4. call'[p] = r
    <3> HIDE DEF r
    <3> QED
      BY <1>3, <2>1, GoesTo DEF TypeInv
  <2> HIDE DEF r, req
  <2>5. HereMoves
    BY <1>1, <2>1 DEF HereMoves
  <2>6. ASSUME ~overtaken, Stays PROVE CallHere(call[p])'
    <3>1. KeepsHere(call[p])' /\ KeepsCurrent(call[p])'
      BY <2>3, <2>4, Marks DEF KeepsHere, KeepsCurrent
    <3>2. AsksHere(call[p])' /\ AsksCurrent(call[p])'
      BY <2>2, <2>3, <2>4, <2>6 DEF AsksHere, AsksCurrent, Resolving, IsAnswer, Stays
    <3> QED
      BY <3>1, <3>2 DEF CallHere
  <2> QED
    BY <1>1, <1>3, <2>1, <2>5, <2>6, StepHere DEF server, r
<1>5. CASE kind # "childGroup"
  <2> DEFINE e == [New("getById") EXCEPT !.one = i]
  <2>1. Goes(p, ResolveParent(e, "get")) /\ LookAtChild /\ "get" \in Resolving
    BY <1>5 DEF BeginGetById, Resolving
  <2>2. e \in Call /\ e.op = "getById" /\ e.asked = Null /\ e.up = Null
    BY <1>2 DEF Call
  <2> HIDE DEF e
  <2>3. call'[p] = ResolveParent(e, "get")
    BY <1>3, <2>1, GoesTo DEF TypeInv
  <2>4. KeepsHere(e) /\ KeepsCurrent(e)
    BY <2>2, Marks DEF KeepsHere, KeepsCurrent
  <2>5. ~overtaken => CallHere(call[p])'
    BY <1>1, <2>1, <2>2, <2>3, <2>4, ResolveHere DEF server
  <2> QED
    BY <1>1, <1>3, <2>1, <2>5, LooksKeep, StepHere DEF server
<1> QED
  BY <1>4, <1>5

\* Whoever is called by a name in a realm is one.
LEMMA OneCurrent ==
  ASSUME TypeInv, NEW x \in Current, NEW y \in Current PROVE x = y
<1>1. CASE kind = "nestedGroup"
  <2>1. /\ x \in LiveParents /\ IsHere(x) /\ y \in LiveParents /\ IsHere(y)
    BY <1>1 DEF Current
  <2>2. /\ x \in ParentRep /\ parents[x.id] = x /\ y \in ParentRep /\ parents[y.id] = y
    BY <2>1, LiveAre DEF TypeInv
  <2>3. x.id \in ParentIds /\ y.id \in ParentIds
    BY <2>2 DEF ParentRep
  <2>4. x.id = y.id
    BY <2>1, <2>2, <2>3 DEF IsHere, TypeInv, ServerOK, Sound
  <2> QED
    BY <2>2, <2>4
<1>2. CASE kind # "nestedGroup"
  BY <1>2 DEF Current
<1> QED
  BY <1>1, <1>2

LEMMA LooksUpHere ==
  ASSUME TypeInv, HereInv, NEW p \in Callers, LooksUp(p) PROVE HereInv'
<1>1. PICK x \in call[p].ans : Goes(p, Lookup(p, x))
  BY DEF LooksUp
<1>2. /\ call[p].pc = "get" /\ call[p].req = Null /\ call[p].pc # "idle"
      /\ UNCHANGED <<setting, realm, pcache, ccache, server, history>>
      /\ call[p].pc \in Resolving
  BY DEF LooksUp, ParentKnown, Resolving
<1>3. x \in ParentRep
  BY <1>1, <1>2, CallFields DEF AnsAt, Resolving
<1> DEFINE r == Lookup(p, x)
<1>4. /\ r.pc = "lookup" /\ r.ans = {Pending} /\ r.alone = call[p].alone
      /\ r.op = call[p].op /\ r.asked = call[p].asked
      /\ r.up = call[p].up /\ r.one = call[p].one
      /\ r.req # Null /\ r.req.up = x /\ r.req.kind \in {"childById", "childByName"}
      /\ r.req.kind = "childById" => r.req.realm = realmName
      /\ r.req.kind = "childByName" =>
           /\ call[p].asked # Null
           /\ \/ r.req.realm = realmName /\ r.req.name = childName
              \/ r.req.realm = call[p].asked.realm /\ r.req.name = call[p].asked.name
  BY <1>2, <1>3, LookupFields
<1>5. CallsOK'
  BY LooksUpTypes
<1>6. call'[p] = r
  <2> HIDE DEF r
  <2> QED
    BY <1>1, <1>5, GoesTo DEF TypeInv, r
<1> HIDE DEF r
<1>7. /\ childName' = childName /\ parentName' = parentName /\ realmName' = realmName
      /\ kind' = kind /\ Here' = Here /\ Current' = Current
      /\ HereMoves /\ \A y : IsHere(y)' <=> IsHere(y)
  BY <1>2, LeftAlone
<1>8. ASSUME ~overtaken PROVE CallHere(call[p])'
  <2>1. /\ KeepsHere(call[p]) /\ (call[p].alone => KeepsCurrent(call[p]))
        /\ IsHere(x) /\ (call[p].alone => x \in Current)
    BY <1>2, <1>8, HereNow, KnownHere
  <2>2. KeepsHere(call[p])'
    BY <1>4, <1>6, <1>7, <2>1 DEF KeepsHere
  <2>3. AsksHere(call[p])'
    BY <1>4, <1>6, <1>7, <2>1 DEF AsksHere, KeepsHere, Resolving, IsAnswer
  <2>4. ASSUME call[p].alone PROVE KeepsCurrent(call[p])' /\ AsksCurrent(call[p])'
    <3>1. KeepsCurrent(call[p]) /\ x \in Current
      BY <2>1, <2>4
    <3>2. KeepsCurrent(call[p])'
      BY <1>4, <1>6, <1>7, <3>1 DEF KeepsCurrent
    <3>3. r.req.kind = "childByName" => r.req.name = childName
      BY <1>4, <3>1 DEF KeepsCurrent
    <3>4. call[p].up \in ParentRep => x = call[p].up
      BY <3>1, OneCurrent DEF KeepsCurrent
    <3>5. AsksCurrent(call[p])'
      BY <1>4, <1>6, <1>7, <3>3, <3>4 DEF AsksCurrent, Resolving, IsAnswer
    <3> QED
      BY <3>2, <3>5
  <2> QED
    BY <1>4, <1>6, <2>2, <2>3, <2>4 DEF CallHere
<1> QED
  BY <1>1, <1>2, <1>5, <1>7, <1>8, StepHere DEF server, history

\* The child taken was found under the parent the handles name; and by the child's
\* name under the parent resolved, if nothing crossed the call.
LEMMA FoundHere ==
  ASSUME TypeInv, HereInv, ~overtaken, NEW p \in Callers,
         Answered(p, {"lookup"}), Found(p) \in ChildRep
  PROVE  /\ Found(p).of \in {Here, Null}
         /\ call[p].op # "getById" =>
              /\ Found(p).of = Here
              /\ call[p].alone =>
                   /\ Found(p).name = childName
                   /\ call[p].up \in ParentRep /\ kind # "idpMapper" =>
                        Found(p).under = call[p].up.id
<1> DEFINE c == Found(p)
<1>1. c \in Mine(p) /\ Null \notin ChildRep
  BY FoundTypes, Marks
<1>2. /\ c \in call[p].ans
      /\ kind = "idpMapper" /\ call[p].req.kind = "childByName" => c.name = childName
  BY <1>1 DEF Mine
<1>3. /\ call[p].pc = "lookup" /\ IsAnswer(call[p].ans) /\ call[p].req # Null /\ call[p].pc # "idle"
      /\ call[p].req.kind \in {"childByName", "childById", "groupById"}
      /\ call[p].req.kind \in {"childById", "groupById"} => call[p].op = "getById"
  BY CallFields DEF Answered, IsAnswer, ReqAt
<1>4. /\ AsksHere(call[p])
      /\ call[p].alone => AsksCurrent(call[p])
  BY <1>3, HereNow
<1>5. /\ call[p].req.kind \in {"childByName", "childById"} => \A x \in call[p].ans : x.of = Here
      /\ call[p].req.kind = "groupById" => \A x \in call[p].ans : x.of = Null
  BY <1>3, <1>4 DEF AsksHere
<1>6. ASSUME call[p].alone, call[p].req.kind = "childByName", kind # "idpMapper"
      PROVE  /\ c.name = childName
             /\ call[p].up \in ParentRep => c.under = call[p].up.id
  <2>1. /\ call[p].up \in ParentRep => call[p].req.up = call[p].up
        /\ \A x \in call[p].ans : x.name = childName /\ x.under = call[p].req.up.id
    BY <1>3, <1>4, <1>6 DEF AsksCurrent
  <2> HIDE DEF c
  <2> QED
    BY <1>2, <2>1
<1> HIDE DEF c
<1>7. c.of \in {Here, Null} /\ (call[p].op # "getById" => c.of = Here)
  BY <1>2, <1>3, <1>5
<1>8. call[p].op # "getById" /\ call[p].alone =>
        /\ c.name = childName
        /\ call[p].up \in ParentRep /\ kind # "idpMapper" => c.under = call[p].up.id
  BY <1>2, <1>3, <1>6
<1> QED
  BY <1>7, <1>8 DEF c

LEMMA GetReturnsHere ==
  ASSUME TypeInv, HereInv, NEW p \in Callers, GetReturns(p) PROVE HereInv'
<1> DEFINE c == Found(p)
           one == Got(c)
           found == [Known(call[p], "looked", {Pending}) EXCEPT !.one = one]
           waits == Known(call[p], "sleep", {Pending})
<1>1. /\ Answered(p, {"lookup"}) \/ (call[p].pc = "get" /\ call[p].req = Null)
      /\ WriteBack(c) /\ UNCHANGED <<setting, realm, server, history>>
      /\ \/ ~call[p].last /\ Goes(p, found)
         \/ call[p].last /\ ReadsAgain(p, one) /\ Goes(p, waits)
         \/ Goes(p, Idle)
  BY DEF GetReturns
<1>2. /\ c \in ChildRep \union {Null} /\ one \in {c, Null} /\ Null \notin ChildRep
      /\ c # Null => Answered(p, {"lookup"})
  BY <1>1, FoundTypes, Marks
<1>3. /\ CallsOK' /\ call[p].pc # "idle" /\ {"looked", "sleep"} \subseteq Places
      /\ {Pending} \in SUBSET Marked
      /\ ~call[p].last => call[p].op # "getById"
      /\ call[p].tries > 0 => call[p].op # "getById"
  BY <1>1, GetReturnsTypes, CallFields DEF Answered, Places, Marked, OpAt
<1>4. ASSUME ~overtaken
      PROVE  /\ c \in ChildRep =>
                  /\ c.of \in {Here, Null}
                  /\ call[p].op # "getById" =>
                       /\ c.of = Here
                       /\ call[p].alone =>
                            /\ c.name = childName
                            /\ call[p].up \in ParentRep /\ kind # "idpMapper" =>
                                 c.under = call[p].up.id
             /\ KeepsHere(call[p]) /\ (call[p].alone => KeepsCurrent(call[p]))
  BY <1>2, <1>3, <1>4, FoundHere, HereNow
<1> HIDE DEF c, one
<1>5. ~overtaken => HereMoves
  BY <1>1, <1>2, <1>4 DEF HereMoves
<1>6. /\ childName' = (IF c # Null THEN c.name ELSE childName) /\ kind' = kind
      /\ overtaken' = overtaken /\ parentName' = parentName /\ realmName' = realmName
      /\ Here' = Here /\ Current' = Current
  <2>1. LookAtParent /\ childName' = (IF c # Null THEN c.name ELSE childName)
    BY <1>1 DEF WriteBack
  <2>2. IdentityOK /\ CachesOK /\ UNCHANGED realm /\ kind' = kind /\ parents' = parents
        /\ overtaken' = overtaken /\ realmName' = realmName
    BY <1>1 DEF TypeInv, setting, server, history, realm
  <2>3. parentName' = parentName /\ VisibleParent' = VisibleParent
    BY <2>1, <2>2, LookedParent
  <2>4. LiveParents' = LiveParents /\ Here' = Here /\ \A x : IsHere(x)' <=> IsHere(x)
    BY <2>2, <2>3 DEF LiveParents, Here, IsHere
  <2>5. Current' = Current
    BY <2>2, <2>3, <2>4 DEF Current
  <2> QED
    BY <2>1, <2>2, <2>3, <2>4, <2>5
<1>7. ASSUME ~call[p].last, Goes(p, found) PROVE HereInv'
  <2> DEFINE known == Known(call[p], "looked", {Pending})
  <2>1. /\ known \in Call /\ known.pc = "looked" /\ known.req = Null
        /\ known.op = call[p].op /\ known.asked = call[p].asked /\ known.up = call[p].up
        /\ known.alone = call[p].alone
    BY <1>3, CallFields, KnownFields
  <2>2. /\ found.pc = "looked" /\ found.req = Null /\ found.op = call[p].op
        /\ found.asked = call[p].asked /\ found.up = call[p].up /\ found.one = one
        /\ found.alone = call[p].alone
    <3> HIDE DEF known
    <3> QED
      BY <1>2, <2>1 DEF Call, known
  <2>3. call'[p] = found
    <3> HIDE DEF found
    <3> QED
      BY <1>3, <1>7, GoesTo DEF TypeInv
  <2> HIDE DEF found
  <2>4. ASSUME ~overtaken PROVE CallHere(call[p])'
    <3>1. KeepsHere(call[p])'
      BY <1>2, <1>3, <1>4, <1>6, <1>7, <2>2, <2>3, <2>4 DEF KeepsHere, IsHere
    <3>2. AsksHere(call[p])' /\ AsksCurrent(call[p])'
      BY <2>2, <2>3 DEF AsksHere, AsksCurrent, Resolving
    <3>3. ASSUME call[p].alone PROVE KeepsCurrent(call[p])'
      <4>1. KeepsCurrent(call[p]) /\ childName' = childName /\ call[p].op # "getById"
        BY <1>2, <1>3, <1>4, <1>6, <1>7, <2>4, <3>3
      <4>2. one \in ChildRep =>
              /\ one.of = Here /\ one.name = childName
              /\ call[p].up \in ParentRep /\ kind # "idpMapper" => one.under = call[p].up.id
        BY <1>2, <1>4, <2>4, <3>3, <4>1
      <4> QED
        BY <1>6, <2>2, <2>3, <4>1, <4>2 DEF KeepsCurrent
    <3> QED
      BY <2>2, <2>3, <3>1, <3>2, <3>3 DEF CallHere
  <2> QED
    BY <1>1, <1>3, <1>5, <1>7, <2>4, StepHere DEF server, history
<1>8. ASSUME ReadsAgain(p, one), Goes(p, waits) PROVE HereInv'
  <2>1. /\ waits.pc = "sleep" /\ waits.req = Null /\ waits.op = call[p].op
        /\ waits.asked = call[p].asked /\ waits.up = call[p].up /\ waits.one = call[p].one
        /\ waits.alone = call[p].alone
    BY <1>3, CallFields, KnownFields
  <2>2. call'[p] = waits
    <3> HIDE DEF waits
    <3> QED
      BY <1>3, <1>8, GoesTo DEF TypeInv
  <2> HIDE DEF waits
  <2>3. call[p].op # "getById"
    BY <1>3, <1>8 DEF ReadsAgain
  <2>4. ASSUME ~overtaken PROVE CallHere(call[p])'
    <3>1. KeepsHere(call[p])'
      BY <1>4, <1>6, <2>1, <2>2, <2>4 DEF KeepsHere, IsHere
    <3>2. AsksHere(call[p])' /\ AsksCurrent(call[p])'
      BY <2>1, <2>2 DEF AsksHere, AsksCurrent, Resolving
    <3>3. ASSUME call[p].alone PROVE KeepsCurrent(call[p])'
      <4>1. KeepsCurrent(call[p]) /\ childName' = childName
        BY <1>2, <1>4, <1>6, <2>3, <2>4, <3>3
      <4> QED
        BY <1>6, <2>1, <2>2, <4>1 DEF KeepsCurrent
    <3> QED
      BY <2>1, <2>2, <3>1, <3>2, <3>3 DEF CallHere
  <2> QED
    BY <1>1, <1>3, <1>5, <1>8, <2>4, StepHere DEF server, history
<1>9. ASSUME Goes(p, Idle) PROVE HereInv'
  BY <1>1, <1>5, <1>9, FinishHere DEF server, history, Finish
<1> QED
  BY <1>1, <1>7, <1>8, <1>9

LEMMA ServeHere == ASSUME TypeInv, HereInv, NEW p \in Callers, Serve(p) PROVE HereInv'
<1> DEFINE req == call[p].req
<1>1. PICK outcome \in Outcomes(p, req) :
        /\ children' = outcome[1]
        /\ UNCHANGED <<setting, realm, pcache, ccache, parents, history>>
        /\ Goes(p, [call[p] EXCEPT !.ans = outcome[2]])
  BY DEF Serve
<1> DEFINE a == outcome[2]
           r == [call[p] EXCEPT !.ans = a]
<1>2. req \in Requests /\ req # Null
  BY CallFields DEF Serve
<1>3. \/ a \in {{Done}, {Failed}} /\ req.kind \in Mutations
      \/ a = {Failed}
      \/ req.kind \notin Mutations /\ a \in Reads(p, req)
  BY <1>2, OutcomeFields
<1>4. CallsOK' /\ call[p] \in Call /\ ReqAt(call[p])
  BY ServeTypes, CallFields
<1>5. /\ r.op = call[p].op /\ r.pc = call[p].pc /\ r.asked = call[p].asked
      /\ r.up = call[p].up /\ r.one = call[p].one /\ r.req = req /\ r.ans = a
      /\ r.alone = call[p].alone
  <2> HIDE DEF a
  <2> QED
    BY <1>4 DEF Call
<1>6. call'[p] = r
  <2> HIDE DEF r
  <2> QED
    BY <1>1, <1>4, GoesTo DEF TypeInv, r
<1>7. /\ childName' = childName /\ parentName' = parentName /\ realmName' = realmName
      /\ kind' = kind /\ overtaken' = overtaken /\ parents' = parents
      /\ Here' = Here /\ Current' = Current /\ ParentStale' = ParentStale /\ HereMoves
      /\ \A x : IsHere(x)' <=> IsHere(x)
  <2>1. /\ childName' = childName /\ parentName' = parentName /\ realmName' = realmName
        /\ kind' = kind /\ overtaken' = overtaken /\ parents' = parents
        /\ parent' = parent /\ parentSeen' = parentSeen /\ realmGen' = realmGen
    BY <1>1 DEF setting, realm, pcache, ccache, history
  <2>2. ParentStale' = ParentStale /\ LiveParents' = LiveParents
    BY <2>1 DEF ParentStale, LiveParents
  <2>3. VisibleParent' = VisibleParent /\ Here' = Here /\ \A x : IsHere(x)' <=> IsHere(x)
    BY <2>1, <2>2 DEF VisibleParent, Here, IsHere
  <2>4. Current' = Current
    BY <2>1, <2>2, <2>3 DEF Current
  <2>5. HereMoves
    BY <1>1 DEF HereMoves
  <2> QED
    BY <2>1, <2>2, <2>3, <2>4, <2>5
<1>8. ASSUME ~overtaken, call[p].pc # "idle", IsAnswer(a)
      PROVE  /\ req.kind = "parentByName" =>
                  /\ \A x \in a : /\ x \in LiveParents /\ x.realm = realmName
                                  /\ x.name = parentName \/ kind = "scopeMapper"
                  /\ \A x, y \in a : x.name = y.name => x = y
             /\ req.kind \in {"childByName", "childById"} => \A x \in a : x.of = Here
             /\ req.kind = "groupById" => \A x \in a : x.of = Null
             /\ req.kind = "childByName" /\ kind # "idpMapper" =>
                  \A x \in a : x.name = req.name /\ x.under = req.up.id
  <2>1. AsksHere(call[p]) /\ a # {Failed}
    BY <1>8, HereNow DEF IsAnswer
  <2>2. /\ req.realm = realmName
        /\ req.kind = "parentByName" => req.key = parentName
        /\ req.kind \in {"childByName", "childById"} => IsHere(req.up)
    BY <1>2, <2>1 DEF AsksHere
  <2>3. CASE req.kind \notin Mutations /\ a \in Reads(p, req)
    <3>1. req.kind \in {"childByName", "childById"} => req.up \in ParentRep
      BY <1>2, <1>4 DEF ReqAt
    <3>2. ASSUME NEW k \in Requests, NEW b \in Reads(p, k), NEW d \in b, k.kind \notin Mutations,
                 k.kind \in {"childByName", "childById"} => k.up \in ParentRep
          PROVE  /\ k.kind = "parentByName" =>
                      /\ d \in LiveParents /\ d.realm = k.realm
                      /\ d.name = k.key \/ kind = "scopeMapper"
                 /\ k.kind \in {"childByName", "childById"} =>
                      /\ d.of = [realm |-> k.up.realm, name |-> k.up.name]
                      /\ \E x \in ParentAt(k) : d.under = x.id
                      /\ k.kind = "childByName" /\ kind # "idpMapper" => d.name = k.name
                 /\ k.kind = "groupById" => d.of = Null
      BY <3>2, ReadsFields
    <3> HIDE DEF req, a
    <3>3. ASSUME NEW d \in a
          PROVE  /\ req.kind = "parentByName" =>
                      /\ d \in LiveParents /\ d.realm = realmName
                      /\ d.name = parentName \/ kind = "scopeMapper"
                 /\ req.kind \in {"childByName", "childById"} =>
                      /\ d.of = [realm |-> req.up.realm, name |-> req.up.name]
                      /\ \E x \in ParentAt(req) : d.under = x.id
                      /\ req.kind = "childByName" /\ kind # "idpMapper" => d.name = req.name
                 /\ req.kind = "groupById" => d.of = Null
      BY <1>2, <2>2, <2>3, <3>1, <3>2, <3>3
    <3>4. req.kind = "parentByName" => \A x, y \in a : x.name = y.name => x = y
      <4>1. ASSUME req.kind = "parentByName", NEW x \in a, NEW y \in a, x.name = y.name
            PROVE  x = y
        <5>1. /\ x \in LiveParents /\ y \in LiveParents /\ x.realm = y.realm
          BY <3>3, <4>1
        <5>2. /\ x \in ParentRep /\ parents[x.id] = x /\ y \in ParentRep /\ parents[y.id] = y
          BY <5>1, LiveAre DEF TypeInv
        <5>3. x.id \in ParentIds /\ y.id \in ParentIds
          BY <5>2 DEF ParentRep
        <5> QED
          BY <4>1, <5>1, <5>2, <5>3 DEF TypeInv, ServerOK, Sound
      <4> QED
        BY <4>1
    <3>5. req.kind \in {"childByName", "childById"} =>
            [realm |-> req.up.realm, name |-> req.up.name] = Here
      BY <2>2 DEF IsHere, Here
    <3>6. kind # "idpMapper" => \A x \in ParentAt(req) : x.id = req.up.id
      BY DEF ParentAt
    <3> QED
      BY <3>3, <3>4, <3>5, <3>6
  <2>4. CASE req.kind \in Mutations
    BY <2>4 DEF Mutations
  <2> QED
    BY <1>3, <2>1, <2>3, <2>4
<1> HIDE DEF r, a
<1>9. ASSUME ~overtaken PROVE CallHere(call[p])'
  <2> SUFFICES ASSUME call[p].pc # "idle"
               PROVE  KeepsHere(call[p])' /\ AsksHere(call[p])'
                        /\ (call[p].alone => KeepsCurrent(call[p])' /\ AsksCurrent(call[p])')
    BY <1>5, <1>6 DEF CallHere
  <2>1. /\ KeepsHere(call[p]) /\ AsksHere(call[p])
        /\ call[p].alone => KeepsCurrent(call[p]) /\ AsksCurrent(call[p])
    BY <1>9, HereNow
  <2>2. KeepsHere(call[p])'
    BY <1>5, <1>6, <1>7, <2>1 DEF KeepsHere
  <2>3. AsksHere(call[p])'
    BY <1>2, <1>5, <1>6, <1>7, <1>8, <1>9, <2>1 DEF AsksHere
  <2>4. ASSUME call[p].alone PROVE KeepsCurrent(call[p])' /\ AsksCurrent(call[p])'
    <3>1. KeepsCurrent(call[p]) /\ AsksCurrent(call[p])
      BY <2>1, <2>4
    <3>2. KeepsCurrent(call[p])'
      BY <1>5, <1>6, <1>7, <3>1 DEF KeepsCurrent
    <3>3. call[p].pc \in Resolving => req.kind = "parentByName"
      BY <1>2, <1>4 DEF ReqAt
    <3>4. call[p].pc \in Resolving /\ kind = "nestedGroup" /\ IsAnswer(a) => a \subseteq Current
      <4>1. ASSUME call[p].pc \in Resolving, kind = "nestedGroup", IsAnswer(a), NEW x \in a
            PROVE  x \in Current
        <5>1. x \in LiveParents /\ x.realm = realmName /\ x.name = parentName
          BY <1>8, <1>9, <3>3, <4>1
        <5> QED
          BY <4>1, <5>1 DEF Current, IsHere
      <4> QED
        BY <4>1
    <3>5. AsksCurrent(call[p])'
      BY <1>2, <1>5, <1>6, <1>7, <1>8, <1>9, <3>1, <3>4 DEF AsksCurrent
    <3> QED
      BY <3>2, <3>5
  <2> QED
    BY <2>2, <2>3, <2>4
<1> QED
  BY <1>1, <1>4, <1>7, <1>9, StepHere DEF history, r, a

-----------------------------------------------------------------------------
(* What is kept was found where the handles point: every step              *)

LEMMA CallStepHere ==
  ASSUME TypeInv, HereInv, NEW p \in Callers, CallStep(p) PROVE HereInv'
<1>1. CASE Step(p)
  BY <1>1, ThrowHere, ParentReturnsHere, OwnReturnsHere, HasParentHere, LooksUpHere,
     CreatesUnderHere, GetReturnsHere, WakesHere, ResumeHere, PartnerResolvedHere,
     ReadBackHere, DeletedHere, Zenon DEF Step
<1> QED
  BY <1>1, BeginAtParentHere, BeginAtChildHere, BeginGetByIdHere, BeginParentGetHere, ServeHere,
     Zenon DEF CallStep

\* A retarget that overtakes no call finds them all idle.
LEMMA RebindHere == ASSUME TypeInv, HereInv, Rebind PROVE HereInv'
<1>1. /\ RealmMoves \/ ParentMoves \/ ChildMoves
      /\ overtaken' = (overtaken \/ \E p \in Callers : call[p].pc # "idle")
      /\ call' = Disturb(call, {})
  BY RebindMoves
<1> SUFFICES ASSUME ~overtaken' PROVE HereInv'
  BY DEF HereInv, CachesHere, CallHere
<1>2. ~overtaken /\ \A p \in Callers : call[p].pc = "idle"
  BY <1>1
<1>3. ASSUME NEW p \in Callers PROVE CallHere(call[p])'
  <2>1. call'[p] = call[p]
    BY <1>1, <1>2, DisturbTypes DEF TypeInv
  <2> QED
    BY <1>2, <2>1 DEF CallHere
<1>4. /\ VisibleParent' = Undefined
           \/ (VisibleParent' = VisibleParent /\ UNCHANGED <<realmName, parentName>>)
      /\ VisibleChild' = Undefined
  <2>1. CASE RealmMoves
    BY <2>1, RealmMovesOn DEF TypeInv
  <2>2. CASE ParentMoves
    BY <2>2, ParentMovesOn DEF TypeInv
  <2>3. CASE ChildMoves
    BY <2>3, ChildMovesOn DEF TypeInv, ChildMoves, realm, pcache
  <2> QED
    BY <1>1, <2>1, <2>2, <2>3
<1>5. CachesHere'
  BY <1>2, <1>4, Marks DEF HereInv, CachesHere, IsHere
<1> QED
  BY <1>3, <1>5 DEF HereInv

LEMMA ReadChildHere == ASSUME TypeInv, HereInv, ReadChild PROVE HereInv'
<1>1. UNCHANGED <<setting, realm, server, history, call>> /\ LookAtChild
  BY DEF ReadChild
<1>2. /\ IdentityOK /\ CachesOK /\ kind' = kind /\ overtaken' = overtaken /\ parents' = parents
      /\ call' = call
  BY <1>1 DEF TypeInv, setting, server, history
<1>3. HereMoves /\ childName' = childName /\ Current' = Current
  BY <1>1, LooksKeep DEF server
<1> SUFFICES ASSUME ~overtaken PROVE HereInv'
  BY <1>2 DEF HereInv, CachesHere, CallHere
<1>4. Stays /\ CachesHere'
  BY <1>2, <1>3, HereMovesKeep DEF HereInv
<1>5. ASSUME NEW q \in Callers PROVE CallHere(call[q])'
  BY <1>2, <1>3, <1>4, Carried DEF HereInv, Carries
<1> QED
  BY <1>4, <1>5 DEF HereInv

\* An edit leaves no call alone.
LEMMA AdminHere == ASSUME TypeInv, HereInv, Admin PROVE HereInv'
<1>1. /\ call' = Disturb(call, {})
      /\ UNCHANGED <<setting, realm, pcache, ccache, retargets, overtaken>>
  BY AdminLeaves
<1>2. /\ IdentityOK /\ CachesOK /\ kind' = kind /\ overtaken' = overtaken
  BY <1>1 DEF TypeInv, setting
<1>3. HereMoves
  BY <1>1 DEF HereMoves
<1> SUFFICES ASSUME ~overtaken PROVE HereInv'
  BY <1>2 DEF HereInv, CachesHere, CallHere
<1>4. Stays /\ CachesHere'
  BY <1>2, <1>3, HereMovesKeep DEF HereInv
<1>5. ASSUME NEW q \in Callers PROVE CallHere(call[q])'
  <2>1. call'[q] = IF call[q].pc = "idle" THEN call[q] ELSE [call[q] EXCEPT !.alone = FALSE]
    BY <1>1, DisturbTypes DEF TypeInv
  <2>2. Carries(q)
    BY <2>1, CrossedCarries
  <2>3. ~(call'[q].alone /\ call'[q].pc # "idle")
    <3>1. [call[q] EXCEPT !.alone = FALSE].alone = FALSE
      BY CallFields, Crossed
    <3> QED
      BY <2>1, <2>2, <3>1 DEF Carries
  <2> QED
    BY <1>4, <2>2, <2>3, Carried DEF HereInv
<1> QED
  BY <1>4, <1>5 DEF HereInv

LEMMA InitHere == ASSUME Init PROVE HereInv
<1>1. parent \in {Null, Undefined} /\ child \in {Null, Undefined}
  BY DEF Init
<1>2. CachesHere
  BY <1>1, Marks DEF CachesHere, VisibleParent, VisibleChild
<1>3. \A p \in Callers : call[p] = Idle
  BY DEF Init
<1>4. Idle.pc = "idle"
  BY DEF Idle
<1> QED
  BY <1>2, <1>3, <1>4 DEF HereInv, CallHere

LEMMA NextHere == ASSUME TypeInv, HereInv, [Next]_vars PROVE HereInv'
<1>1. CASE UNCHANGED vars
  <2>1. /\ UNCHANGED <<setting, realm, pcache, ccache, server, history>> /\ call' = call
        /\ UNCHANGED childSeen /\ UNCHANGED child
    BY <1>1 DEF vars, ccache
  <2>2. /\ IdentityOK /\ CachesOK
    BY DEF TypeInv
  <2>3. HereMoves /\ childName' = childName /\ Current' = Current /\ kind' = kind
          /\ overtaken' = overtaken
    BY <2>1, LeftAlone
  <2> SUFFICES ASSUME ~overtaken PROVE HereInv'
    BY <2>3 DEF HereInv, CachesHere, CallHere
  <2>4. Stays /\ CachesHere'
    BY <2>2, <2>3, HereMovesKeep DEF HereInv
  <2>5. ASSUME NEW q \in Callers PROVE CallHere(call[q])'
    BY <2>1, <2>3, <2>4, Carried DEF HereInv, Carries
  <2> QED
    BY <2>4, <2>5 DEF HereInv
<1> QED
  BY <1>1, RebindHere, ReadChildHere, CallStepHere, AdminHere, NextParts

LEMMA CachesServed == TypeInv /\ HereInv => ServedUnderParent
  BY DEF HereInv, CachesHere, ServedUnderParent

LEMMA CallsWrite == TypeInv /\ HereInv => WritesUnderParent
<1> SUFFICES ASSUME TypeInv, HereInv, NEW p \in Callers,
                    call[p].pc = "write", call[p].alone, ~overtaken
             PROVE  LET up == call[p].up  one == call[p].one
                    IN  /\ call[p].req.realm = realmName
                        /\ up \in ParentRep => [realm |-> up.realm, name |-> up.name] = Here
                        /\ up \in ParentRep /\ one \in ChildRep /\ kind # "idpMapper" =>
                             one.under = up.id
                        /\ one \in ChildRep =>
                             /\ one.name = childName
                             /\ one.of = Here
                                  \/ (one.of = Null /\ call[p].op \in {"use", "link"})
  BY DEF WritesUnderParent
<1>1. call[p].req # Null /\ call[p].op # "getById"
  BY CallFields DEF ReqAt, OpAt
<1>2. KeepsHere(call[p]) /\ AsksHere(call[p]) /\ KeepsCurrent(call[p])
  BY HereNow
<1>3. call[p].req.realm = realmName
  BY <1>1, <1>2 DEF AsksHere
<1>4. call[p].up \in ParentRep => [realm |-> call[p].up.realm, name |-> call[p].up.name] = Here
  BY <1>2 DEF KeepsHere, IsHere, Here
<1> QED
  BY <1>1, <1>2, <1>3, <1>4 DEF KeepsCurrent

\* What handle.role, handle.group, ... return belongs to the parent the handles
\* name now and goes by the child's name (or is a group fetched by its id): what
\* handle-identity.mdx promises of a rebound parent, as long as no call was under
\* way then.
THEOREM ServesUnderParent == Spec => []ServedUnderParent
<1>1. Init => TypeInv /\ HereInv
  BY InitTypes, InitHere
<1>2. TypeInv /\ HereInv /\ [Next]_vars => (TypeInv /\ HereInv)'
  BY NextTypes, NextHere
<1> QED
  BY <1>1, <1>2, CachesServed, PTL DEF Spec

\* A write that neither a retarget nor another change crossed goes to the realm,
\* the parent and the child the handles name: create(), update(), delete(),
\* ensure(), discard() and the methods that use the child never write to what was
\* found elsewhere.
THEOREM WritesWhereFound == Spec => []WritesUnderParent
<1>1. Init => TypeInv /\ HereInv
  BY InitTypes, InitHere
<1>2. TypeInv /\ HereInv /\ [Next]_vars => (TypeInv /\ HereInv)'
  BY NextTypes, NextHere
<1> QED
  BY <1>1, <1>2, CallsWrite, PTL DEF Spec
=============================================================================
