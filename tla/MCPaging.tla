------------------------------- MODULE MCPaging ------------------------------
(***************************************************************************)
(* Model-checking instances of the two ways through a long list: FetchAll, *)
(* which collects it, and SinglePageQuery, with which a caller turns the   *)
(* pages.  A caller takes one of them; the other is at rest.               *)
(***************************************************************************)
EXTENDS FetchAll, SinglePageQuery

CONSTANTS r1, r2, r3, r4,
          Fraction    \* a number that is no integer

FourRows == {r1, r2, r3, r4}

UpToThree == {<<>>, <<r1>>, <<r1, r2>>, <<r1, r2, r3>>}

\* Limits below, at and above the length of the lists.
Accepted == [first : {0, 1}, pageSize : {1, 2}, maxPages : {2, 6}, maxItems : {2, 3, 9},
             streaming : BOOLEAN]

\* What validateBounds refuses, and what returns before the first request.
Boundary == [first : {0}, pageSize : {0, 1}, maxPages : {0, 1}, maxItems : {0, 2},
             streaming : BOOLEAN]

AnyOptions == Accepted \union Boundary

\* Integers below and above the bounds of validateInteger.
SomeValues == -1..(MaxSafe + 1) \union {Fraction}

-----------------------------------------------------------------------------
(* One of the two                                                          *)

\* The stream was left before its first page.
NothingFetched ==
  /\ list = <<>> /\ began = <<>> /\ edits = <<>>
  /\ server = [cap |-> 1, ignoresOffset |-> FALSE, tellsLast |-> FALSE]
  /\ options = [first |-> 0, pageSize |-> 1, maxPages |-> 2, maxItems |-> 2,
                streaming |-> TRUE]
  /\ pc = "left"
  /\ offset = 0 /\ page = 0
  /\ taken = <<>> /\ previous = <<>>
  /\ answer = [rows |-> <<>>, done |-> FALSE]
  /\ aborted = FALSE

\* The options were refused.
NothingAsked ==
  /\ asked = [page |-> Undefined, pageSize |-> Undefined, first |-> 0, max |-> 0]
  /\ query = Rejected
  /\ next = None

PagingInit ==
  \/ Init /\ NothingAsked
  \/ QueryInit /\ NothingFetched

PagingNext ==
  \/ Next /\ UNCHANGED queryVars
  \/ QueryNext /\ UNCHANGED vars

\* The fairness of FetchAll; nobody has to turn another page.
PagingSpec ==
  PagingInit /\ [][PagingNext]_<<vars, queryVars>> /\ WF_vars(Step)
=============================================================================
