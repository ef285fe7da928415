--------------------------- MODULE SinglePageQuery ---------------------------
(***************************************************************************)
(* utils/single-page-query.ts: page/pageSize or first/max, whichever the   *)
(* caller gave, as the first/max of a list request; and a caller that asks *)
(* for one page after the other, as the realm's, the roles' and the users' *)
(* search methods let it.                                                  *)
(*                                                                         *)
(* Numbers are doubles.  The arithmetic here is that of the integers: a    *)
(* product beyond MAX_SAFE_INTEGER is never rounded to a safe one, and     *)
(* the sums and differences taken of safe integers are exact.              *)
(***************************************************************************)
EXTENDS Integers

CONSTANTS
  MaxSafe,            \* Number.MAX_SAFE_INTEGER
  DefaultSize,        \* defaultMax and defaultPageSize, 100
  Values,             \* the numbers callers give
  Undefined,          \* an option left out
  Rejected,           \* a RangeError
  None                \* nothing yet

ASSUME SinglePageQueryAssumption ==
  /\ MaxSafe \in Nat /\ DefaultSize \in 1..MaxSafe
  /\ Undefined \notin Int
  /\ {Rejected, None} \intersect [first : Nat, max : Nat] = {}
  /\ Rejected # None /\ None \notin Int

Number == Values \union {Undefined}
QueryOptions == [page : Number, pageSize : Number, first : Number, max : Number]

Or(value, default) == IF value = Undefined THEN default ELSE value

\* validateInteger: no fraction, no NaN, nothing beyond the safe integers.
Valid(value, minimum) == value \in minimum..MaxSafe

\* Fault: one row more.
FitsLoosely(first, max) == first <= MaxSafe - (max - 2)

\* validateRange: the last row's number is safe too.
Fits(first, max) == first <= MaxSafe - (max - 1)

Query(first, max) == [first |-> first, max |-> max]

HasPageStyle(o)   == o.page # Undefined \/ o.pageSize # Undefined
HasOffsetStyle(o) == o.first # Undefined \/ o.max # Undefined

OffsetStyle(first, max) ==
  IF Valid(first, 0) /\ Valid(max, 1) /\ Fits(first, max) THEN Query(first, max) ELSE Rejected

\* Fault: pages are taken to have the default size.
OffsetByDefault(page, pageSize) == (page - 1) * DefaultSize

\* The first row of a page; pages are counted from one.
Offset(page, pageSize) == (page - 1) * pageSize

\* Fault: the page must end before the limit, not at it.
PageStyleShort(page, pageSize) ==
  IF /\ Valid(page, 1) /\ Valid(pageSize, 1)
     /\ Offset(page, pageSize) + pageSize < MaxSafe
  THEN Query(Offset(page, pageSize), pageSize) ELSE Rejected

PageStyle(page, pageSize) ==
  IF /\ Valid(page, 1) /\ Valid(pageSize, 1)
     /\ Offset(page, pageSize) <= MaxSafe
     /\ Fits(Offset(page, pageSize), pageSize)
  THEN Query(Offset(page, pageSize), pageSize) ELSE Rejected

ToSinglePageQuery(o) ==
  IF HasOffsetStyle(o)
  THEN IF HasPageStyle(o) THEN Rejected
       ELSE OffsetStyle(Or(o.first, 0), Or(o.max, DefaultSize))
  ELSE PageStyle(Or(o.page, 1), Or(o.pageSize, DefaultSize))

-----------------------------------------------------------------------------
VARIABLES
  asked,              \* what the caller asks for
  query,              \* what it was converted to
  next                \* the row after those asked for so far (history)

queryVars == <<asked, query, next>>

QueryInit ==
  /\ asked \in QueryOptions
  /\ query = None
  /\ next = None

Convert ==
  /\ query = None
  /\ query' = ToSinglePageQuery(asked)
  /\ UNCHANGED <<asked, next>>

\* The caller goes on to the next page, or the next rows.
Turn ==
  /\ query \notin {None, Rejected}
  /\ asked' = IF HasOffsetStyle(asked)
              THEN [asked EXCEPT !.first = Or(asked.first, 0) + Or(asked.max, DefaultSize)]
              ELSE [asked EXCEPT !.page = Or(asked.page, 1) + 1]
  /\ query' = None
  /\ next' = query.first + query.max

QueryNext == Convert \/ Turn

QuerySpec == QueryInit /\ [][QueryNext]_queryVars

-----------------------------------------------------------------------------
(* Properties                                                              *)

Size(o) == IF HasOffsetStyle(o) THEN Or(o.max, DefaultSize) ELSE Or(o.pageSize, DefaultSize)

\* The requests for page after page ask for every row once: each begins where
\* the one before it ended.
PagesFollow ==
  query \notin {None, Rejected} /\ next # None => query.first = next

\* The numbers of all the rows asked for, the last one's too, are safe integers,
\* and at least one row is.
RowsAreSafe ==
  query \notin {None, Rejected} =>
    /\ query.first \in 0..MaxSafe /\ query.max \in 1..MaxSafe
    /\ query.first + query.max - 1 <= MaxSafe

\* Once begun, paging is refused only when the next page would end beyond the
\* safe integers, or its number is beyond them: no page before that one is.
StopsAtLimit ==
  query = Rejected /\ next # None =>
    next + Size(asked) - 1 > MaxSafe \/ asked.page = MaxSafe + 1
=============================================================================
