------------------------------- MODULE FetchAll -----------------------------
(***************************************************************************)
(* Collecting every row of a list endpoint page by page                    *)
(* (src/src/utils/fetch-all.ts): fetchAll, which buffers the rows, and     *)
(* fetchAllStream, which hands each page to a consumer before it goes on.  *)
(* The endpoint knows offsets only.  It may cap the page, ignore the       *)
(* offset, say that a page is the last one, or fail, and other             *)
(* administrators may change the list between two pages.                   *)
(***************************************************************************)
EXTENDS Naturals, Sequences

CONSTANTS
  Rows,               \* the rows there are
  Lists,              \* the lists the endpoint may start with
  Options,            \* the options callers pass: see OptionsType
  Caps,               \* page sizes the endpoint may be capped at
  OffsetIgnored,      \* whether the endpoint may ignore the offset: a set of BOOLEANs
  LastPageKnown,      \* whether the fetcher may tell the last page: the same
  MaxEdits            \* bound on the changes others make to the list

OptionsType == [first : Nat, pageSize : Nat, maxPages : Nat, maxItems : Nat,
                streaming : BOOLEAN]

Distinct(s) == \A i, j \in 1..Len(s) : s[i] = s[j] => i = j

ASSUME FetchAllAssumption ==
  /\ \A l \in Lists : l \in Seq(Rows) /\ Distinct(l)
  /\ Options \subseteq OptionsType
  /\ Caps \subseteq Nat \ {0}
  /\ OffsetIgnored \subseteq BOOLEAN
  /\ LastPageKnown \subseteq BOOLEAN
  /\ MaxEdits \in Nat

VARIABLES
  list,               \* the server's list
  began,              \* the list when the call was made
  edits,              \* what others did to it since: see EditKinds
  server,             \* how the endpoint behaves
  options,            \* the validated options
  pc,                 \* where the call is
  offset,             \* the offset of the next request
  page,               \* the pages taken so far
  taken,              \* the rows buffered, or yielded
  previous,           \* the last page taken
  answer,             \* the page that arrived
  aborted             \* AbortSignal.aborted

call == <<pc, offset, page, taken, previous>>
vars == <<list, began, edits, server, options, pc, offset, page, taken, previous, answer, aborted>>

Outcomes == {"returned", "left", "invalid", "aborted", "failed", "repeated",
             "maxItems", "maxPages"}
Settled  == pc \in Outcomes

Init ==
  /\ list \in Lists
  /\ began = list
  /\ edits = <<>>
  /\ server \in [cap : Caps, ignoresOffset : OffsetIgnored, tellsLast : LastPageKnown]
  /\ options \in Options
  /\ pc = "start"
  /\ offset = options.first
  /\ page = 0
  /\ taken = <<>>
  /\ previous = <<>>
  /\ answer = [rows |-> <<>>, done |-> FALSE]
  /\ aborted \in BOOLEAN

-----------------------------------------------------------------------------
(* The endpoint                                                            *)

Smaller(a, b) == IF a < b THEN a ELSE b

\* The rows from an offset on, as many as the request and the cap allow.
PageAt(from) ==
  SubSeq(list, from + 1, Smaller(from + Smaller(options.pageSize, server.cap), Len(list)))

\* toRows: a bare page carries no hint, a { rows, done } answer does.
Hint(from) == server.tellsLast /\ from + Len(PageAt(from)) >= Len(list)

Answers ==
  /\ pc = "fetch"
  /\ LET from == IF server.ignoresOffset THEN 0 ELSE offset
     IN  answer' = [rows |-> PageAt(from), done |-> Hint(from)]
  /\ pc' = "answered"
  /\ UNCHANGED <<list, began, edits, server, options, offset, page, taken, previous, aborted>>

Settles(outcome) ==
  /\ pc' = outcome
  /\ UNCHANGED <<list, began, edits, server, options, offset, page, taken, previous, answer, aborted>>

RequestFails == pc = "fetch" /\ Settles("failed")

-----------------------------------------------------------------------------
(* The call                                                                *)

\* validateBounds; maxItems may be 0, and first is checked by its type here.
ValidOptions == options.pageSize >= 1 /\ options.maxPages >= 1

\* Fault: the signal is looked at once, before the loop.
LoopHeadIgnoresAbort(pages) == IF pages >= options.maxPages THEN "maxPages" ELSE "fetch"

\* What the head of the loop does when "pages" were taken.
LoopHead(pages) ==
  IF pages >= options.maxPages THEN "maxPages" ELSE IF aborted THEN "aborted" ELSE "fetch"

Begins ==
  /\ pc = "start"
  /\ Settles(IF ~ValidOptions THEN "invalid"
             ELSE IF aborted THEN "aborted"
             ELSE IF options.maxItems = 0 THEN "returned"
             ELSE LoopHead(0))

\* The second throwIfAborted of the loop, after the await.
Aborts == pc = "answered" /\ aborted /\ Settles("aborted")

Arrived == pc = "answered" /\ ~aborted

\* Fault: a page shorter than the one asked for is taken for the last.
EndsShort ==
  /\ Arrived
  /\ Len(answer.rows) < options.pageSize
  /\ pc' = "returned"
  /\ taken' = taken \o answer.rows
  /\ UNCHANGED <<list, began, edits, server, options, offset, page, previous, answer, aborted>>

\* Fault: an empty page is asked for again, and not counted.
EndsNever == Arrived /\ answer.rows = <<>> /\ Settles("fetch")

Ends == Arrived /\ answer.rows = <<>> /\ Settles("returned")

\* isRepeatedPage: rows with equal JSON are equal here.
Repeated == answer.rows = previous

\* Fault: the limit is off by one page.
FitsBefore == Len(taken) <= options.maxItems

FitsMaxItems == Len(taken) + Len(answer.rows) <= options.maxItems

Rejects ==
  /\ Arrived
  /\ answer.rows # <<>>
  /\ \/ Repeated /\ Settles("repeated")
     \/ ~Repeated /\ ~FitsMaxItems /\ Settles("maxItems")

\* Fault: the offset moves on by the page asked for.
OffsetByRequest == offset' = offset + options.pageSize

\* "offset += rows.length"
OffsetByRows == offset' = offset + Len(answer.rows)

\* What follows a page that was taken: the end, or the next turn of the loop.
GoesOn(rows) ==
  IF answer.done \/ Len(rows) = options.maxItems
  THEN /\ pc' = "returned"
       /\ UNCHANGED <<offset, page, previous>>
  ELSE /\ pc' = LoopHead(page + 1)
       /\ OffsetByRows
       /\ page' = page + 1
       /\ previous' = answer.rows

\* fetchAll pushes the rows and goes on; fetchAllStream yields them first.
Takes ==
  /\ Arrived
  /\ answer.rows # <<>>
  /\ ~Repeated
  /\ FitsMaxItems
  /\ taken' = taken \o answer.rows
  /\ IF options.streaming
     THEN pc' = "yielded" /\ UNCHANGED <<offset, page, previous>>
     ELSE GoesOn(taken \o answer.rows)
  /\ UNCHANGED <<list, began, edits, server, options, answer, aborted>>

\* The consumer of the stream asks for the next page, or leaves the loop.
Resumes ==
  /\ pc = "yielded"
  /\ GoesOn(taken)
  /\ UNCHANGED <<list, began, edits, server, options, taken, answer, aborted>>

Leaves == pc = "yielded" /\ Settles("left")

-----------------------------------------------------------------------------
(* Everyone else                                                           *)

Abort ==
  /\ ~aborted
  /\ ~Settled
  /\ aborted' = TRUE
  /\ UNCHANGED <<list, began, edits, server, options, call, answer>>

Listed(l) == {l[i] : i \in 1..Len(l)}

InsertedAt(l, i, row) == SubSeq(l, 1, i) \o <<row>> \o SubSeq(l, i + 1, Len(l))
RemovedAt(l, i)       == SubSeq(l, 1, i - 1) \o SubSeq(l, i + 1, Len(l))

EditKinds == {"insert", "remove"}

\* Rows new to the call come in, rows go.
Edit ==
  /\ ~Settled
  /\ Len(edits) < MaxEdits
  /\ \/ \E row \in Rows \ (Listed(list) \union Listed(began)), i \in 0..Len(list) :
          list' = InsertedAt(list, i, row) /\ edits' = Append(edits, "insert")
     \/ \E i \in 1..Len(list) :
          list' = RemovedAt(list, i) /\ edits' = Append(edits, "remove")
  /\ UNCHANGED <<began, server, options, call, answer, aborted>>

-----------------------------------------------------------------------------
Step == Begins \/ Answers \/ RequestFails \/ Aborts \/ Ends \/ Rejects \/ Takes \/ Resumes

Next == Step \/ Leaves \/ Abort \/ Edit

Spec == Init /\ [][Next]_vars

\* Every request is answered, and the consumer asks for the next page or leaves.
FairSpec == Spec /\ WF_vars(Step)

-----------------------------------------------------------------------------
(* Properties                                                              *)

\* Every variable keeps its type, and however the endpoint behaves no call takes
\* more than maxPages pages and maxItems rows.
TypeOK ==
  /\ {list, began, taken, previous} \subseteq Seq(Rows)
  /\ edits \in Seq(EditKinds) /\ Len(edits) <= MaxEdits
  /\ server \in [cap : Caps, ignoresOffset : OffsetIgnored, tellsLast : LastPageKnown]
  /\ options \in Options
  /\ pc \in Outcomes \union {"start", "fetch", "answered", "yielded"}
  /\ offset \in Nat /\ page \in 0..options.maxPages /\ Len(taken) <= options.maxItems
  /\ answer \in [rows : Seq(Rows), done : BOOLEAN]
  /\ aborted \in BOOLEAN

Wanted(l) == SubSeq(l, options.first + 1, Len(l))

\* maxItems ended the call: what was collected is as long as it may be.
CutShort == Len(taken) = options.maxItems

\* From a list that does not change, no row is collected twice, whether or not
\* the endpoint honours the offset (isRepeatedPage: fetchAll refuses rather than
\* loop over one page); if it does, fetchAll returns all of the list, in order,
\* for every page size and cap, unless maxItems cuts it short.
CompleteOrCut ==
  edits = <<>> =>
    /\ Distinct(taken)
    /\ pc = "returned" /\ ~server.ignoresOffset /\ ~CutShort => taken = Wanted(began)

\* A list that gains rows while it is fetched loses none that were there at
\* the start.
NothingSkipped ==
  pc = "returned" /\ "remove" \notin Listed(edits) /\ ~server.ignoresOffset /\ ~CutShort =>
    Listed(Wanted(began)) \subseteq Listed(taken)

\* Once aborted, the call sends no request and takes no row.
AbortStops == [][aborted => pc' # "fetch" /\ taken' = taken]_<<pc, taken>>

\* Every call ends.
CallEnds == <>Settled
=============================================================================
