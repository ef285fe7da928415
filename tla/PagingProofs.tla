----------------------------- MODULE PagingProofs ----------------------------
(***************************************************************************)
(* Theorems about the two ways through a long list: FetchAll, for any      *)
(* lists, options, caps and edits, and SinglePageQuery, for every          *)
(* MAX_SAFE_INTEGER, default size and set of numbers.                      *)
(*                                                                         *)
(* FetchAll: the offset counts the rows taken, so of a list that stays as  *)
(* it is every page continues the rows taken so far (InOrder), or is the   *)
(* same first page again, which is refused (FirstPageOnly).  Of a list     *)
(* that only gains rows, those asked for before the offset have been taken *)
(* (Covered): a row that comes in moves the others towards the end, where  *)
(* the call has yet to look.                                               *)
(*                                                                         *)
(* SinglePageQuery: each property follows from the invariant Paging, which *)
(* says what the options are once a page was asked for; with it, the rest  *)
(* is arithmetic about the one conversion under way.                       *)
(***************************************************************************)
EXTENDS FetchAll, SinglePageQuery, TLAPS, SequenceTheorems

InLoop == pc \in {"fetch", "answered", "yielded"}

\* Where the call is in its loop, and what its offset counts.
Counts ==
  /\ InLoop => ValidOptions /\ page < options.maxPages
  /\ pc = "start" => page = 0 /\ taken = <<>> /\ previous = <<>>
  /\ pc \in {"start", "fetch", "answered"} => offset = options.first + Len(taken)
  /\ pc = "yielded" => offset + Len(answer.rows) = options.first + Len(taken)

Honoured == ~server.ignoresOffset
Unedited == edits = <<>>
Growing  == "remove" \notin Listed(edits)

\* The list a call began with has no row twice, and is the list until an edit.
Began == began \in Lists /\ (Unedited => list = began)

\* The rows taken continue the list from the first offset on.
InOrder ==
  Unedited /\ Honoured =>
    \A i \in 1..Len(taken) :
      options.first + i <= Len(began) /\ taken[i] = began[options.first + i]

\* So does the page that arrived; it is empty, or said to be the last one, only
\* where the list ends.
PageInOrder ==
  Unedited /\ Honoured =>
    /\ pc = "answered" =>
         \A i \in 1..Len(answer.rows) :
           offset + i <= Len(began) /\ answer.rows[i] = began[offset + i]
    /\ pc = "answered" /\ answer.rows = <<>> => offset >= Len(began)
    /\ pc \in {"answered", "yielded"} /\ answer.done =>
         offset + Len(answer.rows) >= Len(began)
    /\ pc = "returned" /\ ~CutShort => options.first + Len(taken) >= Len(began)

\* An endpoint that ignores the offset gets to give its first page once.
FirstPageOnly ==
  Unedited /\ server.ignoresOffset =>
    /\ taken = <<>> \/ taken = PageAt(0)
    /\ pc \in {"start", "fetch", "answered"} => previous = taken
    /\ pc = "answered" => answer.rows = PageAt(0)
    /\ pc = "yielded" => taken = PageAt(0) /\ taken = answer.rows

\* The rows asked for, and those of them that stand before a place of the list.
Asked == Listed(Wanted(began))

Before(n) == {list[j] : j \in {i \in 1..Len(list) : i <= n}} \intersect Asked

\* Of a list that only gains rows no row asked for is behind the call.
Covered ==
  Growing /\ Honoured =>
    /\ Listed(began) \subseteq Listed(list)
    /\ pc \in {"start", "fetch"} => Before(offset) \subseteq Listed(taken)
    /\ pc = "answered" =>
         /\ Before(offset + Len(answer.rows)) \subseteq Listed(taken) \union Listed(answer.rows)
         /\ answer.rows = <<>> \/ answer.done =>
              Asked \subseteq Listed(taken) \union Listed(answer.rows)
    /\ pc = "yielded" =>
         /\ Before(offset + Len(answer.rows)) \subseteq Listed(taken)
         /\ answer.done => Asked \subseteq Listed(taken)
    /\ pc = "returned" /\ ~CutShort => Asked \subseteq Listed(taken)

\* The inductive invariant.
FetchInv ==
  /\ TypeOK /\ Counts /\ Began
  /\ InOrder /\ PageInOrder /\ FirstPageOnly
  /\ Covered

-----------------------------------------------------------------------------
(* Sequences                                                               *)

LEMMA Types ==
  ASSUME TypeOK
  PROVE  /\ list \in Seq(Rows) /\ Len(list) \in Nat
         /\ began \in Seq(Rows) /\ Len(began) \in Nat
         /\ taken \in Seq(Rows) /\ Len(taken) \in Nat /\ previous \in Seq(Rows)
         /\ answer.rows \in Seq(Rows) /\ Len(answer.rows) \in Nat /\ answer.done \in BOOLEAN
         /\ options.first \in Nat /\ options.pageSize \in Nat /\ options.maxPages \in Nat
         /\ options.maxItems \in Nat /\ options.streaming \in BOOLEAN
         /\ offset \in Nat /\ page \in Nat
         /\ server.cap \in Nat /\ server.cap >= 1
         /\ server.ignoresOffset \in BOOLEAN /\ server.tellsLast \in BOOLEAN
<1>1. /\ list \in Seq(Rows) /\ began \in Seq(Rows) /\ taken \in Seq(Rows)
      /\ previous \in Seq(Rows) /\ offset \in Nat
  BY DEF TypeOK
<1>2. answer \in [rows : Seq(Rows), done : BOOLEAN]
  BY DEF TypeOK
<1>3. answer.rows \in Seq(Rows) /\ answer.done \in BOOLEAN
  BY <1>2
<1>4. options \in OptionsType
  BY FetchAllAssumption DEF TypeOK
<1>5. /\ options.first \in Nat /\ options.pageSize \in Nat /\ options.maxPages \in Nat
      /\ options.maxItems \in Nat /\ options.streaming \in BOOLEAN
  BY <1>4 DEF OptionsType
<1>6. page \in Nat
  BY <1>5 DEF TypeOK
<1>7. server.cap \in Caps /\ server.ignoresOffset \in OffsetIgnored
      /\ server.tellsLast \in LastPageKnown
  BY DEF TypeOK
<1>8. server.cap \in Nat /\ server.cap >= 1
  <2>1. Caps \subseteq Nat \ {0}
    BY FetchAllAssumption
  <2>2. server.cap \in Nat \ {0}
    BY <1>7, <2>1, Zenon
  <2> QED
    BY <2>2
<1>9. server.ignoresOffset \in BOOLEAN /\ server.tellsLast \in BOOLEAN
  BY <1>7, FetchAllAssumption
<1>10. /\ Len(list) \in Nat /\ Len(began) \in Nat /\ Len(taken) \in Nat
       /\ Len(answer.rows) \in Nat
  BY <1>1, <1>3, LenProperties
<1> QED
  BY <1>1, <1>3, <1>5, <1>6, <1>8, <1>9, <1>10

\* The part of a list that follows a place in it.
LEMMA PartRows ==
  ASSUME NEW l \in Seq(Rows), NEW a \in Nat, NEW b \in Nat, b <= Len(l)
  PROVE  /\ SubSeq(l, a + 1, b) \in Seq(Rows)
         /\ Len(SubSeq(l, a + 1, b)) = IF a + 1 <= b THEN b - a ELSE 0
         /\ \A i \in 1..Len(SubSeq(l, a + 1, b)) :
              a + i \in 1..Len(l) /\ SubSeq(l, a + 1, b)[i] = l[a + i]
<1>1. Len(l) \in Nat
  BY LenProperties
<1>2. \A i \in a + 1 .. b : l[i] \in Rows
  BY <1>1, ElementOfSeq
<1>3. /\ SubSeq(l, a + 1, b) \in Seq(Rows)
      /\ Len(SubSeq(l, a + 1, b)) = IF a + 1 <= b THEN b - a ELSE 0
      /\ \A i \in 1 .. b - a : SubSeq(l, a + 1, b)[i] = l[a + i]
  BY <1>1, <1>2, SubSeqProperties
<1> QED
  BY <1>1, <1>3

\* A page is the part of the list that follows an offset, and is empty only at
\* the end of the list.
LEMMA PageRows ==
  ASSUME TypeOK, NEW from \in Nat
  PROVE  /\ PageAt(from) \in Seq(Rows)
         /\ Len(PageAt(from)) \in Nat
         /\ \A i \in 1..Len(PageAt(from)) :
              from + i \in 1..Len(list) /\ PageAt(from)[i] = list[from + i]
         /\ ValidOptions /\ PageAt(from) = <<>> => from >= Len(list)
         /\ Hint(from) => from + Len(PageAt(from)) >= Len(list)
<1> DEFINE size == Smaller(options.pageSize, server.cap)
           n == Smaller(from + size, Len(list))
<1>1. size \in Nat /\ (ValidOptions => size >= 1)
  BY Types DEF Smaller, ValidOptions
<1>2. PageAt(from) = SubSeq(list, from + 1, n)
  BY DEF PageAt
<1> HIDE DEF size
<1>3. Len(list) \in Nat /\ list \in Seq(Rows)
  BY Types
<1>4. n \in Nat /\ n <= Len(list) /\ (ValidOptions /\ n <= from => from >= Len(list))
  BY <1>1, <1>3 DEF Smaller
<1> HIDE DEF n
<1>5. /\ PageAt(from) \in Seq(Rows)
      /\ Len(PageAt(from)) = IF from + 1 <= n THEN n - from ELSE 0
      /\ \A i \in 1..Len(PageAt(from)) :
           from + i \in 1..Len(list) /\ PageAt(from)[i] = list[from + i]
  BY <1>2, <1>3, <1>4, PartRows
<1>6. PageAt(from) = <<>> => n <= from
  BY <1>4, <1>5
<1>7. Hint(from) => from + Len(PageAt(from)) >= Len(list)
  BY DEF Hint
<1>8. Len(PageAt(from)) \in Nat
  BY <1>5, LenProperties
<1> QED
  BY <1>4, <1>5, <1>6, <1>7, <1>8

LEMMA WantedRows ==
  ASSUME TypeOK
  PROVE  /\ Wanted(began) \in Seq(Rows)
         /\ Len(Wanted(began)) =
              IF options.first + 1 <= Len(began) THEN Len(began) - options.first ELSE 0
         /\ \A i \in 1..Len(Wanted(began)) :
              /\ options.first + i \in 1..Len(began)
              /\ Wanted(began)[i] = began[options.first + i]
<1>1. /\ began \in Seq(Rows) /\ options.first \in Nat
      /\ Len(began) \in Nat /\ Len(began) <= Len(began)
  BY Types
<1>2. Wanted(began) = SubSeq(began, options.first + 1, Len(began))
  BY DEF Wanted
<1>3. LET w == SubSeq(began, options.first + 1, Len(began))
      IN  /\ w \in Seq(Rows)
          /\ Len(w) = IF options.first + 1 <= Len(began) THEN Len(began) - options.first ELSE 0
          /\ \A i \in 1..Len(w) :
               options.first + i \in 1..Len(began) /\ w[i] = began[options.first + i]
  BY <1>1, PartRows
<1> QED
  BY <1>2, <1>3, Zenon

\* Rows appended are listed with those that were there.
LEMMA ListedConcat ==
  ASSUME NEW s \in Seq(Rows), NEW t \in Seq(Rows)
  PROVE  Listed(s \o t) = Listed(s) \union Listed(t)
<1>1. Len(s) \in Nat /\ Len(t) \in Nat
  BY LenProperties
<1>2. ASSUME NEW x \in Listed(t) PROVE x \in Listed(s \o t)
  <2>1. PICK i \in 1..Len(t) : x = t[i]
    BY <1>2 DEF Listed
  <2>2. (s \o t)[Len(s) + i] = x /\ Len(s) + i \in 1..Len(s \o t)
    BY <1>1, <2>1, ConcatProperties
  <2> QED
    BY <2>2 DEF Listed
<1>3. ASSUME NEW x \in Listed(s) PROVE x \in Listed(s \o t)
  <2>1. PICK i \in 1..Len(s) : x = s[i]
    BY <1>3 DEF Listed
  <2>2. (s \o t)[i] = x /\ i \in 1..Len(s \o t)
    BY <1>1, <2>1, ConcatProperties
  <2> QED
    BY <2>2 DEF Listed
<1>4. ASSUME NEW x \in Listed(s \o t) PROVE x \in Listed(s) \union Listed(t)
  <2>1. PICK i \in 1..Len(s) + Len(t) : x = (s \o t)[i]
    BY <1>4, ConcatProperties DEF Listed
  <2>2. CASE i <= Len(s)
    BY <1>1, <2>1, <2>2, ConcatProperties DEF Listed
  <2>3. CASE i > Len(s)
    <3>1. x = t[i - Len(s)] /\ i - Len(s) \in 1..Len(t)
      BY <1>1, <2>1, <2>3, ConcatProperties
    <3> QED
      BY <3>1 DEF Listed
  <2> QED
    BY <1>1, <2>2, <2>3
<1> QED
  BY <1>2, <1>3, <1>4

\* A row that comes in is listed where it was put, and moves those behind it.
LEMMA InsertedRows ==
  ASSUME NEW l \in Seq(Rows), NEW k \in 0..Len(l), NEW row \in Rows
  PROVE  /\ InsertedAt(l, k, row) \in Seq(Rows)
         /\ Len(InsertedAt(l, k, row)) = Len(l) + 1
         /\ \A i \in 1..Len(l) + 1 : InsertedAt(l, k, row)[i] =
              IF i <= k THEN l[i] ELSE IF i = k + 1 THEN row ELSE l[i - 1]
<1> DEFINE s == SubSeq(l, 1, k)
           t == SubSeq(l, k + 1, Len(l))
<1>1. Len(l) \in Nat /\ k \in Nat /\ \A i \in 1..Len(l) : l[i] \in Rows
  BY LenProperties, ElementOfSeq
<1>2. s \in Seq(Rows) /\ Len(s) = k /\ \A i \in 1..k : s[i] = l[i]
  BY <1>1, SubSeqProperties
<1>3. /\ t \in Seq(Rows) /\ Len(t) = Len(l) - k
      /\ \A i \in 1..Len(l) - k : t[i] = l[k + i]
  <2>1. \A i \in k + 1 .. Len(l) : l[i] \in Rows
    BY <1>1
  <2> QED
    BY <1>1, <2>1, SubSeqProperties
<1>4. <<row>> \in Seq(Rows) /\ Len(<<row>>) = 1 /\ <<row>>[1] = row
  OBVIOUS
<1> HIDE DEF s, t
<1>5. /\ s \o <<row>> \in Seq(Rows) /\ Len(s \o <<row>>) = k + 1
      /\ \A i \in 1..k + 1 : (s \o <<row>>)[i] = IF i <= k THEN l[i] ELSE row
  <2>1. /\ s \o <<row>> \in Seq(Rows) /\ Len(s \o <<row>>) = k + 1
        /\ \A i \in 1..k + 1 : (s \o <<row>>)[i] =
             IF i <= k THEN s[i] ELSE <<row>>[i - k]
    BY <1>1, <1>2, <1>4, ConcatProperties
  <2> QED
    BY <1>1, <1>2, <1>4, <2>1
<1> DEFINE h == s \o <<row>>
           u == h \o t
<1>6. /\ u \in Seq(Rows) /\ Len(u) = Len(l) + 1
      /\ \A i \in 1..Len(l) + 1 : u[i] = IF i <= k + 1 THEN h[i] ELSE t[i - (k + 1)]
  BY <1>1, <1>3, <1>5, ConcatProperties
<1>7. InsertedAt(l, k, row) = u
  BY DEF InsertedAt, s, t
<1>9. \A i \in 1..k + 1 : h[i] = IF i <= k THEN l[i] ELSE row
  BY <1>5
<1> HIDE DEF h, u
<1>8. ASSUME NEW i \in 1..Len(l) + 1
      PROVE  u[i] =
               IF i <= k THEN l[i] ELSE IF i = k + 1 THEN row ELSE l[i - 1]
  <2>1. CASE i <= k + 1
    BY <1>1, <1>6, <1>9, <2>1
  <2>2. CASE i > k + 1
    <3>1. u[i] = t[i - (k + 1)]
      BY <1>1, <1>6, <2>2
    <3>2. i - (k + 1) \in 1..Len(l) - k /\ k + (i - (k + 1)) = i - 1
      BY <1>1, <2>2
    <3>3. t[i - (k + 1)] = l[i - 1]
      BY <1>3, <3>2
    <3> QED
      BY <1>1, <2>2, <3>1, <3>3
  <2> QED
    BY <1>1, <2>1, <2>2
<1> QED
  BY <1>6, <1>7, <1>8

LEMMA RemovedRows ==
  ASSUME NEW l \in Seq(Rows), NEW k \in 1..Len(l)
  PROVE  RemovedAt(l, k) \in Seq(Rows)
<1>1. Len(l) \in Nat /\ \A i \in 1..Len(l) : l[i] \in Rows
  BY LenProperties, ElementOfSeq
<1>2. SubSeq(l, 1, k - 1) \in Seq(Rows) /\ SubSeq(l, k + 1, Len(l)) \in Seq(Rows)
  BY <1>1, SubSeqProperties
<1> QED
  BY <1>2, ConcatProperties DEF RemovedAt

-----------------------------------------------------------------------------
(* What depends on the list and the options only                           *)

LEMMA Unmoved ==
  ASSUME UNCHANGED <<list, began, edits, server, options>>
  PROVE  /\ Asked' = Asked /\ Unedited' = Unedited /\ Growing' = Growing
         /\ Honoured' = Honoured /\ ValidOptions' = ValidOptions
         /\ PageAt(0)' = PageAt(0)
         /\ \A n : Before(n)' = Before(n)
  BY DEF Asked, Wanted, Unedited, Growing, Honoured, ValidOptions, PageAt, Before

LEMMA EmptyListed == Listed(<<>>) = {}
  BY DEF Listed

-----------------------------------------------------------------------------
(* Steps that only settle the call, or enter the loop                      *)

LEMMA InitFetch == Init => FetchInv
<1> SUFFICES ASSUME Init PROVE FetchInv
  OBVIOUS
<1>1. /\ began \in Lists /\ list = began /\ began \in Seq(Rows) /\ Distinct(began)
      /\ edits = <<>> /\ taken = <<>> /\ previous = <<>> /\ page = 0 /\ pc = "start"
      /\ offset = options.first /\ options \in OptionsType
  BY FetchAllAssumption DEF Init
<1>2. /\ options.first \in Nat /\ options.maxPages \in Nat /\ options.maxItems \in Nat
      /\ MaxEdits \in Nat
  BY <1>1, FetchAllAssumption DEF OptionsType
<1>3. TypeOK
  <2>1. /\ <<>> \in Seq(Rows) /\ Len(<<>>) = 0 /\ <<>> \in Seq(EditKinds)
        /\ page \in 0..options.maxPages
    BY <1>1, <1>2, EmptySeq
  <2>2. answer \in [rows : Seq(Rows), done : BOOLEAN]
    BY <2>1 DEF Init
  <2> QED
    BY <1>1, <1>2, <2>1, <2>2 DEF Init, TypeOK, Outcomes
<1>4. Counts /\ Began
  BY <1>1, <1>2 DEF Counts, Began, InLoop
<1>5. InOrder /\ PageInOrder /\ FirstPageOnly
  BY <1>1 DEF InOrder, PageInOrder, FirstPageOnly
<1>6. Before(offset) = {}
  <2> SUFFICES ASSUME NEW x \in Before(offset) PROVE FALSE
    OBVIOUS
  <2>1. PICK j \in 1..Len(began) : j <= options.first /\ x = began[j]
    BY <1>1 DEF Before
  <2>2. PICK i \in 1..Len(Wanted(began)) : x = Wanted(began)[i]
    BY DEF Before, Asked, Listed
  <2>3. options.first + i \in 1..Len(began) /\ x = began[options.first + i]
    BY <1>3, <2>2, WantedRows
  <2>4. j = options.first + i
    BY <1>1, <2>1, <2>3 DEF Distinct
  <2>5. Len(Wanted(began)) \in Nat
    BY <1>3, WantedRows, LenProperties
  <2> QED
    BY <1>2, <2>1, <2>2, <2>4, <2>5
<1>7. Covered
  BY <1>1, <1>6 DEF Covered
<1> QED
  BY <1>3, <1>4, <1>5, <1>7 DEF FetchInv

LEMMA SettlesFetch ==
  ASSUME FetchInv, NEW outcome \in Outcomes \union {"fetch"}, Settles(outcome),
         outcome = "fetch" => pc = "start" /\ ValidOptions /\ page < options.maxPages,
         outcome = "returned" => CutShort \/ (pc = "answered" /\ answer.rows = <<>>)
  PROVE  FetchInv'
<1>1. /\ pc' = outcome
      /\ UNCHANGED <<list, began, edits, server, options, offset, page, taken, previous,
                     answer, aborted>>
  BY DEF Settles
<1>2. /\ Asked' = Asked /\ Unedited' = Unedited /\ Growing' = Growing
      /\ Honoured' = Honoured /\ ValidOptions' = ValidOptions /\ PageAt(0)' = PageAt(0)
      /\ \A n : Before(n)' = Before(n)
  BY <1>1, Unmoved
<1>3. /\ pc' # "answered" /\ pc' # "yielded" /\ pc' # "start"
      /\ pc' = "fetch" => pc = "start"
  BY <1>1 DEF Outcomes
<1>4. TypeOK'
  BY <1>1 DEF FetchInv, TypeOK
<1>5. Counts'
  BY <1>1, <1>2, <1>3 DEF FetchInv, Counts, InLoop
<1>6. Began' /\ InOrder'
  BY <1>1, <1>2 DEF FetchInv, Began, InOrder
<1>7. PageInOrder'
  <2>1. options.first \in Nat /\ Len(taken) \in Nat /\ Len(began) \in Nat
    BY Types DEF FetchInv
  <2> QED
    BY <1>1, <1>2, <1>3, <2>1 DEF FetchInv, PageInOrder, Counts, CutShort
<1>8. FirstPageOnly'
  BY <1>1, <1>2, <1>3 DEF FetchInv, FirstPageOnly
<1>9. Covered'
  <2>1. Before(offset)' = Before(offset)
    BY <1>1, <1>2 DEF Before
  <2> QED
    BY <1>1, <1>2, <1>3, <2>1, EmptyListed DEF FetchInv, Covered, CutShort
<1> QED
  BY <1>4, <1>5, <1>6, <1>7, <1>8, <1>9 DEF FetchInv

LEMMA BeginsFetch == ASSUME FetchInv, Begins PROVE FetchInv'
<1>1. pc = "start" /\ page = 0 /\ Len(taken) = 0 /\ options.maxPages \in Nat
  BY Types DEF Begins, FetchInv, Counts
<1>2. \/ Settles("invalid") \/ Settles("aborted") \/ Settles("maxPages")
      \/ Settles("returned") /\ options.maxItems = 0
      \/ Settles("fetch") /\ ValidOptions /\ page < options.maxPages
  BY <1>1 DEF Begins, LoopHead
<1>3. CASE Settles("invalid") \/ Settles("aborted") \/ Settles("maxPages")
  BY <1>3, SettlesFetch DEF Outcomes
<1>4. CASE Settles("returned") /\ options.maxItems = 0
  <2>1. CutShort
    BY <1>1, <1>4 DEF CutShort
  <2> QED
    BY <1>4, <2>1, SettlesFetch DEF Outcomes
<1>5. CASE Settles("fetch") /\ ValidOptions /\ page < options.maxPages
  BY <1>1, <1>5, SettlesFetch
<1> QED
  BY <1>2, <1>3, <1>4, <1>5

LEMMA EndsFetch ==
  ASSUME FetchInv, RequestFails \/ Aborts \/ Ends \/ Rejects \/ Leaves
  PROVE  FetchInv'
  BY SettlesFetch DEF RequestFails, Aborts, Ends, Arrived, Rejects, Leaves, Outcomes

-----------------------------------------------------------------------------
(* A page arrives                                                          *)

LEMMA AnswersFetch == ASSUME FetchInv, Answers PROVE FetchInv'
<1> DEFINE from == IF server.ignoresOffset THEN 0 ELSE offset
<1>1. /\ pc = "fetch" /\ pc' = "answered"
      /\ answer' = [rows |-> PageAt(from), done |-> Hint(from)]
      /\ UNCHANGED <<list, began, edits, server, options, offset, page, taken, previous,
                     aborted>>
  BY DEF Answers
<1>2. from \in Nat /\ offset \in Nat /\ Hint(from) \in BOOLEAN
  BY Types DEF FetchInv, Hint
<1> HIDE DEF from
<1>3. /\ PageAt(from) \in Seq(Rows)
      /\ Len(PageAt(from)) \in Nat
      /\ \A i \in 1..Len(PageAt(from)) :
           from + i \in 1..Len(list) /\ PageAt(from)[i] = list[from + i]
      /\ ValidOptions /\ PageAt(from) = <<>> => from >= Len(list)
      /\ Hint(from) => from + Len(PageAt(from)) >= Len(list)
  BY <1>2, PageRows DEF FetchInv
<1>4. answer'.rows = PageAt(from) /\ answer'.done = Hint(from)
  BY <1>1
<1>5. answer' \in [rows : Seq(Rows), done : BOOLEAN]
  BY <1>1, <1>2, <1>3
<1>6. /\ Asked' = Asked /\ Unedited' = Unedited /\ Growing' = Growing
      /\ Honoured' = Honoured /\ ValidOptions' = ValidOptions /\ PageAt(0)' = PageAt(0)
      /\ \A n : Before(n)' = Before(n)
  BY <1>1, Unmoved
<1>7. TypeOK'
  BY <1>1, <1>5 DEF FetchInv, TypeOK
<1>8. Counts' /\ Began' /\ InOrder'
  BY <1>1, <1>6 DEF FetchInv, Counts, InLoop, Began, InOrder
<1>9. ValidOptions
  BY <1>1 DEF FetchInv, Counts, InLoop
<1>10. ASSUME Honoured PROVE from = offset
  BY <1>10 DEF Honoured, from
<1>11. PageInOrder'
  <2> SUFFICES ASSUME Unedited, Honoured
               PROVE /\ \A i \in 1..Len(answer'.rows) :
                          offset + i <= Len(began) /\ answer'.rows[i] = began[offset + i]
                     /\ answer'.rows = <<>> => offset >= Len(began)
                     /\ answer'.done => offset + Len(answer'.rows) >= Len(began)
    BY <1>1, <1>6 DEF PageInOrder
  <2>1. list = began /\ Len(list) \in Nat
    BY Types DEF FetchInv, Began
  <2> QED
    BY <1>2, <1>3, <1>4, <1>9, <1>10, <2>1
<1>12. FirstPageOnly'
  <2>1. ASSUME server.ignoresOffset PROVE from = 0
    BY <2>1 DEF from
  <2> QED
    BY <1>1, <1>4, <1>6, <2>1 DEF FetchInv, FirstPageOnly
<1>13. Covered'
  <2> SUFFICES ASSUME Growing, Honoured
               PROVE /\ Listed(began) \subseteq Listed(list)
                     /\ Before(offset + Len(answer'.rows))
                          \subseteq Listed(taken) \union Listed(answer'.rows)
                     /\ answer'.rows = <<>> \/ answer'.done =>
                          Asked \subseteq Listed(taken) \union Listed(answer'.rows)
    <3>1. Before(offset + Len(answer.rows))' = Before(offset + Len(answer'.rows))
      BY <1>1, <1>6 DEF Before
    <3> QED
      BY <1>1, <1>6, <3>1 DEF Covered
  <2>1. from = offset /\ Len(list) \in Nat
    BY <1>10, Types DEF FetchInv
  <2>2. Listed(began) \subseteq Listed(list) /\ Before(offset) \subseteq Listed(taken)
    BY <1>1 DEF FetchInv, Covered
  <2>3. ASSUME NEW j \in 1..Len(list), j <= offset + Len(answer'.rows), list[j] \in Asked
        PROVE  list[j] \in Listed(taken) \union Listed(answer'.rows)
    <3>1. CASE j <= offset
      BY <2>2, <2>3, <3>1 DEF Before
    <3>2. CASE j > offset
      <4>1. j - offset \in 1..Len(answer'.rows)
        BY <1>2, <1>3, <1>4, <2>1, <2>3, <3>2
      <4>2. answer'.rows[j - offset] = list[j]
        BY <1>2, <1>3, <1>4, <2>1, <4>1
      <4> QED
        BY <4>1, <4>2 DEF Listed
    <3> QED
      BY <1>2, <2>1, <3>1, <3>2
  <2>4. ASSUME answer'.rows = <<>> \/ answer'.done
        PROVE  Len(list) <= offset + Len(answer'.rows)
    BY <1>2, <1>3, <1>4, <1>9, <2>1, <2>4
  <2>5. Asked \subseteq Listed(list)
    <3> SUFFICES ASSUME NEW x \in Asked PROVE x \in Listed(began)
      BY <2>2
    <3>1. PICK i \in 1..Len(Wanted(began)) : x = Wanted(began)[i]
      BY DEF Asked, Listed
    <3> QED
      BY <3>1, WantedRows DEF FetchInv, Listed
  <2>6. ASSUME answer'.rows = <<>> \/ answer'.done
        PROVE  Asked \subseteq Listed(taken) \union Listed(answer'.rows)
    <3> SUFFICES ASSUME NEW x \in Asked PROVE x \in Listed(taken) \union Listed(answer'.rows)
      OBVIOUS
    <3>1. PICK j \in 1..Len(list) : x = list[j]
      BY <2>5 DEF Listed
    <3>2. j <= offset + Len(answer'.rows)
      BY <1>2, <1>3, <1>4, <2>1, <2>4, <2>6
    <3> QED
      BY <2>3, <3>1, <3>2
  <2>7. Before(offset + Len(answer'.rows)) \subseteq Listed(taken) \union Listed(answer'.rows)
    BY <2>3 DEF Before
  <2> QED
    BY <2>2, <2>6, <2>7
<1> QED
  BY <1>7, <1>8, <1>11, <1>12, <1>13 DEF FetchInv

-----------------------------------------------------------------------------
(* A page is taken                                                         *)

\* What is true when the rows taken are "rows", and the offset is still that of
\* the last page among them.
AfterPage(rows) ==
  /\ rows \in Seq(Rows) /\ Len(rows) <= options.maxItems
  /\ ValidOptions /\ page < options.maxPages
  /\ offset + Len(answer.rows) = options.first + Len(rows)
  /\ Unedited /\ Honoured =>
       /\ \A i \in 1..Len(rows) :
            options.first + i <= Len(began) /\ rows[i] = began[options.first + i]
       /\ answer.done => offset + Len(answer.rows) >= Len(began)
  /\ Unedited /\ server.ignoresOffset => rows = PageAt(0) /\ rows = answer.rows
  /\ Growing /\ Honoured =>
       /\ Listed(began) \subseteq Listed(list)
       /\ Before(offset + Len(answer.rows)) \subseteq Listed(rows)
       /\ answer.done => Asked \subseteq Listed(rows)

\* A page that is neither repeated nor too long continues the rows taken.
LEMMA ArrivedPage ==
  ASSUME FetchInv, Arrived, answer.rows # <<>>, ~Repeated, FitsMaxItems
  PROVE  AfterPage(taken \o answer.rows)
<1> DEFINE rows == taken \o answer.rows
<1>1. /\ pc = "answered" /\ taken \in Seq(Rows) /\ answer.rows \in Seq(Rows)
      /\ Len(taken) \in Nat /\ Len(answer.rows) \in Nat /\ Len(began) \in Nat
      /\ offset \in Nat /\ options.first \in Nat /\ options.maxItems \in Nat
  BY Types DEF Arrived, FetchInv
<1>2. /\ rows \in Seq(Rows) /\ Len(rows) = Len(taken) + Len(answer.rows)
      /\ \A i \in 1..Len(taken) + Len(answer.rows) :
           rows[i] = IF i <= Len(taken) THEN taken[i] ELSE answer.rows[i - Len(taken)]
  BY <1>1, ConcatProperties
<1>3. Listed(rows) = Listed(taken) \union Listed(answer.rows)
  BY <1>1, ListedConcat
<1>4. taken = <<>> => rows = answer.rows
  BY <1>1, ConcatEmptySeq
<1> HIDE DEF rows
<1>5. /\ Len(rows) <= options.maxItems /\ ValidOptions /\ page < options.maxPages
      /\ offset = options.first + Len(taken)
      /\ offset + Len(answer.rows) = options.first + Len(rows)
  <2>1. /\ ValidOptions /\ page < options.maxPages /\ offset = options.first + Len(taken)
        /\ Len(taken) + Len(answer.rows) <= options.maxItems
    BY <1>1 DEF FitsMaxItems, FetchInv, Counts, InLoop
  <2> QED
    BY <1>1, <1>2, <2>1
<1>6. ASSUME Unedited, Honoured, NEW i \in 1..Len(rows)
      PROVE  options.first + i <= Len(began) /\ rows[i] = began[options.first + i]
  <2>1. CASE i <= Len(taken)
    BY <1>1, <1>2, <1>6, <2>1 DEF FetchInv, InOrder
  <2>2. CASE i > Len(taken)
    <3>1. i - Len(taken) \in 1..Len(answer.rows) /\ rows[i] = answer.rows[i - Len(taken)]
      BY <1>1, <1>2, <2>2, SMTT(30)
    <3>2. /\ offset + (i - Len(taken)) <= Len(began)
          /\ answer.rows[i - Len(taken)] = began[offset + (i - Len(taken))]
      BY <1>1, <1>6, <3>1 DEF FetchInv, PageInOrder
    <3>3. offset + (i - Len(taken)) = options.first + i
      BY <1>1, <1>2, <1>5
    <3> QED
      BY <3>1, <3>2, <3>3
  <2> QED
    BY <1>1, <1>2, <2>1, <2>2
<1>7. ASSUME Unedited, Honoured, answer.done
      PROVE  offset + Len(answer.rows) >= Len(began)
  BY <1>1, <1>7 DEF FetchInv, PageInOrder
<1>8. ASSUME Unedited, server.ignoresOffset PROVE rows = PageAt(0) /\ rows = answer.rows
  <2>1. answer.rows = PageAt(0) /\ previous = taken /\ (taken = <<>> \/ taken = PageAt(0))
    BY <1>1, <1>8 DEF FetchInv, FirstPageOnly
  <2>2. taken = <<>>
    BY <2>1 DEF Repeated
  <2> QED
    BY <1>4, <2>1, <2>2
<1>9. Growing /\ Honoured =>
        /\ Listed(began) \subseteq Listed(list)
        /\ Before(offset + Len(answer.rows)) \subseteq Listed(rows)
        /\ answer.done => Asked \subseteq Listed(rows)
  BY <1>1, <1>3 DEF FetchInv, Covered
<1>10. AfterPage(rows)
  BY <1>2, <1>5, <1>6, <1>7, <1>8, <1>9 DEF AfterPage
<1> QED
  BY <1>10 DEF rows

LEMMA YieldedPage == ASSUME FetchInv, pc = "yielded" PROVE AfterPage(taken)
<1>1. taken \in Seq(Rows) /\ Len(taken) <= options.maxItems
  BY DEF FetchInv, TypeOK
<1>2. /\ ValidOptions /\ page < options.maxPages
      /\ offset + Len(answer.rows) = options.first + Len(taken)
  BY DEF FetchInv, Counts, InLoop
<1>3. Unedited /\ Honoured =>
        /\ \A i \in 1..Len(taken) :
             options.first + i <= Len(began) /\ taken[i] = began[options.first + i]
        /\ answer.done => offset + Len(answer.rows) >= Len(began)
  BY DEF FetchInv, InOrder, PageInOrder
<1>4. Unedited /\ server.ignoresOffset => taken = PageAt(0) /\ taken = answer.rows
  BY DEF FetchInv, FirstPageOnly
<1>5. Growing /\ Honoured =>
        /\ Listed(began) \subseteq Listed(list)
        /\ Before(offset + Len(answer.rows)) \subseteq Listed(taken)
        /\ answer.done => Asked \subseteq Listed(taken)
  BY DEF FetchInv, Covered
<1> QED
  BY <1>1, <1>2, <1>3, <1>4, <1>5 DEF AfterPage

\* The page is handed to the consumer.
LEMMA YieldsFetch ==
  ASSUME FetchInv, AfterPage(taken'), pc' = "yielded",
         UNCHANGED <<list, began, edits, server, options, offset, page, previous, answer, aborted>>
  PROVE  FetchInv'
<1>1. /\ Asked' = Asked /\ Unedited' = Unedited /\ Growing' = Growing
      /\ Honoured' = Honoured /\ ValidOptions' = ValidOptions /\ PageAt(0)' = PageAt(0)
      /\ \A n : Before(n)' = Before(n)
  BY Unmoved
<1>2. TypeOK'
  BY DEF FetchInv, TypeOK, AfterPage
<1>3. Counts' /\ Began'
  BY <1>1 DEF FetchInv, Counts, Began, InLoop, AfterPage
<1>4. InOrder' /\ PageInOrder' /\ FirstPageOnly'
  BY <1>1 DEF InOrder, PageInOrder, FirstPageOnly, AfterPage
<1>5. Covered'
  <2>1. Before(offset + Len(answer.rows))' = Before(offset + Len(answer.rows))
    BY <1>1 DEF Before
  <2> QED
    BY <1>1, <2>1 DEF Covered, AfterPage
<1> QED
  BY <1>2, <1>3, <1>4, <1>5 DEF FetchInv

\* The call ends with the page, or the offset moves on behind it.
LEMMA GoesOnFetch ==
  ASSUME FetchInv, AfterPage(taken'), GoesOn(taken'),
         UNCHANGED <<list, began, edits, server, options, answer, aborted>>
  PROVE  FetchInv'
<1>1. /\ Asked' = Asked /\ Unedited' = Unedited /\ Growing' = Growing
      /\ Honoured' = Honoured /\ ValidOptions' = ValidOptions /\ PageAt(0)' = PageAt(0)
      /\ \A n : Before(n)' = Before(n)
  BY Unmoved
<1>2. /\ offset \in Nat /\ page \in Nat /\ options.maxPages \in Nat
      /\ Len(answer.rows) \in Nat /\ answer.rows \in Seq(Rows)
  BY Types DEF FetchInv
<1>3. CASE answer.done \/ Len(taken') = options.maxItems
  <2>1. pc' = "returned" /\ UNCHANGED <<offset, page, previous>>
    BY <1>3 DEF GoesOn
  <2>2. TypeOK'
    BY <2>1 DEF FetchInv, TypeOK, AfterPage, Outcomes
  <2>3. Counts' /\ Began'
    BY <1>1, <2>1 DEF FetchInv, Counts, Began, InLoop
  <2>4. InOrder' /\ PageInOrder' /\ FirstPageOnly'
    BY <1>1, <1>3, <2>1 DEF InOrder, PageInOrder, FirstPageOnly, AfterPage, CutShort
  <2>5. Covered'
    BY <1>1, <1>3, <2>1 DEF Covered, AfterPage, CutShort
  <2> QED
    BY <2>2, <2>3, <2>4, <2>5 DEF FetchInv
<1>4. CASE ~(answer.done \/ Len(taken') = options.maxItems)
  <2>1. /\ pc' = LoopHead(page + 1) /\ offset' = offset + Len(answer.rows)
        /\ page' = page + 1 /\ previous' = answer.rows
    BY <1>4 DEF GoesOn, OffsetByRows
  <2>2. /\ pc' \in {"maxPages", "aborted", "fetch"}
        /\ pc' = "fetch" => page + 1 < options.maxPages
    BY <1>2, <2>1 DEF LoopHead
  <2>3. page + 1 \in 0..options.maxPages
    BY <1>2 DEF AfterPage
  <2>4. TypeOK'
    BY <1>2, <2>1, <2>2, <2>3 DEF FetchInv, TypeOK, AfterPage, Outcomes
  <2>5. Counts' /\ Began'
    BY <1>1, <2>1, <2>2 DEF FetchInv, Counts, Began, InLoop, AfterPage
  <2>6. InOrder' /\ PageInOrder' /\ FirstPageOnly'
    BY <1>1, <2>1, <2>2 DEF InOrder, PageInOrder, FirstPageOnly, AfterPage
  <2>7. Covered'
    <3>1. Before(offset)' = Before(offset + Len(answer.rows))
      BY <1>1, <2>1 DEF Before
    <3> QED
      BY <1>1, <2>2, <3>1 DEF Covered, AfterPage
  <2> QED
    BY <2>4, <2>5, <2>6, <2>7 DEF FetchInv
<1> QED
  BY <1>3, <1>4

LEMMA TakesFetch == ASSUME FetchInv, Takes \/ Resumes PROVE FetchInv'
<1>1. CASE Takes
  <2>1. taken' = taken \o answer.rows /\ AfterPage(taken')
    BY <1>1, ArrivedPage DEF Takes
  <2>2. UNCHANGED <<list, began, edits, server, options, answer, aborted>>
    BY <1>1 DEF Takes
  <2>3. CASE options.streaming
    BY <1>1, <2>1, <2>2, <2>3, YieldsFetch DEF Takes
  <2>4. CASE ~options.streaming
    <3>1. GoesOn(taken')
      BY <1>1, <2>1, <2>4 DEF Takes
    <3> QED
      BY <2>1, <2>2, <3>1, GoesOnFetch
  <2> QED
    BY <2>3, <2>4
<1>2. CASE Resumes
  <2>1. taken' = taken /\ AfterPage(taken') /\ GoesOn(taken')
    BY <1>2, YieldedPage DEF Resumes
  <2> QED
    BY <1>2, <2>1, GoesOnFetch DEF Resumes
<1> QED
  BY <1>1, <1>2

-----------------------------------------------------------------------------
(* Everyone else                                                           *)

LEMMA AbortFetch == ASSUME FetchInv, Abort \/ UNCHANGED vars PROVE FetchInv'
<1>1. UNCHANGED <<list, began, edits, server, options, pc, offset, page, taken, previous, answer>>
  BY DEF Abort, call, vars
<1>2. /\ Asked' = Asked /\ Unedited' = Unedited /\ Growing' = Growing
      /\ Honoured' = Honoured /\ ValidOptions' = ValidOptions /\ PageAt(0)' = PageAt(0)
      /\ \A n : Before(n)' = Before(n)
  BY <1>1, Unmoved
<1>3. TypeOK'
  BY <1>1 DEF FetchInv, TypeOK, Abort, vars
<1>4. Counts' /\ Began' /\ InOrder' /\ PageInOrder' /\ FirstPageOnly'
  BY <1>1, <1>2 DEF FetchInv, Counts, InLoop, Began, InOrder, PageInOrder, FirstPageOnly, CutShort
<1>5. Covered'
  <2>1. /\ Before(offset)' = Before(offset)
        /\ Before(offset + Len(answer.rows))' = Before(offset + Len(answer.rows))
    BY <1>1, <1>2 DEF Before
  <2> QED
    BY <1>1, <1>2, <2>1 DEF FetchInv, Covered, CutShort
<1> QED
  BY <1>3, <1>4, <1>5 DEF FetchInv

\* A row that comes in is none of those asked for, and moves none of them to a
\* place before the one it had.
LEMMA InsertCovers ==
  ASSUME FetchInv, NEW row \in Rows \ (Listed(list) \union Listed(began)),
         NEW k \in 0..Len(list), list' = InsertedAt(list, k, row),
         UNCHANGED <<began, options>>, NEW n \in Nat
  PROVE  /\ Asked' = Asked
         /\ Before(n)' \subseteq Before(n)
         /\ Listed(list) \subseteq Listed(list')
<1>1. list \in Seq(Rows) /\ Len(list) \in Nat /\ k \in Nat /\ k <= Len(list)
  <2>1. TypeOK
    BY DEF FetchInv
  <2>2. list \in Seq(Rows) /\ Len(list) \in Nat
    BY <2>1, Types
  <2> QED
    BY <2>2
<1>2. /\ Len(list') = Len(list) + 1
      /\ \A i \in 1..Len(list) + 1 : list'[i] =
           IF i <= k THEN list[i] ELSE IF i = k + 1 THEN row ELSE list[i - 1]
  <2>1. row \in Rows
    OBVIOUS
  <2>2. /\ Len(InsertedAt(list, k, row)) = Len(list) + 1
        /\ \A i \in 1..Len(list) + 1 : InsertedAt(list, k, row)[i] =
             IF i <= k THEN list[i] ELSE IF i = k + 1 THEN row ELSE list[i - 1]
    BY <1>1, <2>1, InsertedRows, ZenonT(60)
  <2> QED
    BY <2>2
<1>3. Asked' = Asked
  BY DEF Asked, Wanted
<1>4. row \notin Asked
  <2> SUFFICES ASSUME row \in Asked PROVE FALSE
    OBVIOUS
  <2>1. PICK i \in 1..Len(Wanted(began)) : row = Wanted(began)[i]
    BY DEF Asked, Listed
  <2> QED
    BY <2>1, WantedRows DEF FetchInv, Listed
<1>5. ASSUME NEW x \in Before(n)' PROVE x \in Before(n)
  <2>1. PICK j \in 1..Len(list) + 1 : j <= n /\ x = list'[j] /\ x \in Asked
    BY <1>2, <1>3, <1>5 DEF Before
  <2>2. CASE j <= k
    BY <1>1, <1>2, <2>1, <2>2 DEF Before
  <2>3. CASE j = k + 1
    BY <1>1, <1>2, <1>4, <2>1, <2>3
  <2>4. CASE j > k + 1
    <3>1. x = list[j - 1] /\ j - 1 \in 1..Len(list) /\ j - 1 <= n
      BY <1>1, <1>2, <2>1, <2>4
    <3> QED
      BY <2>1, <3>1 DEF Before
  <2> QED
    BY <1>1, <2>1, <2>2, <2>3, <2>4
<1>6. ASSUME NEW x \in Listed(list) PROVE x \in Listed(list')
  <2>1. PICK j \in 1..Len(list) : x = list[j]
    BY <1>6 DEF Listed
  <2>2. CASE j <= k
    <3>1. list'[j] = x /\ j \in 1..Len(list')
      BY <1>1, <1>2, <2>1, <2>2
    <3> QED
      BY <3>1 DEF Listed
  <2>3. CASE j > k
    <3>1. list'[j + 1] = x /\ j + 1 \in 1..Len(list')
      BY <1>1, <1>2, <2>1, <2>3
    <3> QED
      BY <3>1 DEF Listed
  <2> QED
    BY <1>1, <2>2, <2>3
<1> QED
  BY <1>3, <1>5, <1>6

\* After an edit only what is said of a growing list is left to say.
LEMMA EditFetch == ASSUME FetchInv, Edit PROVE FetchInv'
<1>1. /\ UNCHANGED <<began, server, options, pc, offset, page, taken, previous, answer, aborted>>
      /\ ~Settled /\ Len(edits) < MaxEdits
  BY DEF Edit, call
<1>2. PICK kind \in EditKinds :
        /\ edits' = Append(edits, kind)
        /\ \/ /\ kind = "insert"
              /\ \E row \in Rows \ (Listed(list) \union Listed(began)), i \in 0..Len(list) :
                   list' = InsertedAt(list, i, row)
           \/ /\ kind = "remove"
              /\ \E i \in 1..Len(list) : list' = RemovedAt(list, i)
  BY DEF Edit, EditKinds
<1>3. edits \in Seq(EditKinds) /\ list \in Seq(Rows)
  BY DEF FetchInv, TypeOK
<1>4. /\ edits' \in Seq(EditKinds) /\ Len(edits') = Len(edits) + 1
      /\ Len(edits) \in Nat /\ edits' # <<>>
      /\ \A i \in 1..Len(edits) : edits'[i] = edits[i]
      /\ edits'[Len(edits) + 1] = kind
  BY <1>2, <1>3, AppendProperties, LenProperties
<1>5. list' \in Seq(Rows)
  BY <1>2, <1>3, InsertedRows, RemovedRows
<1>6. TypeOK'
  <2>1. Len(edits') <= MaxEdits
    BY <1>1, <1>4, FetchAllAssumption
  <2> QED
    BY <1>1, <1>4, <1>5, <2>1 DEF FetchInv, TypeOK
<1>7. Counts'
  BY <1>1 DEF FetchInv, Counts, InLoop, ValidOptions
<1>8. Began' /\ InOrder' /\ PageInOrder' /\ FirstPageOnly'
  BY <1>1, <1>4 DEF FetchInv, Began, InOrder, PageInOrder, FirstPageOnly, Unedited
<1>9. Covered'
  <2> SUFFICES ASSUME Growing', Honoured
               PROVE  /\ Listed(began) \subseteq Listed(list')
                      /\ pc \in {"start", "fetch"} => Before(offset)' \subseteq Listed(taken)
                      /\ pc = "answered" =>
                           /\ Before(offset + Len(answer.rows))'
                                \subseteq Listed(taken) \union Listed(answer.rows)
                           /\ answer.rows = <<>> \/ answer.done =>
                                Asked' \subseteq Listed(taken) \union Listed(answer.rows)
                      /\ pc = "yielded" =>
                           /\ Before(offset + Len(answer.rows))' \subseteq Listed(taken)
                           /\ answer.done => Asked' \subseteq Listed(taken)
    BY <1>1 DEF Covered, Honoured, Settled, Outcomes
  <2>1. Growing /\ kind # "remove"
    BY <1>4 DEF Growing, Listed
  <2>2. PICK row \in Rows \ (Listed(list) \union Listed(began)), k \in 0..Len(list) :
          list' = InsertedAt(list, k, row)
    BY <1>2, <2>1
  <2>3. offset \in Nat /\ offset + Len(answer.rows) \in Nat
    <3>1. TypeOK
      BY DEF FetchInv
    <3>2. offset \in Nat /\ Len(answer.rows) \in Nat
      BY <3>1, Types
    <3> QED
      BY <3>2
  <2>4. /\ Asked' = Asked /\ Listed(list) \subseteq Listed(list')
        /\ \A n \in Nat : Before(n)' \subseteq Before(n)
    BY <1>1, <2>2, InsertCovers
  <2>5. /\ Before(offset)' \subseteq Before(offset)
        /\ Before(offset + Len(answer.rows))' \subseteq Before(offset + Len(answer.rows))
    BY <1>1, <2>3, <2>4 DEF Before
  <2>6. Covered /\ Honoured /\ Growing
    BY <2>1 DEF FetchInv
  <2> QED
    BY <2>4, <2>5, <2>6 DEF Covered
<1> QED
  BY <1>6, <1>7, <1>8, <1>9 DEF FetchInv

LEMMA NextFetch == FetchInv /\ [Next]_vars => FetchInv'
  BY BeginsFetch, EndsFetch, AnswersFetch, TakesFetch, AbortFetch, EditFetch DEF Next, Step

LEMMA Fetching == Spec => []FetchInv
  BY InitFetch, NextFetch, PTL DEF Spec

-----------------------------------------------------------------------------
(* The theorems                                                            *)

\* Every variable keeps its type, and no call takes more than maxPages pages or
\* maxItems rows, whatever the endpoint does.
THEOREM TypeCorrect == Spec => []TypeOK
<1>1. FetchInv => TypeOK
  BY DEF FetchInv
<1> QED
  BY <1>1, Fetching, PTL

\* Part of a list without repetition has none.
LEMMA PartDistinct ==
  ASSUME NEW l, Distinct(l), Len(l) \in Nat, NEW s, NEW a \in Nat, Len(s) \in Nat,
         \A i \in 1..Len(s) : a + i <= Len(l) /\ s[i] = l[a + i]
  PROVE  Distinct(s)
<1> SUFFICES ASSUME NEW i \in 1..Len(s), NEW j \in 1..Len(s), s[i] = s[j] PROVE i = j
  BY DEF Distinct
<1>1. a + i \in 1..Len(l) /\ a + j \in 1..Len(l) /\ l[a + i] = l[a + j]
  OBVIOUS
<1>2. a + i = a + j
  BY <1>1 DEF Distinct
<1> QED
  BY <1>2

\* fetchAll of a list that stays as it is: no row comes twice, and the call that
\* returns uncut has the rows from the first offset on, all and in order.
LEMMA FetchComplete == FetchInv => CompleteOrCut
<1> SUFFICES ASSUME FetchInv, Unedited PROVE
      /\ Distinct(taken)
      /\ pc = "returned" /\ ~server.ignoresOffset /\ ~CutShort => taken = Wanted(began)
  BY DEF CompleteOrCut, Unedited
<1>1. /\ options.first \in Nat /\ taken \in Seq(Rows) /\ Len(taken) \in Nat
      /\ Len(began) \in Nat /\ server.ignoresOffset \in BOOLEAN
  BY Types DEF FetchInv
<1>2. Distinct(began) /\ list = began
  BY FetchAllAssumption DEF FetchInv, Began
<1>3. CASE server.ignoresOffset
  <2>1. Distinct(<<>>)
    BY DEF Distinct
  <2>2. /\ Len(PageAt(0)) \in Nat
        /\ \A i \in 1..Len(PageAt(0)) : 0 + i \in 1..Len(list) /\ PageAt(0)[i] = list[0 + i]
    BY PageRows DEF FetchInv
  <2>3. \A i \in 1..Len(PageAt(0)) : 0 + i <= Len(began) /\ PageAt(0)[i] = began[0 + i]
    BY <1>1, <1>2, <2>2
  <2>4. Distinct(PageAt(0))
    BY <1>1, <1>2, <2>2, <2>3, PartDistinct
  <2> QED
    BY <1>3, <2>1, <2>4 DEF FetchInv, FirstPageOnly
<1>4. CASE ~server.ignoresOffset
  <2>1. \A i \in 1..Len(taken) :
          options.first + i <= Len(began) /\ taken[i] = began[options.first + i]
    BY <1>4 DEF FetchInv, InOrder, Honoured
  <2>2. Distinct(taken)
    BY <1>1, <1>2, <2>1, PartDistinct
  <2>3. ASSUME pc = "returned", ~CutShort PROVE taken = Wanted(began)
    <3>1. options.first + Len(taken) >= Len(began)
      BY <1>4, <2>3 DEF FetchInv, PageInOrder, Honoured
    <3>2. /\ Wanted(began) \in Seq(Rows)
          /\ Len(Wanted(began)) =
               IF options.first + 1 <= Len(began) THEN Len(began) - options.first ELSE 0
          /\ \A i \in 1..Len(Wanted(began)) : Wanted(began)[i] = began[options.first + i]
      BY WantedRows DEF FetchInv
    <3>3. Len(taken) = Len(Wanted(began))
      <4>1. CASE Len(taken) = 0
        BY <1>1, <3>1, <3>2, <4>1
      <4>2. CASE Len(taken) > 0
        <5>1. Len(taken) \in 1..Len(taken)
          BY <1>1, <4>2
        <5>2. options.first + Len(taken) <= Len(began)
          BY <2>1, <5>1
        <5> QED
          BY <1>1, <3>1, <3>2, <4>2, <5>2
      <4> QED
        BY <1>1, <4>1, <4>2
    <3>4. \A i \in 1..Len(taken) : taken[i] = Wanted(began)[i]
      BY <2>1, <3>2, <3>3
    <3> QED
      BY <1>1, <3>2, <3>3, <3>4, SeqEqual
  <2> QED
    BY <2>2, <2>3
<1> QED
  BY <1>1, <1>3, <1>4

\* CompleteOrCut for every list, page size, cap and endpoint.
THEOREM FetchesAll == Spec => []CompleteOrCut
  BY FetchComplete, Fetching, PTL

\* A list that gains rows between two pages loses none of those it had.
THEOREM SkipsNothing == Spec => []NothingSkipped
<1>1. FetchInv => NothingSkipped
  BY DEF FetchInv, Covered, NothingSkipped, Growing, Honoured, Asked
<1> QED
  BY <1>1, Fetching, PTL

\* Once the signal is aborted no request is sent and no row is taken.
THEOREM AbortIsFinal == Spec => AbortStops
<1>1. [Next]_vars => [aborted => pc' # "fetch" /\ taken' = taken]_<<pc, taken>>
  <2> SUFFICES ASSUME Next, aborted, <<pc, taken>>' # <<pc, taken>>
               PROVE  pc' # "fetch" /\ taken' = taken
    BY DEF vars
  <2>1. ~Abort /\ ~Edit
    BY DEF Abort, Edit, call
  <2>2. ~Takes
    BY DEF Takes, Arrived
  <2> QED
    BY <2>1, <2>2
       DEF Next, Step, Begins, Answers, RequestFails, Aborts, Ends, Rejects, Arrived, Resumes,
           GoesOn, Leaves, LoopHead, Settles
<1> QED
  BY <1>1, PTL DEF Spec, AbortStops

-----------------------------------------------------------------------------
(* Single-page queries: the invariant                                      *)

\* The options of a caller that has gone on to another page.
Onward ==
  IF HasOffsetStyle(asked)
  THEN ~HasPageStyle(asked) /\ Valid(Or(asked.max, DefaultSize), 1)
         /\ asked.first = next
  ELSE /\ Valid(Or(asked.pageSize, DefaultSize), 1)
       /\ asked.page \in 1..(MaxSafe + 1)
       /\ next = Offset(asked.page, Or(asked.pageSize, DefaultSize))

\* The inductive invariant.
Paging ==
  /\ asked \in [page : Values \union {Undefined} \union Nat, pageSize : Number,
                  first : Values \union {Undefined} \union Nat, max : Number]
  /\ query # None => query = ToSinglePageQuery(asked)
  /\ next # None => next \in Nat /\ Onward

-----------------------------------------------------------------------------
(* Single-page queries: the conversion                                     *)

\* An accepted query names safe rows only; it is the record of its parts.
LEMMA AcceptedOffset ==
  ASSUME NEW first, NEW max, OffsetStyle(first, max) # Rejected
  PROVE  /\ OffsetStyle(first, max) = Query(first, max)
         /\ first \in 0..MaxSafe /\ max \in 1..MaxSafe /\ first + max - 1 <= MaxSafe
  BY SinglePageQueryAssumption DEF OffsetStyle, Valid, Fits

\* The first row of a page is a natural number.
LEMMA OffsetIsNat ==
  ASSUME NEW n \in Nat \ {0}, NEW size \in Nat
  PROVE  Offset(n, size) \in Nat
  BY DEF Offset

\* A page begins where the one before it ended.
LEMMA NextOffset ==
  ASSUME NEW n \in Int, NEW size \in Int
  PROVE  Offset(n + 1, size) = Offset(n, size) + size
  BY DEF Offset

LEMMA AcceptedPage ==
  ASSUME NEW n, NEW size, PageStyle(n, size) # Rejected
  PROVE  /\ PageStyle(n, size) = Query(Offset(n, size), size)
         /\ n \in 1..MaxSafe /\ size \in 1..MaxSafe
         /\ Offset(n, size) \in 0..MaxSafe /\ Offset(n, size) + size - 1 <= MaxSafe
<1>1. /\ Valid(n, 1) /\ Valid(size, 1)
      /\ Offset(n, size) <= MaxSafe /\ Fits(Offset(n, size), size)
      /\ PageStyle(n, size) = Query(Offset(n, size), size)
  BY DEF PageStyle
<1>2. n \in 1..MaxSafe /\ size \in 1..MaxSafe
  BY <1>1 DEF Valid
<1>3. Offset(n, size) \in Nat
  BY <1>2, SinglePageQueryAssumption, OffsetIsNat
<1> QED
  BY <1>1, <1>2, <1>3, SinglePageQueryAssumption DEF Fits

\* A query is the one or the other, of the style the caller chose.
LEMMA Converted ==
  ASSUME NEW o, ToSinglePageQuery(o) # Rejected
  PROVE  \/ /\ HasOffsetStyle(o) /\ ~HasPageStyle(o)
            /\ OffsetStyle(Or(o.first, 0), Or(o.max, DefaultSize)) # Rejected
            /\ ToSinglePageQuery(o) = Query(Or(o.first, 0), Or(o.max, DefaultSize))
         \/ /\ ~HasOffsetStyle(o)
            /\ PageStyle(Or(o.page, 1), Or(o.pageSize, DefaultSize)) # Rejected
            /\ ToSinglePageQuery(o) = Query(Offset(Or(o.page, 1), Or(o.pageSize, DefaultSize)),
                                            Or(o.pageSize, DefaultSize))
  BY DEF ToSinglePageQuery, OffsetStyle, PageStyle

\* No answer of the conversion is mistaken for none.
LEMMA NoneIsNoAnswer ==
  ASSUME NEW o PROVE ToSinglePageQuery(o) # None
<1>1. CASE ToSinglePageQuery(o) = Rejected
  BY <1>1, SinglePageQueryAssumption
<1>2. CASE ToSinglePageQuery(o) # Rejected
  <2>1. PICK f, m : ToSinglePageQuery(o) = Query(f, m) /\ f \in Nat /\ m \in Nat
    BY <1>2, Converted, AcceptedOffset, AcceptedPage, SinglePageQueryAssumption
  <2> QED BY <2>1, SinglePageQueryAssumption DEF Query
<1> QED BY <1>1, <1>2

\* What an accepted query of a caller says.
LEMMA Accepted ==
  ASSUME Paging, query \notin {None, Rejected}
  PROVE  /\ query.first \in 0..MaxSafe /\ query.max \in 1..MaxSafe
         /\ query.first + query.max - 1 <= MaxSafe
         /\ query.max = Size(asked)
         /\ HasOffsetStyle(asked) =>
              ~HasPageStyle(asked) /\ query.first = Or(asked.first, 0)
         /\ ~HasOffsetStyle(asked) =>
              /\ Or(asked.page, 1) \in 1..MaxSafe
              /\ query.first = Offset(Or(asked.page, 1), Size(asked))
<1>1. query = ToSinglePageQuery(asked) /\ ToSinglePageQuery(asked) # Rejected
  BY DEF Paging
<1>2. CASE HasOffsetStyle(asked)
  <2>1. /\ ~HasPageStyle(asked)
        /\ OffsetStyle(Or(asked.first, 0), Or(asked.max, DefaultSize)) # Rejected
        /\ query = Query(Or(asked.first, 0), Or(asked.max, DefaultSize))
    BY <1>1, <1>2, Converted
  <2> QED BY <1>2, <2>1, AcceptedOffset DEF Query, Size
<1>3. CASE ~HasOffsetStyle(asked)
  <2>1. /\ PageStyle(Or(asked.page, 1), Or(asked.pageSize, DefaultSize)) # Rejected
        /\ query = Query(Offset(Or(asked.page, 1), Or(asked.pageSize, DefaultSize)),
                         Or(asked.pageSize, DefaultSize))
    BY <1>1, <1>3, Converted
  <2> QED BY <1>3, <2>1, AcceptedPage DEF Query, Size
<1> QED BY <1>2, <1>3

-----------------------------------------------------------------------------
(* Single-page queries: the invariant holds                                *)

LEMMA InitPaging == QueryInit => Paging
  BY DEF QueryInit, Paging, QueryOptions, Number

LEMMA ConvertPaging ==
  ASSUME Paging, Convert PROVE Paging'
<1>1. /\ asked' = asked /\ next' = next
      /\ query' = ToSinglePageQuery(asked)
  BY DEF Convert
<1>2. ToSinglePageQuery(asked)' = ToSinglePageQuery(asked)
  BY <1>1 DEF ToSinglePageQuery, OffsetStyle, PageStyle, HasPageStyle, HasOffsetStyle
<1>3. Onward' = Onward
  BY <1>1 DEF Onward, HasOffsetStyle, HasPageStyle
<1> QED BY <1>1, <1>2, <1>3 DEF Paging

LEMMA TurnPaging ==
  ASSUME Paging, Turn PROVE Paging'
<1>1. /\ query \notin {None, Rejected}
      /\ query' = None /\ next' = query.first + query.max
  BY DEF Turn
<1>2. /\ query.first \in 0..MaxSafe /\ query.max \in 1..MaxSafe
      /\ query.max = Size(asked)
      /\ HasOffsetStyle(asked) =>
           ~HasPageStyle(asked) /\ query.first = Or(asked.first, 0)
      /\ ~HasOffsetStyle(asked) =>
           /\ Or(asked.page, 1) \in 1..MaxSafe
           /\ query.first = Offset(Or(asked.page, 1), Size(asked))
  BY <1>1, Accepted
<1>3. next' \in Nat
  BY <1>1, <1>2, SinglePageQueryAssumption
<1>4. CASE HasOffsetStyle(asked)
  <2>1. asked' = [asked EXCEPT !.first = Or(asked.first, 0) + Or(asked.max, DefaultSize)]
    BY <1>4 DEF Turn
  <2>2. Or(asked.first, 0) + Or(asked.max, DefaultSize) = next'
    BY <1>1, <1>2, <1>4 DEF Size
  <2>3. asked' = [asked EXCEPT !.first = next']
    BY <2>1, <2>2
  <2>4. /\ asked'.page = asked.page /\ asked'.pageSize = asked.pageSize
        /\ asked'.first = next' /\ asked'.max = asked.max
        /\ asked' \in [page : Values \union {Undefined} \union Nat, pageSize : Number,
                         first : Values \union {Undefined} \union Nat, max : Number]
    BY <2>3, <1>3 DEF Paging
  <2>5. HasOffsetStyle(asked') /\ ~HasPageStyle(asked')
    BY <2>4, <1>2, <1>3, <1>4, SinglePageQueryAssumption DEF HasOffsetStyle, HasPageStyle
  <2>6. Valid(Or(asked'.max, DefaultSize), 1)
    BY <2>4, <1>2, <1>4 DEF Size, Valid
  <2> QED BY <1>1, <1>3, <2>4, <2>5, <2>6 DEF Paging, Onward
<1>5. CASE ~HasOffsetStyle(asked)
  <2>1. asked' = [asked EXCEPT !.page = Or(asked.page, 1) + 1]
    BY <1>5 DEF Turn
  <2>2. Or(asked.page, 1) + 1 \in 1..(MaxSafe + 1)
    BY <1>2, <1>5, SinglePageQueryAssumption
  <2>3. /\ asked'.page = Or(asked.page, 1) + 1 /\ asked'.pageSize = asked.pageSize
        /\ asked'.first = asked.first /\ asked'.max = asked.max
        /\ asked' \in [page : Values \union {Undefined} \union Nat, pageSize : Number,
                         first : Values \union {Undefined} \union Nat, max : Number]
    BY <2>1, <2>2, SinglePageQueryAssumption DEF Paging
  <2>4. ~HasOffsetStyle(asked')
    BY <2>3, <1>5 DEF HasOffsetStyle
  <2>5. Valid(Or(asked'.pageSize, DefaultSize), 1)
    BY <2>3, <1>2, <1>5 DEF Size, Valid
  <2>6. next' = Offset(asked'.page, Or(asked'.pageSize, DefaultSize))
    <3>1. next' = Offset(Or(asked.page, 1), Size(asked)) + Size(asked)
      BY <1>1, <1>2, <1>5
    <3>2. Or(asked.page, 1) \in Int /\ Size(asked) \in Int
      BY <1>2, <1>5, SinglePageQueryAssumption
    <3>3. next' = Offset(Or(asked.page, 1) + 1, Size(asked))
      BY <3>1, <3>2, NextOffset
    <3> QED BY <3>3, <2>3, <1>5 DEF Size
  <2> QED BY <1>1, <1>3, <2>2, <2>3, <2>4, <2>5, <2>6 DEF Paging, Onward
<1> QED BY <1>4, <1>5

LEMMA StutterPaging ==
  ASSUME Paging, UNCHANGED queryVars PROVE Paging'
  BY DEF Paging, Onward, queryVars, ToSinglePageQuery, OffsetStyle, PageStyle, HasPageStyle, HasOffsetStyle

LEMMA PagingInvariant == QuerySpec => []Paging
<1>1. Paging /\ [QueryNext]_queryVars => Paging'
  BY ConvertPaging, TurnPaging, StutterPaging DEF QueryNext
<1> QED BY InitPaging, <1>1, PTL DEF QuerySpec

-----------------------------------------------------------------------------
(* Single-page queries: the theorems                                       *)

\* No request for a page asks for a row whose number is not a safe integer.
THEOREM SafeRows == QuerySpec => []RowsAreSafe
<1>1. Paging => RowsAreSafe
  BY Accepted DEF RowsAreSafe
<1> QED BY PagingInvariant, <1>1, PTL

\* The requests of a caller that turns pages begin where the last one ended.
THEOREM PagesFollowOn == QuerySpec => []PagesFollow
<1>1. Paging => PagesFollow
  <2> SUFFICES ASSUME Paging, query \notin {None, Rejected}, next # None
               PROVE  query.first = next
    BY DEF PagesFollow
  <2>1. next \in Nat /\ Onward
    BY DEF Paging
  <2>2. CASE HasOffsetStyle(asked)
    BY <2>1, <2>2, Accepted, SinglePageQueryAssumption DEF Onward, Or
  <2>3. CASE ~HasOffsetStyle(asked)
    <3>1. query.first = Offset(Or(asked.page, 1), Size(asked))
      BY <2>3, Accepted
    <3>2. Or(asked.page, 1) = asked.page
      BY <2>1, <2>3, SinglePageQueryAssumption DEF Onward, Or
    <3> QED BY <3>1, <3>2, <2>1, <2>3 DEF Onward, Size
  <2> QED BY <2>2, <2>3
<1> QED BY PagingInvariant, <1>1, PTL

\* Paging is refused at the limit of the safe integers and nowhere before.
THEOREM StopsAtTheLimit == QuerySpec => []StopsAtLimit
<1>1. Paging => StopsAtLimit
  <2> SUFFICES ASSUME Paging, query = Rejected, next # None
               PROVE  next + Size(asked) - 1 > MaxSafe \/ asked.page = MaxSafe + 1
    BY DEF StopsAtLimit
  <2>1. next \in Nat /\ Onward /\ ToSinglePageQuery(asked) = Rejected
    BY SinglePageQueryAssumption DEF Paging
  <2>2. CASE HasOffsetStyle(asked)
    <3>1. ~HasPageStyle(asked) /\ asked.first = next /\ Valid(Size(asked), 1)
      BY <2>1, <2>2 DEF Onward, Size
    <3>2. Or(asked.first, 0) = next
      BY <3>1, <2>1, SinglePageQueryAssumption DEF Or
    <3>3. OffsetStyle(next, Size(asked)) = Rejected
      BY <2>1, <2>2, <3>1, <3>2 DEF ToSinglePageQuery, Size
    <3>4. Query(next, Size(asked)) # Rejected
      BY <2>1, <3>1, SinglePageQueryAssumption DEF Query, Valid
    <3>5. ~(Valid(next, 0) /\ Fits(next, Size(asked)))
      BY <3>1, <3>3, <3>4 DEF OffsetStyle
    <3> QED BY <3>1, <3>5, <2>1, SinglePageQueryAssumption DEF Valid, Fits
  <2>3. CASE ~HasOffsetStyle(asked)
    <3>1. /\ Valid(Size(asked), 1) /\ asked.page \in 1..(MaxSafe + 1)
          /\ next = Offset(asked.page, Size(asked))
      BY <2>1, <2>3 DEF Onward, Size
    <3>2. Or(asked.page, 1) = asked.page
      BY <3>1, SinglePageQueryAssumption DEF Or
    <3>3. PageStyle(asked.page, Size(asked)) = Rejected
      BY <2>1, <2>3, <3>2 DEF ToSinglePageQuery, Size
    <3>4. Query(next, Size(asked)) # Rejected
      BY <2>1, <3>1, SinglePageQueryAssumption DEF Query, Valid
    <3>5. ~(Valid(asked.page, 1) /\ next <= MaxSafe /\ Fits(next, Size(asked)))
      BY <3>1, <3>3, <3>4 DEF PageStyle
    <3> QED BY <3>1, <3>5, <2>1, SinglePageQueryAssumption DEF Valid, Fits
  <2> QED BY <2>2, <2>3
<1> QED BY PagingInvariant, <1>1, PTL
=============================================================================
