---------------------------- MODULE ClientProofs -----------------------------
(***************************************************************************)
(* Proofs about what runs in one tab of the web client: ActivityList.tla,  *)
(* for any number of projects, rows, page sizes, polls and reads under     *)
(* way, and Workspace.tla, for any number of subjects, any pages and any   *)
(* number of requests under way.                                           *)
(*                                                                         *)
(* The two parts share nothing.  The first one's invariant, ListInv, is    *)
(* about each read by itself; the second one's, IInv, about the tab and    *)
(* the set of its requests.                                                *)
(***************************************************************************)
EXTENDS Workspace, ActivityList, SequenceTheorems, NaturalsInduction, WellFoundedInduction, TLAPS

---------------------------------------------------------------------------
\* Part 1: an activity list.

Place == 1 .. MaxRow \cup {Nothing}

ListPage ==
    [id : Projects, project : Projects \cup {Nothing}, rows : Seq(Row), cursor : Place,
     loading : BOOLEAN, error : BOOLEAN, mounted : BOOLEAN, visible : BOOLEAN, armed : BOOLEAN]

Read ==
    [kind : Kinds, p : Projects, n : Place,
     stage : {"project", "rows", "exists", "answered"},
     rows : Seq(Row), cursor : Place, found : BOOLEAN, latest : BOOLEAN, allowed : BOOLEAN]

ListType ==
    /\ log \in [Projects -> 0 .. MaxRow] /\ readable \subseteq Projects
    /\ page \in ListPage /\ reads \in Seq(Read) /\ changes \in 0 .. Changes

\* A read that has rows, a word of the project, or the word that lets it go on
\* to an unscoped query, was allowed.
ReadOK(q, ps) ==
    /\ q.p \in ps => q.allowed
    /\ q.rows # <<>> \/ (q.stage = "answered" /\ q.found) => q.allowed
    /\ q.kind \in {"overview", "pulse"} /\ q.stage = "rows" => q.allowed
    /\ q.kind = "detail" => q.n \in 1 .. MaxRow

ListInv ==
    /\ ListType
    /\ \A i \in DOMAIN reads : ReadOK(reads[i], readable)
    /\ PollingGoesOn

---------------------------------------------------------------------------
\* Operators of the list.

\* A function on 1 .. n is a sequence.
LEMMA TupleSeq ==
  ASSUME NEW S, NEW n \in Nat, NEW f \in [1 .. n -> S]
  PROVE  f \in Seq(S) /\ Len(f) = n
  BY SeqDef

\* What is left without the i-th element.
LEMMA RemovedFacts ==
  ASSUME NEW S, NEW s \in Seq(S), NEW i \in 1 .. Len(s)
  PROVE  /\ RemoveAt(s, i) \in Seq(S)
         /\ Len(RemoveAt(s, i)) = Len(s) - 1
         /\ \A j \in 1 .. Len(s) - 1 : RemoveAt(s, i)[j] = s[IF j < i THEN j ELSE j + 1]
  <1> DEFINE left == SubSeq(s, 1, i - 1)
             right == SubSeq(s, i + 1, Len(s))
  <1>1. Len(s) \in Nat /\ i \in Nat
    OBVIOUS
  <1>2. left \in Seq(S) /\ Len(left) = i - 1 /\ \A j \in 1 .. i - 1 : left[j] = s[j]
    BY <1>1
  <1>3. right \in Seq(S) /\ Len(right) = Len(s) - i
        /\ \A j \in 1 .. Len(s) - i : right[j] = s[i + j]
    BY <1>1
  <1>4. RemoveAt(s, i) = left \o right
    BY DEF RemoveAt
  <1> HIDE DEF left, right
  <1>5. left \o right \in Seq(S) /\ Len(left \o right) = Len(s) - 1
    <2>1. left \o right \in Seq(S) /\ Len(left \o right) = Len(left) + Len(right)
      BY <1>2, <1>3, ConcatProperties, Zenon
    <2> QED
      BY <1>1, <1>2, <1>3, <2>1
  <1>6. ASSUME NEW j \in 1 .. Len(s) - 1
        PROVE  (left \o right)[j] = s[IF j < i THEN j ELSE j + 1]
    <2>1. CASE j < i
      BY <1>1, <1>2, <1>3, <2>1
    <2>2. CASE ~(j < i)
      <3>1. (left \o right)[j] = right[j - (i - 1)]
        BY <1>1, <1>2, <1>3, <2>2
      <3>2. j - (i - 1) \in 1 .. Len(s) - i /\ i + (j - (i - 1)) = j + 1
        BY <1>1, <2>2
      <3> QED
        BY <1>3, <2>2, <3>1, <3>2
    <2> QED
      BY <2>1, <2>2
  <1> QED
    BY <1>4, <1>5, <1>6

\* The smaller of two numbers.
LEMMA SmallerOf ==
  ASSUME NEW a \in Nat, NEW b \in Nat
  PROVE  Min({a, b}) \in {a, b} /\ Min({a, b}) <= a /\ Min({a, b}) <= b
  <1>1. \E x \in {a, b} : \A y \in {a, b} : x <= y
    <2>1. CASE a <= b
      BY <2>1
    <2>2. CASE b <= a
      BY <2>2
    <2> QED
      BY <2>1, <2>2
  <1> QED
    BY <1>1 DEF Min

\* The rows that are fetched.
LEMMA FetchedFacts ==
  ASSUME ActivityListAssumption, MaxRow \in Nat, Limit \in Nat \ {0},
         log \in [Projects -> 0 .. MaxRow], NEW p \in Projects, NEW n \in Place
  PROVE  Fetched(p, n) \in Seq(Row)
  <1> DEFINE top == IF n = Nothing \/ n > log[p] THEN log[p] ELSE n - 1
             m == Min({top, Limit + 1})
  <1>1. top \in 0 .. MaxRow
    BY DEF Place
  <1>2. m \in 0 .. top
    BY <1>1, SmallerOf
  <1>3. \A i \in 1 .. m : [p |-> p, n |-> top + 1 - i] \in Row
    <2> TAKE i \in 1 .. m
    <2>1. top + 1 - i \in 1 .. MaxRow
      BY <1>1, <1>2
    <2> QED
      BY <2>1 DEF Row
  <1>4. Fetched(p, n) = [i \in 1 .. m |-> [p |-> p, n |-> top + 1 - i]]
    BY DEF Fetched
  <1> HIDE DEF m, top
  <1>5. [i \in 1 .. m |-> [p |-> p, n |-> top + 1 - i]] \in [1 .. m -> Row]
    BY <1>3
  <1>6. m \in Nat
    BY <1>1, <1>2
  <1>7. [i \in 1 .. m |-> [p |-> p, n |-> top + 1 - i]] \in Seq(Row)
    BY <1>5, <1>6, TupleSeq, Zenon
  <1> QED
    BY <1>4, <1>7

\* The page and the cursor made of them.
LEMMA PageFacts ==
  ASSUME Limit \in Nat \ {0}, NEW rows \in Seq(Row)
  PROVE  /\ PageOf(rows) \in Seq(Row)
         /\ rows = <<>> => PageOf(rows) = <<>>
         /\ CursorOf(rows) \in Place
  <1> DEFINE m == Min({Len(rows), Limit})
  <1>1. m \in 0 .. Len(rows)
    BY SmallerOf
  <1>2. PageOf(rows) = SubSeq(rows, 1, m)
    BY DEF PageOf
  <1>3. PageOf(rows) \in Seq(Row) /\ (rows = <<>> => PageOf(rows) = <<>>)
    <2> HIDE DEF m
    <2> QED
      BY <1>1, <1>2
  <1>4. CursorOf(rows) \in Place
    <2>1. Len(rows) > Limit => rows[Limit] \in Row
      OBVIOUS
    <2>2. \A r \in Row : r.n \in Place
      BY DEF Row, Place
    <2> QED
      BY <2>1, <2>2 DEF CursorOf, Place
  <1> QED
    BY <1>3, <1>4

---------------------------------------------------------------------------
\* Steps of the list.

\* A read that is asked for.
LEMMA AskedFacts ==
  ASSUME NEW kind \in Kinds, NEW p \in Projects, NEW n \in Place,
         kind = "detail" => n \in 1 .. MaxRow, readable \subseteq Projects
  PROVE  /\ NewRead(kind, p, n) \in Read /\ ReadOK(NewRead(kind, p, n), readable)
         /\ NewRead(kind, p, n).kind = kind
  <1>1. NewRead(kind, p, n) \in Read
    <2>1. <<>> \in Seq(Row) /\ Nothing \in Place
      BY DEF Place
    <2> QED
      BY <2>1 DEF NewRead, Read
  <1> QED
    BY <1>1 DEF NewRead, ReadOK

\* One more read.
LEMMA ReadAdded ==
  ASSUME ListInv, NEW q \in Read, ReadOK(q, readable), readable' = readable, reads' = Append(reads, q)
  PROVE  /\ reads' \in Seq(Read) /\ \A i \in DOMAIN reads' : ReadOK(reads'[i], readable')
         /\ \A i \in DOMAIN reads : i \in DOMAIN reads' /\ reads'[i] = reads[i]
         /\ \E i \in DOMAIN reads' : reads'[i] = q
  <1>1. reads \in Seq(Read) /\ \A i \in DOMAIN reads : ReadOK(reads[i], readable)
    BY DEF ListInv, ListType
  <1>2. /\ reads' \in Seq(Read) /\ Len(reads') = Len(reads) + 1
        /\ \A i \in 1 .. Len(reads) : reads'[i] = reads[i]
        /\ reads'[Len(reads) + 1] = q
    <2>1. /\ Append(reads, q) \in Seq(Read) /\ Len(Append(reads, q)) = Len(reads) + 1
          /\ \A i \in 1 .. Len(reads) : Append(reads, q)[i] = reads[i]
          /\ Append(reads, q)[Len(reads) + 1] = q
      <3> HIDE DEF ListInv
      <3> QED
        BY <1>1, AppendProperties
    <2> QED
      BY <2>1, Zenon
  <1>3. Len(reads) \in Nat /\ DOMAIN reads = 1 .. Len(reads) /\ DOMAIN reads' = 1 .. Len(reads) + 1
    BY <1>1, <1>2
  <1>4. \A i \in DOMAIN reads' : i \in 1 .. Len(reads) \/ i = Len(reads) + 1
    BY <1>3
  <1>5. \A i \in DOMAIN reads' : ReadOK(reads'[i], readable')
    BY <1>1, <1>2, <1>3, <1>4
  <1> QED
    BY <1>2, <1>3, <1>5

\* One read less.
LEMMA ReadRemoved ==
  ASSUME ListInv, NEW i \in DOMAIN reads, readable' = readable,
         reads' = RemoveAt(reads, i)
  PROVE  /\ reads' \in Seq(Read) /\ \A j \in DOMAIN reads' : ReadOK(reads'[j], readable')
         /\ \A j \in DOMAIN reads : j # i => \E k \in DOMAIN reads' : reads'[k] = reads[j]
  <1>1. reads \in Seq(Read) /\ (\A j \in DOMAIN reads : ReadOK(reads[j], readable)) /\ i \in 1 .. Len(reads)
    BY DEF ListInv, ListType
  <1>2. /\ reads' \in Seq(Read) /\ Len(reads') = Len(reads) - 1
        /\ \A j \in 1 .. Len(reads) - 1 : reads'[j] = reads[IF j < i THEN j ELSE j + 1]
    BY <1>1, RemovedFacts
  <1>3. Len(reads) \in Nat /\ DOMAIN reads = 1 .. Len(reads) /\ DOMAIN reads' = 1 .. Len(reads) - 1
    BY <1>1, <1>2
  <1>4. \A j \in DOMAIN reads' : \E k \in DOMAIN reads : reads'[j] = reads[k]
    BY <1>1, <1>2, <1>3
  <1>5. \A j \in DOMAIN reads' : ReadOK(reads'[j], readable')
    BY <1>1, <1>4
  <1>6. ASSUME NEW j \in DOMAIN reads, j # i
        PROVE  \E k \in DOMAIN reads' : reads'[k] = reads[j]
    <2>1. CASE j < i
      BY <1>1, <1>2, <1>3, <2>1
    <2>2. CASE j > i
      <3>1. j - 1 \in DOMAIN reads' /\ ~(j - 1 < i) /\ (j - 1) + 1 = j
        BY <1>1, <1>3, <2>2
      <3> QED
        BY <1>2, <1>3, <3>1
    <2> QED
      BY <1>1, <1>3, <1>6, <2>1, <2>2
  <1> QED
    BY <1>2, <1>5, <1>6

\* One read that goes on.
LEMMA ReadMoved ==
  ASSUME ListInv, NEW i \in DOMAIN reads, readable' = readable, page' = page,
         NEW q \in Read, ReadOK(q, readable), q.kind = reads[i].kind,
         reads' = [reads EXCEPT ![i] = q],
         log' = log, changes' = changes
  PROVE  ListInv'
  <1>1. reads \in Seq(Read) /\ (\A j \in DOMAIN reads : ReadOK(reads[j], readable)) /\ i \in 1 .. Len(reads)
    BY DEF ListInv, ListType
  <1>2. /\ reads' \in Seq(Read) /\ DOMAIN reads' = DOMAIN reads
        /\ \A j \in DOMAIN reads : reads'[j] = IF j = i THEN q ELSE reads[j]
    BY <1>1
  <1>3. \A j \in DOMAIN reads' : ReadOK(reads'[j], readable')
    BY <1>1, <1>2
  <1>4. PollingGoesOn'
    BY <1>2 DEF ListInv, PollingGoesOn
  <1>5. ListType'
    BY <1>2 DEF ListInv, ListType
  <1> QED
    BY <1>3, <1>4, <1>5 DEF ListInv

\* What an answer or a failure does to the page.
LEMMA PageTakes ==
  ASSUME NEW v \in ListPage, NEW q \in Read
  PROVE  \A w \in {Succeeds(v, q), Fails(v, q)} :
           /\ w \in ListPage /\ w.mounted = v.mounted /\ w.visible = v.visible
           /\ w.armed = IF q.kind = "poll" THEN v.mounted /\ v.visible ELSE v.armed
  <1>1. v.rows \o q.rows \in Seq(Row) /\ q.rows \in Seq(Row)
    <2>1. v.rows \in Seq(Row) /\ q.rows \in Seq(Row)
      BY DEF ListPage, Read
    <2> QED
      BY <2>1, ConcatProperties, Zenon
  <1> DEFINE u == Applied(v, q)
  <1>2. /\ u \in ListPage /\ u.mounted = v.mounted /\ u.visible = v.visible /\ u.armed = v.armed
    BY <1>1 DEF Applied, ListPage, Read
  <1> HIDE DEF u
  <1>3. ASSUME NEW w \in ListPage
        PROVE  /\ Schedule(w) \in ListPage
               /\ Schedule(w).mounted = w.mounted /\ Schedule(w).visible = w.visible
               /\ Schedule(w).armed = (w.mounted /\ w.visible)
    BY DEF Schedule, ListPage
  <1>4. ASSUME NEW w \in ListPage, NEW p \in Projects \cup {Nothing}
        PROVE  LET z == [w EXCEPT !.project = p, !.error = FALSE, !.loading = FALSE] IN
               z \in ListPage /\ z.mounted = w.mounted /\ z.visible = w.visible /\ z.armed = w.armed
    BY DEF ListPage
  <1>5. LET z == [v EXCEPT !.error = TRUE, !.loading = FALSE] IN
        z \in ListPage /\ z.mounted = v.mounted /\ z.visible = v.visible /\ z.armed = v.armed
    BY DEF ListPage
  <1>6. q.kind \in Kinds /\ q.p \in Projects
    BY DEF Read
  <1>7. LET w == Succeeds(v, q) IN
           /\ w \in ListPage /\ w.mounted = v.mounted /\ w.visible = v.visible
           /\ w.armed = IF q.kind = "poll" THEN v.mounted /\ v.visible ELSE v.armed
    <2>1. CASE q.kind = "first"
      BY <1>2, <1>4, <1>6, <2>1 DEF Succeeds, u
    <2>2. CASE q.kind = "poll"
      BY <1>2, <1>3, <2>2 DEF Succeeds, u
    <2>3. CASE q.kind \notin {"first", "poll"}
      BY <1>2, <2>3 DEF Succeeds, u
    <2> QED
      BY <2>1, <2>2, <2>3
  <1>8. LET w == Fails(v, q) IN
           /\ w \in ListPage /\ w.mounted = v.mounted /\ w.visible = v.visible
           /\ w.armed = IF q.kind = "poll" THEN v.mounted /\ v.visible ELSE v.armed
    <2>1. CASE q.kind = "first"
      BY <1>5, <2>1 DEF Fails
    <2>2. CASE q.kind = "poll"
      BY <1>3, <2>2 DEF Fails
    <2>3. CASE q.kind \notin {"first", "poll"}
      BY <2>3 DEF Fails
    <2> QED
      BY <2>1, <2>2, <2>3
  <1> QED
    BY <1>7, <1>8

\* The initial state.
LEMMA ListStart == ASSUME ActivityListAssumption, ListInit PROVE ListInv
  <1>1. log \in [Projects -> 0 .. MaxRow] /\ readable \subseteq Projects /\ changes \in 0 .. Changes
    BY DEF ListInit, ActivityListAssumption
  <1>2. PICK p \in Projects : page = NewPage(p)
    BY DEF ListInit
  <1>3. page \in ListPage /\ page.id = p /\ page.armed /\ page.mounted /\ page.visible
    <2>1. <<>> \in Seq(Row) /\ Nothing \in Place
      BY DEF Place
    <2> QED
      BY <1>2, <2>1 DEF NewPage, ListPage
  <1> DEFINE q == NewRead("first", p, Nothing)
  <1>4. q \in Read /\ ReadOK(q, readable)
    BY <1>1, AskedFacts DEF Place, Kinds, Lists
  <1>5. reads = <<q>>
    BY <1>3 DEF ListInit
  <1> HIDE DEF q
  <1>6. reads \in Seq(Read) /\ \A i \in DOMAIN reads : ReadOK(reads[i], readable)
    BY <1>4, <1>5
  <1>7. PollingGoesOn
    BY <1>3 DEF PollingGoesOn
  <1> QED
    BY <1>1, <1>3, <1>6, <1>7 DEF ListInv, ListType

\* The timer fires.
LEMMA FireOK == ASSUME ListInv, Fire PROVE ListInv'
  <1> DEFINE q == NewRead("poll", page.id, Nothing)
  <1>1. /\ page \in ListPage /\ page.armed /\ page.id \in Projects
        /\ page' = [page EXCEPT !.armed = FALSE] /\ reads' = Append(reads, q)
        /\ UNCHANGED <<log, readable, changes>>
    BY DEF ListInv, ListType, ListPage, Fire
  <1>2. q \in Read /\ ReadOK(q, readable) /\ q.kind = "poll"
    BY <1>1, AskedFacts DEF Place, Kinds, Lists, ListInv, ListType
  <1> HIDE DEF q
  <1>3. /\ reads' \in Seq(Read) /\ \A i \in DOMAIN reads' : ReadOK(reads'[i], readable')
        /\ \E i \in DOMAIN reads' : reads'[i] = q
    BY <1>1, <1>2, ReadAdded
  <1>4. page' \in ListPage /\ ~page'.armed
    BY <1>1 DEF ListPage
  <1>5. PollingGoesOn'
    BY <1>2, <1>3, <1>4 DEF PollingGoesOn
  <1>6. ListType'
    BY <1>1, <1>3, <1>4 DEF ListInv, ListType
  <1> QED
    BY <1>3, <1>5, <1>6 DEF ListInv

\* The window is shown or hidden.
LEMMA VisibilityOK == ASSUME ListInv, ChangeVisibility PROVE ListInv'
  <1>1. /\ page \in ListPage /\ page.mounted
        /\ page' = Schedule([page EXCEPT !.visible = ~@])
        /\ UNCHANGED <<log, readable, reads, changes>>
    BY DEF ListInv, ListType, ChangeVisibility
  <1>2. page' \in ListPage /\ page'.armed = (page'.mounted /\ page'.visible)
    BY <1>1 DEF ListPage, Schedule
  <1>3. PollingGoesOn'
    BY <1>2 DEF PollingGoesOn
  <1> QED
    BY <1>1, <1>2, <1>3 DEF ListInv, ListType

\* First loads that are no longer the latest.
LEMMA ReadsSuperseded ==
  ASSUME ListInv
  PROVE  LET rs == Overtaken(reads) IN
         /\ rs \in Seq(Read) /\ DOMAIN rs = DOMAIN reads
         /\ \A i \in DOMAIN rs : ReadOK(rs[i], readable) /\ rs[i].kind = reads[i].kind
  <1> DEFINE g(i) == [reads[i] EXCEPT !.latest = @ /\ reads[i].kind # "first"]
             rs == [i \in DOMAIN reads |-> g(i)]
  <1>1. /\ reads \in Seq(Read) /\ DOMAIN reads = 1 .. Len(reads) /\ Len(reads) \in Nat
        /\ \A i \in DOMAIN reads : ReadOK(reads[i], readable)
    BY DEF ListInv, ListType
  <1>2. ASSUME NEW i \in DOMAIN reads
        PROVE  g(i) \in Read /\ ReadOK(g(i), readable) /\ g(i).kind = reads[i].kind
    <2>1. reads[i] \in Read
      BY <1>1
    <2> QED
      BY <1>1, <2>1 DEF Read, ReadOK
  <1>3. rs = Overtaken(reads)
    BY DEF Overtaken
  <1> HIDE DEF g
  <1>4. rs \in [1 .. Len(reads) -> Read] /\ DOMAIN rs = DOMAIN reads /\ \A i \in DOMAIN rs : rs[i] = g(i)
    BY <1>1, <1>2
  <1>5. rs \in Seq(Read)
    BY <1>1, <1>4, TupleSeq, Zenon
  <1> QED
    BY <1>2, <1>3, <1>4, <1>5

\* The route names another project.
LEMMA SwitchOK == ASSUME ListInv, NEW p \in Projects, Switch(p) PROVE ListInv'
  <1> DEFINE q == NewRead("first", p, Nothing)
             rs == Overtaken(reads)
  <1>1. /\ page \in ListPage
        /\ page' = [page EXCEPT !.id = p, !.loading = TRUE] /\ reads' = Append(rs, q)
        /\ UNCHANGED <<log, readable, changes>>
    BY DEF ListInv, ListType, Switch
  <1>2. q \in Read /\ ReadOK(q, readable)
    BY <1>1, AskedFacts DEF Place, Kinds, Lists, ListInv, ListType
  <1>3. /\ rs \in Seq(Read) /\ DOMAIN rs = DOMAIN reads
        /\ \A i \in DOMAIN rs : ReadOK(rs[i], readable) /\ rs[i].kind = reads[i].kind
    BY ReadsSuperseded
  <1> HIDE DEF q, rs
  <1>4. /\ reads' \in Seq(Read) /\ Len(reads') = Len(rs) + 1
        /\ \A i \in 1 .. Len(rs) : reads'[i] = rs[i]
        /\ reads'[Len(rs) + 1] = q
    <2>1. reads' = Append(rs, q) /\ rs \in Seq(Read) /\ q \in Read
      BY <1>1, <1>2, <1>3 DEF rs, q
    <2> QED
      BY <2>1, AppendProperties
  <1>5. DOMAIN rs = 1 .. Len(rs) /\ DOMAIN reads' = 1 .. Len(rs) + 1 /\ Len(rs) \in Nat
    BY <1>3, <1>4
  <1>6. \A i \in DOMAIN reads' : ReadOK(reads'[i], readable')
    BY <1>1, <1>2, <1>3, <1>4, <1>5
  <1>7. \A i \in DOMAIN reads : i \in DOMAIN reads' /\ reads'[i].kind = reads[i].kind
    BY <1>3, <1>4, <1>5
  <1>8. /\ page' \in ListPage /\ page'.mounted = page.mounted
        /\ page'.visible = page.visible /\ page'.armed = page.armed
    BY <1>1 DEF ListPage
  <1>9. PollingGoesOn'
    BY <1>7, <1>8 DEF ListInv, PollingGoesOn
  <1>10. ListType'
    BY <1>1, <1>4, <1>8 DEF ListInv, ListType
  <1> QED
    BY <1>6, <1>9, <1>10 DEF ListInv

\* The page is left.
LEMMA LeaveOK == ASSUME ListInv, LeavePage PROVE ListInv'
  <1>1. /\ page \in ListPage /\ page' = [page EXCEPT !.mounted = FALSE, !.armed = FALSE]
        /\ reads' = Overtaken(reads) /\ UNCHANGED <<log, readable, changes>>
    BY DEF ListInv, ListType, LeavePage
  <1>2. reads' \in Seq(Read) /\ \A i \in DOMAIN reads' : ReadOK(reads'[i], readable')
    BY <1>1, ReadsSuperseded
  <1>3. page' \in ListPage /\ ~page'.mounted /\ ~page'.armed
    BY <1>1 DEF ListPage
  <1>4. PollingGoesOn'
    BY <1>3 DEF PollingGoesOn
  <1> QED
    BY <1>1, <1>2, <1>3, <1>4 DEF ListInv, ListType

\* One more read that is not a poll.
LEMMA AskOK ==
  ASSUME ListInv, NEW kind \in Kinds, NEW n \in Place,
         kind = "detail" => n \in 1 .. MaxRow,
         reads' = Append(reads, NewRead(kind, page.id, n)),
         UNCHANGED <<log, readable, page, changes>>
  PROVE  ListInv'
  <1> DEFINE q == NewRead(kind, page.id, n)
  <1>1. page.id \in Projects /\ readable \subseteq Projects
    BY DEF ListInv, ListType, ListPage
  <1>2. q \in Read /\ ReadOK(q, readable)
    BY <1>1, AskedFacts
  <1> HIDE DEF q
  <1>3. /\ reads' \in Seq(Read) /\ \A i \in DOMAIN reads' : ReadOK(reads'[i], readable')
        /\ \A i \in DOMAIN reads : i \in DOMAIN reads' /\ reads'[i] = reads[i]
    <2>1. reads' = Append(reads, q) /\ readable' = readable
      BY DEF q
    <2> QED
      BY <1>2, <2>1, ReadAdded
  <1>4. PollingGoesOn'
    BY <1>3 DEF ListInv, PollingGoesOn
  <1> QED
    BY <1>3, <1>4 DEF ListInv, ListType

LEMMA LoadMoreOK == ASSUME ListInv, LoadMore PROVE ListInv'
  <1>1. page.cursor \in Place
    BY DEF ListInv, ListType, ListPage
  <1>2. "more" \in Kinds
    BY DEF Kinds, Lists
  <1> QED
    BY <1>1, <1>2, AskOK DEF LoadMore

LEMMA ElsewhereOK ==
  ASSUME ListInv, NEW kind \in Others, NEW n \in Place, kind = "detail" => n \in 1 .. MaxRow,
         AskElsewhere(kind, n)
  PROVE  ListInv'
  <1>1. kind \in Kinds
    BY DEF Kinds
  <1> QED
    BY <1>1, AskOK DEF AskElsewhere

\* The queries of a read.
LEMMA ServeOK ==
  ASSUME ActivityListAssumption, ListInv, NEW i \in DOMAIN reads,
         ReadProject(i) \/ ReadRows(i) \/ CheckExists(i) \/ ReadOne(i)
  PROVE  ListInv'
  <1> DEFINE q == reads[i]
             can == CanRead(q.p)
             fetched == IF CanRead(q.p) THEN Fetched(q.p, q.n) ELSE <<>>
             one == IF ~(CanRead(q.p) \/ q.kind = "pulse") THEN <<>>
                    ELSE IF q.kind = "detail" THEN <<[p |-> q.p, n |-> q.n]>>
                    ELSE PageOf(Fetched(q.p, Nothing))
  <1>1. /\ q \in Read /\ ReadOK(q, readable) /\ reads \in Seq(Read)
        /\ log \in [Projects -> 0 .. MaxRow]
    BY DEF ListInv, ListType
  <1>2. can \in BOOLEAN /\ (can <=> q.p \in readable)
    BY DEF CanRead
  <1>3. MaxRow \in Nat /\ Limit \in Nat \ {0}
    BY DEF ActivityListAssumption
  <1>4. fetched \in Seq(Row) /\ (fetched # <<>> => can)
    <2>1. q.p \in Projects /\ q.n \in Place
      BY <1>1 DEF Read
    <2>2. Fetched(q.p, q.n) \in Seq(Row)
      BY <1>1, <1>3, <2>1, FetchedFacts, Zenon
    <2> QED
      BY <1>2, <2>2
  <1>5. one \in Seq(Row) /\ (one # <<>> => can \/ q.kind = "pulse")
    <2>1. q.p \in Projects /\ Nothing \in Place /\ (q.kind = "detail" => q.n \in 1 .. MaxRow)
      BY <1>1 DEF Read, Place, ReadOK
    <2>2. Fetched(q.p, Nothing) \in Seq(Row)
      BY <1>1, <1>3, <2>1, FetchedFacts, Zenon
    <2>3. PageOf(Fetched(q.p, Nothing)) \in Seq(Row)
      BY <1>3, <2>2, PageFacts
    <2>4. q.kind = "detail" => [p |-> q.p, n |-> q.n] \in Row
      BY <2>1 DEF Row
    <2>5. q.kind = "detail" => <<[p |-> q.p, n |-> q.n]>> \in Seq(Row)
      BY <2>4
    <2> QED
      BY <1>2, <2>3, <2>5
  <1>6. CASE ReadProject(i)
    <2> DEFINE r == [q EXCEPT !.stage = IF can THEN "rows" ELSE "answered", !.found = can]
    <2>1. reads' = [reads EXCEPT ![i] = r] /\ UNCHANGED <<log, readable, page, changes>>
      BY <1>6 DEF ReadProject
    <2> HIDE DEF can
    <2>2. r \in Read /\ ReadOK(r, readable) /\ r.kind = q.kind
      BY <1>1, <1>2 DEF Read, ReadOK
    <2> HIDE DEF r
    <2> QED
      BY <2>1, <2>2, ReadMoved
  <1>7. CASE ReadRows(i)
    <2> DEFINE r == [q EXCEPT !.rows = PageOf(fetched), !.cursor = CursorOf(fetched),
                              !.stage = IF fetched = <<>> THEN "exists" ELSE "answered"]
    <2>1. /\ reads' = [reads EXCEPT ![i] = r] /\ UNCHANGED <<log, readable, page, changes>>
          /\ q.kind \in Lists
      BY <1>1, <1>7 DEF ReadRows
    <2>2. /\ PageOf(fetched) \in Seq(Row) /\ CursorOf(fetched) \in Place
          /\ fetched = <<>> => PageOf(fetched) = <<>>
      BY <1>3, <1>4, PageFacts
    <2> HIDE DEF fetched, can
    <2>3. r \in Read /\ ReadOK(r, readable) /\ r.kind = q.kind
      BY <1>1, <1>2, <1>4, <2>1, <2>2 DEF Read, ReadOK, Lists
    <2> HIDE DEF r
    <2> QED
      BY <2>1, <2>3, ReadMoved
  <1>8. CASE CheckExists(i)
    <2> DEFINE r == [q EXCEPT !.stage = "answered", !.found = @ /\ can]
    <2>1. reads' = [reads EXCEPT ![i] = r] /\ UNCHANGED <<log, readable, page, changes>>
      BY <1>1, <1>2, <1>8 DEF CheckExists
    <2> HIDE DEF can
    <2>2. r \in Read /\ ReadOK(r, readable) /\ r.kind = q.kind
      BY <1>1, <1>2 DEF Read, ReadOK
    <2> HIDE DEF r
    <2> QED
      BY <2>1, <2>2, ReadMoved
  <1>9. CASE ReadOne(i)
    <2> DEFINE r == [q EXCEPT !.stage = "answered", !.rows = one,
                              !.found = q.kind # "detail" \/ can \/ q.kind = "pulse"]
    <2>1. /\ reads' = [reads EXCEPT ![i] = r] /\ UNCHANGED <<log, readable, page, changes>>
          /\ q.kind \notin Lists /\ q.stage = "rows"
      BY <1>1, <1>2, <1>9 DEF ReadOne
    <2>2. q.kind \in {"detail", "overview", "pulse"}
      BY <1>1, <2>1 DEF Read, Kinds, Others
    <2> HIDE DEF one, can
    <2>3. r \in Read /\ ReadOK(r, readable) /\ r.kind = q.kind
      BY <1>1, <1>2, <1>5, <2>1, <2>2 DEF Read, ReadOK
    <2> HIDE DEF r
    <2> QED
      BY <2>1, <2>3, ReadMoved
  <1> QED
    BY <1>6, <1>7, <1>8, <1>9

\* An answer, or a failure.
LEMMA SettledOK ==
  ASSUME ActivityListAssumption, ListInv, NEW i \in DOMAIN reads,
         Deliver(i) \/ Lose(i)
  PROVE  ListInv'
  <1>1. /\ page \in ListPage /\ reads[i] \in Read /\ reads' = RemoveAt(reads, i)
        /\ UNCHANGED <<log, readable>>
    BY DEF ListInv, ListType, Deliver, Lose
  <1>2. changes' \in 0 .. Changes
    BY DEF ListInv, ListType, Deliver, Lose, ActivityListAssumption
  <1>3. page' = IF ~page.mounted THEN page
                ELSE IF Deliver(i) /\ reads[i].found THEN Succeeds(page, reads[i])
                ELSE Fails(page, reads[i])
    BY DEF Deliver, Lose
  <1>4. /\ page' \in ListPage /\ page'.mounted = page.mounted /\ page'.visible = page.visible
        /\ page'.armed = IF page.mounted /\ reads[i].kind = "poll" THEN page.visible ELSE page.armed
    <2>1. \A w \in {Succeeds(page, reads[i]), Fails(page, reads[i])} :
            /\ w \in ListPage /\ w.mounted = page.mounted /\ w.visible = page.visible
            /\ w.armed = IF reads[i].kind = "poll" THEN page.mounted /\ page.visible ELSE page.armed
      BY <1>1, PageTakes
    <2>2. page.mounted \in BOOLEAN /\ page.visible \in BOOLEAN /\ page.armed \in BOOLEAN
      BY <1>1 DEF ListPage
    <2> QED
      BY <1>1, <1>3, <2>1, <2>2
  <1>5. /\ reads' \in Seq(Read) /\ \A j \in DOMAIN reads' : ReadOK(reads'[j], readable')
        /\ \A j \in DOMAIN reads : j # i => \E k \in DOMAIN reads' : reads'[k] = reads[j]
    BY <1>1, ReadRemoved
  <1>6. PollingGoesOn'
    <2>1. PollingGoesOn
      BY DEF ListInv
    <2>2. CASE page.mounted /\ reads[i].kind = "poll"
      BY <1>4, <2>1, <2>2 DEF PollingGoesOn
    <2>3. CASE ~(page.mounted /\ reads[i].kind = "poll")
      BY <1>4, <1>5, <2>1, <2>3 DEF PollingGoesOn
    <2> QED
      BY <2>2, <2>3
  <1> QED
    BY <1>1, <1>2, <1>4, <1>5, <1>6 DEF ListInv, ListType

\* A row is added.
LEMMA GrowOK ==
  ASSUME ActivityListAssumption, ListInv, NEW p \in Projects, Grow(p) PROVE ListInv'
  <1>1. log' \in [Projects -> 0 .. MaxRow] /\ changes' \in 0 .. Changes
    BY DEF ListInv, ListType, Grow, ActivityListAssumption
  <1>2. UNCHANGED <<readable, page, reads>>
    BY DEF Grow
  <1>3. PollingGoesOn'
    BY <1>2 DEF ListInv, PollingGoesOn
  <1> QED
    BY <1>1, <1>2, <1>3 DEF ListInv, ListType

\* Memberships come and go.
LEMMA SetReadableOK ==
  ASSUME ActivityListAssumption, ListInv, NEW ps \in SUBSET Projects, SetReadable(ps)
  PROVE  ListInv'
  <1> DEFINE g(i) == [reads[i] EXCEPT !.allowed = @ \/ reads[i].p \in ps]
  <1>1. /\ reads \in Seq(Read) /\ DOMAIN reads = 1 .. Len(reads) /\ Len(reads) \in Nat
        /\ \A i \in DOMAIN reads : ReadOK(reads[i], readable)
    BY DEF ListInv, ListType
  <1>2. ASSUME NEW i \in DOMAIN reads
        PROVE  g(i) \in Read /\ ReadOK(g(i), ps) /\ g(i).kind = reads[i].kind
    <2>1. reads[i] \in Read
      BY <1>1
    <2> QED
      BY <1>1, <2>1 DEF Read, ReadOK
  <1>3. /\ reads' = [i \in DOMAIN reads |-> g(i)] /\ readable' = ps
        /\ changes' \in 0 .. Changes /\ UNCHANGED <<log, page>>
    BY DEF SetReadable, ListInv, ListType, ActivityListAssumption
  <1> HIDE DEF g
  <1>4. /\ reads' \in [1 .. Len(reads) -> Read] /\ DOMAIN reads' = DOMAIN reads
        /\ \A i \in DOMAIN reads : reads'[i] = g(i)
    BY <1>1, <1>2, <1>3
  <1>5. reads' \in Seq(Read)
    BY <1>1, <1>4, TupleSeq, Zenon
  <1>6. \A i \in DOMAIN reads' : ReadOK(reads'[i], readable')
    BY <1>2, <1>3, <1>4
  <1>7. PollingGoesOn'
    BY <1>2, <1>3, <1>4 DEF ListInv, PollingGoesOn
  <1> QED
    BY <1>3, <1>5, <1>6, <1>7 DEF ListInv, ListType

\* Every step of the list keeps the invariant.
LEMMA ListStep ==
  ASSUME ActivityListAssumption, ListInv, [ListNext]_listVars PROVE ListInv'
  <1>1. CASE Fire \/ ChangeVisibility \/ LeavePage \/ LoadMore
    BY <1>1, FireOK, VisibilityOK, LeaveOK, LoadMoreOK
  <1>2. ASSUME NEW row \in Range(page.rows), AskElsewhere("detail", row.n)
        PROVE  ListInv'
    <2>1. page.rows \in Seq(Row)
      BY DEF ListInv, ListType, ListPage
    <2>2. row \in Row
      BY <2>1 DEF Range
    <2>3. row.n \in 1 .. MaxRow /\ row.n \in Place /\ "detail" \in Others
      BY <2>2 DEF Row, Place, Others
    <2> QED
      BY <1>2, <2>3, ElsewhereOK
  <1>3. ASSUME NEW kind \in {"overview", "pulse"}, AskElsewhere(kind, Nothing)
        PROVE  ListInv'
    <2>1. kind \in Others /\ Nothing \in Place /\ kind # "detail"
      BY DEF Others, Place
    <2> QED
      BY <1>3, <2>1, ElsewhereOK
  <1>4. ASSUME NEW p \in Projects, Switch(p) \/ Grow(p)
        PROVE  ListInv'
    BY <1>4, SwitchOK, GrowOK
  <1>5. ASSUME NEW i \in DOMAIN reads, Serve(i) \/ Lose(i)
        PROVE  ListInv'
    BY <1>5, ServeOK, SettledOK DEF Serve
  <1>6. ASSUME NEW ps \in SUBSET Projects, SetReadable(ps)
        PROVE  ListInv'
    BY <1>6, SetReadableOK
  <1>7. CASE UNCHANGED listVars
    <2>1. UNCHANGED <<log, readable, page, reads, changes>>
      BY <1>7 DEF listVars
    <2>2. PollingGoesOn'
      BY <2>1 DEF ListInv, PollingGoesOn
    <2> QED
      BY <2>1, <2>2 DEF ListInv, ListType
  <1> QED
    BY <1>1, <1>2, <1>3, <1>4, <1>5, <1>6, <1>7 DEF ListNext

LEMMA ListInvariant == ListSpec => []ListInv
  <1>1. ListInit => ListInv
    BY ListStart, ActivityListAssumption
  <1>2. ListInv /\ [ListNext]_listVars => ListInv'
    BY ListStep, ActivityListAssumption
  <1> QED
    BY <1>1, <1>2, PTL DEF ListSpec

\* No row of a project and no word of its existence is in an answer unless the
\* reader could read that project at some moment since asking.
THEOREM NothingReadUnallowed == ListSpec => []ReadWasAllowed
  <1>1. ListInv => ReadWasAllowed
    BY DEF ListInv, ReadOK, ReadWasAllowed, IsAnswered
  <1> QED
    BY <1>1, ListInvariant, PTL

\* A list that is watched always has a poll coming, and one that is left or
\* hidden keeps no timer.
THEOREM ListsKeepPolling == ListSpec => []PollingGoesOn
  <1>1. ListInv => PollingGoesOn
    BY DEF ListInv
  <1> QED
    BY <1>1, ListInvariant, PTL

\* The variables of a list keep their types.
THEOREM ListTypeCorrect == ListSpec => []ListTypeOK
  <1>1. ListInv => ListTypeOK
    <2> SUFFICES ASSUME ListInv PROVE ListTypeOK
      OBVIOUS
    <2>1. /\ ListType /\ page.rows \in Seq(Row) /\ page.cursor \in Place
          /\ page.id \in Projects /\ page.project \in Projects \cup {Nothing}
      BY DEF ListInv, ListType, ListPage
    <2>2. \A rows \in Seq(Row) : Range(rows) \subseteq Row
      BY DEF Range
    <2>3. \A i \in DOMAIN reads : reads[i] \in Read
      BY <2>1 DEF ListType
    <2> QED
      BY <2>1, <2>2, <2>3 DEF ListTypeOK, ListType, Place, Read
  <1> QED
    BY <1>1, ListInvariant, PTL

---------------------------------------------------------------------------
\* Part 2: the pages of a tab.

Some == Ids \cup {Listing}

Typed == {None} \cup {Name[i] : i \in Ids}

Tokens == {None, "fresh", "stale"}

View ==
    [data : Some \cup {None}, rows : SUBSET Some, failed : BOOLEAN, loading : BOOLEAN,
     busy : BOOLEAN, sub : BOOLEAN, open : {None, "state", "delete", "creator", "blocker"},
     typed : Typed, link : Some \cup {None}, secret : Some \cup {None},
     create : {"closed", "open", "busy"}]

Ask ==
    [kind : Mutating \cup {"session", "load", "rows", "more"}, page : Bare \cup Detail,
     id : Some, typed : Typed, token : Tokens, latest : BOOLEAN,
     owner : {"mounted", "left", "gone"}, then : BOOLEAN]

\* The pages that make a request.
Home(kind) ==
    CASE kind \in {"issue", "revoke"} -> {"connections"}
      [] kind = "rows" -> {"settings", "pulse"}
      [] kind = "more" -> {"users"}
      [] kind = "resolve" -> {"pulse"}
      [] kind \in {"invite", "withdraw", "remove", "delete"} -> {"settings"}
      [] kind = "state" -> {"user", "settings"}
      [] kind = "redeem" -> {"invite"}
      [] kind = "load" -> (Bare \cup Detail) \ {"invite", "landing"}
      [] OTHER -> Bare \cup Detail

Asked == {a \in Ask : /\ a.owner # "mounted" => a.kind \in Mutating
                      /\ a.page \in Home(a.kind) /\ a.id \in Subjects(a.page)}

Gate == {"none", "loading", "anonymous", "unavailable", "denied", "open"}

Tab == [page : Bare \cup Detail, id : Some, gate : Gate, token : Tokens, view : View,
        asks : Seq(Asked)]

\* The requests of a sequence.
Elems(q) == {q[i] : i \in 1 .. Len(q)}

\* The page is mounted when the gate is open.  Until then the session is the only
\* request that a mounted component waits for.
Gated(t, A) ==
    /\ t.gate = "none" <=> t.page = "landing"
    /\ t.gate = "loading" => \E a \in A : a.kind = "session"
    /\ t.gate # "open" =>
         t.view = NewView(t.page) /\ \A a \in A : a.owner = "mounted" => a.kind = "session"
    /\ t.gate \in {"none", "open"} => \A a \in A : a.kind # "session"

\* What is mounted belongs to the page there is, and what will be shown to its
\* subject.
Routed(t, A) ==
    /\ t.view.data \in Subjects(t.page) \cup {None}
    /\ t.page \in {"overview", "connections", "pulse", "user"} => t.view.data \in {None, t.id}
    /\ t.view.secret \in {None, t.id} /\ (t.view.secret # None => t.page = "connections")
    /\ t.gate = "open" => \A a \in A : a.owner = "mounted" =>
         /\ a.page = t.page
         /\ a.kind \in {"load", "issue"} /\ a.latest => a.id = t.id

Pending(kinds, A) == \E a \in A : a.kind \in kinds /\ a.owner = "mounted"

Awaits(kinds, p, A) ==
    \E a \in A : a.kind \in kinds /\ a.owner = "mounted" /\ (a.latest \/ p \in Bare)

\* What ends each wait of the view v of page p.
LoadAwaited(p, v, A) ==
    p \notin {"pulse", "invite"} /\ v.data = None /\ ~v.failed => Awaits({"load"}, p, A)

RedeemAwaited(p, v, A) == p = "invite" /\ ~v.failed => Pending({"redeem"}, A)

RowsAwaited(p, v, A) == v.loading => p \in {"pulse", "users"} /\ Pending({"rows", "more"}, A)

BusyAwaited(p, v, A) ==
    v.busy => \/ p = "projects" /\ Pending({"create"}, A)
              \/ p \in {"user", "settings"} /\ Awaits({"state", "delete"}, p, A)

SubAwaited(p, v, A) ==
    v.sub => \/ Awaits({"issue", "invite", "withdraw", "remove", "resolve"}, p, A)
             \/ \E a \in A : a.kind = "rows" /\ a.then /\ a.latest

CreateAwaited(v, A) == v.create = "busy" => Pending({"create"}, A)

Waits(p, v, A) ==
    /\ LoadAwaited(p, v, A) /\ RedeemAwaited(p, v, A) /\ RowsAwaited(p, v, A)
    /\ BusyAwaited(p, v, A) /\ SubAwaited(p, v, A) /\ CreateAwaited(v, A)

\* A tab whose requests are A.
Sound(t, A) ==
    /\ t \in Tab /\ t.id \in Subjects(t.page)
    /\ Gated(t, A) /\ Routed(t, A)
    /\ t.gate = "open" => Waits(t.page, t.view, A)

Whole(t) == Sound(t, Elems(t.asks))

Server == [session : BOOLEAN, operator : BOOLEAN, trips : 0 .. Trips,
           projects : [Ids -> {"absent", "active", "archived", "deleted"}]]

\* The inductive invariant.
IInv == Whole(tab) /\ server \in Server

---------------------------------------------------------------------------
\* Sequences of requests.

LEMMA ElemsAdded ==
  ASSUME NEW S, NEW s \in Seq(S), NEW u \in Seq(S)
  PROVE  s \o u \in Seq(S) /\ Elems(s \o u) = Elems(s) \cup Elems(u)
  <1>1. /\ s \o u \in Seq(S) /\ Len(s \o u) = Len(s) + Len(u)
        /\ \A i \in 1 .. Len(s) + Len(u) : (s \o u)[i] = IF i <= Len(s) THEN s[i] ELSE u[i - Len(s)]
    BY ConcatProperties, Zenon
  <1>2. Len(s) \in Nat /\ Len(u) \in Nat
    OBVIOUS
  <1> DEFINE w == s \o u
  <1> HIDE DEF w
  <1>3. ASSUME NEW i \in 1 .. Len(w) PROVE w[i] \in Elems(s) \cup Elems(u)
    <2>1. CASE i <= Len(s)
      BY <1>1, <1>2, <2>1 DEF Elems, w
    <2>2. CASE ~(i <= Len(s))
      <3>1. i - Len(s) \in 1 .. Len(u)
        BY <1>1, <1>2, <2>2 DEF w
      <3>2. w[i] = u[i - Len(s)]
        BY <1>1, <1>2, <2>2 DEF w
      <3> QED
        BY <3>1, <3>2 DEF Elems
    <2> QED
      BY <2>1, <2>2
  <1>4. ASSUME NEW i \in 1 .. Len(s) PROVE s[i] \in Elems(w)
    <2>1. i \in 1 .. Len(w) /\ w[i] = s[i]
      BY <1>1, <1>2 DEF w
    <2> QED
      BY <2>1 DEF Elems
  <1>5. ASSUME NEW i \in 1 .. Len(u) PROVE u[i] \in Elems(w)
    <2>1. i + Len(s) \in 1 .. Len(w) /\ ~(i + Len(s) <= Len(s)) /\ (i + Len(s)) - Len(s) = i
      BY <1>1, <1>2 DEF w
    <2>2. w[i + Len(s)] = u[i]
      BY <1>1, <1>2, <2>1 DEF w
    <2> QED
      BY <2>1, <2>2 DEF Elems
  <1>6. Elems(w) = Elems(s) \cup Elems(u)
    BY <1>3, <1>4, <1>5 DEF Elems
  <1> QED
    BY <1>1, <1>6 DEF w

LEMMA ElemsAppended ==
  ASSUME NEW S, NEW s \in Seq(S), NEW a \in S
  PROVE  Append(s, a) \in Seq(S) /\ Elems(Append(s, a)) = Elems(s) \cup {a}
  <1>1. <<a>> \in Seq(S) /\ Elems(<<a>>) = {a}
    BY DEF Elems
  <1>2. Append(s, a) = s \o <<a>>
    BY AppendIsConcat
  <1>3. ASSUME NEW u \in Seq(S), Elems(u) = {a}
        PROVE  s \o u \in Seq(S) /\ Elems(s \o u) = Elems(s) \cup {a}
    BY <1>3, ElemsAdded
  <1> QED
    BY <1>1, <1>2, <1>3

\* The i-th request is taken out.
LEMMA ElemsWithout ==
  ASSUME NEW S, NEW t, NEW i \in 1 .. Len(t.asks), t.asks \in Seq(S), "asks" \in DOMAIN t
  PROVE  /\ Without(t, i).asks \in Seq(S)
         /\ Elems(t.asks) = Elems(Without(t, i).asks) \cup {t.asks[i]}
  <1> DEFINE s == t.asks
             w == [j \in 1 .. Len(s) - 1 |-> s[IF j < i THEN j ELSE j + 1]]
  <1>1. Without(t, i).asks = w
    BY DEF Without
  <1>2. s \in Seq(S) /\ Len(s) \in Nat /\ i \in 1 .. Len(s) /\ Len(s) - 1 \in Nat
    OBVIOUS
  <1> HIDE DEF s
  <1>3. w \in [1 .. Len(s) - 1 -> S]
    BY <1>2
  <1>4. w \in Seq(S) /\ Len(w) = Len(s) - 1
    BY <1>2, <1>3, TupleSeq, Zenon
  <1>5. ASSUME NEW j \in 1 .. Len(w) PROVE w[j] \in Elems(s)
    <2>1. (IF j < i THEN j ELSE j + 1) \in 1 .. Len(s)
      BY <1>2, <1>4
    <2> QED
      BY <1>4, <2>1 DEF Elems
  <1>6. ASSUME NEW j \in 1 .. Len(s), j # i PROVE s[j] \in Elems(w)
    <2>1. CASE j < i
      <3>1. j \in 1 .. Len(w) /\ w[j] = s[j]
        BY <1>2, <1>4, <2>1
      <3> HIDE DEF w
      <3> QED
        BY <3>1 DEF Elems
    <2>2. CASE j > i
      <3>1. j - 1 \in 1 .. Len(w) /\ ~(j - 1 < i) /\ (j - 1) + 1 = j
        BY <1>2, <1>4, <2>2
      <3>2. w[j - 1] = s[j]
        BY <1>4, <3>1
      <3> HIDE DEF w
      <3> QED
        BY <3>1, <3>2 DEF Elems
    <2> QED
      BY <1>2, <1>6, <2>1, <2>2
  <1> HIDE DEF w
  <1>7. Elems(s) = Elems(w) \cup {s[i]}
    BY <1>2, <1>5, <1>6 DEF Elems
  <1> QED
    BY <1>1, <1>4, <1>7 DEF s

\* The recursive function of Kept, for the first n requests of q.
KeptUpTo(q, n, f) ==
    f = [k \in 0 .. n |->
            IF k = 0 THEN <<>>
            ELSE IF q[k].kind \in Mutating THEN Append(f[k - 1], q[k])
            ELSE f[k - 1]]

\* It exists: the least number for which it does not would have a predecessor.
LEMMA KeptExists ==
  ASSUME NEW q, NEW n \in Nat
  PROVE  \E f : KeptUpTo(q, n, f)
  <1> DEFINE T == {k \in Nat : ~ \E f : KeptUpTo(q, k, f)}
  <1> SUFFICES ASSUME T # {} PROVE FALSE
    OBVIOUS
  <1>1. PICK k \in T : \A j \in T : <<j, k>> \notin OpToRel(<, Nat)
    <2>1. T \in SUBSET Nat
      OBVIOUS
    <2> HIDE DEF T
    <2> QED
      BY <2>1, NatLessThanWellFounded, WFMin
  <1>2. k \in Nat /\ ~ \E f : KeptUpTo(q, k, f)
    BY <1>1
  <1>3. k # 0
    <2>1. KeptUpTo(q, 0, [m \in 0 .. 0 |-> <<>>])
      BY DEF KeptUpTo
    <2> QED
      BY <1>2, <2>1
  <1>4. k - 1 \in Nat /\ <<k - 1, k>> \in OpToRel(<, Nat)
    <2>1. k - 1 \in Nat /\ k - 1 < k
      BY <1>2, <1>3
    <2>2. <<k - 1, k>> \in Nat \X Nat /\ <<k - 1, k>>[1] < <<k - 1, k>>[2]
      BY <1>2, <2>1
    <2> QED
      BY <2>1, <2>2 DEF OpToRel
  <1>5. k - 1 \notin T
    BY <1>1, <1>4
  <1>6. PICK f : KeptUpTo(q, k - 1, f)
    BY <1>4, <1>5
  <1> DEFINE last == IF q[k].kind \in Mutating THEN Append(f[k - 1], q[k]) ELSE f[k - 1]
  <1> HIDE DEF last
  <1> DEFINE g == [m \in 0 .. k |-> IF m < k THEN f[m] ELSE last]
  <1>7. KeptUpTo(q, k, g)
    <2>1. \A m \in 0 .. k - 1 :
            f[m] = IF m = 0 THEN <<>>
                   ELSE IF q[m].kind \in Mutating THEN Append(f[m - 1], q[m])
                   ELSE f[m - 1]
      BY <1>6 DEF KeptUpTo
    <2>2. ASSUME NEW m \in 0 .. k
          PROVE  g[m] = IF m = 0 THEN <<>>
                        ELSE IF q[m].kind \in Mutating THEN Append(g[m - 1], q[m])
                        ELSE g[m - 1]
      <3>1. m # 0 => m - 1 \in 0 .. k /\ m - 1 < k /\ g[m - 1] = f[m - 1]
        BY <1>2
      <3>2. CASE m < k
        <4>1. m \in 0 .. k - 1 /\ g[m] = f[m]
          BY <1>2, <3>2
        <4> HIDE DEF g
        <4> QED
          BY <2>1, <3>1, <4>1
      <3>3. CASE m = k
        <4>1. g[m] = last /\ m # 0
          BY <1>2, <1>3, <3>3
        <4>2. last = IF q[m].kind \in Mutating THEN Append(g[m - 1], q[m]) ELSE g[m - 1]
          BY <3>1, <3>3, <4>1 DEF last
        <4> HIDE DEF g
        <4> QED
          BY <4>1, <4>2
      <3>4. m < k \/ m = k
        BY <1>2
      <3> HIDE DEF g
      <3> QED
        BY <3>2, <3>3, <3>4
    <2>3. g = [m \in 0 .. k |-> g[m]]
      OBVIOUS
    <2> HIDE DEF g
    <2> QED
      BY <2>2, <2>3 DEF KeptUpTo
  <1> QED
    BY <1>2, <1>7

LEMMA KeptIs ==
  ASSUME NEW q, Len(q) \in Nat
  PROVE  \E f : KeptUpTo(q, Len(q), f) /\ Kept(q) = f[Len(q)]
  <1> DEFINE kept == CHOOSE f : KeptUpTo(q, Len(q), f)
  <1>1. KeptUpTo(q, Len(q), kept)
    BY KeptExists, Zenon
  <1>2. Kept(q) = kept[Len(q)]
    BY Zenon DEF Kept, KeptUpTo
  <1> QED
    BY <1>1, <1>2, Zenon

\* All it keeps are mutations of the sequence.
LEMMA KeptFacts ==
  ASSUME NEW S, NEW q \in Seq(S)
  PROVE  Kept(q) \in Seq({a \in Elems(q) : a.kind \in Mutating})
  <1> DEFINE M == {a \in Elems(q) : a.kind \in Mutating}
             n == Len(q)
  <1>1. n \in Nat
    OBVIOUS
  <1>2. PICK kept : KeptUpTo(q, n, kept) /\ Kept(q) = kept[n]
    BY <1>1, KeptIs
  <1>3. Kept(q) = kept[n]
    BY <1>2
  <1>4. \A k \in 0 .. n :
          kept[k] = IF k = 0 THEN <<>>
                    ELSE IF q[k].kind \in Mutating THEN Append(kept[k - 1], q[k])
                    ELSE kept[k - 1]
    BY <1>2 DEF KeptUpTo
  <1> DEFINE T == {k \in 0 .. n : kept[k] \notin Seq(M)}
  <1>5. T = {}
    <2> SUFFICES ASSUME T # {} PROVE FALSE
      OBVIOUS
    <2>1. PICK k \in T : \A j \in T : <<j, k>> \notin OpToRel(<, Nat)
      <3>1. T \in SUBSET Nat
        BY <1>1
      <3> HIDE DEF T
      <3> QED
        BY <3>1, NatLessThanWellFounded, WFMin
    <2>2. k \in 0 .. n /\ kept[k] \notin Seq(M)
      BY <2>1
    <2>3. k # 0
      <3>1. kept[0] = <<>> /\ <<>> \in Seq(M)
        BY <1>1, <1>4
      <3> QED
        BY <2>2, <3>1
    <2>4. k - 1 \in 0 .. n /\ <<k - 1, k>> \in OpToRel(<, Nat)
      <3>1. k \in Nat /\ k - 1 \in Nat /\ k - 1 < k /\ k - 1 \in 0 .. n
        BY <1>1, <2>2, <2>3
      <3>2. <<k - 1, k>> \in Nat \X Nat /\ <<k - 1, k>>[1] < <<k - 1, k>>[2]
        BY <3>1
      <3> QED
        BY <3>1, <3>2 DEF OpToRel
    <2>5. kept[k - 1] \in Seq(M)
      BY <2>1, <2>4
    <2>6. q[k].kind \in Mutating => q[k] \in M
      BY <1>1, <2>2, <2>3 DEF Elems
    <2>7. q[k].kind \in Mutating => Append(kept[k - 1], q[k]) \in Seq(M)
      BY <2>5, <2>6, AppendProperties, Zenon
    <2> QED
      BY <1>4, <2>2, <2>3, <2>5, <2>7
  <1>6. kept[n] \in Seq(M)
    BY <1>1, <1>5
  <1> QED
    BY <1>3, <1>6

\* Each request is changed on its own.
LEMMA ElemsMapped ==
  ASSUME NEW S, NEW q \in Seq(S), NEW f \in [S -> S], NEW w, w = [i \in 1 .. Len(q) |-> f[q[i]]]
  PROVE  w \in Seq(S) /\ Elems(w) = {f[a] : a \in Elems(q)}
  <1>1. Len(q) \in Nat /\ \A i \in 1 .. Len(q) : q[i] \in S
    OBVIOUS
  <1>2. w \in [1 .. Len(q) -> S]
    BY <1>1
  <1>3. w \in Seq(S) /\ Len(w) = Len(q)
    <2>1. Len(q) \in Nat
      BY <1>1
    <2> DEFINE n == Len(q)
    <2>2. n \in Nat /\ w \in [1 .. n -> S]
      BY <1>2, <2>1
    <2> HIDE DEF n
    <2>3. w \in Seq(S) /\ Len(w) = n
      BY <2>2, TupleSeq
    <2> QED
      BY <2>3 DEF n
  <1> QED
    BY <1>3 DEF Elems

\* Orphans are mutations that no page waits for.
LEMMA OrphanFacts ==
  ASSUME NEW q \in Seq(Asked), NEW how \in {"left", "gone"}
  PROVE  /\ Orphaned(q, how) \in Seq(Asked)
         /\ \A a \in Elems(Orphaned(q, how)) : a.kind \in Mutating /\ a.owner # "mounted"
  <1> DEFINE M == {a \in Asked : a.kind \in Mutating}
             k == Kept(q)
             f == [a \in M |-> [a EXCEPT !.owner = IF @ = "gone" THEN @ ELSE how]]
             w == Orphaned(q, how)
  <1>1. k \in Seq(M)
    <2>1. k \in Seq({a \in Elems(q) : a.kind \in Mutating})
      BY KeptFacts
    <2>2. {a \in Elems(q) : a.kind \in Mutating} \subseteq M
      BY DEF Elems
    <2> QED
      BY <2>1, <2>2, SeqMonotonic, Zenon
  <1>2. ASSUME NEW a \in M
        PROVE  f[a] \in M /\ f[a].owner # "mounted"
    <2>1. f[a] = [a EXCEPT !.owner = IF a.owner = "gone" THEN a.owner ELSE how]
      OBVIOUS
    <2> QED
      BY <2>1 DEF Asked, Ask
  <1>3. w = [i \in 1 .. Len(k) |-> f[k[i]]]
    <2>1. Len(k) \in Nat /\ \A i \in 1 .. Len(k) : k[i] \in M
      BY <1>1
    <2> HIDE DEF M, k
    <2> QED
      BY <2>1 DEF Orphaned, k
  <1>4. f \in [M -> M]
    BY <1>2
  <1> HIDE DEF M, k, f, w
  <1> DEFINE n == Len(k)
  <1>5. n \in Nat /\ \A i \in 1 .. n : k[i] \in M
    BY <1>1
  <1> HIDE DEF n
  <1>6. w \in Seq(M) /\ Len(w) = n /\ \A i \in 1 .. n : w[i] = f[k[i]]
    <2>1. w = [i \in 1 .. n |-> f[k[i]]]
      BY <1>3 DEF n
    <2>2. w \in [1 .. n -> M]
      BY <1>4, <1>5, <2>1
    <2>3. w \in Seq(M) /\ Len(w) = n
      BY <1>5, <2>2, TupleSeq
    <2> QED
      BY <2>1, <2>3
  <1>7. w \in Seq(Asked)
    <2>1. M \subseteq Asked
      BY DEF M
    <2> QED
      BY <1>6, <2>1, SeqMonotonic, Zenon
  <1>8. \A a \in Elems(w) : a \in M /\ a.owner # "mounted"
    BY <1>2, <1>5, <1>6 DEF Elems
  <1> QED
    BY <1>7, <1>8 DEF M, w

\* A request that is superseded, if it is mounted and of these kinds.
Late(a, kinds) == IF a.kind \in kinds /\ a.owner = "mounted" THEN [a EXCEPT !.latest = FALSE] ELSE a

LEMMA LateFacts ==
  ASSUME NEW a \in Asked, NEW kinds
  PROVE  /\ Late(a, kinds) \in Asked
         /\ Late(a, kinds).kind = a.kind /\ Late(a, kinds).page = a.page
         /\ Late(a, kinds).id = a.id /\ Late(a, kinds).owner = a.owner
         /\ Late(a, kinds).then = a.then
         /\ Late(a, kinds).latest => a.latest
         /\ a.kind \notin kinds => Late(a, kinds) = a
         /\ a.kind \in kinds /\ a.owner = "mounted" => ~Late(a, kinds).latest
  BY DEF Late, Asked, Ask

LEMMA SupersededFacts ==
  ASSUME NEW q \in Seq(Asked), NEW kinds
  PROVE  /\ Superseded(q, kinds) \in Seq(Asked)
         /\ Elems(Superseded(q, kinds)) = {Late(a, kinds) : a \in Elems(q)}
  <1> DEFINE f == [a \in Asked |-> Late(a, kinds)]
             w == Superseded(q, kinds)
  <1>1. f \in [Asked -> Asked]
    BY LateFacts
  <1>2. w = [i \in 1 .. Len(q) |-> f[q[i]]]
    <2>1. Len(q) \in Nat /\ \A i \in 1 .. Len(q) : q[i] \in Asked
      OBVIOUS
    <2> QED
      BY <2>1 DEF Superseded, Late
  <1> HIDE DEF f, w
  <1>3. w \in Seq(Asked) /\ Elems(w) = {f[a] : a \in Elems(q)}
    BY <1>1, <1>2, ElemsMapped
  <1>4. Elems(q) \subseteq Asked
    BY DEF Elems
  <1> QED
    BY <1>3, <1>4 DEF f, w

\* A new CSRF secret changes nothing but tokens.
Older(a) == [a EXCEPT !.token = IF @ = "fresh" THEN "stale" ELSE @]

LEMMA StaledFacts ==
  ASSUME NEW q \in Seq(Asked)
  PROVE  /\ Staled(q) \in Seq(Asked)
         /\ Elems(Staled(q)) = {Older(a) : a \in Elems(q)}
         /\ \A a \in Elems(q) :
              /\ Older(a).kind = a.kind /\ Older(a).page = a.page /\ Older(a).id = a.id
              /\ Older(a).owner = a.owner /\ Older(a).then = a.then /\ Older(a).latest = a.latest
  <1> DEFINE f == [a \in Asked |-> Older(a)]
             w == Staled(q)
  <1>1. ASSUME NEW a \in Asked
        PROVE  /\ Older(a) \in Asked
               /\ Older(a).kind = a.kind /\ Older(a).page = a.page /\ Older(a).id = a.id
               /\ Older(a).owner = a.owner /\ Older(a).then = a.then /\ Older(a).latest = a.latest
    BY DEF Older, Asked, Ask, Tokens
  <1>2. w = [i \in 1 .. Len(q) |-> f[q[i]]]
    <2>1. Len(q) \in Nat /\ \A i \in 1 .. Len(q) : q[i] \in Asked
      OBVIOUS
    <2> QED
      BY <2>1 DEF Staled, Older
  <1>3. f \in [Asked -> Asked]
    BY <1>1
  <1> HIDE DEF f, w
  <1>4. w \in Seq(Asked) /\ Elems(w) = {f[a] : a \in Elems(q)}
    BY <1>2, <1>3, ElemsMapped
  <1>5. Elems(q) \subseteq Asked
    BY DEF Elems
  <1> QED
    BY <1>1, <1>4, <1>5 DEF f, w

---------------------------------------------------------------------------
\* Pages that are mounted.

LEMMA NewViewFacts ==
  ASSUME NEW p \in Bare \cup Detail
  PROVE  /\ NewView(p) \in View
         /\ NewView(p).data = None /\ ~NewView(p).failed /\ NewView(p).secret = None
         /\ NewView(p).loading <=> p = "pulse"
         /\ ~NewView(p).busy /\ ~NewView(p).sub /\ NewView(p).create = "closed"
  BY DEF NewView, View, Typed

LEMMA RequestFacts ==
  ASSUME NEW kind \in Mutating \cup {"session", "load", "rows", "more"},
         NEW p \in Bare \cup Detail, NEW id \in Subjects(p), NEW token \in Tokens, p \in Home(kind)
  PROVE  /\ Request(kind, p, id, token) \in Asked
         /\ Request(kind, p, id, token).kind = kind /\ Request(kind, p, id, token).page = p
         /\ Request(kind, p, id, token).id = id /\ Request(kind, p, id, token).owner = "mounted"
         /\ Request(kind, p, id, token).latest /\ ~Request(kind, p, id, token).then
  <1>1. id \in Some
    BY DEF Subjects, Some
  <1> QED
    BY <1>1 DEF Request, Asked, Ask, Typed

\* The requests of each page.
LEMMA HomeFacts ==
  /\ Home("session") = Bare \cup Detail /\ Home("create") = Bare \cup Detail
  /\ Home("logout") = Bare \cup Detail
  /\ Home("load") = (Bare \cup Detail) \ {"invite", "landing"}
  /\ Home("rows") = {"settings", "pulse"} /\ Home("more") = {"users"}
  /\ Home("redeem") = {"invite"} /\ Home("state") = {"user", "settings"}
  /\ Home("resolve") = {"pulse"}
  /\ Home("issue") = {"connections"} /\ Home("revoke") = {"connections"}
  /\ Home("invite") = {"settings"} /\ Home("withdraw") = {"settings"}
  /\ Home("remove") = {"settings"} /\ Home("delete") = {"settings"}
  BY DEF Home

\* What a page asks for when it is mounted.
LEMMA FirstAsksFacts ==
  ASSUME NEW p \in Bare \cup Detail, p # "landing", NEW id \in Subjects(p), NEW token \in Tokens
  PROVE  /\ FirstAsks(p, id, token) \in Seq(Asked)
         /\ \A a \in Elems(FirstAsks(p, id, token)) :
              a.page = p /\ a.id = id /\ a.kind \in {"load", "rows", "redeem"}
         /\ p # "invite" => \E a \in Elems(FirstAsks(p, id, token)) :
              a.kind = "load" /\ a.owner = "mounted" /\ a.latest
         /\ p = "pulse" => Pending({"rows"}, Elems(FirstAsks(p, id, token)))
         /\ p = "invite" => Pending({"redeem"}, Elems(FirstAsks(p, id, token)))
  <1> DEFINE load == Request("load", p, id, token)
             rows == Request("rows", p, id, token)
             redeem == Request("redeem", p, id, token)
  <1>1. CASE p = "pulse"
    <2>1. FirstAsks(p, id, token) = <<rows, load>>
      BY <1>1 DEF FirstAsks
    <2>2. /\ rows \in Asked /\ rows.kind = "rows" /\ rows.page = p /\ rows.id = id
          /\ rows.owner = "mounted"
      BY <1>1, RequestFacts, HomeFacts
    <2>3. /\ load \in Asked /\ load.kind = "load" /\ load.page = p /\ load.id = id
          /\ load.owner = "mounted" /\ load.latest
      BY <1>1, RequestFacts, HomeFacts
    <2> HIDE DEF load, rows
    <2>4. <<rows, load>> \in Seq(Asked) /\ Elems(<<rows, load>>) = {rows, load}
      BY <2>2, <2>3 DEF Elems
    <2> QED
      BY <1>1, <2>1, <2>2, <2>3, <2>4 DEF Pending
  <1>2. CASE p = "invite"
    <2>1. FirstAsks(p, id, token) = <<redeem>>
      BY <1>2 DEF FirstAsks
    <2>2. /\ redeem \in Asked /\ redeem.kind = "redeem" /\ redeem.page = p /\ redeem.id = id
          /\ redeem.owner = "mounted"
      BY <1>2, RequestFacts, HomeFacts DEF Mutating
    <2> HIDE DEF redeem
    <2>3. <<redeem>> \in Seq(Asked) /\ Elems(<<redeem>>) = {redeem}
      BY <2>2 DEF Elems
    <2> QED
      BY <1>2, <2>1, <2>2, <2>3 DEF Pending
  <1>3. CASE p \notin {"pulse", "invite"}
    <2>1. FirstAsks(p, id, token) = <<load>>
      BY <1>3 DEF FirstAsks
    <2>2. /\ load \in Asked /\ load.kind = "load" /\ load.page = p /\ load.id = id
          /\ load.owner = "mounted" /\ load.latest
      BY <1>3, RequestFacts, HomeFacts
    <2> HIDE DEF load
    <2>3. <<load>> \in Seq(Asked) /\ Elems(<<load>>) = {load}
      BY <2>2 DEF Elems
    <2> QED
      BY <1>3, <2>1, <2>2, <2>3
  <1> QED
    BY <1>1, <1>2, <1>3

\* A provider starts over, whatever the tab was.
LEMMA ProvidedWhole ==
  ASSUME NEW t, t.asks \in Seq(Asked), NEW p \in Bare \cup Detail, NEW id \in Subjects(p),
         NEW how \in {"left", "gone"}
  PROVE  Whole(Provided(t, p, id, how))
  <1> DEFINE u == Provided(t, p, id, how)
             o == Orphaned(t.asks, how)
             s == Request("session", p, id, None)
             outside == Area(p) = "outside"
             first == IF outside THEN <<>> ELSE <<s>>
  <1>1. /\ o \in Seq(Asked)
        /\ \A a \in Elems(o) : a.kind \in Mutating /\ a.owner # "mounted"
    BY OrphanFacts
  <1>2. s \in Asked /\ s.kind = "session" /\ s.owner = "mounted"
    BY RequestFacts, HomeFacts DEF Mutating, Tokens
  <1>3. outside <=> p = "landing"
    BY DEF Area, Ops
  <1>4. u.asks = o \o first
    BY DEF Provided
  <1> HIDE DEF s, o
  <1>5. first \in Seq(Asked) /\ Elems(first) = IF outside THEN {} ELSE {s}
    BY <1>2 DEF Elems
  <1> HIDE DEF first, outside
  <1>6. u.asks \in Seq(Asked) /\ Elems(u.asks) = Elems(o) \cup (IF outside THEN {} ELSE {s})
    BY <1>1, <1>4, <1>5, ElemsAdded
  <1>7. /\ u.page = p /\ u.id = id /\ u.token = None /\ u.view = NewView(p)
        /\ u.gate = IF outside THEN "none" ELSE "loading"
    BY DEF Provided, outside
  <1>8. u \in Tab
    <2>1. id \in Some /\ NewView(p) \in View /\ None \in Tokens
      BY NewViewFacts DEF Subjects, Some, Tokens
    <2>2. u = [page |-> p, id |-> id, token |-> None, view |-> NewView(p),
               gate |-> u.gate, asks |-> u.asks]
      BY DEF Provided
    <2>3. u.gate \in Gate
      BY <1>7 DEF Gate
    <2> HIDE DEF u
    <2> QED
      BY <1>6, <2>1, <2>2, <2>3 DEF Tab
  <1> HIDE DEF u
  <1>9. Gated(u, Elems(u.asks))
    BY <1>1, <1>2, <1>3, <1>6, <1>7 DEF Gated, Mutating
  <1>10. Routed(u, Elems(u.asks))
    BY <1>7, NewViewFacts DEF Routed
  <1>11. u.gate # "open"
    BY <1>7
  <1> QED
    BY <1>7, <1>8, <1>9, <1>10, <1>11 DEF Whole, Sound, u

\* A page that is mounted behind an open gate.
LEMMA MountedWhole ==
  ASSUME NEW t \in Tab, t.gate = "open",
         NEW p \in Bare \cup Detail, p # "landing", NEW id \in Subjects(p)
  PROVE  Whole(Mounted(t, p, id))
  <1> DEFINE u == Mounted(t, p, id)
             o == Orphaned(t.asks, "left")
             first == FirstAsks(p, id, t.token)
  <1>1. t.asks \in Seq(Asked) /\ t.token \in Tokens
    BY DEF Tab
  <1>2. /\ o \in Seq(Asked)
        /\ \A a \in Elems(o) : a.kind \in Mutating /\ a.owner # "mounted"
    BY <1>1, OrphanFacts
  <1>3. /\ first \in Seq(Asked)
        /\ \A a \in Elems(first) :
             a.page = p /\ a.id = id /\ a.kind \in {"load", "rows", "redeem"}
        /\ p # "invite" => \E a \in Elems(first) :
             a.kind = "load" /\ a.owner = "mounted" /\ a.latest
        /\ p = "pulse" => Pending({"rows"}, Elems(first))
        /\ p = "invite" => Pending({"redeem"}, Elems(first))
    BY <1>1, FirstAsksFacts
  <1>4. /\ u.page = p /\ u.id = id /\ u.gate = "open" /\ u.token = t.token
        /\ u.view = NewView(p) /\ u.asks = o \o first
    BY DEF Mounted, Tab
  <1> HIDE DEF o, first
  <1>5. u.asks \in Seq(Asked) /\ Elems(u.asks) = Elems(o) \cup Elems(first)
    BY <1>2, <1>3, <1>4, ElemsAdded
  <1>6. u \in Tab
    <2>1. id \in Some /\ NewView(p) \in View
      BY NewViewFacts DEF Subjects, Some
    <2> DEFINE v == NewView(p)
               w == u.asks
    <2>2. u = [t EXCEPT !.page = p, !.id = id, !.view = v, !.asks = w]
      BY <1>4 DEF Mounted, o, first
    <2> HIDE DEF u, v, w
    <2> QED
      BY <1>5, <2>1, <2>2 DEF Tab, v, w
  <1> HIDE DEF u
  <1>7. Gated(u, Elems(u.asks))
    BY <1>2, <1>3, <1>4, <1>5 DEF Gated, Mutating
  <1>8. Routed(u, Elems(u.asks))
    BY <1>2, <1>3, <1>4, <1>5, NewViewFacts DEF Routed
  <1>9. Waits(u.page, u.view, Elems(u.asks))
    <2>1. /\ ~u.view.failed /\ (u.view.loading <=> p = "pulse")
          /\ ~u.view.busy /\ ~u.view.sub /\ u.view.create = "closed"
      BY <1>4, NewViewFacts
    <2>2. LoadAwaited(p, u.view, Elems(u.asks))
      BY <1>3, <1>5 DEF LoadAwaited, Awaits
    <2>3. RedeemAwaited(p, u.view, Elems(u.asks)) /\ RowsAwaited(p, u.view, Elems(u.asks))
      BY <1>3, <1>5, <2>1 DEF RedeemAwaited, RowsAwaited, Pending
    <2>4. /\ BusyAwaited(p, u.view, Elems(u.asks)) /\ SubAwaited(p, u.view, Elems(u.asks))
          /\ CreateAwaited(u.view, Elems(u.asks))
      BY <2>1 DEF BusyAwaited, SubAwaited, CreateAwaited
    <2> QED
      BY <1>4, <2>2, <2>3, <2>4 DEF Waits
  <1> QED
    BY <1>4, <1>6, <1>7, <1>8, <1>9 DEF Whole, Sound, u

---------------------------------------------------------------------------
\* A page that stays mounted.

\* What an open tab must satisfy.
Mine(u, b) ==
    /\ b.kind # "session"
    /\ b.owner = "mounted" =>
         /\ b.page = u.page
         /\ b.kind \in {"load", "issue"} /\ b.latest => b.id = u.id

Facing(u) ==
    /\ u.view.data \in Subjects(u.page) \cup {None}
    /\ u.page \in {"overview", "connections", "pulse", "user"} => u.view.data \in {None, u.id}
    /\ u.view.secret \in {None, u.id} /\ (u.view.secret # None => u.page = "connections")

LEMMA OpenWhole ==
  ASSUME NEW u \in Tab, u.gate = "open"
  PROVE  Whole(u) <=>
           /\ u.page # "landing" /\ u.id \in Subjects(u.page) /\ Facing(u)
           /\ \A b \in Elems(u.asks) : Mine(u, b)
           /\ Waits(u.page, u.view, Elems(u.asks))
  BY DEF Whole, Sound, Gated, Routed, Mine, Facing

\* The same of a tab from which a request was taken out.
LEMMA OpenSound ==
  ASSUME NEW u \in Tab, NEW A, u.gate = "open"
  PROVE  Sound(u, A) <=>
           /\ u.page # "landing" /\ u.id \in Subjects(u.page) /\ Facing(u)
           /\ \A b \in A : Mine(u, b)
           /\ Waits(u.page, u.view, A)
  BY DEF Sound, Gated, Routed, Mine, Facing

\* What is superseded is still a request of the page.
LEMMA LateMine ==
  ASSUME NEW u, NEW a \in Asked, Mine(u, a), NEW kinds
  PROVE  Mine(u, Late(a, kinds))
  BY LateFacts DEF Mine

\* The waits that no request of the kinds D ends are the same for every view
\* that waits for nothing more.
LEMMA StillWaits ==
  ASSUME NEW A, NEW B, NEW D, \A a \in A : a.kind \notin D => a \in B,
         NEW p, NEW v, NEW w, Waits(p, v, A)
  PROVE  /\ "load" \notin D /\ (w.data = None /\ ~w.failed => v.data = None /\ ~v.failed)
              => LoadAwaited(p, w, B)
         /\ "redeem" \notin D /\ (~w.failed => ~v.failed) => RedeemAwaited(p, w, B)
         /\ D \cap {"rows", "more"} = {} /\ (w.loading => v.loading) => RowsAwaited(p, w, B)
         /\ (p = "projects" => "create" \notin D) /\ (p # "projects" => D \cap {"state", "delete"} = {})
            /\ (w.busy => v.busy) => BusyAwaited(p, w, B)
         /\ D \cap {"issue", "invite", "withdraw", "remove", "resolve", "rows"} = {}
            /\ (w.sub => v.sub) => SubAwaited(p, w, B)
         /\ "create" \notin D /\ (w.create = "busy" => v.create = "busy") => CreateAwaited(w, B)
  <1>1. /\ LoadAwaited(p, v, A) /\ RedeemAwaited(p, v, A) /\ RowsAwaited(p, v, A)
        /\ BusyAwaited(p, v, A) /\ SubAwaited(p, v, A) /\ CreateAwaited(v, A)
    BY DEF Waits
  <1>2. ASSUME NEW K, K \cap D = {}, Pending(K, A) PROVE Pending(K, B)
    BY <1>2 DEF Pending
  <1>3. ASSUME NEW K, K \cap D = {}, Awaits(K, p, A) PROVE Awaits(K, p, B)
    BY <1>3 DEF Awaits
  <1>4. "load" \notin D /\ (w.data = None /\ ~w.failed => v.data = None /\ ~v.failed)
          => LoadAwaited(p, w, B)
    BY <1>1, <1>3 DEF LoadAwaited
  <1>5. "redeem" \notin D /\ (~w.failed => ~v.failed) => RedeemAwaited(p, w, B)
    BY <1>1, <1>2 DEF RedeemAwaited
  <1>6. D \cap {"rows", "more"} = {} /\ (w.loading => v.loading) => RowsAwaited(p, w, B)
    BY <1>1, <1>2 DEF RowsAwaited
  <1>7. (p = "projects" => "create" \notin D) /\ (p # "projects" => D \cap {"state", "delete"} = {})
          /\ (w.busy => v.busy) => BusyAwaited(p, w, B)
    BY <1>1, <1>2, <1>3 DEF BusyAwaited
  <1>8. D \cap {"issue", "invite", "withdraw", "remove", "resolve", "rows"} = {}
          /\ (w.sub => v.sub) => SubAwaited(p, w, B)
    BY <1>1, <1>3 DEF SubAwaited
  <1>9. "create" \notin D /\ (w.create = "busy" => v.create = "busy") => CreateAwaited(w, B)
    BY <1>1, <1>2 DEF CreateAwaited
  <1> QED
    BY <1>4, <1>5, <1>6, <1>7, <1>8, <1>9

\* Nothing is lost, and nothing more is awaited.
LEMMA SameWaits ==
  ASSUME NEW A, NEW B, \A a \in A : a \in B, NEW p, NEW v, NEW w, Waits(p, v, A),
         w.data = v.data, w.failed = v.failed, w.loading => v.loading, w.busy => v.busy,
         w.sub => v.sub, w.create = "busy" => v.create = "busy"
  PROVE  Waits(p, w, B)
  <1> DEFINE D == {}
  <1>1. \A a \in A : a.kind \notin D => a \in B
    OBVIOUS
  <1>2. \A x, S : x \notin D /\ D \cap S = {}
    OBVIOUS
  <1> HIDE DEF D
  <1>3. LoadAwaited(p, w, B) /\ RedeemAwaited(p, w, B)
    BY <1>1, <1>2, StillWaits
  <1>4. RowsAwaited(p, w, B) /\ BusyAwaited(p, w, B)
    BY <1>1, <1>2, StillWaits
  <1>5. SubAwaited(p, w, B) /\ CreateAwaited(w, B)
    BY <1>1, <1>2, StillWaits
  <1> QED
    BY <1>3, <1>4, <1>5 DEF Waits

\* Another subject: the page asks again, and late answers do not count.
LEMMA SwitchedWhole ==
  ASSUME NEW t \in Tab, t.gate = "open", Whole(t), t.page \in Detail, NEW id \in Ids
  PROVE  Whole(Switched(t, id))
  <1> DEFINE p == t.page
             v == t.view
             load == Request("load", p, id, t.token)
             rows == Request("rows", p, id, t.token)
             u == Switched(t, id)
             A == Elems(t.asks)
  <1>1. /\ t.asks \in Seq(Asked) /\ t.token \in Tokens /\ v \in View /\ A \in SUBSET Asked
        /\ id \in Subjects(p) /\ id \in Some /\ p # "landing"
    BY DEF Tab, Elems, Subjects, Some, Detail
  <1>2. /\ Facing(t) /\ (\A b \in A : Mine(t, b)) /\ Waits(p, v, A)
    BY OpenWhole
  <1>3. /\ load \in Asked /\ load.kind = "load" /\ load.page = p /\ load.id = id
        /\ load.owner = "mounted" /\ load.latest
    BY <1>1, RequestFacts, HomeFacts DEF Detail
  <1>4. p \in {"settings", "pulse"} =>
          /\ rows \in Asked /\ rows.kind = "rows" /\ rows.page = p /\ rows.id = id
          /\ rows.owner = "mounted"
    BY <1>1, RequestFacts, HomeFacts
  <1> HIDE DEF load, rows
  \* What is left of the requests, and what is asked for.
  <1>5. ASSUME NEW kinds, NEW new \in Seq(Asked), NEW w \in View, "load" \in kinds,
               p = "connections" => "issue" \in kinds,
               u = [t EXCEPT !.id = id, !.view = w, !.asks = Replaced(t, kinds, new)],
               w.secret = None, w.data \in Ids \cup {None}, p # "settings" => w.data = None,
               load \in Elems(new), Elems(new) \subseteq {load, rows},
               p \in {"settings", "pulse"} \/ Elems(new) = {load},
               Waits(p, w, {Late(a, kinds) : a \in A} \cup Elems(new))
        PROVE  Whole(u)
    <2> DEFINE L == {Late(a, kinds) : a \in A}
               X == L \cup Elems(new)
               q == Superseded(t.asks, kinds)
    <2>1. q \in Seq(Asked) /\ Elems(q) = L
      BY <1>1, SupersededFacts
    <2>2. q \o new \in Seq(Asked) /\ Elems(q \o new) = X
      BY <1>5, <2>1, ElemsAdded
    <2>3. u = [t EXCEPT !.id = id, !.view = w, !.asks = q \o new]
      BY <1>5 DEF Replaced
    <2> HIDE DEF u, q, L
    <2>4. u \in Tab /\ u.gate = "open" /\ u.page = p /\ u.id = id /\ u.view = w /\ u.asks = q \o new
      BY <1>1, <1>5, <2>2, <2>3 DEF Tab
    <2>5. Facing(u)
      BY <1>1, <1>5, <2>4 DEF Facing, Subjects
    <2>6. ASSUME NEW b \in L PROVE Mine(u, b)
      <3>1. PICK a \in A : b = Late(a, kinds)
        BY DEF L
      <3>2. a \in Asked /\ Mine(t, a)
        BY <1>1, <1>2
      <3>3. /\ b.kind = a.kind /\ b.page = a.page /\ b.owner = a.owner
            /\ b.kind = "load" /\ b.owner = "mounted" => ~b.latest
            /\ b.kind = "issue" /\ p = "connections" /\ b.owner = "mounted" => ~b.latest
        BY <1>5, <3>1, <3>2, LateFacts
      <3>4. b.kind = "issue" /\ b.owner = "mounted" => p = "connections"
        <4>1. a.page \in Home(a.kind)
          BY <3>2 DEF Asked
        <4>2. a.kind = "issue" => a.page = "connections"
          BY <4>1, HomeFacts
        <4> QED
          BY <3>2, <3>3, <4>2 DEF Mine
      <3> QED
        BY <2>4, <3>2, <3>3, <3>4 DEF Mine
    <2>7. ASSUME NEW b \in Elems(new) PROVE Mine(u, b)
      BY <1>3, <1>4, <1>5, <2>4 DEF Mine
    <2>8. \A b \in Elems(u.asks) : Mine(u, b)
      BY <2>2, <2>4, <2>6, <2>7
    <2>9. Waits(u.page, u.view, Elems(u.asks))
      <3>1. Waits(p, w, X)
        BY <1>5 DEF L
      <3> QED
        BY <2>2, <2>4, <3>1
    <2> QED
      BY <1>1, <2>4, <2>5, <2>8, <2>9, OpenWhole
  \* Nothing is awaited but what was, the load and the rows.
  <1>6. ASSUME NEW kinds, NEW B, NEW w, "rows" \notin kinds, "create" \notin kinds,
               (w.create = "busy" => v.create = "busy"), load \in B,
               {Late(a, kinds) : a \in A} \subseteq B, w.sub => v.sub /\ kinds = {"load"},
               w.busy => v.busy /\ kinds = {"load"},
               w.loading => p = "pulse" /\ rows \in B
        PROVE  Waits(p, w, B)
    <2>1. \A a \in A : a.kind \notin kinds => a \in B
      <3> SUFFICES ASSUME NEW a \in A, a.kind \notin kinds PROVE a \in B
        OBVIOUS
      <3>1. Late(a, kinds) = a
        BY <1>1, LateFacts
      <3> QED
        BY <1>6, <3>1
    <2>2. LoadAwaited(p, w, B)
      BY <1>3, <1>6 DEF LoadAwaited, Awaits
    <2>3. RedeemAwaited(p, w, B)
      BY DEF RedeemAwaited, Detail
    <2>4. RowsAwaited(p, w, B)
      BY <1>4, <1>6 DEF RowsAwaited, Pending
    <2>5. BusyAwaited(p, w, B)
      <3>1. CASE kinds = {"load"}
        BY <1>2, <1>6, <2>1, <3>1, StillWaits, Zenon DEF Detail
      <3>2. CASE kinds # {"load"}
        BY <1>6, <3>2 DEF BusyAwaited
      <3> QED
        BY <3>1, <3>2
    <2>6. SubAwaited(p, w, B)
      <3>1. CASE kinds = {"load"}
        BY <1>2, <1>6, <2>1, <3>1, StillWaits, Zenon
      <3>2. CASE kinds # {"load"}
        BY <1>6, <3>2 DEF SubAwaited
      <3> QED
        BY <3>1, <3>2
    <2>7. CreateAwaited(w, B)
      BY <1>2, <1>6, <2>1, StillWaits, Zenon
    <2> QED
      BY <2>2, <2>3, <2>4, <2>5, <2>6, <2>7 DEF Waits
  <1>7. <<load>> \in Seq(Asked) /\ Elems(<<load>>) = {load}
    BY <1>3 DEF Elems
  <1>8. p \in {"settings", "pulse"} =>
          <<rows, load>> \in Seq(Asked) /\ Elems(<<rows, load>>) = {rows, load}
    BY <1>3, <1>4 DEF Elems
  <1>9. \A q : [NewView(q) EXCEPT !.create = v.create] \in View /\ NewView(q) \in View
    BY <1>1 DEF View, NewView, Typed
  <1>10. CASE p \in {"overview", "connections"}
    <2> DEFINE kinds == IF p = "overview" THEN {"load"} ELSE {"load", "issue", "revoke"}
               w == [NewView(p) EXCEPT !.create = v.create]
    <2>1. u = [t EXCEPT !.id = id, !.view = w, !.asks = Replaced(t, kinds, <<load>>)]
      BY <1>10 DEF Switched, load
    <2>2. /\ w.create = v.create /\ w.secret = None /\ w.data = None
          /\ ~w.sub /\ ~w.busy /\ ~w.loading
      BY <1>10 DEF NewView
    <2>3. w \in View
      BY <1>9
    <2>4. /\ "rows" \notin kinds /\ "create" \notin kinds /\ "load" \in kinds
          /\ p = "connections" => "issue" \in kinds
      OBVIOUS
    <2> HIDE DEF w, u, kinds
    <2>5. Waits(p, w, {Late(a, kinds) : a \in A} \cup Elems(<<load>>))
      BY <1>6, <1>7, <2>2, <2>4
    <2>6. Whole(u)
      BY <1>5, <1>7, <1>10, <2>1, <2>2, <2>3, <2>4, <2>5
    <2> QED
      BY <2>6 DEF u
  <1>11. CASE p = "user"
    <2> DEFINE kinds == {"load", "state"}
               w == NewView("user")
    <2>1. u = [t EXCEPT !.id = id, !.view = w, !.asks = Replaced(t, kinds, <<load>>)]
      BY <1>11 DEF Switched, Settled, load
    <2>2. w.secret = None /\ w.data = None /\ ~w.sub /\ ~w.busy /\ ~w.loading /\ w.create = "closed"
      BY DEF NewView
    <2>3. w \in View
      BY <1>9
    <2>4. "rows" \notin kinds /\ "create" \notin kinds /\ "load" \in kinds
      OBVIOUS
    <2> HIDE DEF w, u, kinds
    <2>5. Waits(p, w, {Late(a, kinds) : a \in A} \cup Elems(<<load>>))
      BY <1>6, <1>7, <2>2, <2>4
    <2>6. Whole(u)
      BY <1>5, <1>7, <1>11, <2>1, <2>2, <2>3, <2>4, <2>5
    <2> QED
      BY <2>6 DEF u
  <1>12. CASE p = "settings"
    <2> DEFINE new == IF v.data = None THEN <<load>> ELSE <<rows, load>>
    <2>1. u = [t EXCEPT !.id = id, !.view = v, !.asks = Replaced(t, {"load"}, new)]
      BY <1>12 DEF Switched, load, rows, Tab
    <2>2. v.secret = None /\ v.data \in Ids \cup {None}
      BY <1>2, <1>12 DEF Facing, Subjects, Detail
    <2>3. ~v.loading
      BY <1>2, <1>12 DEF Waits, RowsAwaited
    <2>4. new \in Seq(Asked) /\ load \in Elems(new) /\ Elems(new) \subseteq {load, rows}
      BY <1>7, <1>8, <1>12
    <2> HIDE DEF new, u
    <2>5. Waits(p, v, {Late(a, {"load"}) : a \in A} \cup Elems(new))
      BY <1>6, <2>3, <2>4
    <2>6. Whole(u)
      BY <1>1, <1>5, <1>12, <2>1, <2>2, <2>4, <2>5
    <2> QED
      BY <2>6 DEF u
  <1>13. CASE p = "pulse"
    <2> DEFINE w == [v EXCEPT !.data = None, !.failed = FALSE, !.loading = TRUE]
               new == <<rows, load>>
    <2>1. u = [t EXCEPT !.id = id, !.view = w, !.asks = Replaced(t, {"load"}, new)]
      BY <1>13 DEF Switched, load, rows
    <2>2. v.secret = None
      BY <1>2, <1>13 DEF Facing
    <2>3. /\ w \in View /\ w.secret = v.secret /\ w.data = None /\ w.sub = v.sub
          /\ w.busy = v.busy /\ w.create = v.create
      BY <1>1 DEF View
    <2>4. new \in Seq(Asked) /\ Elems(new) = {rows, load}
      BY <1>8, <1>13
    <2> HIDE DEF new, u, w
    <2>5. Waits(p, w, {Late(a, {"load"}) : a \in A} \cup Elems(new))
      BY <1>6, <1>13, <2>3, <2>4
    <2>6. Whole(u)
      BY <1>5, <1>13, <2>1, <2>2, <2>3, <2>4, <2>5
    <2> QED
      BY <2>6 DEF u
  <1> QED
    BY <1>10, <1>11, <1>12, <1>13 DEF Detail

\* Any way to another page or subject.
LEMMA GoWhole ==
  ASSUME NEW t, Whole(t), NEW p \in Bare \cup Detail, NEW id \in Subjects(p)
  PROVE  Whole(Go(t, p, id))
  <1>1. /\ t \in Tab /\ t.page \in Bare \cup Detail /\ t.id \in Subjects(t.page) /\ id \in Some
        /\ t.asks \in Seq(Asked) /\ Gated(t, Elems(t.asks))
    BY DEF Whole, Sound, Tab, Subjects, Some
  <1>2. CASE Area(p) # Area(t.page)
    <2>1. Go(t, p, id) = Provided(t, p, id, "left")
      BY <1>2 DEF Go
    <2> QED
      BY <1>1, <2>1, ProvidedWhole
  <1>3. CASE Area(p) = Area(t.page) /\ t.gate # "open"
    <2> DEFINE v == NewView(p)
               u == [t EXCEPT !.page = p, !.id = id, !.view = v]
    <2>1. Go(t, p, id) = u
      BY <1>3 DEF Go
    <2>2. p = "landing" <=> t.page = "landing"
      BY <1>3 DEF Area, Ops
    <2>3. /\ v \in View /\ v.data = None /\ v.secret = None
      BY NewViewFacts
    <2> HIDE DEF v
    <2>4. u \in Tab /\ u.page = p /\ u.id = id /\ u.view = v /\ u.gate = t.gate /\ u.asks = t.asks
      BY <1>1, <2>3 DEF Tab
    <2> HIDE DEF u
    <2>5. Gated(u, Elems(u.asks))
      BY <1>1, <1>3, <2>2, <2>4 DEF Gated, v
    <2>6. Routed(u, Elems(u.asks))
      BY <1>3, <2>3, <2>4 DEF Routed
    <2>7. Whole(u)
      BY <1>3, <2>4, <2>5, <2>6 DEF Whole, Sound
    <2> QED
      BY <2>1, <2>7
  <1>4. CASE Area(p) = Area(t.page) /\ t.gate = "open"
    <2>1. t.page # "landing" /\ p # "landing"
      BY <1>1, <1>4 DEF Gated, Area, Ops
    <2>2. CASE p # t.page
      <3>1. Go(t, p, id) = Mounted(t, p, id)
        BY <1>4, <2>2 DEF Go
      <3> QED
        BY <1>1, <1>4, <2>1, <3>1, MountedWhole
    <2>3. CASE p = t.page /\ id # t.id
      <3>1. Go(t, p, id) = Switched(t, id)
        BY <1>4, <2>3 DEF Go
      <3>2. t.page \in Detail /\ id \in Ids
        BY <1>1, <2>3 DEF Subjects
      <3> QED
        BY <1>1, <1>4, <3>1, <3>2, SwitchedWhole
    <2>4. CASE p = t.page /\ id = t.id
      BY <1>4, <2>4 DEF Go
    <2> QED
      BY <2>2, <2>3, <2>4
  <1> QED
    BY <1>2, <1>3, <1>4

\* The same page, with another view and other requests.
LEMMA ViewWhole ==
  ASSUME NEW t \in Tab, NEW A, t.gate = "open", Sound(t, A),
         NEW w \in View, NEW q \in Seq(Asked),
         w.data \in {t.view.data, None}
           \/ (w.data \in Subjects(t.page)
               /\ (t.page \in {"overview", "connections", "pulse", "user"} => w.data = t.id)),
         w.secret \in {t.view.secret, None} \/ (t.page = "connections" /\ w.secret = t.id),
         \A b \in Elems(q) : Mine(t, b),
         Waits(t.page, w, Elems(q))
  PROVE  Whole([t EXCEPT !.view = w, !.asks = q])
  <1> DEFINE u == [t EXCEPT !.view = w, !.asks = q]
  <1>1. t.page # "landing" /\ t.id \in Subjects(t.page) /\ Facing(t)
    BY OpenSound
  <1>2. /\ u \in Tab /\ u.page = t.page /\ u.id = t.id /\ u.gate = "open"
        /\ u.view = w /\ u.asks = q
    BY DEF Tab
  <1> HIDE DEF u
  <1>3. Facing(u)
    BY <1>1, <1>2 DEF Facing
  <1>4. \A b \in Elems(q) : Mine(u, b)
    BY <1>2 DEF Mine
  <1>5. Whole(u)
    BY <1>1, <1>2, <1>3, <1>4, OpenWhole
  <1> QED
    BY <1>5 DEF u

---------------------------------------------------------------------------
\* The user on a page.

\* A new view that waits for nothing more.
LEMMA ShowsWhole ==
  ASSUME Whole(tab), tab.gate = "open", NEW w \in View, Shows(w),
         w.data = tab.view.data, w.failed = tab.view.failed, w.secret \in {tab.view.secret, None},
         w.loading => tab.view.loading, w.busy => tab.view.busy, w.sub => tab.view.sub,
         w.create = "busy" => tab.view.create = "busy"
  PROVE  Whole(tab')
  <1> DEFINE A == Elems(tab.asks)
  <1>1. tab \in Tab /\ tab.asks \in Seq(Asked) /\ Sound(tab, A)
    BY DEF Whole, Sound, Tab
  <1>2. (\A b \in A : Mine(tab, b)) /\ Waits(tab.page, tab.view, A)
    BY <1>1, OpenWhole
  <1>3. Waits(tab.page, w, A)
    BY <1>2, SameWaits
  <1>4. Whole([tab EXCEPT !.view = w, !.asks = tab.asks])
    BY <1>1, <1>2, <1>3, ViewWhole
  <1>5. tab' = [tab EXCEPT !.view = w, !.asks = tab.asks]
    BY <1>1 DEF Shows, Tab
  <1> QED
    BY <1>4, <1>5

\* A new view and a request, which ends what the view waits for from now on.
LEMMA AsksWhole ==
  ASSUME Whole(tab), tab.gate = "open", NEW w \in View,
         NEW kind \in Mutating \cup {"load", "rows", "more"}, tab.page \in Home(kind),
         NEW id \in Subjects(tab.page), kind \in {"load", "issue"} => id = tab.id,
         NEW kinds, Asks(w, kind, id, kinds),
         w.data = tab.view.data, w.secret \in {tab.view.secret, None},
         \/ kind = "load" \/ tab.page \in {"pulse", "invite"}
         \/ "load" \notin kinds /\ (w.data = None /\ ~w.failed => ~tab.view.failed),
         \/ kind = "redeem" \/ tab.page # "invite"
         \/ "redeem" \notin kinds /\ (~w.failed => ~tab.view.failed),
         w.loading => \/ tab.page = "pulse" /\ kind = "rows"
                      \/ tab.page = "users" /\ kind = "more"
                      \/ tab.view.loading /\ kinds \cap {"rows", "more"} = {},
         w.busy => \/ tab.page = "projects" /\ kind = "create"
                   \/ tab.page \in {"user", "settings"} /\ kind \in {"state", "delete"}
                   \/ tab.view.busy /\ kinds \cap {"state", "delete", "create"} = {},
         w.sub => \/ kind \in {"issue", "invite", "withdraw", "remove", "resolve"}
                  \/ tab.view.sub /\ kinds \cap {"issue", "invite", "withdraw", "remove", "resolve", "rows"} = {},
         w.create = "busy" => kind = "create" \/ (tab.view.create = "busy" /\ "create" \notin kinds)
  PROVE  Whole(tab') /\ UNCHANGED server
  <1> DEFINE A == Elems(tab.asks)
             p == tab.page
             v == tab.view
             r == [Request(kind, p, id, tab.token) EXCEPT
                     !.typed = IF kind = "delete" THEN w.typed ELSE None]
             L == {Late(a, kinds) : a \in A}
             q == Append(Superseded(tab.asks, kinds), r)
             B == L \cup {r}
  <1>1. /\ tab \in Tab /\ tab.asks \in Seq(Asked) /\ Sound(tab, A) /\ tab.token \in Tokens
        /\ p \in Bare \cup Detail /\ A \subseteq Asked
    BY DEF Whole, Sound, Tab, Elems
  <1>2. (\A b \in A : Mine(tab, b)) /\ Waits(p, v, A)
    BY <1>1, OpenWhole
  <1>3. /\ r \in Asked /\ r.kind = kind /\ r.page = p /\ r.id = id
        /\ r.owner = "mounted" /\ r.latest
    <2>1. /\ Request(kind, p, id, tab.token) \in Asked
          /\ Request(kind, p, id, tab.token).kind = kind /\ Request(kind, p, id, tab.token).page = p
          /\ Request(kind, p, id, tab.token).id = id
          /\ Request(kind, p, id, tab.token).owner = "mounted"
          /\ Request(kind, p, id, tab.token).latest
      BY <1>1, RequestFacts
    <2>2. (IF kind = "delete" THEN w.typed ELSE None) \in Typed
      BY DEF View, Typed
    <2> QED
      BY <2>1, <2>2 DEF Asked, Ask
  <1>4. tab' = [tab EXCEPT !.view = w, !.asks = q] /\ UNCHANGED server
    BY DEF Asks
  <1> HIDE DEF r
  <1>5. Superseded(tab.asks, kinds) \in Seq(Asked) /\ Elems(Superseded(tab.asks, kinds)) = L
    BY <1>1, SupersededFacts
  <1>6. q \in Seq(Asked) /\ Elems(q) = B
    BY <1>3, <1>5, ElemsAppended
  <1>7. \A b \in B : Mine(tab, b)
    <2>1. \A a \in A : Mine(tab, Late(a, kinds))
      BY <1>1, <1>2, LateMine
    <2>2. Mine(tab, r)
      BY <1>3 DEF Mine, Mutating
    <2> QED
      BY <2>1, <2>2
  <1>8. \A a \in A : a.kind \notin kinds => a \in B
    <2>1. \A a \in A : a.kind \notin kinds => Late(a, kinds) = a
      BY <1>1, LateFacts
    <2> QED
      BY <2>1
  <1>9. r \in B
    OBVIOUS
  <1> HIDE DEF L, q, B, A
  <1>10. Waits(p, w, B)
    <2>1. LoadAwaited(p, w, B)
      <3>1. CASE kind = "load" \/ p \in {"pulse", "invite"}
        BY <1>3, <1>9, <3>1 DEF LoadAwaited, Awaits
      <3>2. CASE ~(kind = "load" \/ p \in {"pulse", "invite"})
        BY <1>2, <1>8, <3>2, StillWaits
      <3> QED
        BY <3>1, <3>2
    <2>2. RedeemAwaited(p, w, B)
      <3>1. CASE kind = "redeem" \/ p # "invite"
        BY <1>3, <1>9, <3>1 DEF RedeemAwaited, Pending
      <3>2. CASE ~(kind = "redeem" \/ p # "invite")
        BY <1>2, <1>8, <3>2, StillWaits
      <3> QED
        BY <3>1, <3>2
    <2>3. RowsAwaited(p, w, B)
      <3>1. CASE ~w.loading \/ (p = "pulse" /\ kind = "rows") \/ (p = "users" /\ kind = "more")
        BY <1>3, <1>9, <3>1 DEF RowsAwaited, Pending
      <3>2. CASE v.loading /\ kinds \cap {"rows", "more"} = {}
        BY <1>2, <1>8, <3>2, StillWaits
      <3> QED
        BY <3>1, <3>2
    <2>4. BusyAwaited(p, w, B)
      <3>1. CASE ~w.busy
        BY <3>1 DEF BusyAwaited
      <3>2. CASE p = "projects" /\ kind = "create"
        BY <1>3, <1>9, <3>2 DEF BusyAwaited, Pending
      <3>3. CASE p \in {"user", "settings"} /\ kind \in {"state", "delete"}
        BY <1>3, <1>9, <3>3 DEF BusyAwaited, Awaits
      <3>4. CASE v.busy /\ kinds \cap {"state", "delete", "create"} = {}
        <4>1. "create" \notin kinds /\ kinds \cap {"state", "delete"} = {}
          BY <3>4
        <4> QED
          BY <1>2, <1>8, <3>4, <4>1, StillWaits
      <3> QED
        BY <3>1, <3>2, <3>3, <3>4
    <2>5. SubAwaited(p, w, B)
      <3>1. CASE ~w.sub
        BY <3>1 DEF SubAwaited
      <3>2. CASE kind \in {"issue", "invite", "withdraw", "remove", "resolve"}
        BY <1>3, <1>9, <3>2 DEF SubAwaited, Awaits
      <3>3. CASE v.sub /\ kinds \cap {"issue", "invite", "withdraw", "remove", "resolve", "rows"} = {}
        BY <1>2, <1>8, <3>3, StillWaits
      <3> QED
        BY <3>1, <3>2, <3>3
    <2>6. CreateAwaited(w, B)
      <3>1. CASE kind = "create"
        BY <1>3, <1>9, <3>1 DEF CreateAwaited, Pending
      <3>2. CASE w.create # "busy"
        BY <3>2 DEF CreateAwaited
      <3>3. CASE kind # "create" /\ w.create = "busy"
        <4>1. v.create = "busy" /\ "create" \notin kinds
          BY <1>2, <3>3
        <4>2. PICK a \in A : a.kind = "create" /\ a.owner = "mounted"
          BY <1>2, <4>1 DEF Waits, CreateAwaited, Pending
        <4>3. a \in B
          BY <1>8, <4>1, <4>2
        <4> QED
          BY <4>2, <4>3 DEF CreateAwaited, Pending
      <3> QED
        BY <3>1, <3>2, <3>3
    <2> QED
      BY <2>1, <2>2, <2>3, <2>4, <2>5, <2>6 DEF Waits
  <1>11. Whole([tab EXCEPT !.view = w, !.asks = q])
    BY <1>1, <1>6, <1>7, <1>10, ViewWhole
  <1> QED
    BY <1>4, <1>11

\* The page of an open tab and its view.
LEMMA OpenFacts ==
  ASSUME Whole(tab), tab.gate = "open"
  PROVE  /\ tab.page \in Bare \cup Detail /\ tab.id \in Subjects(tab.page) /\ tab.view \in View
         /\ tab.view.data \in Subjects(tab.page) \cup {None}
         /\ tab.view.loading => tab.page \in {"pulse", "users"}
         /\ tab.view.busy => tab.page \in {"projects", "user", "settings"}
  BY DEF Whole, Sound, Tab, Routed, Waits, RowsAwaited, BusyAwaited

LEMMA RetryWhole ==
  ASSUME Whole(tab), Retry
  PROVE  Whole(tab') /\ UNCHANGED server
  <1> DEFINE w == [tab.view EXCEPT !.failed = FALSE]
  <1>1. /\ tab.gate = "open" /\ tab.page \in {"overview", "connections", "user", "projects", "users"}
        /\ Asks(w, "load", tab.id, {"load"})
    BY DEF Retry, On
  <1>2. /\ w \in View /\ w.data = tab.view.data /\ w.secret = tab.view.secret
        /\ w.loading = tab.view.loading /\ w.busy = tab.view.busy /\ w.sub = tab.view.sub
        /\ w.create = tab.view.create
    BY <1>1, OpenFacts DEF View
  <1> HIDE DEF w
  <1> QED
    BY <1>1, <1>2, AsksWhole, OpenFacts, HomeFacts

LEMMA OpenDialogWhole ==
  ASSUME Whole(tab), OpenDialog
  PROVE  Whole(tab') /\ UNCHANGED server
  <1>1. PICK d \in {"state", "delete", "creator", "blocker"} :
          tab.gate = "open" /\ Shows([tab.view EXCEPT !.open = d])
    BY DEF OpenDialog, Sees, On
  <1> DEFINE w == [tab.view EXCEPT !.open = d]
  <1>2. /\ w \in View /\ w.data = tab.view.data /\ w.secret = tab.view.secret
        /\ w.failed = tab.view.failed /\ w.loading = tab.view.loading /\ w.busy = tab.view.busy
        /\ w.sub = tab.view.sub /\ w.create = tab.view.create
    BY <1>1, OpenFacts DEF View
  <1>3. Shows(w) /\ UNCHANGED server
    BY <1>1 DEF Shows
  <1> HIDE DEF w
  <1> QED
    BY <1>1, <1>2, <1>3, ShowsWhole

LEMMA CloseDialogWhole ==
  ASSUME Whole(tab), CloseDialog
  PROVE  Whole(tab') /\ UNCHANGED server
  <1> DEFINE v == tab.view
             w == IF v.open = "creator" THEN [v EXCEPT !.open = None, !.sub = FALSE, !.secret = None]
                  ELSE [v EXCEPT !.open = None, !.typed = None]
  <1>1. v.open # None /\ Shows(w) /\ UNCHANGED server
    BY DEF CloseDialog, Shows
  <1>2. tab.gate = "open" /\ v \in View
    <2>1. v \in View /\ (tab.gate # "open" => v = NewView(tab.page))
      BY DEF Whole, Sound, Gated, Tab
    <2> QED
      BY <1>1, <2>1 DEF NewView
  <1>3. /\ w \in View /\ w.data = v.data /\ w.secret \in {v.secret, None}
        /\ w.failed = v.failed /\ w.loading = v.loading /\ w.busy = v.busy
        /\ w.sub => v.sub
        /\ w.create = v.create
    BY <1>2 DEF View, Typed
  <1> HIDE DEF w
  <1> QED
    BY <1>1, <1>2, <1>3, ShowsWhole

LEMMA TypeNameWhole ==
  ASSUME Whole(tab), TypeName
  PROVE  Whole(tab') /\ UNCHANGED server
  <1> DEFINE w == [tab.view EXCEPT !.typed = Name[tab.view.data]]
  <1>1. /\ tab.gate = "open" /\ tab.page = "settings" /\ tab.view.data # None
        /\ Shows(w) /\ UNCHANGED server
    BY DEF TypeName, Sees, On, Shows
  <1>2. tab.view.data \in Ids
    BY <1>1, OpenFacts DEF Subjects, Detail
  <1>3. Name[tab.view.data] \in Typed
    BY <1>2 DEF Typed
  <1>4. /\ w \in View /\ w.data = tab.view.data /\ w.secret = tab.view.secret
        /\ w.failed = tab.view.failed /\ w.loading = tab.view.loading /\ w.busy = tab.view.busy
        /\ w.sub = tab.view.sub /\ w.create = tab.view.create
    BY <1>1, <1>3, OpenFacts DEF View
  <1> HIDE DEF w
  <1> QED
    BY <1>1, <1>4, ShowsWhole

LEMMA DialogForProjectWhole ==
  ASSUME Whole(tab), OpenCreate \/ CloseCreate
  PROVE  Whole(tab') /\ UNCHANGED server
  <1>1. PICK c \in {"open", "closed"} :
          (OpenCreate \/ tab.view.create = "open") /\ Shows([tab.view EXCEPT !.create = c])
    BY DEF OpenCreate, CloseCreate
  <1> DEFINE w == [tab.view EXCEPT !.create = c]
  <1>2. tab.gate = "open" /\ tab.view \in View
    <2>1. tab.view \in View /\ (tab.gate # "open" => tab.view = NewView(tab.page))
      BY DEF Whole, Sound, Gated, Tab
    <2> QED
      BY <1>1, <2>1 DEF NewView, OpenCreate, InShell
  <1>3. /\ w \in View /\ w.data = tab.view.data /\ w.secret = tab.view.secret
        /\ w.failed = tab.view.failed /\ w.loading = tab.view.loading /\ w.busy = tab.view.busy
        /\ w.sub = tab.view.sub /\ w.create # "busy"
    BY <1>2 DEF View
  <1>4. Shows(w) /\ UNCHANGED server
    BY <1>1 DEF Shows
  <1> HIDE DEF w
  <1> QED
    BY <1>2, <1>3, <1>4, ShowsWhole

LEMMA ChangeUserWhole ==
  ASSUME Whole(tab), ChangeUser
  PROVE  Whole(tab') /\ UNCHANGED server
  <1> DEFINE w == [tab.view EXCEPT !.open = None, !.busy = TRUE]
  <1>1. /\ tab.gate = "open" /\ tab.page = "user" /\ tab.view.data # None
        /\ Asks(w, "state", tab.view.data, {"state"})
    BY DEF ChangeUser, Sees, On
  <1>2. /\ w \in View /\ w.data = tab.view.data /\ w.secret = tab.view.secret
        /\ w.failed = tab.view.failed /\ w.loading = tab.view.loading
        /\ w.sub = tab.view.sub /\ w.create = tab.view.create
    BY <1>1, OpenFacts DEF View
  <1> HIDE DEF w
  <1> QED
    BY <1>1, <1>2, AsksWhole, OpenFacts, HomeFacts DEF Mutating

\* Lifecycle changes of the project in the route.
LEMMA ChangeProjectWhole ==
  ASSUME Whole(tab), ChangeProject \/ DeleteProject
  PROVE  Whole(tab') /\ UNCHANGED server
  <1> DEFINE w == [tab.view EXCEPT !.busy = TRUE]
  <1>1. tab.gate = "open" /\ tab.page = "settings"
    BY DEF ChangeProject, DeleteProject, Sees, On
  <1>2. Asks(w, "state", tab.id, {}) \/ Asks(w, "delete", tab.id, {})
    BY DEF ChangeProject, DeleteProject
  <1>3. /\ w \in View /\ w.data = tab.view.data /\ w.secret = tab.view.secret
        /\ w.failed = tab.view.failed /\ w.loading = tab.view.loading
        /\ w.sub = tab.view.sub /\ w.create = tab.view.create
    BY <1>1, OpenFacts DEF View
  <1> HIDE DEF w
  <1>4. CASE Asks(w, "state", tab.id, {})
    BY <1>1, <1>3, <1>4, AsksWhole, OpenFacts, HomeFacts DEF Mutating
  <1>5. CASE Asks(w, "delete", tab.id, {})
    BY <1>1, <1>3, <1>5, AsksWhole, OpenFacts, HomeFacts DEF Mutating
  <1> QED
    BY <1>2, <1>4, <1>5

\* A change of members, connections or blockers.
LEMMA SubWhole ==
  ASSUME Whole(tab), tab.gate = "open",
         NEW kind \in {"issue", "invite", "withdraw", "remove", "resolve"}, tab.page \in Home(kind),
         Asks([tab.view EXCEPT !.sub = TRUE], kind, tab.id, {})
  PROVE  Whole(tab') /\ UNCHANGED server
  <1> DEFINE w == [tab.view EXCEPT !.sub = TRUE]
  <1>1. /\ w \in View /\ w.data = tab.view.data /\ w.secret = tab.view.secret
        /\ w.failed = tab.view.failed /\ w.loading = tab.view.loading /\ w.busy = tab.view.busy
        /\ w.create = tab.view.create
    BY OpenFacts DEF View
  <1>2. Asks(w, kind, tab.id, {})
    OBVIOUS
  <1>3. tab.page # "invite" /\ kind \in Mutating
    BY HomeFacts DEF Mutating
  <1> HIDE DEF w
  <1> QED
    BY <1>1, <1>2, <1>3, AsksWhole, OpenFacts

LEMMA SubActionsWhole ==
  ASSUME Whole(tab),
         \/ CreateInvitation \/ RevokeInvitation \/ RemoveViewer
         \/ IssueConnection \/ ResolveBlocker
  PROVE  Whole(tab') /\ UNCHANGED server
  <1> DEFINE w == [tab.view EXCEPT !.sub = TRUE]
  <1>1. PICK kind \in {"issue", "invite", "withdraw", "remove", "resolve"} :
          tab.gate = "open" /\ tab.page \in Home(kind) /\ Asks(w, kind, tab.id, {})
    BY HomeFacts DEF CreateInvitation, RevokeInvitation, RemoveViewer, IssueConnection,
       ResolveBlocker, Sees, On
  <1> QED
    BY <1>1, SubWhole

LEMMA FetchPulseWhole ==
  ASSUME Whole(tab), FetchPulse
  PROVE  Whole(tab') /\ UNCHANGED server
  <1> DEFINE w == [tab.view EXCEPT !.loading = TRUE, !.failed = FALSE]
  <1>1. tab.gate = "open" /\ tab.page = "pulse" /\ Asks(w, "rows", tab.id, {})
    BY DEF FetchPulse, On
  <1>2. /\ w \in View /\ w.data = tab.view.data /\ w.secret = tab.view.secret
        /\ w.busy = tab.view.busy /\ w.sub = tab.view.sub /\ w.create = tab.view.create
    BY <1>1, OpenFacts DEF View
  <1> HIDE DEF w
  <1> QED
    BY <1>1, <1>2, AsksWhole, OpenFacts, HomeFacts DEF Mutating

LEMMA MoreUsersWhole ==
  ASSUME Whole(tab), MoreUsers
  PROVE  Whole(tab') /\ UNCHANGED server
  <1> DEFINE w == [tab.view EXCEPT !.loading = TRUE, !.failed = FALSE]
  <1>1. /\ tab.gate = "open" /\ tab.page = "users" /\ tab.view.data # None
        /\ Asks(w, "more", tab.id, {})
    BY DEF MoreUsers, Sees, On
  <1>2. /\ w \in View /\ w.data = tab.view.data /\ w.secret = tab.view.secret
        /\ w.busy = tab.view.busy /\ w.sub = tab.view.sub /\ w.create = tab.view.create
    BY <1>1, OpenFacts DEF View
  <1> HIDE DEF w
  <1> QED
    BY <1>1, <1>2, AsksWhole, OpenFacts, HomeFacts

LEMMA CreateProjectWhole ==
  ASSUME Whole(tab), CreateProject
  PROVE  Whole(tab') /\ UNCHANGED server
  <1>1. CASE tab.view.create = "open" /\ Asks([tab.view EXCEPT !.create = "busy"], "create", tab.id, {})
    <2> DEFINE w == [tab.view EXCEPT !.create = "busy"]
    <2>1. tab.gate = "open" /\ tab.view \in View
      <3>1. tab.view \in View /\ (tab.gate # "open" => tab.view = NewView(tab.page))
        BY DEF Whole, Sound, Gated, Tab
      <3> QED
        BY <1>1, <3>1 DEF NewView
    <2>2. /\ w \in View /\ w.data = tab.view.data /\ w.secret = tab.view.secret
          /\ w.failed = tab.view.failed /\ w.loading = tab.view.loading
          /\ w.busy = tab.view.busy /\ w.sub = tab.view.sub
      BY <2>1 DEF View
    <2>3. Asks(w, "create", tab.id, {})
      BY <1>1
    <2> HIDE DEF w
    <2> QED
      BY <2>1, <2>2, <2>3, AsksWhole, OpenFacts, HomeFacts DEF Mutating
  <1>2. CASE Sees("projects") /\ Asks([tab.view EXCEPT !.busy = TRUE], "create", tab.id, {})
    <2> DEFINE w == [tab.view EXCEPT !.busy = TRUE]
    <2>1. tab.gate = "open" /\ tab.page = "projects" /\ Asks(w, "create", tab.id, {})
      BY <1>2 DEF Sees, On
    <2>2. /\ w \in View /\ w.data = tab.view.data /\ w.secret = tab.view.secret
          /\ w.failed = tab.view.failed /\ w.loading = tab.view.loading
          /\ w.create = tab.view.create /\ w.sub = tab.view.sub
      BY <2>1, OpenFacts DEF View
    <2> HIDE DEF w
    <2> QED
      BY <2>1, <2>2, AsksWhole, OpenFacts, HomeFacts DEF Mutating
  <1> QED
    BY <1>1, <1>2 DEF CreateProject

LEMMA RedeemAgainWhole ==
  ASSUME Whole(tab), RedeemAgain
  PROVE  Whole(tab') /\ UNCHANGED server
  <1> DEFINE w == [tab.view EXCEPT !.failed = FALSE]
  <1>1. tab.gate = "open" /\ tab.page = "invite" /\ Asks(w, "redeem", tab.id, {})
    BY DEF RedeemAgain, On
  <1>2. /\ w \in View /\ w.data = tab.view.data /\ w.secret = tab.view.secret
        /\ w.loading = tab.view.loading /\ w.busy = tab.view.busy /\ w.sub = tab.view.sub
        /\ w.create = tab.view.create
    BY <1>1, OpenFacts DEF View
  <1> HIDE DEF w
  <1> QED
    BY <1>1, <1>2, AsksWhole, OpenFacts, HomeFacts DEF Mutating

LEMMA LogoutWhole ==
  ASSUME Whole(tab), Logout
  PROVE  Whole(tab') /\ UNCHANGED server
  <1>1. /\ tab.gate = "open" /\ tab.page \in {"overview", "connections", "settings", "pulse", "projects"}
        /\ Asks(tab.view, "logout", tab.id, {})
    BY DEF Logout, InShell, On
  <1> QED
    BY <1>1, AsksWhole, OpenFacts, HomeFacts DEF Mutating

\* The creator's own request does not change the page's view.
LEMMA RevokeConnectionWhole ==
  ASSUME Whole(tab), RevokeConnection
  PROVE  Whole(tab') /\ UNCHANGED server
  <1>1. tab.gate = "open" /\ tab.page = "connections"
    BY DEF RevokeConnection, Sees, On
  <1>2. CASE Asks(tab.view, "revoke", tab.id, {})
    BY <1>1, <1>2, AsksWhole, OpenFacts, HomeFacts DEF Mutating
  <1>3. CASE ~Asks(tab.view, "revoke", tab.id, {})
    <2> DEFINE A == Elems(tab.asks)
               r == [Request("revoke", tab.page, tab.id, tab.token) EXCEPT !.then = TRUE]
               q == Append(tab.asks, r)
    <2>1. /\ tab \in Tab /\ tab.asks \in Seq(Asked) /\ tab.token \in Tokens
          /\ (\A b \in A : Mine(tab, b)) /\ Waits(tab.page, tab.view, A)
      BY <1>1, OpenWhole DEF Whole, Sound, Tab
    <2>2. tab' = [tab EXCEPT !.asks = q] /\ UNCHANGED server
      BY <1>3 DEF RevokeConnection
    <2>3. r \in Asked /\ r.kind = "revoke" /\ r.page = tab.page
      <3>1. /\ Request("revoke", tab.page, tab.id, tab.token) \in Asked
            /\ Request("revoke", tab.page, tab.id, tab.token).kind = "revoke"
            /\ Request("revoke", tab.page, tab.id, tab.token).page = tab.page
        BY <1>1, <2>1, OpenFacts, RequestFacts, HomeFacts DEF Mutating
      <3> QED
        BY <3>1 DEF Asked, Ask
    <2> HIDE DEF r
    <2>4. q \in Seq(Asked) /\ Elems(q) = A \cup {r}
      BY <2>1, <2>3, ElemsAppended
    <2>5. \A b \in Elems(q) : Mine(tab, b)
      BY <2>1, <2>3, <2>4 DEF Mine
    <2> HIDE DEF q, A
    <2>6. Waits(tab.page, tab.view, Elems(q))
      <3>1. \A a \in A : a \in Elems(q)
        BY <2>4
      <3> QED
        BY <2>1, <3>1, SameWaits
    <2>7. Whole([tab EXCEPT !.view = tab.view, !.asks = q])
      BY <1>1, <2>1, <2>4, <2>5, <2>6, OpenFacts, ViewWhole DEF Whole
    <2>8. tab' = [tab EXCEPT !.view = tab.view, !.asks = q]
      BY <2>1, <2>2 DEF Tab
    <2> QED
      BY <2>2, <2>7, <2>8
  <1> QED
    BY <1>2, <1>3

\* Whatever the user does.
LEMMA PageActionsWhole ==
  ASSUME Whole(tab),
         \/ Retry \/ OpenDialog \/ CloseDialog \/ TypeName
         \/ ChangeUser \/ ChangeProject \/ DeleteProject
         \/ CreateInvitation \/ RevokeInvitation \/ RemoveViewer
         \/ IssueConnection \/ RevokeConnection
         \/ FetchPulse \/ ResolveBlocker \/ MoreUsers
         \/ OpenCreate \/ CloseCreate \/ CreateProject
         \/ RedeemAgain \/ Logout
  PROVE  Whole(tab') /\ UNCHANGED server
  BY RetryWhole, OpenDialogWhole, CloseDialogWhole, TypeNameWhole, ChangeUserWhole,
     ChangeProjectWhole, SubActionsWhole, RevokeConnectionWhole, FetchPulseWhole, MoreUsersWhole,
     DialogForProjectWhole, CreateProjectWhole, RedeemAgainWhole, LogoutWhole

LEMMA RouteActionsWhole ==
  ASSUME WorkspaceAssumption, Whole(tab), server \in Server,
         \/ \E p \in Pages : \E id \in Subjects(p) : Visit(p, id)
         \/ Reload \/ RefreshSession \/ Login
  PROVE  Whole(tab') /\ server' \in Server
  <1>1. /\ tab \in Tab /\ tab.page \in Bare \cup Detail /\ tab.id \in Subjects(tab.page)
        /\ tab.asks \in Seq(Asked) /\ Gated(tab, Elems(tab.asks))
    BY DEF Whole, Sound, Tab
  <1>2. CASE \E p \in Pages : \E id \in Subjects(p) : Visit(p, id)
    <2>1. PICK p \in Pages : \E id \in Subjects(p) : Visit(p, id)
      BY <1>2
    <2>2. PICK id \in Subjects(p) : tab' = Go(tab, p, id) /\ UNCHANGED server
      BY <2>1 DEF Visit
    <2>3. p \in Bare \cup Detail
      BY DEF WorkspaceAssumption
    <2> QED
      BY <2>2, <2>3, GoWhole
  <1>3. CASE Reload
    <2>1. tab' = Provided(tab, tab.page, tab.id, "gone") /\ UNCHANGED server
      BY <1>3 DEF Reload, Assign
    <2> QED
      BY <1>1, <2>1, ProvidedWhole
  <1>4. CASE RefreshSession
    <2> DEFINE r == Request("session", tab.page, tab.id, None)
               q == Append(tab.asks, r)
    <2>1. /\ tab.gate = "unavailable" /\ tab' = [tab EXCEPT !.gate = "loading", !.asks = q]
          /\ UNCHANGED server
      BY <1>4 DEF RefreshSession
    <2>2. r \in Asked /\ r.kind = "session"
      BY <1>1, RequestFacts, HomeFacts DEF Tokens
    <2> HIDE DEF r
    <2>3. q \in Seq(Asked) /\ Elems(q) = Elems(tab.asks) \cup {r}
      BY <1>1, <2>2, ElemsAppended
    <2> HIDE DEF q
    <2>4. /\ tab' \in Tab /\ tab'.page = tab.page /\ tab'.id = tab.id /\ tab'.gate = "loading"
          /\ tab'.view = tab.view /\ tab'.asks = q
      BY <1>1, <2>1, <2>3 DEF Tab, Gate
    <2>5. Gated(tab', Elems(q))
      BY <1>1, <2>1, <2>2, <2>3, <2>4 DEF Gated
    <2>6. Routed(tab', Elems(q))
      BY <2>1, <2>4 DEF Routed, Whole, Sound
    <2> QED
      BY <1>1, <2>1, <2>4, <2>5, <2>6 DEF Whole, Sound
  <1>5. CASE Login
    <2>1. /\ tab' = Provided(tab, tab.page, tab.id, "gone")
          /\ server' = [server EXCEPT !.session = TRUE]
      BY <1>5 DEF Login, Assign
    <2>2. server' \in Server
      BY <2>1 DEF Server
    <2> QED
      BY <1>1, <2>1, <2>2, ProvidedWhole
  <1> QED
    BY <1>2, <1>3, <1>4, <1>5

---------------------------------------------------------------------------
\* Answers.

\* What is left when an answer has come; the request it answers still counts for
\* what the tab waits for.
LEMMA RestSound ==
  ASSUME NEW t, Whole(t), NEW i \in 1 .. Len(t.asks)
  PROVE  /\ Without(t, i) \in Tab /\ t.asks[i] \in Asked /\ t.asks[i] \in Elems(t.asks)
         /\ Without(t, i).asks \in Seq(Asked)
         /\ Without(t, i).page = t.page /\ Without(t, i).id = t.id /\ Without(t, i).gate = t.gate
         /\ Without(t, i).view = t.view /\ Without(t, i).token = t.token
         /\ Sound(Without(t, i), Elems(Without(t, i).asks) \cup {t.asks[i]})
  <1> DEFINE u == Without(t, i)
             a == t.asks[i]
  <1>1. t \in Tab /\ t.asks \in Seq(Asked) /\ "asks" \in DOMAIN t
    BY DEF Whole, Sound, Tab
  <1>2. u.asks \in Seq(Asked) /\ Elems(t.asks) = Elems(u.asks) \cup {a}
    BY <1>1, ElemsWithout
  <1>3. a \in Asked /\ a \in Elems(t.asks)
    BY <1>1 DEF Elems
  <1>4. /\ u.page = t.page /\ u.id = t.id /\ u.gate = t.gate /\ u.view = t.view
        /\ u.token = t.token /\ u = [t EXCEPT !.asks = u.asks]
    BY <1>1 DEF Without, Tab
  <1> HIDE DEF u, a
  <1>5. u \in Tab
    BY <1>1, <1>2, <1>4 DEF Tab
  <1>6. Sound(u, Elems(u.asks) \cup {a})
    <2>1. Sound(t, Elems(u.asks) \cup {a})
      BY <1>2 DEF Whole
    <2> QED
      BY <1>4, <1>5, <2>1 DEF Sound, Gated, Routed
  <1> QED
    BY <1>2, <1>3, <1>4, <1>5, <1>6 DEF u, a

\* An answer that no mounted component waits for.
LEMMA DropWhole ==
  ASSUME NEW t \in Tab, NEW a \in Asked, Sound(t, Elems(t.asks) \cup {a}), a.kind # "session",
         a.owner # "mounted" \/ t.gate # "open"
  PROVE  Whole(t)
  <1> DEFINE A == Elems(t.asks)
  <1>1. t \in Tab /\ t.id \in Subjects(t.page) /\ Gated(t, A \cup {a}) /\ Routed(t, A \cup {a})
    BY DEF Sound
  <1> HIDE DEF A
  <1>2. Gated(t, A) /\ Routed(t, A)
    BY <1>1 DEF Gated, Routed
  <1>3. ASSUME t.gate = "open" PROVE Waits(t.page, t.view, A)
    <2>1. a.owner # "mounted" /\ a.kind # "rows"
      BY <1>3 DEF Asked, Mutating
    <2>2. Waits(t.page, t.view, A \cup {a})
      BY <1>3 DEF Sound, A
    <2>3. \A K : Pending(K, A \cup {a}) => Pending(K, A)
      BY <2>1 DEF Pending
    <2>4. \A K, p : Awaits(K, p, A \cup {a}) => Awaits(K, p, A)
      BY <2>1 DEF Awaits
    <2>5. LoadAwaited(t.page, t.view, A) /\ RedeemAwaited(t.page, t.view, A)
      BY <2>2, <2>3, <2>4 DEF Waits, LoadAwaited, RedeemAwaited
    <2>6. RowsAwaited(t.page, t.view, A) /\ BusyAwaited(t.page, t.view, A)
      BY <2>2, <2>3, <2>4 DEF Waits, RowsAwaited, BusyAwaited
    <2>7. SubAwaited(t.page, t.view, A) /\ CreateAwaited(t.view, A)
      BY <2>1, <2>2, <2>3, <2>4 DEF Waits, SubAwaited, CreateAwaited
    <2> QED
      BY <2>5, <2>6, <2>7 DEF Waits
  <1> QED
    BY <1>1, <1>2, <1>3 DEF Whole, Sound, A

\* The view after an answer waits for nothing that only this answer could end.
LEMMA AnsweredWhole ==
  ASSUME NEW t \in Tab, t.gate = "open", NEW a \in Asked, Sound(t, Elems(t.asks) \cup {a}),
         NEW w \in View, NEW q \in Seq(Asked), Elems(t.asks) \subseteq Elems(q),
         \A b \in Elems(q) : b \in Elems(t.asks) \/ Mine(t, b),
         w.data \in {t.view.data, None}
           \/ (w.data \in Subjects(t.page)
               /\ (t.page \in {"overview", "connections", "pulse", "user"} => w.data = t.id)),
         w.secret \in {t.view.secret, None} \/ (t.page = "connections" /\ w.secret = t.id),
         w.data = None /\ ~w.failed =>
           \/ t.page \in {"pulse", "invite"}
           \/ /\ t.view.data = None /\ ~t.view.failed
              /\ a.kind = "load" => ~a.latest /\ t.page \notin Bare,
         ~w.failed => t.page # "invite" \/ (~t.view.failed /\ a.kind # "redeem"),
         w.loading => \/ t.view.loading /\ a.kind \notin {"rows", "more"}
                      \/ t.page \in {"pulse", "users"} /\ Pending({"rows", "more"}, Elems(q)),
         w.busy => /\ t.view.busy
                   /\ a.kind \in {"state", "delete"} => ~a.latest /\ t.page \notin Bare
                   /\ a.kind = "create" => t.page # "projects",
         w.sub => \/ \E b \in Elems(q) : b.kind = "rows" /\ b.then /\ b.latest
                  \/ /\ t.view.sub
                     /\ a.kind \in {"issue", "invite", "withdraw", "remove", "resolve"} =>
                          ~a.latest /\ t.page \notin Bare
                     /\ a.kind = "rows" => ~(a.then /\ a.latest),
         w.create = "busy" => t.view.create = "busy" /\ a.kind # "create"
  PROVE  Whole([t EXCEPT !.view = w, !.asks = q])
  <1> DEFINE A == Elems(t.asks)
             B == Elems(q)
             p == t.page
             v == t.view
  <1>1. Waits(p, v, A \cup {a}) /\ \A b \in A \cup {a} : Mine(t, b)
    BY OpenSound
  <1>2. \A b \in B : Mine(t, b)
    BY <1>1
  <1> HIDE DEF A, B
  <1>3. A \subseteq B
    BY DEF A, B
  <1>4. \A K : a.kind \notin K /\ Pending(K, A \cup {a}) => Pending(K, B)
    BY <1>3 DEF Pending
  <1>5. \A K : (a.kind \in K => ~a.latest /\ p \notin Bare) /\ Awaits(K, p, A \cup {a}) => Awaits(K, p, B)
    BY <1>3 DEF Awaits
  <1>6. Waits(p, w, B)
    <2>1. LoadAwaited(p, w, B)
      BY <1>1, <1>5 DEF Waits, LoadAwaited
    <2>2. RedeemAwaited(p, w, B)
      BY <1>1, <1>4 DEF Waits, RedeemAwaited
    <2>3. RowsAwaited(p, w, B)
      BY <1>1, <1>4 DEF Waits, RowsAwaited, B
    <2>4. BusyAwaited(p, w, B)
      <3>1. CASE ~w.busy
        BY <3>1 DEF BusyAwaited
      <3>2. CASE p = "projects" /\ Pending({"create"}, A \cup {a}) /\ w.busy
        BY <1>4, <3>2 DEF BusyAwaited
      <3>3. CASE p \in {"user", "settings"} /\ Awaits({"state", "delete"}, p, A \cup {a}) /\ w.busy
        BY <1>5, <3>3 DEF BusyAwaited
      <3> QED
        BY <1>1, <3>1, <3>2, <3>3 DEF Waits, BusyAwaited
    <2>5. SubAwaited(p, w, B)
      <3>1. CASE ~w.sub \/ \E b \in B : b.kind = "rows" /\ b.then /\ b.latest
        BY <3>1 DEF SubAwaited
      <3>2. CASE w.sub /\ ~\E b \in B : b.kind = "rows" /\ b.then /\ b.latest
        <4>1. /\ v.sub
              /\ a.kind \in {"issue", "invite", "withdraw", "remove", "resolve"} => ~a.latest /\ p \notin Bare
              /\ a.kind = "rows" => ~(a.then /\ a.latest)
          BY <3>2 DEF B
        <4>2. ~\E b \in A \cup {a} : b.kind = "rows" /\ b.then /\ b.latest
          BY <1>3, <3>2, <4>1
        <4>3. Awaits({"issue", "invite", "withdraw", "remove", "resolve"}, p, A \cup {a})
          BY <1>1, <4>1, <4>2 DEF Waits, SubAwaited
        <4> QED
          BY <1>5, <4>1, <4>3 DEF SubAwaited
      <3> QED
        BY <3>1, <3>2
    <2>6. CreateAwaited(w, B)
      BY <1>1, <1>4 DEF Waits, CreateAwaited
    <2> QED
      BY <2>1, <2>2, <2>3, <2>4, <2>5, <2>6 DEF Waits
  <1> QED
    BY <1>2, <1>6, ViewWhole DEF B

LEMMA ShownFacts ==
  ASSUME NEW t \in Tab, NEW w
  PROVE  /\ Shown(t, w) = [t EXCEPT !.view = w, !.asks = t.asks]
         /\ t.asks \in Seq(Asked) /\ t.view \in View /\ t.token \in Tokens
         /\ t.page \in Bare \cup Detail
         /\ t = [t EXCEPT !.view = t.view, !.asks = t.asks]
  BY DEF Shown, Tab

\* A page that is answered, of the request's kind.
Answered(t, a) ==
    /\ t \in Tab /\ t.gate = "open" /\ a \in Asked /\ a.owner = "mounted"
    /\ Sound(t, Elems(t.asks) \cup {a})

LEMMA AnsweredFacts ==
  ASSUME NEW t, NEW a, Answered(t, a)
  PROVE  /\ t.page # "landing" /\ t.id \in Subjects(t.page) /\ Facing(t)
         /\ Waits(t.page, t.view, Elems(t.asks) \cup {a})
         /\ a.page = t.page /\ a.kind # "session" /\ a.page \in Home(a.kind)
         /\ a.id \in Subjects(t.page) /\ a.id \in Some
         /\ a.kind \in {"load", "issue"} /\ a.latest => a.id = t.id
         /\ \A b \in Elems(t.asks) : Mine(t, b)
  <1>1. /\ t.page # "landing" /\ t.id \in Subjects(t.page) /\ Facing(t)
        /\ Waits(t.page, t.view, Elems(t.asks) \cup {a})
        /\ \A b \in Elems(t.asks) \cup {a} : Mine(t, b)
    BY OpenSound DEF Answered
  <1>2. Mine(t, a)
    BY <1>1
  <1> QED
    BY <1>1, <1>2 DEF Answered, Mine, Asked, Ask

LEMMA LoadedWhole ==
  ASSUME WorkspaceAssumption, NEW t, NEW a, Answered(t, a), a.kind = "load",
         NEW id, id = a.id \/ (a.page = "projects" /\ id \in Ids)
  PROVE  Whole(Succeeded(t, a, id))
  <1> DEFINE v == t.view
             p == t.page
             A == Elems(t.asks)
             u == Succeeded(t, a, id)
  <1>1. /\ t \in Tab /\ t.gate = "open" /\ a \in Asked /\ Sound(t, A \cup {a})
        /\ t.asks \in Seq(Asked) /\ v \in View /\ t.token \in Tokens /\ p \in Bare \cup Detail
        /\ t = [t EXCEPT !.view = v, !.asks = t.asks]
    BY ShownFacts DEF Answered
  <1>2. /\ p # "landing" /\ a.page = p /\ a.page \in Home("load")
        /\ a.id \in Subjects(p) /\ (a.latest => a.id = t.id)
        /\ Waits(p, v, A \cup {a}) /\ t.id \in Subjects(p)
        /\ \A b \in A : Mine(t, b)
    BY AnsweredFacts
  <1>3. (v.loading => p \in {"pulse", "users"}) /\ p # "invite"
    BY <1>2, HomeFacts DEF Waits, RowsAwaited
  <1> HIDE DEF A
  <1>4. CASE ~Accepted(a)
    <2>1. u = t /\ ~a.latest /\ p \notin Bare
      BY <1>2, <1>4 DEF Succeeded, Accepted
    <2>2. Whole([t EXCEPT !.view = v, !.asks = t.asks])
      BY <1>1, <1>2, <1>3, <2>1, AnsweredWhole DEF A
    <2> QED
      BY <1>1, <2>1, <2>2
  <1>5. CASE Accepted(a) /\ a.page = "projects" /\ id # Listing
    <2>1. id \in Ids
      BY <1>2, <1>5 DEF Subjects, Detail
    <2>2. u = Go(t, "overview", id)
      BY <1>5 DEF Succeeded
    <2>3. Go(t, "overview", id) = Mounted(t, "overview", id)
      BY <1>1, <1>2, <1>5 DEF Go, Area, Ops
    <2>4. "overview" \in Bare \cup Detail /\ id \in Subjects("overview")
      BY <2>1 DEF Detail, Subjects
    <2> QED
      BY <1>1, <2>2, <2>3, <2>4, MountedWhole
  <1>6. CASE Accepted(a) /\ ~(a.page = "projects" /\ id # Listing)
    <2> DEFINE first == a.page = "settings" /\ v.data = None
               r == Request("rows", t.page, t.id, t.token)
               w == [v EXCEPT !.data = id, !.rows = IF a.page = "connections" THEN {id} ELSE @]
               q == IF first THEN Append(t.asks, r) ELSE t.asks
    <2>1. id \in Subjects(p) /\ id \in Some /\ id # None
      BY <1>2, <1>6 DEF Subjects, Detail, Some, WorkspaceAssumption
    <2>2. p \in {"overview", "connections", "pulse", "user"} => id = t.id
      BY <1>2, <1>6 DEF Accepted, Bare
    <2>3. u = [t EXCEPT !.view = w, !.asks = q]
      BY <1>6 DEF Succeeded
    <2>4. /\ w \in View /\ w.data = id /\ w.secret = v.secret /\ w.failed = v.failed
          /\ w.loading = v.loading /\ w.busy = v.busy /\ w.sub = v.sub /\ w.create = v.create
      BY <1>1, <2>1 DEF View
    <2>5. first => r \in Asked /\ Mine(t, r)
      <3>1. first => p = "settings"
        BY <1>2
      <3>2. first => r \in Asked /\ r.kind = "rows" /\ r.page = t.page
        BY <1>1, <1>2, <3>1, RequestFacts, HomeFacts
      <3> QED
        BY <3>2 DEF Mine
    <2> HIDE DEF r, w, first
    <2>6. q \in Seq(Asked) /\ Elems(q) = IF first THEN A \cup {r} ELSE A
      <3>1. CASE first
        <4>1. q = Append(t.asks, r)
          BY <3>1
        <4> QED
          BY <1>1, <2>5, <3>1, <4>1, ElemsAppended DEF A
      <3>2. CASE ~first
        BY <1>1, <3>2 DEF A
      <3> QED
        BY <3>1, <3>2
    <2> HIDE DEF q
    <2>7. A \subseteq Elems(q) /\ \A b \in Elems(q) : b \in A \/ Mine(t, b)
      BY <2>5, <2>6
    <2>8. Whole([t EXCEPT !.view = w, !.asks = q])
      BY <1>1, <1>2, <1>3, <2>1, <2>2, <2>4, <2>6, <2>7, AnsweredWhole DEF A
    <2> QED
      BY <2>3, <2>8
  <1> QED
    BY <1>4, <1>5, <1>6

\* An answer that changes nothing but the view.
LEMMA ShownWhole ==
  ASSUME NEW t, NEW a, Answered(t, a), a.kind # "load", a.kind # "redeem",
         NEW w \in View, w.data = t.view.data, w.failed = t.view.failed,
         w.secret \in {t.view.secret, None} \/ (t.page = "connections" /\ w.secret = t.id),
         w.loading => t.view.loading /\ a.kind \notin {"rows", "more"},
         w.busy => /\ t.view.busy
                   /\ a.kind \in {"state", "delete"} => ~a.latest /\ t.page \notin Bare
                   /\ a.kind = "create" => t.page # "projects",
         w.sub => /\ t.view.sub
                  /\ a.kind \in {"issue", "invite", "withdraw", "remove", "resolve"} =>
                       ~a.latest /\ t.page \notin Bare
                  /\ a.kind = "rows" => ~(a.then /\ a.latest),
         w.create = "busy" => t.view.create = "busy" /\ a.kind # "create"
  PROVE  Whole(Shown(t, w))
  <1> DEFINE A == Elems(t.asks)
  <1>1. /\ t \in Tab /\ t.gate = "open" /\ a \in Asked /\ Sound(t, A \cup {a})
        /\ t.asks \in Seq(Asked) /\ Shown(t, w) = [t EXCEPT !.view = w, !.asks = t.asks]
    BY ShownFacts DEF Answered
  <1>2. ~w.failed => t.page # "invite" \/ (~t.view.failed /\ a.kind # "redeem")
    OBVIOUS
  <1>3. w.data = None /\ ~w.failed =>
          t.view.data = None /\ ~t.view.failed /\ (a.kind = "load" => ~a.latest /\ t.page \notin Bare)
    OBVIOUS
  <1>4. Whole([t EXCEPT !.view = w, !.asks = t.asks])
    BY <1>1, <1>2, <1>3, AnsweredWhole
  <1> QED
    BY <1>1, <1>4

LEMMA RowsWhole ==
  ASSUME NEW t, NEW a, Answered(t, a), a.kind = "rows"
  PROVE  Whole(Succeeded(t, a, a.id))
  <1> DEFINE v == t.view
             ends == a.then /\ a.latest
             w == [v EXCEPT !.rows = {a.id}, !.loading = FALSE, !.sub = @ /\ ~ends,
                            !.open = IF ends /\ a.page = "pulse" THEN None ELSE @]
  <1>1. Succeeded(t, a, a.id) = Shown(t, w)
    BY DEF Succeeded
  <1>2. a.id \in Some /\ v \in View /\ ends \in BOOLEAN
    BY AnsweredFacts DEF Answered, Tab, Asked, Ask
  <1>3. /\ w \in View /\ w.data = v.data /\ w.failed = v.failed /\ w.secret = v.secret
        /\ ~w.loading /\ w.busy = v.busy /\ w.create = v.create
        /\ w.sub => v.sub /\ ~ends
    <2>1. w \in View
      <3> DEFINE sub == v.sub /\ ~ends
                 open == IF ends /\ a.page = "pulse" THEN None ELSE v.open
      <3>1. sub \in BOOLEAN
        BY Zenon
      <3>2. open \in {None, "state", "delete", "creator", "blocker"}
        BY <1>2 DEF View
      <3> HIDE DEF sub, open
      <3>3. [v EXCEPT !.rows = {a.id}, !.loading = FALSE, !.sub = sub, !.open = open] \in View
        BY <1>2, <3>1, <3>2 DEF View
      <3> QED
        BY <3>3 DEF sub, open
    <2>2. w = [v EXCEPT !.rows = w.rows, !.loading = FALSE, !.sub = v.sub /\ ~ends, !.open = w.open]
      BY <1>2 DEF View
    <2> HIDE DEF w, ends
    <2> QED
      BY <1>2, <2>1, <2>2 DEF View
  <1> HIDE DEF w
  <1>4. Whole(Shown(t, w))
    BY <1>3, ShownWhole
  <1> QED
    BY <1>1, <1>4

LEMMA StateWhole ==
  ASSUME WorkspaceAssumption, NEW t, NEW a, Answered(t, a), a.kind = "state"
  PROVE  Whole(Succeeded(t, a, a.id)) /\ Whole(Failed(t, a))
  <1> DEFINE v == t.view
             idle == [v EXCEPT !.busy = FALSE]
  <1>1. v \in View /\ t \in Tab
    BY DEF Answered, Tab
  <1>2. /\ a.page = t.page /\ a.id \in Subjects(t.page) /\ a.id \in Some
        /\ a.page \in Home("state")
    BY AnsweredFacts
  <1>3. a.page \in {"user", "settings"}
    BY <1>2, HomeFacts
  <1>4. Whole(Shown(t, idle))
    <2>1. /\ idle \in View /\ idle.data = v.data /\ idle.failed = v.failed /\ idle.secret = v.secret
          /\ idle.loading = v.loading /\ ~idle.busy /\ idle.create = v.create /\ idle.sub = v.sub
      BY <1>1 DEF View
    <2> HIDE DEF idle
    <2> QED
      BY <2>1, ShownWhole
  <1>5. CASE a.page = "user"
    <2>1. Succeeded(t, a, a.id) = Shown(t, IF a.latest THEN idle ELSE v)
      BY <1>5 DEF Succeeded
    <2>2. Failed(t, a) = Shown(t, IF a.latest THEN idle ELSE v)
      BY <1>5, Zenon DEF Failed
    <2>3. ~a.latest => Whole(Shown(t, v))
      BY <1>1, <1>2, <1>5, ShownWhole DEF Bare
    <2> HIDE DEF idle
    <2> QED
      BY <1>4, <2>1, <2>2, <2>3
  <1>6. CASE a.page = "settings"
    <2> DEFINE w == [v EXCEPT !.data = a.id, !.open = IF @ = "state" THEN None ELSE @, !.busy = FALSE]
               A == Elems(t.asks)
    <2>1. Succeeded(t, a, a.id) = Shown(t, w) /\ Failed(t, a) = Shown(t, idle)
      BY <1>6 DEF Succeeded, Failed
    <2>2. a.id # None
      BY <1>2 DEF Some, WorkspaceAssumption
    <2>3. /\ w \in View /\ w.data = a.id /\ w.failed = v.failed /\ w.secret = v.secret
          /\ w.loading = v.loading /\ ~w.busy /\ w.create = v.create /\ w.sub = v.sub
      <3> DEFINE o == IF v.open = "state" THEN None ELSE v.open
                 d == [v EXCEPT !.data = a.id]
      <3>1. w \in View
        <4>1. o \in {None, "state", "delete", "creator", "blocker"}
          BY <1>1 DEF View
        <4>2. d \in View /\ d.open = v.open
          BY <1>1, <1>2 DEF View
        <4>3. w = [d EXCEPT !.open = o, !.busy = FALSE]
          BY <4>2
        <4> HIDE DEF o, d, w
        <4> QED
          BY <4>1, <4>2, <4>3 DEF View
      <3>2. w = [v EXCEPT !.data = a.id, !.open = w.open, !.busy = FALSE]
        BY <1>1 DEF View
      <3> HIDE DEF w
      <3> QED
        BY <1>1, <3>1, <3>2 DEF View
    <2> HIDE DEF w, idle
    <2>4. /\ t.gate = "open" /\ a \in Asked /\ Sound(t, A \cup {a})
          /\ t.asks \in Seq(Asked) /\ Shown(t, w) = [t EXCEPT !.view = w, !.asks = t.asks]
      BY ShownFacts DEF Answered
    <2>5. Whole([t EXCEPT !.view = w, !.asks = t.asks])
      BY <1>1, <1>2, <1>6, <2>2, <2>3, <2>4, AnsweredWhole
    <2> QED
      BY <1>4, <2>1, <2>4, <2>5
  <1> QED
    BY <1>3, <1>5, <1>6

LEMMA MoreWhole ==
  ASSUME NEW t, NEW a, Answered(t, a), a.kind = "more"
  PROVE  Whole(Succeeded(t, a, a.id)) /\ Whole(Failed(t, a))
  <1> DEFINE v == t.view
             w == [v EXCEPT !.loading = FALSE]
             x == [v EXCEPT !.failed = TRUE, !.loading = FALSE]
             A == Elems(t.asks)
  <1>1. /\ t \in Tab /\ t.gate = "open" /\ a \in Asked /\ Sound(t, A \cup {a})
        /\ t.asks \in Seq(Asked) /\ v \in View
    BY ShownFacts DEF Answered
  <1>2. Succeeded(t, a, a.id) = Shown(t, w) /\ Failed(t, a) = Shown(t, x)
    BY DEF Succeeded, Failed
  <1>3. /\ w \in View /\ w.data = v.data /\ w.failed = v.failed /\ w.secret = v.secret
        /\ ~w.loading /\ w.busy = v.busy /\ w.create = v.create /\ w.sub = v.sub
    BY <1>1 DEF View
  <1>4. /\ x \in View /\ x.data = v.data /\ x.failed /\ x.secret = v.secret
        /\ ~x.loading /\ x.busy = v.busy /\ x.create = v.create /\ x.sub = v.sub
    BY <1>1 DEF View
  <1> HIDE DEF w, x
  <1>5. Whole(Shown(t, w))
    BY <1>3, ShownWhole
  <1>6. Whole([t EXCEPT !.view = x, !.asks = t.asks])
    BY <1>1, <1>4, AnsweredWhole
  <1> QED
    BY <1>1, <1>2, <1>5, <1>6, ShownFacts

\* A change of members, connections or blockers that ends with its answer.
LEMMA SubEndsWhole ==
  ASSUME NEW t, NEW a, Answered(t, a), a.kind \in {"invite", "withdraw", "remove", "issue", "resolve"},
         NEW w \in View, w.data = t.view.data, w.failed = t.view.failed,
         w.secret = t.view.secret \/ (t.page = "connections" /\ w.secret = t.id),
         w.loading = t.view.loading, w.busy = t.view.busy, w.create = t.view.create,
         w.sub => t.view.sub /\ ~a.latest
  PROVE  Whole(Shown(t, w))
  <1>1. a.page = t.page /\ a.page \in Home(a.kind)
    BY AnsweredFacts
  <1>2. t.page \in {"settings", "connections", "pulse"}
    BY <1>1, HomeFacts
  <1> QED
    BY <1>2, ShownWhole DEF Bare

LEMMA InvitedWhole ==
  ASSUME NEW t, NEW a, Answered(t, a), a.kind = "invite"
  PROVE  Whole(Succeeded(t, a, a.id))
  <1> DEFINE v == t.view
             w == [v EXCEPT !.link = a.id, !.sub = FALSE]
  <1>1. Succeeded(t, a, a.id) = Shown(t, w)
    BY DEF Succeeded
  <1>2. a.id \in Some /\ v \in View
    BY AnsweredFacts DEF Answered, Tab
  <1>3. /\ w \in View /\ w.data = v.data /\ w.failed = v.failed /\ w.secret = v.secret
        /\ w.loading = v.loading /\ w.busy = v.busy /\ w.create = v.create /\ ~w.sub
    BY <1>2 DEF View
  <1> HIDE DEF w
  <1> QED
    BY <1>1, <1>3, SubEndsWhole

LEMMA IssuedWhole ==
  ASSUME NEW t, NEW a, Answered(t, a), a.kind = "issue"
  PROVE  Whole(Succeeded(t, a, a.id))
  <1> DEFINE v == t.view
             w == [v EXCEPT !.rows = @ \cup {a.id}, !.secret = a.id, !.sub = FALSE]
             x == [v EXCEPT !.rows = @ \cup {a.id}]
  <1>1. Succeeded(t, a, a.id) = Shown(t, IF a.latest THEN w ELSE x)
    BY DEF Succeeded
  <1>2. /\ a.id \in Some /\ a.page = t.page /\ a.page \in Home("issue")
        /\ (a.latest => a.id = t.id) /\ v \in View
    BY AnsweredFacts DEF Answered, Tab
  <1>3. t.page = "connections"
    BY <1>2, HomeFacts
  <1>4. /\ w \in View /\ w.data = v.data /\ w.failed = v.failed /\ w.secret = a.id
        /\ w.loading = v.loading /\ w.busy = v.busy /\ w.create = v.create /\ ~w.sub
    BY <1>2 DEF View
  <1>5. /\ x \in View /\ x.data = v.data /\ x.failed = v.failed /\ x.secret = v.secret
        /\ x.loading = v.loading /\ x.busy = v.busy /\ x.create = v.create /\ x.sub = v.sub
    BY <1>2 DEF View
  <1> HIDE DEF w, x
  <1>6. CASE a.latest
    BY <1>1, <1>2, <1>3, <1>4, <1>6, SubEndsWhole
  <1>7. CASE ~a.latest
    BY <1>1, <1>5, <1>7, SubEndsWhole
  <1> QED
    BY <1>6, <1>7

LEMMA RevokedWhole ==
  ASSUME NEW t, NEW a, Answered(t, a), a.kind = "revoke"
  PROVE  Whole(Succeeded(t, a, a.id)) /\ Whole(Failed(t, a))
  <1> DEFINE v == t.view
             w == [v EXCEPT !.secret = None, !.sub = FALSE]
  <1>1. Succeeded(t, a, a.id) = Shown(t, IF a.then /\ a.latest THEN w ELSE v)
    BY DEF Succeeded
  <1>2. Failed(t, a) = t
    BY DEF Failed
  <1>3. v \in View /\ t \in Tab
    BY DEF Answered, Tab
  <1>4. /\ w \in View /\ w.data = v.data /\ w.failed = v.failed /\ w.secret = None
        /\ w.loading = v.loading /\ w.busy = v.busy /\ w.create = v.create /\ ~w.sub
    BY <1>3 DEF View
  <1> HIDE DEF w
  <1>5. Whole(Shown(t, w)) /\ Whole(Shown(t, v))
    BY <1>3, <1>4, ShownWhole
  <1>6. Shown(t, v) = t
    BY <1>3, ShownFacts
  <1> QED
    BY <1>1, <1>2, <1>5, <1>6

\* The list is asked for again, as part of the same change.
LEMMA WithdrawnWhole ==
  ASSUME NEW t, NEW a, Answered(t, a), a.kind \in {"withdraw", "remove"}
  PROVE  Whole(Succeeded(t, a, a.id))
  <1> DEFINE v == t.view
             A == Elems(t.asks)
             r == [Request("rows", a.page, a.id, t.token) EXCEPT !.then = TRUE]
             w == [v EXCEPT !.link = IF a.kind = "withdraw" THEN None ELSE @]
             q == Append(t.asks, r)
  <1>1. /\ t \in Tab /\ t.gate = "open" /\ a \in Asked /\ Sound(t, A \cup {a})
        /\ t.asks \in Seq(Asked) /\ v \in View /\ t.token \in Tokens
    BY ShownFacts DEF Answered
  <1>2. a.page = t.page /\ a.page \in Home(a.kind) /\ a.id \in Subjects(t.page)
    BY AnsweredFacts
  <1>3. t.page = "settings" /\ a.page = "settings"
    BY <1>2, HomeFacts
  <1>4. Succeeded(t, a, a.id) = [t EXCEPT !.view = w, !.asks = q]
    <2>1. w = [v EXCEPT !.link = w.link]
      BY <1>1 DEF View
    <2> QED
      BY <1>1 DEF Succeeded, Tab
  <1>5. r \in Asked /\ r.kind = "rows" /\ r.page = t.page /\ r.then /\ r.latest
    <2>1. /\ Request("rows", a.page, a.id, t.token) \in Asked
          /\ Request("rows", a.page, a.id, t.token).kind = "rows"
          /\ Request("rows", a.page, a.id, t.token).page = a.page
          /\ Request("rows", a.page, a.id, t.token).latest
      BY <1>1, <1>2, <1>3, RequestFacts, HomeFacts DEF Detail
    <2> QED
      BY <1>2, <2>1 DEF Asked, Ask
  <1>6. /\ w \in View /\ w.data = v.data /\ w.failed = v.failed /\ w.secret = v.secret
        /\ w.loading = v.loading /\ w.busy = v.busy /\ w.create = v.create /\ w.sub = v.sub
    BY <1>1 DEF View
  <1> HIDE DEF r, w
  <1>7. q \in Seq(Asked) /\ Elems(q) = A \cup {r}
    BY <1>1, <1>5, ElemsAppended
  <1>8. Mine(t, r)
    BY <1>5 DEF Mine
  <1> HIDE DEF q, A
  <1>9. /\ Elems(t.asks) \subseteq Elems(q) /\ Sound(t, Elems(t.asks) \cup {a})
        /\ \A b \in Elems(q) : b \in Elems(t.asks) \/ Mine(t, b)
        /\ w.sub => \/ \E b \in Elems(q) : b.kind = "rows" /\ b.then /\ b.latest
                    \/ v.sub /\ t.page \notin Bare
    BY <1>1, <1>5, <1>7, <1>8 DEF A
  <1>10. /\ a.kind \notin {"load", "rows", "more", "create", "state", "delete"}
         /\ t.page \notin Bare /\ t.page # "invite"
    BY <1>3 DEF Bare
  <1>11. /\ w.loading => v.loading
         /\ w.data = None /\ ~w.failed => v.data = None /\ ~v.failed
         /\ w.create = "busy" => v.create = "busy"
         /\ w.busy => v.busy
    BY <1>6
  <1>12. w.sub => \E b \in Elems(q) : b.kind = "rows" /\ b.then /\ b.latest
    BY <1>5, <1>7
  <1>13. Whole([t EXCEPT !.view = w, !.asks = q])
    BY <1>1, <1>6, <1>7, <1>9, <1>10, <1>11, <1>12, AnsweredWhole
  <1> QED
    BY <1>4, <1>13

LEMMA ResolvedWhole ==
  ASSUME NEW t, NEW a, Answered(t, a), a.kind = "resolve"
  PROVE  Whole(Succeeded(t, a, a.id))
  <1> DEFINE v == t.view
             A == Elems(t.asks)
             r == [Request("rows", a.page, a.id, t.token) EXCEPT !.then = TRUE, !.latest = a.latest]
             w == [v EXCEPT !.loading = TRUE, !.failed = FALSE]
             q == Append(t.asks, r)
  <1>1. /\ t \in Tab /\ t.gate = "open" /\ a \in Asked /\ Sound(t, A \cup {a})
        /\ t.asks \in Seq(Asked) /\ v \in View /\ t.token \in Tokens /\ a.latest \in BOOLEAN
    BY ShownFacts DEF Answered, Asked, Ask
  <1>2. a.page = t.page /\ a.page \in Home(a.kind) /\ a.id \in Subjects(t.page)
    BY AnsweredFacts
  <1>3. t.page = "pulse" /\ a.page = "pulse"
    BY <1>2, HomeFacts
  <1>4. Succeeded(t, a, a.id) = [t EXCEPT !.view = w, !.asks = q]
    BY <1>1 DEF Succeeded, Tab, View
  <1>5. /\ r \in Asked /\ r.kind = "rows" /\ r.page = t.page /\ r.then /\ r.latest = a.latest
        /\ r.owner = "mounted"
    <2>1. /\ Request("rows", a.page, a.id, t.token) \in Asked
          /\ Request("rows", a.page, a.id, t.token).kind = "rows"
          /\ Request("rows", a.page, a.id, t.token).page = a.page
          /\ Request("rows", a.page, a.id, t.token).owner = "mounted"
      BY <1>1, <1>2, <1>3, RequestFacts, HomeFacts DEF Detail
    <2> QED
      BY <1>1, <1>2, <2>1 DEF Asked, Ask
  <1>6. /\ w \in View /\ w.data = v.data /\ w.secret = v.secret
        /\ w.busy = v.busy /\ w.create = v.create /\ w.sub = v.sub
    BY <1>1 DEF View
  <1> HIDE DEF r, w
  <1>7. q \in Seq(Asked) /\ Elems(q) = A \cup {r}
    BY <1>1, <1>5, ElemsAppended
  <1>8. Mine(t, r)
    BY <1>5 DEF Mine
  <1> HIDE DEF q, A
  <1>9. Pending({"rows", "more"}, Elems(q)) /\ t.page \notin Bare
    BY <1>3, <1>5, <1>7 DEF Pending, Bare
  <1>10. w.sub => v.sub /\ (a.latest => \E b \in Elems(q) : b.kind = "rows" /\ b.then /\ b.latest)
    BY <1>5, <1>6, <1>7
  <1>11. /\ Elems(t.asks) \subseteq Elems(q) /\ Sound(t, Elems(t.asks) \cup {a})
         /\ \A b \in Elems(q) : b \in Elems(t.asks) \/ Mine(t, b)
    BY <1>1, <1>7, <1>8 DEF A
  <1>12. Whole([t EXCEPT !.view = w, !.asks = q])
    BY <1>1, <1>3, <1>6, <1>7, <1>9, <1>10, <1>11, AnsweredWhole
  <1> QED
    BY <1>4, <1>12

LEMMA SucceededWhole ==
  ASSUME WorkspaceAssumption, NEW t, NEW a, Answered(t, a),
         a.kind \notin {"create", "redeem", "delete", "logout"},
         NEW id, id = a.id \/ (a.kind = "load" /\ a.page = "projects" /\ id \in Ids)
  PROVE  Whole(Succeeded(t, a, id))
  <1>1. a.kind \in Mutating \cup {"load", "rows", "more"}
    BY AnsweredFacts DEF Answered, Asked, Ask
  <1> QED
    BY <1>1, LoadedWhole, RowsWhole, MoreWhole, StateWhole, InvitedWhole, WithdrawnWhole,
       IssuedWhole, RevokedWhole, ResolvedWhole DEF Mutating

\* A failure the page shows.
LEMMA FailedShown ==
  ASSUME NEW t, NEW a, Answered(t, a), a.kind \in {"load", "redeem"}
  PROVE  Whole(Shown(t, [t.view EXCEPT !.failed = TRUE]))
  <1> DEFINE v == t.view
             w == [v EXCEPT !.failed = TRUE]
             A == Elems(t.asks)
  <1>1. /\ t \in Tab /\ t.gate = "open" /\ a \in Asked /\ Sound(t, A \cup {a})
        /\ t.asks \in Seq(Asked) /\ v \in View
    BY ShownFacts DEF Answered
  <1>2. /\ w \in View /\ w.data = v.data /\ w.failed /\ w.secret = v.secret
        /\ w.loading = v.loading /\ w.busy = v.busy /\ w.create = v.create /\ w.sub = v.sub
    BY <1>1 DEF View
  <1>3. Shown(t, w) = [t EXCEPT !.view = w, !.asks = t.asks]
    BY <1>1, ShownFacts
  <1> HIDE DEF w
  <1>4. Whole([t EXCEPT !.view = w, !.asks = t.asks])
    BY <1>1, <1>2, AnsweredWhole
  <1>5. Whole(Shown(t, w))
    BY <1>3, <1>4
  <1> QED
    BY <1>5 DEF w

LEMMA LoadFailedWhole ==
  ASSUME NEW t, NEW a, Answered(t, a), a.kind \in {"load", "redeem"}
  PROVE  Whole(Failed(t, a))
  <1> DEFINE v == t.view
             A == Elems(t.asks)
  <1>1. /\ t \in Tab /\ t.gate = "open" /\ a \in Asked /\ Sound(t, A \cup {a})
        /\ t.asks \in Seq(Asked) /\ v \in View /\ t = [t EXCEPT !.view = v, !.asks = t.asks]
    BY ShownFacts DEF Answered
  <1>2. /\ a.page = t.page /\ a.page \in Home(a.kind)
        /\ Waits(t.page, v, A \cup {a})
    BY AnsweredFacts
  <1>3. CASE Failed(t, a) = Shown(t, [v EXCEPT !.failed = TRUE])
    BY <1>3, FailedShown
  <1>4. CASE a.kind = "load" /\ ~(Accepted(a) /\ a.page # "pulse")
    <2>1. Failed(t, a) = t
      BY <1>4 DEF Failed
    <2>2. t.page = "pulse" \/ (~a.latest /\ t.page \notin Bare)
      BY <1>2, <1>4 DEF Accepted
    <2>3. t.page # "invite"
      BY <1>2, <1>4, HomeFacts
    <2>4. Whole([t EXCEPT !.view = v, !.asks = t.asks])
      BY <1>1, <1>2, <1>4, <2>2, <2>3, AnsweredWhole
    <2> QED
      BY <1>1, <2>1, <2>4
  <1>5. a.kind = "redeem" \/ (Accepted(a) /\ a.page # "pulse") =>
          Failed(t, a) = Shown(t, [v EXCEPT !.failed = TRUE])
    BY DEF Failed
  <1> QED
    BY <1>3, <1>4, <1>5

\* The radar is gone with what it waited for.
LEMMA RowsFailedWhole ==
  ASSUME NEW t, NEW a, Answered(t, a), a.kind = "rows"
  PROVE  Whole(Failed(t, a))
  <1> DEFINE v == t.view
             A == Elems(t.asks)
  <1>1. /\ t \in Tab /\ t.gate = "open" /\ a \in Asked /\ Sound(t, A \cup {a}) /\ A \subseteq Asked
        /\ t.asks \in Seq(Asked) /\ v \in View /\ a.then \in BOOLEAN
    <2>1. t \in Tab /\ t.gate = "open" /\ a \in Asked /\ Sound(t, A \cup {a})
      BY DEF Answered
    <2>2. t.asks \in Seq(Asked) /\ v \in View
      BY <2>1, ShownFacts
    <2>3. A \subseteq Asked
      BY <2>2 DEF Elems
    <2>4. a.then \in BOOLEAN
      BY <2>1 DEF Asked, Ask
    <2> QED
      BY <2>1, <2>2, <2>3, <2>4
  <1>2. /\ a.page = t.page /\ a.page \in Home("rows") /\ (\A b \in A : Mine(t, b))
        /\ Waits(t.page, v, A \cup {a})
    BY AnsweredFacts
  <1>3. t.page \in {"settings", "pulse"}
    BY <1>2, HomeFacts
  <1>4. CASE t.page = "settings"
    <2> DEFINE w == [v EXCEPT !.sub = @ /\ ~a.then]
    <2>1. Failed(t, a) = Shown(t, w)
      BY <1>2, <1>4 DEF Failed
    <2>2. /\ w \in View /\ w.data = v.data /\ w.failed = v.failed /\ w.secret = v.secret
          /\ w.loading = v.loading /\ w.busy = v.busy /\ w.create = v.create
          /\ w.sub => v.sub /\ ~a.then
      BY <1>1 DEF View
    <2>3. ~v.loading
      BY <1>2, <1>4 DEF Waits, RowsAwaited
    <2> HIDE DEF w
    <2> QED
      BY <2>1, <2>2, <2>3, ShownWhole
  <1>5. CASE t.page = "pulse"
    <2> DEFINE kinds == {"resolve", "rows"}
               w == [v EXCEPT !.failed = TRUE, !.loading = FALSE, !.sub = FALSE, !.open = None]
               q == Superseded(t.asks, kinds)
               L == {Late(b, kinds) : b \in A}
    <2>1. Failed(t, a) = [t EXCEPT !.view = w, !.asks = q]
      BY <1>2, <1>5 DEF Failed
    <2>2. q \in Seq(Asked) /\ Elems(q) = L
      BY <1>1, SupersededFacts
    <2>3. \A b \in L : Mine(t, b)
      BY <1>1, <1>2, LateMine
    <2>4. /\ w \in View /\ w.data = v.data /\ w.failed /\ w.secret = v.secret
          /\ ~w.loading /\ w.busy = v.busy /\ w.create = v.create /\ ~w.sub
      BY <1>1 DEF View
    <2>5. \A b \in A \cup {a} : b.kind \notin kinds => b \in L
      <3> SUFFICES ASSUME NEW b \in A, b.kind \notin kinds PROVE b \in L
        OBVIOUS
      <3>1. Late(b, kinds) = b
        BY <1>1, LateFacts
      <3> QED
        BY <3>1
    <2> HIDE DEF w, q, L
    <2>6. /\ LoadAwaited(t.page, w, L) /\ RedeemAwaited(t.page, w, L) /\ RowsAwaited(t.page, w, L)
          /\ SubAwaited(t.page, w, L)
      BY <2>4 DEF LoadAwaited, RedeemAwaited, RowsAwaited, SubAwaited
    <2>7. BusyAwaited(t.page, w, L)
      BY <1>2, <1>5, <2>4 DEF BusyAwaited, Waits
    <2>8. CreateAwaited(w, L)
      <3>1. "create" \notin kinds /\ (w.create = "busy" => v.create = "busy")
        BY <2>4
      <3> HIDE DEF kinds
      <3> QED
        BY <1>2, <2>5, <3>1, StillWaits
    <2>9. Waits(t.page, w, Elems(q))
      BY <2>2, <2>6, <2>7, <2>8 DEF Waits
    <2>10. Whole([t EXCEPT !.view = w, !.asks = q])
      BY <1>1, <2>2, <2>3, <2>4, <2>9, ViewWhole
    <2> QED
      BY <2>1, <2>10
  <1> QED
    BY <1>3, <1>4, <1>5

\* The dialog or the button is there again.
LEMMA DeleteFailedWhole ==
  ASSUME NEW t, NEW a, Answered(t, a), a.kind = "delete"
  PROVE  Whole(Failed(t, a))
  <1> DEFINE v == t.view
             w == [v EXCEPT !.busy = FALSE]
  <1>1. Failed(t, a) = Shown(t, w)
    BY DEF Failed
  <1>2. v \in View
    BY DEF Answered, Tab
  <1>3. /\ w \in View /\ w.data = v.data /\ w.failed = v.failed /\ w.secret = v.secret
        /\ w.loading = v.loading /\ ~w.busy /\ w.create = v.create /\ w.sub = v.sub
    BY <1>2 DEF View
  <1> HIDE DEF w
  <1> QED
    BY <1>1, <1>3, ShownWhole

LEMMA CreateFailedWhole ==
  ASSUME NEW t, NEW a, Answered(t, a), a.kind = "create"
  PROVE  Whole(Failed(t, a))
  <1> DEFINE v == t.view
             w == [v EXCEPT !.busy = @ /\ a.page # "projects",
                            !.create = IF @ = "busy" THEN "open" ELSE @]
  <1>1. Failed(t, a) = Shown(t, w)
    BY DEF Failed
  <1>2. v \in View /\ a.page = t.page
    BY AnsweredFacts DEF Answered, Tab
  <1>3. /\ w \in View /\ w.data = v.data /\ w.failed = v.failed /\ w.secret = v.secret
        /\ w.loading = v.loading /\ w.create # "busy" /\ w.sub = v.sub
        /\ w.busy => v.busy /\ a.page # "projects"
    <2>1. w \in View
      <3> DEFINE busy == v.busy /\ a.page # "projects"
                 create == IF v.create = "busy" THEN "open" ELSE v.create
      <3>1. busy \in BOOLEAN
        BY Zenon
      <3>2. create \in {"closed", "open", "busy"}
        BY <1>2 DEF View
      <3> HIDE DEF busy, create
      <3>3. [v EXCEPT !.busy = busy, !.create = create] \in View
        BY <1>2, <3>1, <3>2 DEF View
      <3> QED
        BY <3>3 DEF busy, create
    <2>2. w = [v EXCEPT !.busy = v.busy /\ a.page # "projects", !.create = w.create] /\ w.create # "busy"
      BY <1>2 DEF View
    <2> HIDE DEF w
    <2> QED
      BY <1>2, <2>1, <2>2 DEF View
  <1> HIDE DEF w
  <1> QED
    BY <1>1, <1>2, <1>3, ShownWhole

LEMMA SubFailedWhole ==
  ASSUME NEW t, NEW a, Answered(t, a), a.kind \in {"issue", "invite", "withdraw", "remove", "resolve"}
  PROVE  Whole(Failed(t, a))
  <1> DEFINE v == t.view
             w == [v EXCEPT !.sub = FALSE]
  <1>1. Failed(t, a) = Shown(t, IF a.latest THEN w ELSE v)
    BY DEF Failed
  <1>2. v \in View
    BY DEF Answered, Tab
  <1>3. /\ w \in View /\ w.data = v.data /\ w.failed = v.failed /\ w.secret = v.secret
        /\ w.loading = v.loading /\ w.busy = v.busy /\ w.create = v.create /\ ~w.sub
    BY <1>2 DEF View
  <1> HIDE DEF w
  <1>4. Whole(Shown(t, w))
    BY <1>3, SubEndsWhole
  <1>5. ~a.latest => Whole(Shown(t, v))
    BY <1>2, SubEndsWhole
  <1> QED
    BY <1>1, <1>4, <1>5

LEMMA FailedWhole ==
  ASSUME WorkspaceAssumption, NEW t, NEW a, Answered(t, a), a.kind # "logout"
  PROVE  Whole(Failed(t, a))
  <1>1. a.kind \in Mutating \cup {"load", "rows", "more"}
    BY AnsweredFacts DEF Answered, Asked, Ask
  <1> QED
    BY <1>1, LoadFailedWhole, RowsFailedWhole, MoreWhole, StateWhole, DeleteFailedWhole,
       CreateFailedWhole, SubFailedWhole, RevokedWhole DEF Mutating

\* Wherever an answer leads.
LEMMA LeadsWhole ==
  ASSUME WorkspaceAssumption, NEW t \in Tab, NEW a \in Asked, a.kind # "session",
         Sound(t, Elems(t.asks) \cup {a}), NEW ok \in BOOLEAN,
         NEW id, ok /\ a.kind \in {"create", "redeem"} => id \in Ids,
         id = a.id \/ a.kind \in {"create", "redeem"}
           \/ (a.kind = "load" /\ a.page = "projects" /\ id \in Ids)
  PROVE  Whole(Leads(t, a, id, ok))
  <1> DEFINE u == Leads(t, a, id, ok)
  <1>1. /\ t.asks \in Seq(Asked) /\ t.page \in Bare \cup Detail /\ t.view \in View
        /\ a.owner \in {"mounted", "left", "gone"}
    BY DEF Tab, Asked, Ask
  <1>2. /\ "projects" \in Bare \cup Detail /\ Listing \in Subjects("projects")
        /\ "landing" \in Bare \cup Detail /\ Listing \in Subjects("landing")
        /\ "overview" \in Bare \cup Detail /\ \A i \in Ids : i \in Subjects("overview")
    BY DEF Bare, Detail, Subjects
  <1>3. a.owner # "mounted" => Whole(t)
    BY DropWhole
  <1>4. a.owner = "mounted" => t.gate = "open" /\ Answered(t, a)
    BY DEF Answered, Sound, Gated
  <1>5. CASE a.owner = "gone"
    BY <1>3, <1>5 DEF Leads
  <1>6. CASE a.owner # "gone" /\ a.kind = "create" /\ ok
    <2>1. CASE a.owner = "mounted"
      <3> DEFINE v == t.view
                 w == [v EXCEPT !.create = "closed"]
      <3>1. u = Go(Shown(t, w), "overview", id)
        BY <1>6, <2>1 DEF Leads
      <3>2. a.page = t.page
        BY <1>4, <2>1, AnsweredFacts
      <3> DEFINE x == Shown(t, w)
      <3>3. /\ w \in View /\ w.data = v.data /\ w.failed = v.failed /\ w.secret = v.secret
            /\ w.loading = v.loading /\ w.busy = v.busy /\ w.create # "busy" /\ w.sub = v.sub
        BY <1>1 DEF View
      <3>4. CASE t.page = "projects"
        <4>1. x \in Tab /\ x.gate = "open" /\ x.page = "projects"
          BY <1>4, <2>1, <3>3, <3>4 DEF Shown, Tab
        <4> HIDE DEF x
        <4>2. Go(x, "overview", id) = Mounted(x, "overview", id)
          BY <4>1 DEF Go, Area, Ops
        <4> QED
          BY <1>2, <1>6, <3>1, <4>1, <4>2, MountedWhole DEF x
      <3>5. CASE t.page # "projects"
        <4> HIDE DEF w
        <4>1. Whole(x)
          BY <1>4, <1>6, <2>1, <3>3, <3>5, ShownWhole
        <4> HIDE DEF x
        <4>2. Whole(Go(x, "overview", id))
          BY <1>2, <1>6, <4>1, GoWhole
        <4> QED
          BY <3>1, <4>2 DEF x
      <3> QED
        BY <3>4, <3>5
    <2>2. CASE a.owner # "mounted"
      <3>1. u = Go(t, "overview", id)
        BY <1>6, <2>2 DEF Leads
      <3> QED
        BY <1>2, <1>3, <1>6, <2>2, <3>1, GoWhole
    <2> QED
      BY <2>1, <2>2
  <1>7. CASE a.owner # "gone" /\ a.kind = "redeem" /\ ok
    <2>1. u = Go(t, "overview", id)
      BY <1>7 DEF Leads
    <2>2. CASE a.owner = "mounted"
      <3>1. t.gate = "open" /\ a.page = t.page /\ a.page \in Home("redeem")
        BY <1>4, <1>7, <2>2, AnsweredFacts
      <3>2. t.page = "invite"
        BY <3>1, HomeFacts
      <3>3. Go(t, "overview", id) = Mounted(t, "overview", id)
        BY <3>1, <3>2 DEF Go, Area, Ops
      <3> QED
        BY <1>2, <1>7, <2>1, <3>1, <3>3, MountedWhole
    <2>3. CASE a.owner # "mounted"
      BY <1>2, <1>3, <1>7, <2>1, <2>3, GoWhole
    <2> QED
      BY <2>2, <2>3
  <1>8. CASE a.owner # "gone" /\ ((a.kind = "delete" /\ ok) \/ a.kind = "logout")
    <2>1. u = Provided(t, "projects", Listing, "gone") \/ u = Provided(t, "landing", Listing, "gone")
      BY <1>8 DEF Leads, Assign
    <2> QED
      BY <1>1, <1>2, <2>1, ProvidedWhole
  <1>9. CASE /\ a.owner # "gone" /\ a.kind # "logout"
             /\ ok => a.kind \notin {"create", "redeem", "delete"}
    <2>1. CASE a.owner = "left"
      BY <1>3, <1>9, <2>1 DEF Leads
    <2>2. CASE a.owner = "mounted" /\ ok
      <3>1. u = Succeeded(t, a, id)
        BY <1>9, <2>2 DEF Leads
      <3>2. /\ a.kind \notin {"create", "redeem", "delete", "logout"} /\ Answered(t, a)
            /\ id = a.id \/ (a.kind = "load" /\ a.page = "projects" /\ id \in Ids)
        BY <1>4, <1>9, <2>2
      <3>3. Whole(Succeeded(t, a, id))
        BY <3>2, SucceededWhole, Zenon
      <3> QED
        BY <3>1, <3>3
    <2>3. CASE a.owner = "mounted" /\ ~ok
      <3>1. u = Failed(t, a)
        BY <1>9, <2>3 DEF Leads
      <3> QED
        BY <1>4, <1>9, <2>3, <3>1, FailedWhole
    <2> QED
      BY <1>1, <1>9, <2>1, <2>2, <2>3
  <1> QED
    BY <1>5, <1>6, <1>7, <1>8, <1>9

LEMMA ForgetsSound ==
  ASSUME NEW t \in Tab, NEW a, NEW A, Sound(t, A)
  PROVE  Forgets(t, a) \in Tab /\ Forgets(t, a).asks = t.asks /\ Sound(Forgets(t, a), A)
  <1> DEFINE u == Forgets(t, a)
  <1>1. PICK k \in Tokens : u = [t EXCEPT !.token = k]
    BY DEF Forgets, Tab, Tokens
  <1> HIDE DEF u
  <1>2. /\ u \in Tab /\ u.page = t.page /\ u.id = t.id /\ u.gate = t.gate
        /\ u.view = t.view /\ u.asks = t.asks
    BY <1>1 DEF Tab
  <1>3. Sound(u, A)
    BY <1>2 DEF Sound, Gated, Routed
  <1> QED
    BY <1>2, <1>3 DEF u

LEMMA ResultFacts ==
  ASSUME NEW a \in Asked, NEW id \in Result(a)
  PROVE  /\ a.kind \in {"create", "redeem"} => id \in Ids
         /\ id = a.id \/ a.kind \in {"create", "redeem"}
              \/ (a.kind = "load" /\ a.page = "projects" /\ id \in Ids)
  BY DEF Result, There

LEMMA EffectServer ==
  ASSUME server \in Server, NEW a, NEW id
  PROVE  Effect(a, id) \in Server
  BY DEF Effect, Server

LEMMA AnswerOK ==
  ASSUME WorkspaceAssumption, IInv, NEW i \in 1 .. Len(tab.asks), Answer(i)
  PROVE  IInv'
  <1> DEFINE a == tab.asks[i]
             rest == Without(tab, i)
  <1>1. Whole(tab) /\ server \in Server
    BY DEF IInv
  <1>2. /\ rest \in Tab /\ a \in Asked /\ rest.asks \in Seq(Asked)
        /\ Sound(rest, Elems(rest.asks) \cup {a})
    BY <1>1, RestSound
  <1>3. a.kind # "session"
    BY DEF Answer
  <1>4. \/ /\ Admits(a)
           /\ \E id \in Result(a) :
                /\ server' = Effect(a, id)
                /\ \/ tab' = Leads(rest, a, id, TRUE)
                   \/ a.kind \in Mutating /\ tab' = Leads(rest, a, id, FALSE)
        \/ /\ tab' = Leads(Forgets(rest, a), a, a.id, FALSE)
           /\ UNCHANGED server
        \/ /\ a.kind = "delete" /\ tab' = Assign(rest, "settings", a.id)
           /\ UNCHANGED server
    BY DEF Answer
  <1> HIDE DEF a, rest
  <1>5. CASE /\ Admits(a)
             /\ \E id \in Result(a) :
                  /\ server' = Effect(a, id)
                  /\ \/ tab' = Leads(rest, a, id, TRUE)
                     \/ a.kind \in Mutating /\ tab' = Leads(rest, a, id, FALSE)
    <2>1. PICK id \in Result(a) :
            /\ server' = Effect(a, id)
            /\ \/ tab' = Leads(rest, a, id, TRUE)
               \/ a.kind \in Mutating /\ tab' = Leads(rest, a, id, FALSE)
      BY <1>5
    <2>2. Whole(tab')
      <3>1. \A ok \in BOOLEAN : Whole(Leads(rest, a, id, ok))
        BY <1>2, <1>3, ResultFacts, LeadsWhole
      <3> QED
        BY <2>1, <3>1
    <2>3. server' \in Server
      BY <1>1, <2>1, EffectServer
    <2> QED
      BY <2>2, <2>3 DEF IInv, Server
  <1>6. CASE tab' = Leads(Forgets(rest, a), a, a.id, FALSE) /\ UNCHANGED server
    <2> DEFINE u == Forgets(rest, a)
    <2>1. u \in Tab /\ Sound(u, Elems(u.asks) \cup {a})
      BY <1>2, ForgetsSound
    <2> HIDE DEF u
    <2>2. Whole(Leads(u, a, a.id, FALSE))
      BY <1>2, <1>3, <2>1, LeadsWhole
    <2> QED
      BY <1>1, <1>6, <2>2 DEF IInv, Server, u
  <1>7. CASE a.kind = "delete" /\ tab' = Assign(rest, "settings", a.id) /\ UNCHANGED server
    <2>1. "settings" \in Bare \cup Detail /\ a.id \in Subjects("settings")
      <3>1. a.page \in Home("delete") /\ a.id \in Subjects(a.page)
        BY <1>2, <1>7 DEF Asked
      <3> QED
        BY <3>1, HomeFacts DEF Detail
    <2>2. Whole(tab')
      BY <1>2, <1>7, <2>1, ProvidedWhole DEF Assign
    <2> QED
      BY <1>1, <1>7, <2>2 DEF IInv, Server
  <1> QED
    BY <1>4, <1>5, <1>6, <1>7

\* A tab whose gate is shut stays so, without the session it asked for.
LEMMA ShutWhole ==
  ASSUME NEW t \in Tab, NEW gate \in {"anonymous", "unavailable", "denied"}, NEW token \in Tokens,
         t.id \in Subjects(t.page), t.page # "landing", t.view = NewView(t.page),
         \A b \in Elems(t.asks) : b.owner = "mounted" => b.kind = "session"
  PROVE  Whole([t EXCEPT !.gate = gate, !.token = token])
  <1> DEFINE u == [t EXCEPT !.gate = gate, !.token = token]
  <1>1. /\ u \in Tab /\ u.page = t.page /\ u.id = t.id /\ u.gate = gate
        /\ u.view = NewView(u.page) /\ u.asks = t.asks /\ u.page \in Bare \cup Detail
    BY DEF Tab, Gate
  <1> HIDE DEF u
  <1>2. Gated(u, Elems(u.asks))
    BY <1>1 DEF Gated
  <1>3. Routed(u, Elems(u.asks))
    BY <1>1, NewViewFacts DEF Routed
  <1>4. Whole(u)
    BY <1>1, <1>2, <1>3 DEF Whole, Sound
  <1> QED
    BY <1>4 DEF u

LEMMA AnswerSessionOK ==
  ASSUME WorkspaceAssumption, IInv, NEW i \in 1 .. Len(tab.asks), AnswerSession(i)
  PROVE  IInv'
  <1> DEFINE a == tab.asks[i]
             rest == Without(tab, i)
             q == IF server.session THEN Staled(rest.asks) ELSE rest.asks
             t == [rest EXCEPT !.asks = q]
  <1>1. Whole(tab) /\ server \in Server
    BY DEF IInv
  <1>2. /\ rest \in Tab /\ a \in Asked /\ rest.asks \in Seq(Asked) /\ a.kind = "session"
        /\ rest.page = tab.page /\ rest.id = tab.id /\ rest.gate = tab.gate
        /\ rest.view = tab.view /\ rest.token = tab.token
        /\ Sound(rest, Elems(rest.asks) \cup {a})
    BY <1>1, RestSound DEF AnswerSession
  <1>3. t = [Without(tab, i) EXCEPT !.asks = IF server.session THEN Staled(@) ELSE @]
    BY <1>2 DEF Tab
  <1>4. /\ \/ tab' = [t EXCEPT !.gate = "unavailable"]
           \/ tab' = [t EXCEPT !.gate = "denied", !.token = "fresh"]
           \/ tab' = Mounted([t EXCEPT !.gate = "open", !.token = "fresh"], t.page, t.id)
           \/ tab' = [t EXCEPT !.gate = "anonymous"]
        /\ UNCHANGED server
    BY <1>3 DEF AnswerSession
  <1> HIDE DEF a, rest
  \* Staling changes nothing but tokens.
  <1>5. q \in Seq(Asked) /\ \A b \in Elems(q) : \E c \in Elems(rest.asks) :
          b.owner = c.owner /\ b.kind = c.kind
    BY <1>2, StaledFacts
  <1> HIDE DEF q
  <1>6. /\ t \in Tab /\ t.page = rest.page /\ t.id = rest.id /\ t.view = rest.view
        /\ t.gate = rest.gate /\ t.token = rest.token /\ t.asks = q
    BY <1>2, <1>5 DEF Tab
  <1> HIDE DEF t
  <1>7. /\ t.page \in Bare \cup Detail /\ t.id \in Subjects(t.page) /\ t.page # "landing"
        /\ t.view = NewView(t.page)
        /\ \A b \in Elems(rest.asks) : b.owner = "mounted" => b.kind = "session"
    BY <1>2, <1>6 DEF Sound, Gated, Tab
  <1>8. \A b \in Elems(t.asks) : b.owner = "mounted" => b.kind = "session"
    BY <1>5, <1>6, <1>7
  <1>9. CASE tab' = Mounted([t EXCEPT !.gate = "open", !.token = "fresh"], t.page, t.id)
    <2> DEFINE u == [t EXCEPT !.gate = "open", !.token = "fresh"]
    <2>1. u \in Tab /\ u.gate = "open"
      BY <1>6 DEF Tab, Gate, Tokens
    <2> HIDE DEF u
    <2>2. Whole(Mounted(u, t.page, t.id))
      BY <1>7, <2>1, MountedWhole
    <2> QED
      BY <1>1, <1>4, <1>9, <2>2 DEF IInv, Server, u
  <1>10. CASE \E gate \in {"anonymous", "unavailable", "denied"}, token \in Tokens :
                tab' = [t EXCEPT !.gate = gate, !.token = token]
    <2>1. PICK gate \in {"anonymous", "unavailable", "denied"}, token \in Tokens :
            tab' = [t EXCEPT !.gate = gate, !.token = token]
      BY <1>10
    <2>2. Whole([t EXCEPT !.gate = gate, !.token = token])
      BY <1>6, <1>7, <1>8, ShutWhole
    <2>3. Whole(tab')
      BY <2>1, <2>2
    <2> QED
      BY <1>1, <1>4, <2>3 DEF IInv, Server
  <1>11. \A gate : [t EXCEPT !.gate = gate] = [t EXCEPT !.gate = gate, !.token = t.token]
    BY <1>6 DEF Tab
  <1>12. t.token \in Tokens /\ "fresh" \in Tokens
    BY <1>6 DEF Tab, Tokens
  <1> QED
    BY <1>4, <1>9, <1>10, <1>11, <1>12

\* Older tokens change nothing else.
LEMMA OlderWhole ==
  ASSUME NEW t, Whole(t), NEW token \in Tokens
  PROVE  Whole([t EXCEPT !.token = token, !.asks = Staled(@)])
  <1> DEFINE A == Elems(t.asks)
             q == Staled(t.asks)
             u == [t EXCEPT !.token = token, !.asks = q]
             B == {Older(b) : b \in A}
  <1>1. t \in Tab /\ t.asks \in Seq(Asked)
    BY DEF Whole, Sound, Tab
  <1>2. /\ q \in Seq(Asked) /\ Elems(q) = B
        /\ \A b \in A :
              /\ Older(b).kind = b.kind /\ Older(b).page = b.page /\ Older(b).id = b.id
              /\ Older(b).owner = b.owner /\ Older(b).then = b.then /\ Older(b).latest = b.latest
    BY <1>1, StaledFacts
  <1> HIDE DEF q
  <1>3. /\ u \in Tab /\ u.page = t.page /\ u.id = t.id /\ u.gate = t.gate /\ u.view = t.view
        /\ u.asks = q
    BY <1>1, <1>2 DEF Tab
  <1>4. u = [t EXCEPT !.token = token, !.asks = Staled(@)]
    BY <1>1 DEF q, Tab
  <1> HIDE DEF u
  <1>5. t.id \in Subjects(t.page) /\ Gated(t, A) /\ Routed(t, A)
    BY DEF Whole, Sound
  <1> HIDE DEF A
  <1>6. Gated(u, B)
    BY <1>2, <1>3, <1>5 DEF Gated
  <1>7. Routed(u, B)
    BY <1>2, <1>3, <1>5 DEF Routed
  <1>8. ASSUME t.gate = "open" PROVE Waits(t.page, t.view, B)
    <2>1. Waits(t.page, t.view, A)
      BY <1>8 DEF Whole, Sound, A
    <2>2. \A K : Pending(K, A) => Pending(K, B)
      BY <1>2 DEF Pending
    <2>3. \A K, p : Awaits(K, p, A) => Awaits(K, p, B)
      BY <1>2 DEF Awaits
    <2>4. (\E b \in A : b.kind = "rows" /\ b.then /\ b.latest)
            => \E b \in B : b.kind = "rows" /\ b.then /\ b.latest
      BY <1>2
    <2>5. LoadAwaited(t.page, t.view, B) /\ RedeemAwaited(t.page, t.view, B)
      BY <2>1, <2>2, <2>3 DEF Waits, LoadAwaited, RedeemAwaited
    <2>6. RowsAwaited(t.page, t.view, B) /\ BusyAwaited(t.page, t.view, B)
      BY <2>1, <2>2, <2>3 DEF Waits, RowsAwaited, BusyAwaited
    <2>7. SubAwaited(t.page, t.view, B) /\ CreateAwaited(t.view, B)
      BY <2>1, <2>2, <2>3, <2>4 DEF Waits, SubAwaited, CreateAwaited
    <2> QED
      BY <2>5, <2>6, <2>7 DEF Waits
  <1>9. Whole(u)
    BY <1>2, <1>3, <1>5, <1>6, <1>7, <1>8 DEF Whole, Sound
  <1> QED
    BY <1>4, <1>9

LEMMA TabElsewhereOK ==
  ASSUME WorkspaceAssumption, IInv, Elsewhere
  PROVE  IInv'
  <1>1. Whole(tab) /\ server \in Server
    BY DEF IInv, Elsewhere
  <1>2. server' \in Server
    <2>1. server.trips \in 0 .. Trips /\ server.trips < Trips /\ Trips \in Nat
      BY <1>1 DEF Server, Elsewhere, WorkspaceAssumption
    <2>2. server.trips + 1 \in 0 .. Trips
      BY <2>1
    <2>3. \/ server' = [server EXCEPT !.trips = server.trips + 1]
          \/ server' = [server EXCEPT !.session = FALSE, !.trips = server.trips + 1]
      BY DEF Elsewhere
    <2> QED
      BY <1>1, <2>2, <2>3 DEF Server
  <1>3. Whole(tab')
    <2>1. tab' = tab \/ tab' = [tab EXCEPT !.token = "stale", !.asks = Staled(@)]
      BY DEF Elsewhere
    <2>2. "stale" \in Tokens
      BY DEF Tokens
    <2>3. Whole([tab EXCEPT !.token = "stale", !.asks = Staled(@)])
      BY <1>1, <2>2, OlderWhole
    <2> QED
      BY <1>1, <2>1, <2>3
  <1> QED
    BY <1>1, <1>2, <1>3 DEF IInv, Server

---------------------------------------------------------------------------
\* The invariant of the tab.

LEMMA TabInit == ASSUME WorkspaceAssumption, Init PROVE IInv
  <1>1. PICK p \in Pages : \E id \in Subjects(p) : tab = Provided([asks |-> <<>>], p, id, "gone")
    BY DEF Init
  <1>2. PICK id \in Subjects(p) : tab = Provided([asks |-> <<>>], p, id, "gone")
    BY <1>1
  <1>3. Whole(tab)
    <2> DEFINE t == [asks |-> <<>>]
    <2>1. t.asks \in Seq(Asked) /\ p \in Bare \cup Detail
      BY DEF WorkspaceAssumption
    <2> HIDE DEF t
    <2>2. Whole(Provided(t, p, id, "gone"))
      BY <2>1, ProvidedWhole
    <2> QED
      BY <1>2, <2>2 DEF t
  <1>4. server \in Server
    BY DEF Init, Server, WorkspaceAssumption
  <1> QED
    BY <1>3, <1>4 DEF IInv

LEMMA TabStep ==
  ASSUME WorkspaceAssumption, IInv, [Next]_vars
  PROVE  IInv'
  <1>1. Whole(tab) /\ server \in Server
    BY DEF IInv
  <1>2. CASE \/ \E p \in Pages : \E id \in Subjects(p) : Visit(p, id)
             \/ Reload \/ RefreshSession \/ Login
    BY <1>1, <1>2, RouteActionsWhole DEF IInv, Server
  <1>3. CASE \/ Retry \/ OpenDialog \/ CloseDialog \/ TypeName
             \/ ChangeUser \/ ChangeProject \/ DeleteProject
             \/ CreateInvitation \/ RevokeInvitation \/ RemoveViewer
             \/ IssueConnection \/ RevokeConnection
             \/ FetchPulse \/ ResolveBlocker \/ MoreUsers
             \/ OpenCreate \/ CloseCreate \/ CreateProject
             \/ RedeemAgain \/ Logout
    BY <1>1, <1>3, PageActionsWhole DEF IInv, Server
  <1>4. CASE \E i \in 1 .. Len(tab.asks) : Answer(i) \/ AnswerSession(i)
    BY <1>4, AnswerOK, AnswerSessionOK
  <1>5. CASE Elsewhere
    BY <1>5, TabElsewhereOK
  <1>6. CASE UNCHANGED vars
    BY <1>1, <1>6 DEF vars, IInv, Whole, Server
  <1> QED
    BY <1>2, <1>3, <1>4, <1>5, <1>6 DEF Next

LEMMA TabInvariant == Spec => []IInv
  <1>1. Init => IInv
    BY WorkspaceAssumption, TabInit
  <1>2. IInv /\ [Next]_vars => IInv'
    BY WorkspaceAssumption, TabStep
  <1> QED
    BY <1>1, <1>2, PTL DEF Spec

\* The tab, its requests and the server have the types of TypeOK: only mutations
\* outlive the page that made them, and a page is empty until its gate opens.
THEOREM TabTypeCorrect == Spec => []TypeOK
  <1>1. ASSUME IInv PROVE TypeOK
    <2>1. /\ tab \in Tab /\ tab.id \in Subjects(tab.page) /\ Gated(tab, Elems(tab.asks))
          /\ server \in Server
      BY <1>1 DEF IInv, Whole, Sound
    <2>2. /\ tab.page \in Bare \cup Detail /\ tab.gate \in Gate /\ tab.token \in Tokens
          /\ tab.view \in View /\ tab.asks \in Seq(Asked)
      BY <2>1 DEF Tab
    <2>3. tab.gate # "open" => tab.view = NewView(tab.page)
      BY <2>1 DEF Gated
    <2>4. ASSUME NEW i \in 1 .. Len(tab.asks)
          PROVE  LET a == tab.asks[i] IN
                 /\ a.page \in Bare \cup Detail /\ a.id \in Subjects(a.page)
                 /\ a.owner = "mounted" \/ (a.owner \in {"left", "gone"} /\ a.kind \in Mutating)
                 /\ a.kind \in Mutating \cup {"session", "load", "rows", "more"}
                 /\ a.token \in {None, "fresh", "stale"}
      <3>1. tab.asks[i] \in Asked
        BY <2>2
      <3> QED
        BY <3>1 DEF Asked, Ask, Tokens
    <2>5. (Ids \cup {Listing, None}) \ {None} = Some /\ Ids \cup {Listing, None} = Some \cup {None}
      BY WorkspaceAssumption DEF Some
    <2>6. tab.view \in [data : Ids \cup {Listing, None},
                        rows : SUBSET ((Ids \cup {Listing, None}) \ {None}),
                        failed : BOOLEAN, loading : BOOLEAN, busy : BOOLEAN, sub : BOOLEAN,
                        open : {None, "state", "delete", "creator", "blocker"},
                        typed : {None} \cup {Name[i] : i \in Ids},
                        link : Ids \cup {Listing, None}, secret : Ids \cup {Listing, None},
                        create : {"closed", "open", "busy"}]
      BY <2>2, <2>5 DEF View, Typed
    <2> QED
      BY <2>1, <2>2, <2>3, <2>4, <2>6 DEF TypeOK, Gate, Tokens, Server
  <1>2. IInv => TypeOK
    BY <1>1
  <1> QED
    BY <1>2, TabInvariant, PTL

\* However the user moves and whenever answers arrive, the pages show the subject
\* of their route, and a token is only on the page of its project: late loads of
\* an older route are not shown (operator-project-page.tsx, team-pulse-page.tsx,
\* project-connections-page.tsx).
THEOREM PagesShowTheirRoute == Spec => []ShownIsRoute
  <1>1. IInv => ShownIsRoute
    BY DEF IInv, Whole, Sound, Routed, ShownIsRoute
  <1> QED
    BY <1>1, TabInvariant, PTL

\* Whatever the tab waits for, there is a request under way that ends the wait,
\* whether it succeeds or fails: no page stays empty and no button disabled for
\* good, however requests are superseded and pages are left.
THEOREM WaitsAreAnswered == Spec => []WaitsEnd
  <1>1. IInv => WaitsEnd
    <2> SUFFICES ASSUME IInv PROVE WaitsEnd
      OBVIOUS
    <2> DEFINE A == Elems(tab.asks)
               v == tab.view
    <2>1. /\ tab \in Tab /\ A \subseteq Asked /\ Gated(tab, A)
          /\ tab.gate = "open" => Waits(tab.page, v, A)
      BY DEF IInv, Whole, Sound, Tab, Elems
    <2>2. ASSUME NEW K, Pending(K, A) PROVE UnderWay(K)
      BY <2>2 DEF Pending, UnderWay, Elems
    <2>3. ASSUME NEW K, Awaits(K, tab.page, A)
          PROVE  \E i \in 1 .. Len(tab.asks) :
                   /\ tab.asks[i].kind \in K /\ tab.asks[i].owner = "mounted"
                   /\ tab.asks[i].latest \/ tab.page \in Bare
      BY <2>3 DEF Awaits, Elems
    <2>4. tab.gate = "loading" => UnderWay({"session"})
      <3> SUFFICES ASSUME tab.gate = "loading" PROVE Pending({"session"}, A)
        BY <2>2
      <3>1. PICK a \in A : a.kind = "session"
        BY <2>1 DEF Gated
      <3>2. a.owner = "mounted"
        BY <2>1, <3>1 DEF Asked, Ask, Mutating
      <3> QED
        BY <3>1, <3>2 DEF Pending
    <2>5. ASSUME tab.gate = "open"
          PROVE  /\ LoadAwaited(tab.page, v, A) /\ RedeemAwaited(tab.page, v, A)
                 /\ RowsAwaited(tab.page, v, A) /\ BusyAwaited(tab.page, v, A)
                 /\ SubAwaited(tab.page, v, A) /\ CreateAwaited(v, A)
      BY <2>1, <2>5 DEF Waits
    <2>6. ASSUME \E a \in A : a.kind = "rows" /\ a.then /\ a.latest
          PROVE  \E i \in 1 .. Len(tab.asks) :
                   tab.asks[i].kind = "rows" /\ tab.asks[i].then /\ tab.asks[i].latest
      BY <2>6 DEF Elems
    <2> HIDE DEF A
    <2>7. ASSUME tab.gate = "open"
          PROVE  /\ tab.page = "invite" /\ ~v.failed => UnderWay({"redeem"})
                 /\ v.loading => UnderWay({"rows", "more"})
                 /\ v.create = "busy" => UnderWay({"create"})
      BY <2>2, <2>5, <2>7 DEF RedeemAwaited, RowsAwaited, CreateAwaited
    <2>8. ASSUME tab.gate = "open", tab.page \notin {"pulse", "invite"}, v.data = None, ~v.failed
          PROVE  Awaits({"load"}, tab.page, A)
      BY <2>5, <2>8 DEF LoadAwaited
    <2>9. ASSUME tab.gate = "open", v.busy
          PROVE  IF tab.page = "projects" THEN Awaits({"create"}, tab.page, A)
                 ELSE Awaits({"state", "delete"}, tab.page, A)
      BY <2>5, <2>9 DEF BusyAwaited, Awaits, Pending, Bare
    <2>10. ASSUME tab.gate = "open", v.sub
           PROVE  \/ Awaits({"issue", "invite", "withdraw", "remove", "resolve"}, tab.page, A)
                  \/ \E a \in A : a.kind = "rows" /\ a.then /\ a.latest
      BY <2>5, <2>10 DEF SubAwaited
    <2> QED
      BY <2>3, <2>4, <2>6, <2>7, <2>8, <2>9, <2>10 DEF WaitsEnd
  <1> QED
    BY <1>1, TabInvariant, PTL
=============================================================================
