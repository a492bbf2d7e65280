-------------------------- MODULE DashboardProofs ---------------------------
(***************************************************************************)
(* Proofs about Dashboard.tla for any page size, any number of events,     *)
(* messages and switches, and any number of loads and polls in flight: the *)
(* type invariant and the three properties its run checks.                 *)
(***************************************************************************)
EXTENDS Dashboard, FiniteSetTheorems, NaturalsInduction, TLAPS

Positions == [event : 0 .. MaxEvent, message : 0 .. MaxMessage]

Op == [by : {None, "boot", "start", "poll"}, owner : Nat, gen : Nat, tab : Tabs \cup {None},
       stage : {"idle", "projects", "load", "loaded", "fetch"},
       events : SUBSET Events, messages : SUBSET Messages, unacked : SUBSET Messages,
       after : Positions, todo : SUBSET {"event", "message"}]

\* Which values a load or poll may have, whether it is still wanted or not.
OpOK(q) ==
    /\ q.owner <= page.owner /\ q.gen <= page.gen
    /\ q.stage = "idle" => q.by = None
    /\ q.stage = "projects" => q.by \in {"boot", "poll"}
    /\ q.stage \in {"projects", "load"} => q.events = {} /\ q.messages = {} /\ q.unacked = {}
    /\ q.stage = "fetch" => q.by = "poll"
    /\ q.by = "poll" /\ q.owner = page.owner => page.active

Live(q) == q.stage # "idle" /\ Current(q)

Loading(q) == Live(q) /\ q.stage \in {"load", "loaded"}

Fetching(q) == Live(q) /\ q.stage = "fetch"

\* One that is still wanted belongs to the owner and the tab there is now.
LiveOK(q) ==
    Live(q) =>
        /\ q.owner = page.owner
        /\ q.stage = "projects" => ~page.known
        /\ q.stage # "projects" => page.known /\ q.tab = page.tab
        /\ q.stage = "fetch" => page.ready

\* Each owner has one poll in flight, and an active one.
PollsInv ==
    /\ \A o, p \in Ops :
         ops[o].by = "poll" /\ ops[p].by = "poll" /\ ops[o].owner = ops[p].owner => o = p
    /\ page.active => \E o \in Ops : ops[o].by = "poll" /\ ops[o].owner = page.owner

PageInv ==
    /\ page.ready => page.known
    /\ ~page.known => page.gen <= MaxGen
    /\ page.owner <= page.gen

OpsInv == ops \in [Ops -> Op] /\ \A o \in Ops : OpOK(ops[o]) /\ LiveOK(ops[o])

\* Without a race a view that is shown is not being loaded, and one that is not
\* is loaded once at a time.
LoadsInv ==
    ~raced =>
        /\ page.ready => \A o \in Ops : ~Loading(ops[o])
        /\ \A o, p \in Ops : Loading(ops[o]) /\ Loading(ops[p]) => o = p

\* Events and messages that can be read and were not committed below another.
Punctual == committed \ late

Timely == sent \ tardy

\* A place up to which events or messages were read: all that come later at or
\* below it are late or tardy.
Read(n) == n = 0 \/ n \in committed

ReadTo(n) == n = 0 \/ n \in sent

\* What was read has no gap.
ReadsOK(q) ==
    /\ q.events \subseteq committed /\ q.messages \subseteq sent
    /\ q.stage = "loaded" =>
         /\ q.tab = "messages" => q.events = {}
         /\ \A e \in Punctual : e <= Top(q.events) /\ (\E y \in q.events : y < e) => e \in q.events
         /\ \A m \in Timely :
              m <= Top(q.messages) /\ (\E y \in q.messages : y < m) => m \in q.messages
    /\ q.stage = "fetch" => Read(q.after.event) /\ ReadTo(q.after.message)

ReadsInv ==
    /\ Read(cursor.event) /\ ReadTo(cursor.message)
    /\ \A o \in Ops : ReadsOK(ops[o])

\* A poll has read all there is between the cursor and its own place.
NewsOK(q) ==
    /\ cursor.event <= q.after.event /\ cursor.message <= q.after.message
    /\ \A e \in q.events : cursor.event < e /\ e <= q.after.event
    /\ \A m \in q.messages : cursor.message < m /\ m <= q.after.message
    /\ \A e \in Punctual : cursor.event < e /\ e <= q.after.event => e \in q.events
    /\ \A m \in Timely : cursor.message < m /\ m <= q.after.message => m \in q.messages
    /\ \A m \in q.unacked : \A e \in Punctual : kind[e] = m => e > cursor.event

NewsInv == ~raced => \A o \in Ops : Fetching(ops[o]) => NewsOK(ops[o])

\* The inductive invariant.
IInv ==
    /\ TypeOK /\ PageInv /\ PollsInv /\ OpsInv /\ LoadsInv /\ ReadsInv /\ NewsInv
    /\ RowsWhole /\ AcksShown /\ KeepsPolling

---------------------------------------------------------------------------
\* Largest numbers and pages.

\* A set of numbers with an upper bound has a largest one.
LEMMA LargestExists ==
  ASSUME NEW S \in SUBSET Nat, S # {}, NEW n \in Nat, \A x \in S : x <= n
  PROVE  \E x \in S : \A y \in S : x >= y
  <1> DEFINE T == {k \in Nat : \A x \in S : x <= k}
  <1>1. PICK k \in T : \A j \in T : <<j, k>> \notin OpToRel(<, Nat)
    <2>1. T \in SUBSET Nat /\ n \in T
      OBVIOUS
    <2> QED
      BY <2>1, NatLessThanWellFounded, WFMin
  <1>2. k \in Nat /\ \A x \in S : x <= k
    BY <1>1
  <1>3. k \in S
    <2> SUFFICES ASSUME k \notin S PROVE FALSE
      OBVIOUS
    <2>1. \A x \in S : x \in Nat /\ x < k
      BY <1>2
    <2>2. k - 1 \in Nat /\ \A x \in S : x <= k - 1
      <3>1. PICK z \in S : z \in Nat /\ z < k
        BY <2>1
      <3>2. \A x \in S : x <= k - 1
        BY <1>2, <2>1
      <3> QED
        BY <1>2, <3>1, <3>2
    <2>3. k - 1 \in T
      BY <2>2
    <2>4. <<k - 1, k>> \in Nat \X Nat /\ <<k - 1, k>>[1] < <<k - 1, k>>[2]
      BY <1>2, <2>2
    <2> QED
      BY <1>1, <2>3, <2>4 DEF OpToRel
  <1> QED
    BY <1>2, <1>3

\* The largest one, and Top.
LEMMA MaxFacts ==
  ASSUME NEW S \in SUBSET Nat, NEW n \in Nat, \A x \in S : x <= n
  PROVE  /\ S # {} => Max(S) \in S /\ \A x \in S : x <= Max(S)
         /\ Top(S) \in 0 .. n /\ \A x \in S : x <= Top(S)
         /\ Top(S) = 0 \/ Top(S) \in S
  <1>1. CASE S = {}
    BY <1>1 DEF Top
  <1>2. CASE S # {}
    <2>1. Max(S) \in S /\ \A y \in S : Max(S) >= y
      BY <1>2, LargestExists DEF Max
    <2>2. \A x \in S : x \in Nat
      OBVIOUS
    <2>3. Top(S) = Max(S)
      BY <1>2 DEF Top
    <2> HIDE DEF Max
    <2>4. Max(S) \in Nat /\ \A x \in S : x <= Max(S)
      BY <2>1, <2>2
    <2> QED
      BY <2>1, <2>3, <2>4
  <1> QED
    BY <1>1, <1>2

\* Cutting off after the oldest ones keeps with a row all that are older.
LEMMA OldestDownward ==
  ASSUME NEW S \in SUBSET Nat, IsFiniteSet(S), NEW x \in Oldest(S), NEW y \in S, y < x
  PROVE  y \in Oldest(S)
  <1> DEFINE Below(z) == {v \in S : v < z}
  <1>1. x \in S /\ Cardinality(Below(x)) < PageSize
    BY DEF Oldest
  <1>2. Below(x) \in SUBSET S /\ Below(y) \in SUBSET Below(x)
    <2>1. \A v \in S : v \in Nat
      OBVIOUS
    <2>2. \A v \in S : v < y => v < x
      BY <1>1, <2>1
    <2> QED
      BY <2>2
  <1>3. IsFiniteSet(Below(x)) /\ IsFiniteSet(Below(y)) /\ Cardinality(Below(y)) <= Cardinality(Below(x))
    BY <1>2, FS_Subset
  <1>4. Cardinality(Below(x)) \in Nat /\ Cardinality(Below(y)) \in Nat
    BY <1>3, FS_CardinalityType
  <1>5. Cardinality(Below(y)) < PageSize
    BY <1>1, <1>3, <1>4, DashboardAssumption
  <1> QED
    BY <1>5 DEF Oldest

\* Cutting off before the newest ones keeps with a row all that are newer.
LEMMA NewestUpward ==
  ASSUME NEW S \in SUBSET Nat, IsFiniteSet(S), NEW x \in Newest(S), NEW y \in S, x < y
  PROVE  y \in Newest(S)
  <1>1. x \in S /\ Cardinality(Above(S, x)) < PageSize
    BY DEF Newest
  <1>2. Above(S, x) \in SUBSET S /\ Above(S, y) \in SUBSET Above(S, x)
    <2>1. \A v \in S : v \in Nat
      OBVIOUS
    <2>2. \A v \in S : v > y => v > x
      BY <1>1, <2>1
    <2> QED
      BY <2>2 DEF Above
  <1>3. /\ IsFiniteSet(Above(S, x)) /\ IsFiniteSet(Above(S, y))
        /\ Cardinality(Above(S, y)) <= Cardinality(Above(S, x))
    BY <1>2, FS_Subset
  <1>4. Cardinality(Above(S, x)) \in Nat /\ Cardinality(Above(S, y)) \in Nat
    BY <1>3, FS_CardinalityType
  <1>5. Cardinality(Above(S, y)) < PageSize
    BY <1>1, <1>3, <1>4, DashboardAssumption
  <1> QED
    BY <1>5 DEF Newest

\* What there is to read are numbers, bounded and finitely many.
LEMMA Readable ==
  ASSUME TypeOK
  PROVE  /\ committed \in SUBSET Nat /\ IsFiniteSet(committed)
         /\ committed \subseteq Events /\ \A e \in committed : e <= MaxEvent
         /\ sent \in SUBSET Nat /\ IsFiniteSet(sent)
         /\ sent \subseteq Messages /\ \A m \in sent : m <= MaxMessage
         /\ MaxEvent \in Nat /\ MaxMessage \in Nat
  <1>1. /\ drawn \in Nat /\ drawn <= MaxEvent /\ MaxEvent \in Nat
        /\ numbered \in Nat /\ numbered <= MaxMessage /\ MaxMessage \in Nat
    BY DashboardAssumption DEF TypeOK
  <1>2. committed \subseteq 1 .. drawn /\ sent \subseteq 1 .. numbered
    BY DEF TypeOK, Drawn, Numbered
  <1>3. IsFiniteSet(1 .. drawn) /\ IsFiniteSet(1 .. numbered)
    BY <1>1, FS_Interval
  <1>4. IsFiniteSet(committed) /\ IsFiniteSet(sent)
    BY <1>2, <1>3, FS_Subset
  <1> QED
    BY <1>1, <1>2, <1>3, <1>4 DEF Events, Messages

---------------------------------------------------------------------------
\* The project's agents.

\* A new event or message leaves the script's state alone.
LEMMA PageWaits ==
  ASSUME IInv, UNCHANGED <<page, ops, raced>>
  PROVE  PageInv' /\ PollsInv' /\ OpsInv' /\ LoadsInv' /\ KeepsPolling'
  <1>1. \A o \in Ops : /\ OpOK(ops[o])' = OpOK(ops[o]) /\ LiveOK(ops[o])' = LiveOK(ops[o])
                       /\ Loading(ops[o])' = Loading(ops[o]) /\ Rearms(ops[o])' = Rearms(ops[o])
    BY DEF OpOK, LiveOK, Live, Loading, Current, Rearms
  <1> QED
    BY <1>1 DEF IInv, PageInv, PollsInv, OpsInv, LoadsInv, KeepsPolling

MessageStep == DrawMessage \/ \E m \in Messages : CommitMessage(m)

EventStep == DrawEvent \/ \E e \in Events : CommitEvent(e)

AgentStep == MessageStep \/ EventStep

\* What a sender does to what can be read: there is more of it, and a message that
\* was not committed below another one is above all that were there.
LEMMA MessagesGrown ==
  ASSUME IInv, MessageStep
  PROVE  /\ UNCHANGED <<drawn, kind, committed, late, page, shown, ops, raced>>
         /\ sent \subseteq sent'
         /\ \A m \in Timely' : m \in Nat /\ m > 0 /\ (m \notin Timely => \A n \in sent : n < m)
         /\ TypeOK'
  <1>0. TypeOK
    BY DEF IInv
  <1>1. /\ sent \in SUBSET Nat /\ numbered \in Nat
        /\ \A m \in sent : m \in Nat /\ m > 0 /\ m <= numbered
    BY <1>0, Readable, DashboardAssumption DEF TypeOK, Numbered
  <1>2. CASE DrawMessage
    <2>1. /\ UNCHANGED <<drawn, kind, committed, late, sent, tardy, page, shown, ops, raced>>
          /\ numbered' = numbered + 1 /\ numbered' \in 0 .. MaxMessage
      BY <1>1, <1>2, DashboardAssumption DEF DrawMessage
    <2>2. sent' \subseteq Numbered'
      BY <1>1, <2>1 DEF Numbered
    <2>3. TypeOK'
      BY <1>0, <2>1, <2>2 DEF TypeOK, shown, Drawn
    <2> QED
      BY <1>1, <2>1, <2>3 DEF Timely
  <1>3. ASSUME NEW m \in Messages, CommitMessage(m)
        PROVE  /\ UNCHANGED <<drawn, kind, committed, late, page, shown, ops, raced>>
               /\ sent \subseteq sent' /\ TypeOK'
               /\ \A n \in Timely' : n \in Nat /\ n > 0 /\ (n \notin Timely => \A k \in sent : k < n)
    <2>1. /\ UNCHANGED <<drawn, kind, committed, late, numbered, page, shown, ops, raced>>
          /\ sent' = sent \cup {m} /\ m \in Numbered /\ m \notin sent
      BY <1>3 DEF CommitMessage
    <2>2. tardy' = IF \E n \in sent : n > m THEN tardy \cup {m} ELSE tardy
      BY <1>3 DEF CommitMessage
    <2>3. m \in Nat /\ m > 0
      BY <1>1, <2>1 DEF Numbered
    <2>4. /\ tardy \subseteq tardy' /\ tardy' \subseteq sent'
          /\ m \notin tardy' => \A n \in sent : n < m
      <3>1. tardy \subseteq sent
        BY <1>0 DEF TypeOK
      <3>2. tardy' = tardy \/ tardy' = tardy \cup {m}
        BY <2>2
      <3>3. m \notin tardy' => \A n \in sent : ~(n > m) /\ n # m
        BY <2>1, <2>2
      <3>4. m \notin tardy' => \A n \in sent : n < m
        BY <1>1, <2>3, <3>3
      <3> QED
        BY <2>1, <3>1, <3>2, <3>4
    <2>5. ASSUME NEW n \in Timely'
          PROVE  n \in Nat /\ n > 0 /\ (n \notin Timely => \A k \in sent : k < n)
      BY <1>1, <2>1, <2>3, <2>4 DEF Timely
    <2>6. TypeOK'
      BY <1>0, <2>1, <2>4 DEF TypeOK, shown, Drawn, Numbered
    <2> QED
      BY <2>1, <2>5, <2>6
  <1> QED
    BY <1>2, <1>3 DEF MessageStep

\* And what is told about: the same holds of events.
LEMMA EventsGrown ==
  ASSUME IInv, EventStep
  PROVE  /\ UNCHANGED <<numbered, sent, tardy, page, shown, ops, raced>>
         /\ committed \subseteq committed'
         /\ \A e \in committed : kind'[e] = kind[e]
         /\ \A e \in Punctual' : e \in Nat /\ e > 0 /\ (e \notin Punctual => \A d \in committed : d < e)
         /\ TypeOK'
  <1>0. TypeOK
    BY DEF IInv
  <1>1. /\ committed \in SUBSET Nat /\ drawn \in Nat
        /\ \A e \in committed : e \in Nat /\ e > 0 /\ e <= drawn
    BY <1>0, Readable, DashboardAssumption DEF TypeOK, Drawn
  <1>2. CASE DrawEvent
    <2>1. /\ UNCHANGED <<committed, late, numbered, sent, tardy, page, shown, ops, raced>>
          /\ drawn' = drawn + 1 /\ drawn' \in 0 .. MaxEvent
      BY <1>1, <1>2, DashboardAssumption DEF DrawEvent
    <2>2. PICK k \in {Other} \cup sent : kind' = [kind EXCEPT ![drawn + 1] = k]
      BY <1>2 DEF DrawEvent
    <2>3. k \in Messages \cup {Other}
      BY <1>0, Readable
    <2>4. kind' \in [Events -> Messages \cup {Other}]
      BY <1>0, <2>2, <2>3 DEF TypeOK
    <2>5. \A e \in committed : kind'[e] = kind[e]
      BY <1>0, <1>1, <2>2 DEF TypeOK
    <2>6. committed' \subseteq Drawn'
      BY <1>0, <1>1, <2>1 DEF TypeOK, Drawn
    <2>7. TypeOK'
      BY <1>0, <2>1, <2>4, <2>6 DEF TypeOK, shown, Numbered
    <2> QED
      BY <1>0, <1>1, <2>1, <2>5, <2>7 DEF Punctual, TypeOK
  <1>3. ASSUME NEW e \in Events, CommitEvent(e)
        PROVE  /\ UNCHANGED <<kind, numbered, sent, tardy, page, shown, ops, raced>>
               /\ committed \subseteq committed' /\ TypeOK'
               /\ \A d \in Punctual' : d \in Nat /\ d > 0 /\ (d \notin Punctual => \A c \in committed : c < d)
    <2>1. /\ UNCHANGED <<drawn, kind, numbered, sent, tardy, page, shown, ops, raced>>
          /\ committed' = committed \cup {e} /\ e \in Drawn /\ e \notin committed
      BY <1>3 DEF CommitEvent
    <2>2. late' = IF \E d \in committed : d > e THEN late \cup {e} ELSE late
      BY <1>3 DEF CommitEvent
    <2>3. e \in Nat /\ e > 0
      BY <1>1, <2>1 DEF Drawn
    <2>4. /\ late \subseteq late' /\ late' \subseteq committed'
          /\ e \notin late' => \A d \in committed : d < e
      <3>1. late \subseteq committed
        BY <1>0 DEF TypeOK
      <3>2. late' = late \/ late' = late \cup {e}
        BY <2>2
      <3>3. e \notin late' => \A d \in committed : ~(d > e) /\ d # e
        BY <2>1, <2>2
      <3>4. e \notin late' => \A d \in committed : d < e
        BY <1>1, <2>3, <3>3
      <3> QED
        BY <2>1, <3>1, <3>2, <3>4
    <2>5. ASSUME NEW d \in Punctual'
          PROVE  d \in Nat /\ d > 0 /\ (d \notin Punctual => \A c \in committed : c < d)
      BY <1>1, <2>1, <2>3, <2>4 DEF Punctual
    <2>6. TypeOK'
      BY <1>0, <2>1, <2>4 DEF TypeOK, shown, Drawn, Numbered
    <2> QED
      BY <2>1, <2>5, <2>6
  <1> QED
    BY <1>2, <1>3 DEF EventStep

\* Both together: what was there stays, and what appears at or below a place that
\* has been read is late or tardy.
LEMMA Beyond ==
  ASSUME IInv, AgentStep
  PROVE  /\ UNCHANGED <<page, shown, ops, raced>> /\ TypeOK'
         /\ committed \subseteq committed' /\ sent \subseteq sent'
         /\ \A e \in Punctual' : e \in Nat
         /\ \A n \in Nat, e \in Punctual' : Read(n) /\ e <= n => e \in Punctual /\ kind'[e] = kind[e]
         /\ \A n \in Nat, m \in Timely' : ReadTo(n) /\ m <= n => m \in Timely
  <1>0. /\ Punctual \subseteq Nat /\ Timely \subseteq Nat /\ committed \subseteq Nat /\ sent \subseteq Nat
    BY Readable DEF IInv, Punctual, Timely
  <1>1. CASE MessageStep
    <2>1. UNCHANGED <<kind, page, shown, ops, raced, committed>> /\ Punctual' = Punctual
      BY <1>1, MessagesGrown DEF Punctual
    <2>2. ASSUME NEW n \in Nat, NEW m \in Timely', ReadTo(n), m <= n PROVE m \in Timely
      <3>1. m \in Nat /\ m > 0 /\ (m \notin Timely => \A k \in sent : k < m)
        BY <1>1, MessagesGrown
      <3> QED
        BY <2>2, <3>1 DEF ReadTo
    <2> QED
      BY <1>0, <1>1, <2>1, <2>2, MessagesGrown
  <1>2. CASE EventStep
    <2>1. UNCHANGED <<page, shown, ops, raced, sent>> /\ Timely' = Timely
      BY <1>2, EventsGrown DEF Timely
    <2>2. ASSUME NEW n \in Nat, NEW e \in Punctual', Read(n), e <= n
          PROVE  e \in Punctual /\ kind'[e] = kind[e]
      <3>1. /\ e \in Nat /\ e > 0 /\ (e \notin Punctual => \A d \in committed : d < e)
            /\ \A d \in committed : kind'[d] = kind[d]
        BY <1>2, EventsGrown
      <3> QED
        BY <2>2, <3>1 DEF Read, Punctual
    <2> QED
      BY <1>2, <2>1, <2>2, EventsGrown
  <1> QED
    BY <1>1, <1>2 DEF AgentStep

\* No one's agents make a gap in what the page shows or has read.
LEMMA AgentOK == ASSUME IInv, AgentStep PROVE IInv'
  <1>1. /\ UNCHANGED <<page, rows, pending, unacked, cursor, crossed, ops, raced>>
        /\ committed \subseteq committed' /\ sent \subseteq sent'
        /\ TypeOK /\ TypeOK' /\ \A e \in Punctual' : e \in Nat
    BY Beyond DEF shown, IInv
  <1>2. PageInv' /\ PollsInv' /\ OpsInv' /\ LoadsInv' /\ KeepsPolling'
    BY <1>1, PageWaits
  <1>3. /\ cursor \in Positions /\ cursor.event \in Nat /\ cursor.message \in Nat
        /\ Read(cursor.event) /\ ReadTo(cursor.message)
        /\ ops \in [Ops -> Op]
    BY <1>1, DashboardAssumption DEF IInv, TypeOK, ReadsInv, OpsInv, Positions
  <1>4. ReadsInv'
    <2> SUFFICES ASSUME NEW o \in Ops PROVE ReadsOK(ops[o])'
      BY <1>1, <1>3 DEF ReadsInv, Read, ReadTo
    <2> DEFINE q == ops[o]
    <2>0. ReadsOK(q) /\ q \in Op /\ ops'[o] = q
      BY <1>1, <1>3 DEF IInv, ReadsInv
    <2>1. q.events \subseteq committed' /\ q.messages \subseteq sent'
      BY <1>1, <2>0 DEF ReadsOK
    <2>2. ASSUME q.stage = "loaded", NEW e \in Punctual', e <= Top(q.events),
                 \E y \in q.events : y < e
          PROVE  e \in q.events
      <3>1. Top(q.events) \in Nat /\ Read(Top(q.events))
        <4>1. q.events \in SUBSET Nat /\ MaxEvent \in Nat /\ \A x \in q.events : x <= MaxEvent
          BY <1>1, <2>0, Readable DEF ReadsOK
        <4>2. Top(q.events) \in 0 .. MaxEvent /\ (Top(q.events) = 0 \/ Top(q.events) \in q.events)
          BY <4>1, MaxFacts
        <4> QED
          BY <2>0, <4>1, <4>2 DEF ReadsOK, Read
      <3>2. e \in Punctual
        BY <2>2, <3>1, Beyond
      <3> QED
        BY <2>0, <2>2, <3>2 DEF ReadsOK
    <2>3. ASSUME q.stage = "loaded", NEW m \in Timely', m <= Top(q.messages),
                 \E y \in q.messages : y < m
          PROVE  m \in q.messages
      <3>1. Top(q.messages) \in Nat /\ ReadTo(Top(q.messages))
        <4>1. q.messages \in SUBSET Nat /\ MaxMessage \in Nat /\ \A x \in q.messages : x <= MaxMessage
          BY <1>1, <2>0, Readable DEF ReadsOK
        <4>2. Top(q.messages) \in 0 .. MaxMessage /\ (Top(q.messages) = 0 \/ Top(q.messages) \in q.messages)
          BY <4>1, MaxFacts
        <4> QED
          BY <2>0, <4>1, <4>2 DEF ReadsOK, ReadTo
      <3>2. m \in Timely
        BY <2>3, <3>1, Beyond
      <3> QED
        BY <2>0, <2>3, <3>2 DEF ReadsOK
    <2>4. q.stage = "fetch" => Read(q.after.event)' /\ ReadTo(q.after.message)'
      BY <1>1, <2>0 DEF ReadsOK, Read, ReadTo
    <2>5. q.stage = "loaded" => (q.tab = "messages" => q.events = {})
      BY <2>0 DEF ReadsOK
    <2> QED
      BY <2>0, <2>1, <2>2, <2>3, <2>4, <2>5 DEF ReadsOK
  <1>5. NewsInv'
    <2> SUFFICES ASSUME ~raced, NEW o \in Ops, Fetching(ops[o]) PROVE NewsOK(ops[o])'
      BY <1>1 DEF NewsInv, Fetching, Live, Current
    <2> DEFINE q == ops[o]
    <2>0. /\ NewsOK(q) /\ ReadsOK(q) /\ q \in Op /\ ops'[o] = q /\ q.stage = "fetch"
          /\ q.after.event \in Nat /\ q.after.message \in Nat
      BY <1>1, <1>3, DashboardAssumption DEF IInv, ReadsInv, NewsInv, Fetching, Op, Positions
    <2>1. ASSUME NEW e \in Punctual', cursor.event < e, e <= q.after.event PROVE e \in q.events
      <3>1. Read(q.after.event)
        BY <2>0 DEF ReadsOK
      <3>2. e \in Punctual
        BY <2>0, <2>1, <3>1, Beyond
      <3> QED
        BY <2>0, <2>1, <3>2 DEF NewsOK
    <2>2. ASSUME NEW m \in Timely', cursor.message < m, m <= q.after.message PROVE m \in q.messages
      <3>1. ReadTo(q.after.message)
        BY <2>0 DEF ReadsOK
      <3>2. m \in Timely
        BY <2>0, <2>2, <3>1, Beyond
      <3> QED
        BY <2>0, <2>2, <3>2 DEF NewsOK
    <2>3. ASSUME NEW m \in q.unacked, NEW e \in Punctual', kind'[e] = m PROVE e > cursor.event
      <3> SUFFICES ASSUME e <= cursor.event PROVE FALSE
        BY <1>1, <1>3
      <3>1. e \in Punctual /\ kind[e] = m
        BY <1>3, <2>3, Beyond
      <3>2. e > cursor.event
        BY <2>0, <2>3, <3>1 DEF NewsOK
      <3> QED
        BY <1>1, <1>3, <3>2
    <2>4. /\ cursor.event <= q.after.event /\ cursor.message <= q.after.message
          /\ \A e \in q.events : cursor.event < e /\ e <= q.after.event
          /\ \A m \in q.messages : cursor.message < m /\ m <= q.after.message
      BY <2>0 DEF NewsOK
    <2> QED
      BY <1>1, <2>0, <2>1, <2>2, <2>3, <2>4 DEF NewsOK
  <1>6. RowsWhole'
    <2> SUFFICES ASSUME page.ready, ~raced PROVE TablesWhole'
      BY <1>1 DEF RowsWhole
    <2> DEFINE all == [e \in Events |-> rows.event[e] + pending[e]]
    <2>1. /\ Whole(all, cursor.event, Punctual)
          /\ page.tab = "messages" => Whole(rows.message, cursor.message, Timely)
      BY DEF IInv, RowsWhole, TablesWhole, Punctual, Timely
    <2>2. \A e \in Punctual' : e <= cursor.event => e \in Punctual
      BY <1>3, Beyond
    <2>3. \A m \in Timely' : m <= cursor.message => m \in Timely
      BY <1>3, Beyond
    <2> HIDE DEF all
    <2>4. Whole(all, cursor.event, Punctual')
      BY <2>1, <2>2 DEF Whole
    <2>5. page.tab = "messages" => Whole(rows.message, cursor.message, Timely')
      BY <2>1, <2>3 DEF Whole
    <2> QED
      BY <1>1, <2>4, <2>5 DEF TablesWhole, Punctual, Timely, all
  <1>7. AcksShown'
    <2> SUFFICES ASSUME page.ready, ~raced, page.tab = "messages", NEW m \in unacked \ crossed,
                        NEW e \in Punctual', kind'[e] = m
                 PROVE  e > cursor.event
      BY <1>1 DEF AcksShown, Punctual
    <2> SUFFICES ASSUME e <= cursor.event PROVE FALSE
      BY <1>1, <1>3
    <2>1. e \in Punctual /\ kind[e] = m
      BY <1>3, Beyond
    <2>2. e > cursor.event
      BY <2>1 DEF IInv, AcksShown, Punctual
    <2> QED
      BY <1>1, <1>3, <2>2
  <1> QED
    BY <1>1, <1>2, <1>4, <1>5, <1>6, <1>7 DEF IInv

---------------------------------------------------------------------------
\* The page.

\* The parts of the invariant that speak of what is under way.
Flow == PageInv /\ PollsInv /\ OpsInv /\ LoadsInv /\ KeepsPolling

PageShape == [gen : 0 .. MaxGen + 1, owner : 0 .. MaxGen, tab : Tabs, known : BOOLEAN,
              ready : BOOLEAN, active : BOOLEAN, timer : BOOLEAN]

\* A slot without a load or poll.
LEMMA NoOpFacts ==
  /\ NoOp \in Op /\ NoOp.stage = "idle" /\ NoOp.by = None /\ NoOp.owner = 0 /\ NoOp.gen = 0
  /\ NoOp.events = {} /\ NoOp.messages = {} /\ NoOp.unacked = {}
  BY DashboardAssumption DEF NoOp, Op, Positions

\* A step that changes neither the rows nor what can be read keeps them as whole
\* as they are, unless it makes a view ready.
LEMMA Unshown ==
  ASSUME IInv, UNCHANGED <<server, shown>>,
         page'.ready /\ ~raced' => page.ready /\ ~raced /\ page'.tab = page.tab
  PROVE  RowsWhole' /\ AcksShown'
  <1>1. /\ UNCHANGED <<committed, late, sent, tardy, kind, rows, pending, cursor, unacked, crossed>>
    BY DEF server, shown
  <1>2. RowsWhole'
    <2> SUFFICES ASSUME page'.ready, ~raced' PROVE TablesWhole'
      BY DEF RowsWhole
    <2>1. TablesWhole /\ page'.tab = page.tab
      BY DEF IInv, RowsWhole
    <2> QED
      BY <1>1, <2>1 DEF TablesWhole, Whole
  <1>3. AcksShown'
    BY <1>1 DEF IInv, AcksShown
  <1> QED
    BY <1>2, <1>3

\* A step that changes one load or poll, and nothing that can be read, keeps what
\* the others have read.
LEMMA OthersReads ==
  ASSUME IInv, UNCHANGED server, NEW o \in Ops,
         \A p \in Ops : p # o => ops'[p] = ops[p],
         Read(cursor'.event), ReadTo(cursor'.message), ReadsOK(ops[o])'
  PROVE  ReadsInv'
  <1>1. \A p \in Ops : ReadsOK(ops[p])
    BY DEF IInv, ReadsInv
  <1>2. UNCHANGED <<committed, late, sent, tardy>>
    BY DEF server
  <1>3. \A p \in Ops \ {o} : ReadsOK(ops[p])'
    BY <1>1, <1>2 DEF ReadsOK, Punctual, Timely, Read, ReadTo
  <1> QED
    BY <1>2, <1>3 DEF ReadsInv, Read, ReadTo

\* So the news the others have are news, while the cursor stays where it is.
LEMMA OthersNews ==
  ASSUME IInv, UNCHANGED <<server, cursor>>, NEW o \in Ops,
         \A p \in Ops : p # o => ops'[p] = ops[p],
         ~raced' => ~raced /\ \A p \in Ops : p # o /\ Fetching(ops[p])' => Fetching(ops[p]),
         ~raced' /\ Fetching(ops[o])' => NewsOK(ops[o])'
  PROVE  NewsInv'
  <1>1. UNCHANGED <<committed, late, sent, tardy, kind>>
    BY DEF server
  <1>2. ASSUME ~raced', NEW p \in Ops, p # o, Fetching(ops[p])' PROVE NewsOK(ops[p])'
    <2>1. NewsOK(ops[p]) /\ ops'[p] = ops[p]
      BY <1>2 DEF IInv, NewsInv
    <2> QED
      BY <1>1, <2>1 DEF NewsOK, Punctual, Timely
  <1> QED
    BY <1>2 DEF NewsInv

\* The finally block of a load or poll: the page keeps polling, an owner that has
\* an active poll has one in flight.
LEMMA EndsFlow ==
  ASSUME IInv, NEW o \in Ops, ops[o].stage # "idle", NEW p, Ends(o, p), UNCHANGED raced,
         p = page \/ (p = [page EXCEPT !.ready = TRUE] /\ Loading(ops[o]))
  PROVE  /\ Flow' /\ page' \in PageShape
         /\ page'.ready = p.ready /\ page'.tab = page.tab /\ page'.gen = page.gen
         /\ ops' = [ops EXCEPT ![o] = NoOp]
  <1> DEFINE q == ops[o]
  <1>0. /\ TypeOK /\ PageInv /\ PollsInv /\ OpsInv /\ LoadsInv /\ KeepsPolling
        /\ page \in PageShape /\ ops \in [Ops -> Op]
        /\ page.gen \in Nat /\ page.owner \in Nat /\ q \in Op
    BY DashboardAssumption DEF IInv, TypeOK, PageShape, OpsInv
  <1>1. ops' = [ops EXCEPT ![o] = NoOp]
    BY DEF Ends
  <1>2. /\ ops' \in [Ops -> Op] /\ ops'[o] = NoOp
        /\ \A x \in Ops : x # o => ops'[x] = ops[x]
    BY <1>0, <1>1, NoOpFacts
  <1>3. /\ p \in PageShape /\ p.gen = page.gen /\ p.owner = page.owner /\ p.tab = page.tab
        /\ p.known = page.known /\ p.active = page.active /\ p.timer = page.timer
        /\ page.ready => p.ready
        /\ p.ready => page.ready \/ Loading(q)
    BY <1>0 DEF PageShape
  <1>4. page' = IF Rearms(q) THEN [p EXCEPT !.timer = TRUE, !.active = IF q.by = "poll" THEN FALSE ELSE p.active]
                ELSE p
    BY DEF Ends
  <1>5. /\ page' \in PageShape /\ page'.gen = page.gen /\ page'.owner = page.owner
        /\ page'.tab = page.tab /\ page'.known = page.known /\ page'.ready = p.ready
        /\ page'.timer = (Rearms(q) \/ page.timer)
        /\ page'.active = (page.active /\ ~(Rearms(q) /\ q.by = "poll"))
    <2>1. CASE Rearms(q)
      <3>1. page' = [p EXCEPT !.timer = TRUE, !.active = IF q.by = "poll" THEN FALSE ELSE p.active]
        BY <1>4, <2>1
      <3> HIDE DEF q
      <3>2. CASE q.by = "poll"
        <4>1. page' = [p EXCEPT !.timer = TRUE, !.active = FALSE]
          BY <3>1, <3>2
        <4> QED
          BY <1>3, <2>1, <3>2, <4>1 DEF PageShape
      <3>3. CASE q.by # "poll"
        <4>1. page' = [p EXCEPT !.timer = TRUE]
          BY <1>3, <3>1, <3>3 DEF PageShape
        <4> QED
          BY <1>3, <2>1, <3>3, <4>1 DEF PageShape
      <3> QED
        BY <3>2, <3>3
    <2>2. CASE ~Rearms(q)
      BY <1>0, <1>3, <1>4, <2>2 DEF PageShape
    <2> QED
      BY <2>1, <2>2
  <1>6. \A x, y \in Ops :
          ops[x].by = "poll" /\ ops[y].by = "poll" /\ ops[x].owner = ops[y].owner => x = y
    BY <1>0 DEF PollsInv
  <1>7. PageInv'
    BY <1>0, <1>3, <1>5 DEF PageInv, OpsInv, LiveOK, Loading
  <1>8. PollsInv'
    <2>1. ASSUME NEW x \in Ops, NEW y \in Ops, ops'[x].by = "poll", ops'[y].by = "poll",
                 ops'[x].owner = ops'[y].owner
          PROVE  x = y
      BY <1>2, <1>6, <2>1, NoOpFacts, DashboardAssumption
    <2>2. ASSUME page'.active PROVE \E x \in Ops : ops'[x].by = "poll" /\ ops'[x].owner = page'.owner
      <3>1. PICK x \in Ops : ops[x].by = "poll" /\ ops[x].owner = page.owner
        BY <1>0, <1>5, <2>2 DEF PollsInv
      <3>2. x # o
        BY <1>5, <2>2, <3>1 DEF Rearms
      <3> QED
        BY <1>2, <1>5, <3>1, <3>2
    <2> QED
      BY <2>1, <2>2 DEF PollsInv
  <1>9. OpsInv'
    <2> SUFFICES ASSUME NEW x \in Ops PROVE OpOK(ops[x])' /\ LiveOK(ops[x])'
      BY <1>2 DEF OpsInv
    <2>1. CASE x = o
      <3>1. OpOK(ops[x])'
        BY <1>0, <1>2, <1>5, <2>1, NoOpFacts, DashboardAssumption DEF OpOK
      <3>2. LiveOK(ops[x])'
        BY <1>2, <2>1, NoOpFacts DEF LiveOK, Live
      <3> QED
        BY <3>1, <3>2
    <2>2. CASE x # o
      <3>0. OpOK(ops[x]) /\ LiveOK(ops[x]) /\ ops'[x] = ops[x]
        BY <1>0, <1>2, <2>2 DEF OpsInv
      <3>1. ASSUME ops[x].by = "poll", ops[x].owner = page.owner PROVE page'.active
        BY <1>5, <1>6, <2>2, <3>0, <3>1 DEF OpOK, Rearms
      <3>2. OpOK(ops[x])'
        BY <1>5, <3>0, <3>1 DEF OpOK
      <3>3. LiveOK(ops[x])'
        BY <1>3, <1>5, <3>0 DEF LiveOK, Live, Current
      <3> QED
        BY <3>2, <3>3
    <2> QED
      BY <2>1, <2>2
  <1>10. \A x \in Ops : Loading(ops[x])' => x # o /\ Loading(ops[x])
    BY <1>2, <1>5, NoOpFacts DEF Loading, Live, Current
  <1>11. LoadsInv'
    BY <1>0, <1>3, <1>5, <1>10 DEF LoadsInv
  <1>12. KeepsPolling'
    <2> SUFFICES ASSUME ~page'.timer PROVE \E x \in Ops : Rearms(ops[x])'
      BY DEF KeepsPolling
    <2>1. ~Rearms(q) /\ ~page.timer
      BY <1>5
    <2>2. PICK x \in Ops : Rearms(ops[x])
      BY <1>0, <2>1 DEF KeepsPolling
    <2>3. x # o /\ ops'[x] = ops[x]
      BY <1>2, <2>1, <2>2
    <2>4. Rearms(ops[x])'
      BY <1>5, <2>1, <2>2, <2>3 DEF Rearms
    <2> QED
      BY <2>4
  <1> QED
    BY <1>1, <1>5, <1>7, <1>8, <1>9, <1>11, <1>12 DEF Flow

\* Types of a step that changes neither the rows nor what can be read.
LEMMA ShapeKept ==
  ASSUME IInv, UNCHANGED <<server, shown>>, page' \in PageShape, raced' \in BOOLEAN, PollsInv'
  PROVE  TypeOK'
  BY DEF IInv, TypeOK, server, shown, PageShape, PollsInv, Drawn, Numbered

\* A load or poll makes progress.
LEMMA MovedFlow ==
  ASSUME IInv, NEW o \in Ops, NEW q \in Op, ops' = [ops EXCEPT ![o] = q], UNCHANGED <<page, raced>>,
         q.by = ops[o].by, q.owner = ops[o].owner, q.gen = ops[o].gen, q.tab = ops[o].tab,
         \/ ops[o].stage = "load" /\ q.stage = "loaded"
         \/ ops[o].stage = "fetch" /\ q.stage = "fetch"
  PROVE  Flow' /\ TypeOK /\ page \in PageShape
  <1>0. /\ TypeOK /\ PageInv /\ PollsInv /\ OpsInv /\ LoadsInv /\ KeepsPolling
        /\ page \in PageShape /\ ops \in [Ops -> Op]
    BY DEF IInv, TypeOK, PageShape, OpsInv
  <1>1. ops' \in [Ops -> Op] /\ ops'[o] = q /\ \A x \in Ops : x # o => ops'[x] = ops[x]
    BY <1>0
  <1>2. \A x \in Ops : /\ ops'[x].by = ops[x].by /\ ops'[x].owner = ops[x].owner
                       /\ ops'[x].gen = ops[x].gen /\ ops'[x].tab = ops[x].tab
                       /\ Rearms(ops[x])' = Rearms(ops[x]) /\ Loading(ops[x])' = Loading(ops[x])
    BY <1>1 DEF Rearms, Loading, Live, Current
  <1>3. ASSUME NEW x \in Ops PROVE OpOK(ops[x])' /\ LiveOK(ops[x])'
    <2>1. OpOK(ops[x]) /\ LiveOK(ops[x])
      BY <1>0 DEF OpsInv
    <2>2. CASE x = o
      <3>1. OpOK(ops[x])'
        BY <1>1, <2>1, <2>2 DEF OpOK
      <3>2. LiveOK(ops[x])'
        BY <1>1, <2>1, <2>2 DEF LiveOK, Live, Current
      <3> QED
        BY <3>1, <3>2
    <2>3. CASE x # o
      BY <1>1, <2>1, <2>3 DEF OpOK, LiveOK, Live, Current
    <2> QED
      BY <2>2, <2>3
  <1> QED
    BY <1>0, <1>1, <1>2, <1>3 DEF Flow, PageInv, PollsInv, OpsInv, LoadsInv, KeepsPolling

\* A request fails, or nothing waits for it any longer.
LEMMA GiveUpOK == ASSUME IInv, NEW o \in Ops, GiveUp(o) PROVE IInv'
  <1>1. ops[o].stage # "idle" /\ Ends(o, page) /\ UNCHANGED <<server, shown, raced>>
    BY DEF GiveUp
  <1>2. /\ Flow' /\ page' \in PageShape /\ page'.ready = page.ready /\ page'.tab = page.tab
        /\ page'.gen = page.gen /\ ops' = [ops EXCEPT ![o] = NoOp]
    BY <1>1, EndsFlow
  <1>3. TypeOK' /\ RowsWhole' /\ AcksShown'
    BY <1>1, <1>2, ShapeKept, Unshown DEF Flow, IInv, TypeOK
  <1>4. ops'[o] = NoOp /\ \A x \in Ops : x # o => ops'[x] = ops[x]
    BY <1>2 DEF IInv, OpsInv
  <1>5. ReadsOK(ops[o])' /\ ~Fetching(ops[o])'
    BY <1>4, NoOpFacts DEF ReadsOK, Fetching, Live
  <1>6. UNCHANGED cursor /\ UNCHANGED sent
    BY <1>1 DEF shown, server
  <1>7. ReadsInv' /\ NewsInv'
    <2>1. \A x \in Ops : x # o /\ Fetching(ops[x])' => Fetching(ops[x])
      BY <1>2, <1>4 DEF Fetching, Live, Current
    <2>2. Read(cursor'.event) /\ ReadTo(cursor'.message)
      BY <1>6 DEF IInv, ReadsInv
    <2> QED
      BY <1>1, <1>4, <1>5, <1>6, <2>1, <2>2, OthersReads, OthersNews
  <1> QED
    BY <1>2, <1>3, <1>7 DEF IInv, Flow

\* The window is hidden or shown, or the timer fires while a poll is active.
LEMMA TimerOK == ASSUME IInv, VisibilityChange \/ PollSkipped PROVE IInv'
  <1>0. TypeOK /\ PollsInv /\ page \in PageShape
    BY DEF IInv, TypeOK, PageShape
  <1>1. /\ UNCHANGED <<server, shown, ops, raced>>
        /\ \E b \in BOOLEAN : page' = [page EXCEPT !.timer = b] /\ (b \/ page.active)
    BY DEF VisibilityChange, PollSkipped
  <1>2. /\ page' \in PageShape /\ page'.gen = page.gen /\ page'.owner = page.owner
        /\ page'.tab = page.tab /\ page'.known = page.known /\ page'.ready = page.ready
        /\ page'.active = page.active /\ (page'.timer \/ page.active)
    BY <1>0, <1>1 DEF PageShape
  <1>3. \A x \in Ops : /\ OpOK(ops[x])' = OpOK(ops[x]) /\ LiveOK(ops[x])' = LiveOK(ops[x])
                       /\ Loading(ops[x])' = Loading(ops[x]) /\ Rearms(ops[x])' = Rearms(ops[x])
                       /\ Fetching(ops[x])' = Fetching(ops[x])
    BY <1>1, <1>2 DEF OpOK, LiveOK, Live, Loading, Current, Rearms, Fetching
  <1>4. PageInv' /\ PollsInv' /\ OpsInv' /\ LoadsInv'
    BY <1>1, <1>2, <1>3 DEF IInv, PageInv, PollsInv, OpsInv, LoadsInv
  <1>5. KeepsPolling'
    <2> SUFFICES ASSUME ~page'.timer PROVE \E x \in Ops : Rearms(ops[x])
      BY <1>1, <1>3 DEF KeepsPolling
    <2> QED
      BY <1>0, <1>2 DEF PollsInv, Rearms
  <1>6. TypeOK' /\ RowsWhole' /\ AcksShown'
    BY <1>0, <1>1, <1>2, <1>4, ShapeKept, Unshown DEF TypeOK
  <1>7. UNCHANGED <<committed, late, sent, tardy, kind, cursor>>
    BY <1>1 DEF server, shown
  <1>8. ReadsInv' /\ NewsInv'
    <2>1. \A x \in Ops : ReadsOK(ops[x])' = ReadsOK(ops[x]) /\ NewsOK(ops[x])' = NewsOK(ops[x])
      BY <1>1, <1>7 DEF ReadsOK, NewsOK, Punctual, Timely, Read, ReadTo
    <2> QED
      BY <1>1, <1>3, <1>7, <2>1 DEF IInv, ReadsInv, NewsInv, Read, ReadTo
  <1> QED
    BY <1>4, <1>5, <1>6, <1>8 DEF IInv

\* The first project is there, and is loaded in a generation of its own.
LEMMA SelectProjectOK == ASSUME IInv, NEW o \in Ops, SelectProject(o) PROVE IInv'
  <1> DEFINE q == ops[o]
  <1>0. /\ TypeOK /\ PageInv /\ PollsInv /\ OpsInv /\ page \in PageShape /\ ops \in [Ops -> Op]
        /\ page.gen \in Nat /\ page.owner \in Nat /\ MaxGen \in Nat
        /\ OpOK(q) /\ LiveOK(q) /\ q \in Op
    BY DashboardAssumption DEF IInv, TypeOK, PageShape, OpsInv
  <1>1. /\ q.stage = "projects" /\ Current(q) /\ UNCHANGED <<server, shown, raced>>
        /\ page' = [page EXCEPT !.known = TRUE, !.gen = page.gen + 1]
        /\ ops' = [ops EXCEPT ![o] = [q EXCEPT !.stage = "load", !.gen = page.gen + 1, !.tab = page.tab]]
    BY <1>0 DEF SelectProject
  <1>2. /\ ~page.known /\ ~page.ready /\ page.gen <= MaxGen /\ q.owner = page.owner
        /\ q.by \in {"boot", "poll"} /\ (q.by = "poll" => page.active)
        /\ q.events = {} /\ q.messages = {} /\ q.unacked = {}
    BY <1>0, <1>1 DEF LiveOK, Live, OpOK, PageInv
  <1>3. /\ page' \in PageShape /\ page'.gen = page.gen + 1 /\ page'.owner = page.owner
        /\ page'.tab = page.tab /\ page'.known /\ ~page'.ready
        /\ page'.active = page.active /\ page'.timer = page.timer
    <2>1. page.gen + 1 \in 0 .. MaxGen + 1
      BY <1>0, <1>2
    <2> QED
      BY <1>0, <1>1, <1>2, <2>1 DEF PageShape
  <1>4. /\ ops'[o] \in Op /\ ops'[o].by = q.by /\ ops'[o].owner = q.owner
        /\ ops'[o].gen = page.gen + 1 /\ ops'[o].tab = page.tab /\ ops'[o].stage = "load"
        /\ ops'[o].events = {} /\ ops'[o].messages = {} /\ ops'[o].unacked = {}
    <2>1. ops'[o] = [q EXCEPT !.stage = "load", !.gen = page.gen + 1, !.tab = page.tab]
      BY <1>0, <1>1
    <2>2. page.gen + 1 \in Nat /\ page.tab \in Tabs
      BY <1>0 DEF PageShape
    <2> HIDE DEF q
    <2>3. [q EXCEPT !.stage = "load", !.gen = page.gen + 1, !.tab = page.tab] \in Op
      <3>1. ASSUME NEW g \in Nat, NEW t \in Tabs
            PROVE  [q EXCEPT !.stage = "load", !.gen = g, !.tab = t] \in Op
        BY <1>0 DEF Op
      <3> QED
        BY <2>2, <3>1
    <2> QED
      BY <1>0, <1>2, <2>1, <2>3 DEF Op
  <1>5. ops' \in [Ops -> Op] /\ \A x \in Ops : x # o => ops'[x] = ops[x]
    BY <1>0, <1>1, <1>4
  <1>6. \A x \in Ops : x # o => ~Live(ops[x])'
    <2> SUFFICES ASSUME NEW x \in Ops, x # o PROVE ~Live(ops[x])'
      OBVIOUS
    <2>1. ops'[x] = ops[x] /\ ops[x].gen \in Nat /\ ops[x].gen <= page.gen
      BY <1>0, <1>5 DEF OpsInv, OpOK, Op
    <2> QED
      BY <1>0, <1>3, <2>1 DEF Live, Current
  <1>7. PageInv'
    BY <1>0, <1>3 DEF PageInv
  <1>8. PollsInv'
    <2>1. \A x \in Ops : ops'[x].by = ops[x].by /\ ops'[x].owner = ops[x].owner
      BY <1>4, <1>5
    <2> QED
      BY <1>0, <1>3, <2>1 DEF PollsInv
  <1>9. OpsInv'
    <2> SUFFICES ASSUME NEW x \in Ops PROVE OpOK(ops[x])' /\ LiveOK(ops[x])'
      BY <1>5 DEF OpsInv
    <2>1. CASE x = o
      <3>1. OpOK(ops[x])'
        BY <1>0, <1>2, <1>3, <1>4, <2>1 DEF OpOK
      <3>2. LiveOK(ops[x])'
        BY <1>2, <1>3, <1>4, <2>1 DEF LiveOK
      <3> QED
        BY <3>1, <3>2
    <2>2. CASE x # o
      <3>1. OpOK(ops[x]) /\ ops'[x] = ops[x] /\ ops[x].gen \in Nat
        BY <1>0, <1>5, <2>2 DEF OpsInv, Op
      <3> QED
        BY <1>0, <1>3, <1>6, <2>2, <3>1 DEF OpOK, LiveOK
    <2> QED
      BY <2>1, <2>2
  <1>10. LoadsInv'
    BY <1>3, <1>6 DEF LoadsInv, Loading
  <1>11. KeepsPolling'
    <2>1. Rearms(ops[o])'
      BY <1>2, <1>3, <1>4 DEF Rearms
    <2> QED
      BY <2>1 DEF KeepsPolling
  <1>12. TypeOK' /\ RowsWhole' /\ AcksShown'
    BY <1>0, <1>1, <1>3, <1>8, ShapeKept, Unshown DEF TypeOK
  <1>13. ReadsInv' /\ NewsInv'
    <2>1. ReadsOK(ops[o])' /\ ~Fetching(ops[o])' /\ \A x \in Ops : x # o => ~Fetching(ops[x])'
      BY <1>4, <1>6 DEF ReadsOK, Fetching
    <2>2. UNCHANGED cursor /\ Read(cursor'.event) /\ ReadTo(cursor'.message)
      BY <1>1 DEF IInv, ReadsInv, shown
    <2> QED
      BY <1>1, <1>5, <2>1, <2>2, OthersReads, OthersNews
  <1> QED
    BY <1>7, <1>8, <1>9, <1>10, <1>11, <1>12, <1>13 DEF IInv

---------------------------------------------------------------------------
\* Answers of the server.

\* A load or poll makes progress: what is left to show is what it has read.
LEMMA Moved ==
  ASSUME IInv, NEW o \in Ops, NEW q \in Op, ops' = [ops EXCEPT ![o] = q],
         UNCHANGED <<server, page, shown, raced>>,
         q.by = ops[o].by, q.owner = ops[o].owner, q.gen = ops[o].gen, q.tab = ops[o].tab,
         \/ ops[o].stage = "load" /\ q.stage = "loaded"
         \/ ops[o].stage = "fetch" /\ q.stage = "fetch",
         ReadsOK(q),
         ~raced /\ Fetching(ops[o]) /\ NewsOK(ops[o]) /\ q.stage = "fetch" => NewsOK(q)
  PROVE  IInv'
  <1>1. Flow' /\ TypeOK /\ page \in PageShape /\ ops \in [Ops -> Op]
    BY MovedFlow DEF IInv, OpsInv
  <1>2. ops'[o] = q /\ \A x \in Ops : x # o => ops'[x] = ops[x]
    BY <1>1
  <1>3. UNCHANGED <<committed, late, sent, tardy, kind, cursor>>
    BY DEF server, shown
  <1>4. TypeOK' /\ RowsWhole' /\ AcksShown'
    BY <1>1, ShapeKept, Unshown DEF Flow, TypeOK
  <1>5. ReadsOK(ops[o])'
    BY <1>2, <1>3 DEF ReadsOK, Punctual, Timely, Read, ReadTo
  <1>6. \A x \in Ops : Fetching(ops[x])' => Fetching(ops[x])
    BY <1>2 DEF Fetching, Live, Current
  <1>7. ~raced' /\ Fetching(ops[o])' => NewsOK(ops[o])'
    <2> SUFFICES ASSUME ~raced, Fetching(ops[o])' PROVE NewsOK(ops[o])'
      OBVIOUS
    <2>1. Fetching(ops[o]) /\ NewsOK(ops[o]) /\ q.stage = "fetch"
      BY <1>2, <1>6 DEF IInv, NewsInv, Fetching
    <2>2. NewsOK(q)
      BY <2>1
    <2> QED
      BY <1>2, <1>3, <2>2 DEF NewsOK, Punctual, Timely
  <1>8. Read(cursor'.event) /\ ReadTo(cursor'.message)
    BY <1>3 DEF IInv, ReadsInv
  <1>9. ReadsInv' /\ NewsInv'
    BY <1>2, <1>3, <1>5, <1>6, <1>7, <1>8, OthersReads, OthersNews
  <1> QED
    BY <1>1, <1>4, <1>9 DEF IInv, Flow

\* The newest page of a tab has no gap.
LEMMA ReadRowsOK == ASSUME IInv, NEW o \in Ops, ReadRows(o) PROVE IInv'
  <1> DEFINE q == ops[o]
  <1>0. TypeOK /\ q \in Op /\ OpOK(q)
    BY DEF IInv, OpsInv
  <1>1. /\ q.stage = "load" /\ UNCHANGED <<server, page, shown, raced>>
        /\ q.events = {} /\ q.messages = {}
    BY <1>0 DEF ReadRows, OpOK
  <1>2. /\ committed \in SUBSET Nat /\ IsFiniteSet(committed) /\ committed \subseteq Events
        /\ sent \in SUBSET Nat /\ IsFiniteSet(sent) /\ sent \subseteq Messages
    BY <1>0, Readable
  <1>3. CASE q.tab = "activity"
    <2> DEFINE r == [q EXCEPT !.stage = "loaded", !.events = Newest(committed)]
    <2>1. Newest(committed) \subseteq committed
      BY DEF Newest
    <2>2. /\ r \in Op /\ r.by = q.by /\ r.owner = q.owner /\ r.gen = q.gen /\ r.tab = q.tab
          /\ r.stage = "loaded" /\ r.events = Newest(committed) /\ r.messages = {}
      BY <1>0, <1>1, <1>2, <2>1 DEF Op
    <2>3. ops' = [ops EXCEPT ![o] = r]
      BY <1>3 DEF ReadRows
    <2> HIDE DEF r
    <2>4. ASSUME NEW e \in Punctual, \E y \in r.events : y < e PROVE e \in r.events
      BY <1>2, <2>2, <2>4, NewestUpward DEF Punctual, Timely
    <2>5. ReadsOK(r)
      BY <1>3, <2>1, <2>2, <2>4 DEF ReadsOK
    <2> QED
      BY <1>1, <2>2, <2>3, <2>5, Moved
  <1>4. CASE q.tab # "activity"
    <2> DEFINE r == [q EXCEPT !.stage = "loaded", !.messages = Newest(sent),
                              !.unacked = Newest(sent) \ Acked]
    <2>1. Newest(sent) \subseteq sent
      BY DEF Newest
    <2>2. /\ r \in Op /\ r.by = q.by /\ r.owner = q.owner /\ r.gen = q.gen /\ r.tab = q.tab
          /\ r.stage = "loaded" /\ r.messages = Newest(sent) /\ r.events = {}
      BY <1>0, <1>1, <1>2, <2>1 DEF Op
    <2>3. ops' = [ops EXCEPT ![o] = r]
      BY <1>4 DEF ReadRows
    <2> HIDE DEF r
    <2>4. ASSUME NEW m \in Timely, \E y \in r.messages : y < m PROVE m \in r.messages
      BY <1>2, <2>2, <2>4, NewestUpward DEF Timely
    <2>5. ReadsOK(r)
      BY <2>1, <2>2, <2>4 DEF ReadsOK
    <2> QED
      BY <1>1, <2>2, <2>3, <2>5, Moved
  <1> QED
    BY <1>3, <1>4

\* The rows of S on the page after n, and its last row.
PageAfter(S, n) == Oldest(Above(S, n))
LastRow(S, n) == IF PageAfter(S, n) = {} THEN n ELSE Max(PageAfter(S, n))

\* A page of what comes after n leaves nothing out up to its last row.
LEMMA PageOfNews ==
  ASSUME NEW S \in SUBSET Nat, IsFiniteSet(S), \E k \in Nat : \A x \in S : x <= k, NEW n \in Nat
  PROVE  /\ PageAfter(S, n) \subseteq S /\ LastRow(S, n) \in Nat /\ n <= LastRow(S, n)
         /\ LastRow(S, n) = n \/ LastRow(S, n) \in S
         /\ \A x \in PageAfter(S, n) : n < x /\ x <= LastRow(S, n)
         /\ \A x \in S : n < x /\ x <= LastRow(S, n) => x \in PageAfter(S, n)
  <1> DEFINE got == PageAfter(S, n)
             m == LastRow(S, n)
  <1>0. PICK top \in Nat : \A x \in S : x <= top
    OBVIOUS
  <1>1. Above(S, n) \in SUBSET S /\ IsFiniteSet(Above(S, n)) /\ got \subseteq Above(S, n)
    BY FS_Subset DEF Above, Oldest, PageAfter
  <1>2. \A x \in got : x \in S /\ x \in Nat /\ n < x /\ x <= top
    BY <1>0, <1>1 DEF Above
  <1>3. CASE got = {}
    BY <1>3 DEF LastRow
  <1>4. CASE got # {}
    <2>1. m = Max(got) /\ m \in got /\ \A x \in got : x <= m
      BY <1>0, <1>2, <1>4, MaxFacts DEF LastRow
    <2>2. ASSUME NEW x \in S, n < x, x <= m PROVE x \in got
      <3>1. x \in Above(S, n) /\ Above(S, n) \in SUBSET Nat
        BY <1>1, <2>2 DEF Above
      <3>2. CASE x < m
        BY <1>1, <2>1, <3>1, <3>2, OldestDownward DEF PageAfter
      <3>3. CASE ~(x < m)
        BY <1>2, <2>1, <2>2, <3>3
      <3> QED
        BY <3>2, <3>3
    <2>3. got \subseteq S /\ m \in S /\ m \in Nat /\ n < m
      BY <1>2, <2>1
    <2>4. n <= m
      BY <2>3
    <2>5. \A x \in got : n < x /\ x <= m
      BY <1>2, <2>1
    <2>6. \A x \in S : n < x /\ x <= m => x \in got
      BY <2>2
    <2> QED
      BY <2>3, <2>4, <2>5, <2>6
  <1> QED
    BY <1>3, <1>4

\* One page of new events.
LEMMA FetchEventsOK == ASSUME IInv, NEW o \in Ops, FetchEvents(o) PROVE IInv'
  <1> DEFINE q == ops[o]
             news == Above(committed, q.after.event)
             got == Oldest(news)
             m == IF got = {} THEN q.after.event ELSE Max(got)
             todo == IF got = news THEN q.todo \ {"event"} ELSE q.todo
             r == [q EXCEPT !.events = q.events \cup got, !.after.event = m, !.todo = todo]
  <1>0. TypeOK /\ q \in Op /\ OpOK(q) /\ ReadsOK(q) /\ cursor.event \in Nat /\ cursor.message \in Nat
    BY DashboardAssumption DEF IInv, OpsInv, ReadsInv, TypeOK
  <1>1. q.stage = "fetch" /\ UNCHANGED <<server, page, shown, raced>> /\ ops' = [ops EXCEPT ![o] = r]
    BY DEF FetchEvents
  <1>2. /\ committed \in SUBSET Nat /\ IsFiniteSet(committed) /\ committed \subseteq Events
        /\ (\A e \in committed : e <= MaxEvent) /\ MaxEvent \in Nat
        /\ q.after \in Positions /\ q.after.event \in Nat /\ q.after.message \in Nat
        /\ q.after.event <= MaxEvent
        /\ q.events \subseteq committed
    BY <1>0, Readable, DashboardAssumption DEF Op, Positions, ReadsOK
  <1>3. /\ got \subseteq committed /\ m \in Nat /\ q.after.event <= m /\ (m = q.after.event \/ m \in committed)
        /\ \A x \in got : q.after.event < x /\ x <= m
        /\ \A x \in committed : q.after.event < x /\ x <= m => x \in got
    <2> HIDE DEF got, m
    <2>1. got = PageAfter(committed, q.after.event) /\ m = LastRow(committed, q.after.event)
      BY DEF got, m, PageAfter, LastRow
    <2>2. \E k \in Nat : \A x \in committed : x <= k
      BY <1>2
    <2>3. q.after.event \in Nat /\ committed \in SUBSET Nat /\ IsFiniteSet(committed)
      BY <1>2
    <2> HIDE DEF q
    <2> DEFINE n == q.after.event
    <2>4. /\ PageAfter(committed, n) \subseteq committed /\ LastRow(committed, n) \in Nat /\ n <= LastRow(committed, n)
          /\ LastRow(committed, n) = n \/ LastRow(committed, n) \in committed
          /\ \A x \in PageAfter(committed, n) : n < x /\ x <= LastRow(committed, n)
          /\ \A x \in committed : n < x /\ x <= LastRow(committed, n) => x \in PageAfter(committed, n)
      <3> HIDE DEF n
      <3> QED
        BY <2>2, <2>3, PageOfNews DEF n
    <2> QED
      BY <2>1, <2>4
  <1>4. todo \subseteq q.todo
    OBVIOUS
  <1> HIDE DEF got, m, todo
  <1>5. [q.after EXCEPT !.event = m] \in Positions
    BY <1>2, <1>3 DEF Positions
  <1>6. /\ r \in Op /\ r.by = q.by /\ r.owner = q.owner /\ r.gen = q.gen /\ r.tab = q.tab
        /\ r.stage = "fetch" /\ r.events = q.events \cup got /\ r.messages = q.messages
        /\ r.unacked = q.unacked /\ r.after.event = m /\ r.after.message = q.after.message
    <2>1. r = [q EXCEPT !.events = q.events \cup got, !.after = [q.after EXCEPT !.event = m], !.todo = todo]
      BY <1>0 DEF Op
    <2>2. q.events \cup got \subseteq Events /\ todo \subseteq {"event", "message"}
      BY <1>0, <1>2, <1>3, <1>4 DEF Op
    <2> HIDE DEF q, r
    <2>3. /\ r \in Op /\ r.by = q.by /\ r.owner = q.owner /\ r.gen = q.gen /\ r.tab = q.tab
          /\ r.stage = q.stage /\ r.events = q.events \cup got /\ r.messages = q.messages
          /\ r.unacked = q.unacked /\ r.after = [q.after EXCEPT !.event = m]
      BY <1>0, <1>5, <2>1, <2>2 DEF Op
    <2> QED
      BY <1>1, <1>2, <2>3 DEF Positions
  <1> HIDE DEF r
  <1>7. ReadsOK(r)
    BY <1>0, <1>1, <1>2, <1>3, <1>6 DEF ReadsOK, Read, ReadTo
  <1>8. ASSUME NewsOK(q) PROVE NewsOK(r)
    <2>1. cursor.event <= m /\ cursor.message <= q.after.message
      BY <1>0, <1>2, <1>3, <1>8 DEF NewsOK
    <2>2. ASSUME NEW e \in q.events \cup got PROVE cursor.event < e /\ e <= m
      <3>1. e \in Nat
        BY <1>2, <1>3
      <3> QED
        BY <1>0, <1>2, <1>3, <1>8, <3>1 DEF NewsOK
    <2>3. ASSUME NEW e \in Punctual, cursor.event < e, e <= m PROVE e \in q.events \cup got
      <3>1. e \in committed /\ e \in Nat
        BY <1>2 DEF Punctual, Timely
      <3> QED
        BY <1>2, <1>3, <1>8, <2>3, <3>1 DEF NewsOK
    <2> QED
      BY <1>6, <1>8, <2>1, <2>2, <2>3 DEF NewsOK
  <1> QED
    BY <1>1, <1>6, <1>7, <1>8, Moved

\* One page of new messages: one that is not acknowledged when it is read is only
\* acknowledged by an event that comes later.
LEMMA FetchMessagesOK == ASSUME IInv, NEW o \in Ops, FetchMessages(o) PROVE IInv'
  <1> DEFINE q == ops[o]
             news == Above(sent, q.after.message)
             got == Oldest(news)
             m == IF got = {} THEN q.after.message ELSE Max(got)
             todo == IF got = news THEN q.todo \ {"message"} ELSE q.todo
             r == [q EXCEPT !.messages = q.messages \cup got, !.unacked = q.unacked \cup (got \ Acked),
                            !.after.message = m, !.todo = todo]
  <1>0. TypeOK /\ q \in Op /\ OpOK(q) /\ ReadsOK(q) /\ cursor.event \in Nat /\ cursor.message \in Nat
    BY DashboardAssumption DEF IInv, OpsInv, ReadsInv, TypeOK
  <1>1. q.stage = "fetch" /\ UNCHANGED <<server, page, shown, raced>> /\ ops' = [ops EXCEPT ![o] = r]
    BY DEF FetchMessages
  <1>2. /\ sent \in SUBSET Nat /\ IsFiniteSet(sent) /\ sent \subseteq Messages
        /\ (\A x \in sent : x <= MaxMessage) /\ MaxMessage \in Nat
        /\ q.after \in Positions /\ q.after.event \in Nat /\ q.after.message \in Nat
        /\ ReadTo(q.after.message) /\ q.after.message <= MaxMessage
        /\ q.messages \subseteq sent
    <2>1. q.after \in Positions /\ ReadTo(q.after.message) /\ q.messages \subseteq sent
      BY <1>0, <1>1 DEF Op, ReadsOK
    <2>2. q.after.event \in Nat /\ q.after.message \in Nat /\ q.after.message <= MaxMessage
      BY <1>0, <2>1, Readable DEF Positions
    <2> HIDE DEF q
    <2> QED
      BY <1>0, <2>1, <2>2, Readable
  <1>3. /\ got \subseteq sent /\ m \in Nat /\ q.after.message <= m
        /\ (m = q.after.message \/ m \in sent)
        /\ \A x \in got : q.after.message < x /\ x <= m
        /\ \A x \in sent : q.after.message < x /\ x <= m => x \in got
    <2> HIDE DEF got, m
    <2>1. got = PageAfter(sent, q.after.message) /\ m = LastRow(sent, q.after.message)
      BY DEF got, m, PageAfter, LastRow
    <2>2. \E k \in Nat : \A x \in sent : x <= k
      BY <1>2
    <2>3. q.after.message \in Nat /\ sent \in SUBSET Nat /\ IsFiniteSet(sent)
      BY <1>2
    <2> HIDE DEF q
    <2> DEFINE n == q.after.message
    <2>4. /\ PageAfter(sent, n) \subseteq sent /\ LastRow(sent, n) \in Nat /\ n <= LastRow(sent, n)
          /\ LastRow(sent, n) = n \/ LastRow(sent, n) \in sent
          /\ \A x \in PageAfter(sent, n) : n < x /\ x <= LastRow(sent, n)
          /\ \A x \in sent : n < x /\ x <= LastRow(sent, n) => x \in PageAfter(sent, n)
      <3> HIDE DEF n
      <3> QED
        BY <2>2, <2>3, PageOfNews DEF n
    <2> QED
      BY <2>1, <2>4
  <1>4. todo \subseteq q.todo
    OBVIOUS
  <1> HIDE DEF got, m, todo
  <1>5. [q.after EXCEPT !.message = m] \in Positions
    BY <1>2, <1>3 DEF Positions
  <1>6. /\ r \in Op /\ r.by = q.by /\ r.owner = q.owner /\ r.gen = q.gen /\ r.tab = q.tab
        /\ r.stage = "fetch" /\ r.messages = q.messages \cup got /\ r.events = q.events
        /\ r.unacked = q.unacked \cup (got \ Acked)
        /\ r.after.event = q.after.event /\ r.after.message = m
    <2>1. r = [q EXCEPT !.messages = q.messages \cup got, !.unacked = q.unacked \cup (got \ Acked),
                        !.after = [q.after EXCEPT !.message = m], !.todo = todo]
      BY <1>0 DEF Op
    <2>2. /\ q.messages \cup got \subseteq Messages /\ q.unacked \cup (got \ Acked) \subseteq Messages
          /\ todo \subseteq {"event", "message"}
      BY <1>0, <1>2, <1>3, <1>4 DEF Op
    <2> HIDE DEF q, r
    <2>3. /\ r \in Op /\ r.by = q.by /\ r.owner = q.owner /\ r.gen = q.gen /\ r.tab = q.tab
          /\ r.stage = q.stage /\ r.messages = q.messages \cup got /\ r.events = q.events
          /\ r.unacked = q.unacked \cup (got \ Acked) /\ r.after = [q.after EXCEPT !.message = m]
      BY <1>0, <1>5, <2>1, <2>2 DEF Op
    <2> QED
      BY <1>1, <1>2, <2>3 DEF Positions
  <1> HIDE DEF r
  <1>7. ReadsOK(r)
    BY <1>0, <1>1, <1>2, <1>3, <1>5, <1>6 DEF ReadsOK, Read, ReadTo
  <1>8. ASSUME NewsOK(q) PROVE NewsOK(r)
    <2>1. cursor.message <= m /\ cursor.event <= q.after.event
      BY <1>0, <1>2, <1>3, <1>8 DEF NewsOK
    <2>2. ASSUME NEW x \in q.messages \cup got PROVE cursor.message < x /\ x <= m
      <3>1. x \in Nat
        BY <1>2, <1>3
      <3> QED
        BY <1>0, <1>2, <1>3, <1>8, <3>1 DEF NewsOK
    <2>3. ASSUME NEW x \in Timely, cursor.message < x, x <= m PROVE x \in q.messages \cup got
      <3>1. x \in sent /\ x \in Nat
        BY <1>2 DEF Timely
      <3> QED
        BY <1>2, <1>3, <1>8, <2>3, <3>1 DEF NewsOK
    <2>4. ASSUME NEW x \in q.unacked \cup (got \ Acked), NEW e \in Punctual, kind[e] = x
          PROVE  e > cursor.event
      <3>1. x \in q.unacked
        <4> SUFFICES ASSUME x \in got \ Acked PROVE FALSE
          OBVIOUS
        <4>1. e \in committed /\ x # Other
          <5>1. e \in committed
            BY DEF Punctual
          <5>2. x \in Messages
            BY <1>2, <1>3
          <5> QED
            BY <1>2, <5>1, <5>2 DEF Messages, Other
        <4> QED
          BY <2>4, <4>1 DEF Acked
      <3> QED
        BY <1>8, <2>4, <3>1 DEF NewsOK
    <2> QED
      BY <1>6, <1>8, <2>1, <2>2, <2>3, <2>4 DEF NewsOK
  <1> QED
    BY <1>1, <1>6, <1>7, <1>8, Moved

---------------------------------------------------------------------------
\* The timer and the operator.

\* The timer fires: a poll begins where the page is, and without a race it is the
\* only one that loads.
LEMMA PollOK == ASSUME IInv, NEW o \in Ops, Poll(o) PROVE IInv'
  <1> DEFINE stage == IF page.ready THEN "fetch" ELSE IF page.known THEN "load" ELSE "projects"
             todo == IF page.tab = "messages" THEN {"event", "message"} ELSE {"event"}
             r == [NoOp EXCEPT !.by = "poll", !.owner = page.owner, !.gen = page.gen, !.tab = page.tab,
                               !.stage = stage, !.after = cursor, !.todo = todo]
  <1>0. /\ TypeOK /\ PageInv /\ PollsInv /\ OpsInv /\ LoadsInv /\ page \in PageShape
        /\ ops \in [Ops -> Op] /\ page.gen \in Nat /\ page.owner \in Nat /\ page.tab \in Tabs
        /\ cursor \in Positions /\ cursor.event \in Nat /\ cursor.message \in Nat
        /\ Read(cursor.event) /\ ReadTo(cursor.message)
    BY DashboardAssumption DEF IInv, TypeOK, PageShape, OpsInv, Positions, ReadsInv
  <1>1. /\ page.timer /\ ~page.active /\ ops[o].stage = "idle" /\ UNCHANGED <<server, shown>>
        /\ page' = [page EXCEPT !.timer = FALSE, !.active = TRUE]
        /\ raced' = (raced \/ \E p \in Ops : ops[p].stage \in {"load", "loaded"} /\ Current(ops[p]))
    BY DEF Poll, PollIdle
  <1>2. ops' = [ops EXCEPT ![o] = r]
    BY DEF Poll
  <1>3. /\ page' \in PageShape /\ page'.gen = page.gen /\ page'.owner = page.owner
        /\ page'.tab = page.tab /\ page'.known = page.known /\ page'.ready = page.ready
        /\ page'.active
    BY <1>0, <1>1 DEF PageShape
  <1>4. /\ stage \in {"fetch", "load", "projects"} /\ todo \subseteq {"event", "message"}
        /\ stage = "fetch" => page.ready
        /\ stage = "load" => ~page.ready /\ page.known
        /\ stage = "projects" => ~page.known
    OBVIOUS
  <1> HIDE DEF stage, todo
  <1>5. /\ r \in Op /\ r.by = "poll" /\ r.owner = page.owner /\ r.gen = page.gen /\ r.tab = page.tab
        /\ r.stage = stage /\ r.after = cursor /\ r.events = {} /\ r.messages = {} /\ r.unacked = {}
    BY <1>0, <1>4, NoOpFacts DEF Op
  <1> HIDE DEF r
  <1>6. /\ ops' \in [Ops -> Op] /\ ops'[o] = r
        /\ \A x \in Ops : x # o => ops'[x] = ops[x]
    BY <1>0, <1>2, <1>5
  <1>7. \A x \in Ops : ~(ops[x].by = "poll" /\ ops[x].owner = page.owner)
    BY <1>0, <1>1 DEF OpsInv, OpOK
  <1>8. PageInv' /\ PollsInv'
    BY <1>0, <1>3, <1>5, <1>6, <1>7 DEF PageInv, PollsInv
  <1>9. OpsInv'
    <2> SUFFICES ASSUME NEW x \in Ops PROVE OpOK(ops[x])' /\ LiveOK(ops[x])'
      BY <1>6 DEF OpsInv
    <2>1. CASE x = o
      <3>1. OpOK(ops[x])'
        BY <1>0, <1>3, <1>4, <1>5, <1>6, <2>1 DEF OpOK
      <3>2. LiveOK(ops[x])'
        BY <1>0, <1>3, <1>4, <1>5, <1>6, <2>1 DEF LiveOK, Live, Current, PageInv
      <3> QED
        BY <3>1, <3>2
    <2>2. CASE x # o
      <3>1. OpOK(ops[x]) /\ LiveOK(ops[x]) /\ ops'[x] = ops[x]
        BY <1>0, <1>6, <2>2 DEF OpsInv
      <3> QED
        BY <1>3, <3>1 DEF OpOK, LiveOK, Live, Current
    <2> QED
      BY <2>1, <2>2
  <1>10. ASSUME ~raced' PROVE ~raced /\ \A x \in Ops : ~Loading(ops[x])
    BY <1>1, <1>10 DEF Loading, Live
  <1>11. LoadsInv'
    <2> SUFFICES ASSUME ~raced', NEW x \in Ops, Loading(ops[x])'
                 PROVE  ~page'.ready /\ x = o
      BY DEF LoadsInv
    <2>1. x = o
      <3> SUFFICES ASSUME x # o PROVE FALSE
        OBVIOUS
      <3>1. Loading(ops[x])
        BY <1>3, <1>6 DEF Loading, Live, Current
      <3> QED
        BY <1>10, <3>1
    <2>2. stage = "load"
      BY <1>4, <1>5, <1>6, <2>1 DEF Loading
    <2> QED
      BY <1>3, <1>4, <2>1, <2>2
  <1>12. KeepsPolling'
    <2>1. Rearms(ops[o])'
      BY <1>3, <1>5, <1>6 DEF Rearms
    <2> QED
      BY <2>1 DEF KeepsPolling
  <1>13. TypeOK' /\ RowsWhole' /\ AcksShown'
    <2>1. raced' \in BOOLEAN
      BY <1>1
    <2>2. page'.ready /\ ~raced' => page.ready /\ ~raced /\ page'.tab = page.tab
      BY <1>3, <1>10
    <2> QED
      BY <1>1, <1>3, <1>8, <2>1, <2>2, ShapeKept, Unshown
  <1>14. ReadsInv' /\ NewsInv'
    <2>1. UNCHANGED <<committed, late, sent, tardy, kind, cursor>>
      BY <1>1 DEF server, shown
    <2>2. ReadsOK(ops[o])'
      BY <1>0, <1>4, <1>5, <1>6, <2>1 DEF ReadsOK, Read, ReadTo
    <2>3. NewsOK(ops[o])'
      <3>1. /\ ops'[o].events = {} /\ ops'[o].messages = {} /\ ops'[o].unacked = {}
            /\ ops'[o].after = cursor'
        BY <1>5, <1>6, <2>1
      <3>2. \A e \in Punctual' : e \in Nat
        BY <1>0, <2>1, Readable DEF Punctual, Timely
      <3>3. cursor'.event \in Nat /\ cursor'.message \in Nat /\ \A m \in Timely' : m \in Nat
        BY <1>0, <2>1, Readable DEF Timely
      <3> QED
        BY <3>1, <3>2, <3>3 DEF NewsOK
    <2>4. \A x \in Ops : x # o /\ Fetching(ops[x])' => Fetching(ops[x])
      BY <1>3, <1>6 DEF Fetching, Live, Current
    <2>5. Read(cursor'.event) /\ ReadTo(cursor'.message)
      BY <1>0, <2>1
    <2> QED
      BY <1>1, <1>6, <1>10, <2>1, <2>2, <2>3, <2>4, <2>5, OthersReads, OthersNews
  <1> QED
    BY <1>8, <1>9, <1>11, <1>12, <1>13, <1>14 DEF IInv

\* A new generation: nothing that is under way counts any longer.
LEMMA SwitchOK ==
  ASSUME IInv, NEW o \in Ops, NEW t \in Tabs, NEW project \in BOOLEAN, Switch(o, t, project)
  PROVE  IInv'
  <1> DEFINE r == [NoOp EXCEPT !.by = "start", !.owner = page.owner + 1,
                               !.gen = page.gen + 1, !.tab = t, !.stage = "load"]
  <1>0. /\ TypeOK /\ PageInv /\ PollsInv /\ OpsInv /\ page \in PageShape /\ ops \in [Ops -> Op]
        /\ page.gen \in Nat /\ page.owner \in Nat /\ page.known \in BOOLEAN /\ MaxGen \in Nat
    BY DashboardAssumption DEF IInv, TypeOK, PageShape, OpsInv
  <1>1. /\ page.gen < MaxGen /\ ops[o].stage = "idle" /\ ResetContext(t, project)
        /\ page' = [page EXCEPT !.gen = page.gen + 1, !.owner = page.owner + 1, !.tab = t,
                                !.ready = FALSE, !.active = FALSE, !.timer = ~page.known]
        /\ ~raced' /\ raced' \in BOOLEAN /\ UNCHANGED <<server, crossed>>
    BY DEF Switch, NewGeneration
  <1>2. ops' = IF page.known THEN [ops EXCEPT ![o] = r] ELSE ops
    BY DEF Switch
  <1>3. /\ page' \in PageShape /\ page'.gen = page.gen + 1 /\ page'.owner = page.owner + 1
        /\ page'.tab = t /\ page'.known = page.known /\ ~page'.ready
        /\ ~page'.active /\ page'.timer = ~page.known
    <2>1. page.gen + 1 \in 0 .. MaxGen + 1 /\ page.owner + 1 \in 0 .. MaxGen
      BY <1>0, <1>1 DEF PageInv
    <2> QED
      BY <1>0, <1>1, <2>1 DEF PageShape
  <1>4. /\ r \in Op /\ r.by = "start" /\ r.owner = page.owner + 1 /\ r.gen = page.gen + 1 /\ r.tab = t
        /\ r.stage = "load" /\ r.events = {} /\ r.messages = {} /\ r.unacked = {}
    <2>1. page.gen + 1 \in Nat /\ page.owner + 1 \in Nat
      BY <1>0
    <2>2. ASSUME NEW g \in Nat, NEW w \in Nat
          PROVE  [NoOp EXCEPT !.by = "start", !.owner = w, !.gen = g, !.tab = t, !.stage = "load"] \in Op
      BY NoOpFacts DEF Op
    <2>3. r \in Op
      BY <2>1, <2>2
    <2> QED
      BY <2>3, NoOpFacts DEF Op
  <1> HIDE DEF r
  <1>5. /\ ops' \in [Ops -> Op]
        /\ \A x \in Ops : ops'[x] = IF page.known /\ x = o THEN r ELSE ops[x]
    BY <1>0, <1>2, <1>4
  <1>6. \A x \in Ops : ops[x].gen \in Nat /\ ops[x].gen <= page.gen
                       /\ ops[x].owner \in Nat /\ ops[x].owner <= page.owner
    BY <1>0 DEF OpsInv, OpOK, Op
  <1>7. \A x \in Ops : ~(page.known /\ x = o) => ~Live(ops[x])'
    <2> SUFFICES ASSUME NEW x \in Ops, ~(page.known /\ x = o) PROVE ~Live(ops[x])'
      OBVIOUS
    <2>1. ops'[x] = ops[x] /\ ops[x].gen # page'.gen
      BY <1>0, <1>3, <1>5, <1>6
    <2> QED
      BY <2>1 DEF Live, Current
  <1>8. PageInv' /\ PollsInv'
    <2>1. PageInv'
      BY <1>0, <1>1, <1>3 DEF PageInv
    <2>2. PollsInv'
      BY <1>0, <1>3, <1>4, <1>5, DashboardAssumption DEF PollsInv
    <2> QED
      BY <2>1, <2>2
  <1>9. OpsInv'
    <2> SUFFICES ASSUME NEW x \in Ops PROVE OpOK(ops[x])' /\ LiveOK(ops[x])'
      BY <1>5 DEF OpsInv
    <2>1. CASE page.known /\ x = o
      <3>1. ops'[x] = r
        BY <1>5, <2>1
      <3>2. OpOK(ops[x])'
        BY <1>0, <1>3, <1>4, <3>1 DEF OpOK
      <3>3. LiveOK(ops[x])'
        BY <1>3, <1>4, <2>1, <3>1 DEF LiveOK
      <3> QED
        BY <3>2, <3>3
    <2>2. CASE ~(page.known /\ x = o)
      <3>1. OpOK(ops[x]) /\ ops'[x] = ops[x]
        BY <1>0, <1>5, <2>2 DEF OpsInv
      <3>2. OpOK(ops[x])'
        BY <1>0, <1>3, <1>6, <3>1 DEF OpOK
      <3> QED
        BY <1>7, <2>2, <3>2 DEF LiveOK
    <2> QED
      BY <2>1, <2>2
  <1>10. LoadsInv'
    BY <1>3, <1>7 DEF LoadsInv, Loading
  <1>11. KeepsPolling'
    <2>1. ASSUME page.known PROVE Rearms(ops[o])'
      BY <1>3, <1>4, <1>5, <2>1 DEF Rearms
    <2> QED
      BY <1>3, <2>1 DEF KeepsPolling
  <1>12. RowsWhole' /\ AcksShown'
    BY <1>3 DEF RowsWhole, AcksShown
  <1>13. TypeOK'
    <2>1. /\ UNCHANGED <<drawn, kind, committed, late, numbered, sent, tardy, crossed>> /\ cursor' = Zero
          /\ pending' = NoRows.event /\ (unacked' = {} \/ unacked' = unacked)
      BY <1>1 DEF server, ResetContext
    <2>2. rows \in [event : [Events -> 0 .. 2], message : [Messages -> 0 .. 2]]
      BY <1>0 DEF TypeOK
    <2>3. /\ NoRows \in [event : [Events -> 0 .. 2], message : [Messages -> 0 .. 2]]
          /\ NoRows.event \in [Events -> 0 .. 2] /\ NoRows.message \in [Messages -> 0 .. 2]
      BY DEF NoRows
    <2>4. rows' \in [event : [Events -> 0 .. 2], message : [Messages -> 0 .. 2]]
      <3>1. CASE project
        BY <1>1, <2>3, <3>1 DEF ResetContext
      <3>2. CASE ~project /\ t = "activity"
        BY <1>1, <2>2, <2>3, <3>2 DEF ResetContext
      <3>3. CASE ~project /\ t = "messages"
        BY <1>1, <2>2, <2>3, <3>3 DEF ResetContext
      <3> QED
        BY <3>1, <3>2, <3>3 DEF Tabs
    <2>5. Zero \in [event : 0 .. MaxEvent, message : 0 .. MaxMessage]
      BY DashboardAssumption DEF Zero
    <2>6. unacked' \subseteq Messages
      BY <1>0, <2>1 DEF TypeOK
    <2> QED
      BY <1>0, <1>1, <1>3, <1>8, <2>1, <2>3, <2>4, <2>5, <2>6 DEF TypeOK, PageShape, PollsInv, Drawn, Numbered
  <1>14. ReadsInv' /\ NewsInv'
    <2>1. UNCHANGED <<committed, late, sent, tardy>> /\ cursor'.event = 0 /\ cursor'.message = 0
      BY <1>1 DEF server, ResetContext, Zero
    <2>2. ASSUME NEW x \in Ops PROVE ReadsOK(ops[x])'
      <3>1. CASE page.known /\ x = o
        BY <1>4, <1>5, <3>1 DEF ReadsOK
      <3>2. CASE ~(page.known /\ x = o)
        <4>1. ops'[x] = ops[x] /\ ReadsOK(ops[x])
          BY <1>5, <3>2 DEF IInv, ReadsInv
        <4> QED
          BY <2>1, <4>1 DEF ReadsOK, Punctual, Timely, Read, ReadTo
      <3> QED
        BY <3>1, <3>2
    <2>3. ASSUME NEW x \in Ops PROVE ~Fetching(ops[x])'
      BY <1>4, <1>5, <1>7 DEF Fetching
    <2> QED
      BY <1>0, <2>1, <2>2, <2>3 DEF ReadsInv, NewsInv, Read, ReadTo
  <1> QED
    BY <1>8, <1>9, <1>10, <1>11, <1>12, <1>13, <1>14 DEF IInv

---------------------------------------------------------------------------
\* What is shown.

Counts(n) == [1 .. n -> 0 .. 2]

LEMMA CountsFacts ==
  ASSUME NEW n, NEW c \in Counts(n)
  PROVE  DOMAIN c = 1 .. n /\ \A x \in 1 .. n : c[x] \in Nat
  <1>1. \A y \in 0 .. 2 : y \in Nat
    OBVIOUS
  <1> QED
    BY <1>1 DEF Counts

\* Types of a step that changes what is shown.
LEMMA ShownShape ==
  ASSUME IInv, UNCHANGED server, page' \in PageShape, raced' \in BOOLEAN, PollsInv',
         rows' \in [event : Counts(MaxEvent), message : Counts(MaxMessage)],
         pending' \in Counts(MaxEvent), unacked' \subseteq Messages, crossed' \subseteq Messages,
         cursor' \in Positions
  PROVE  TypeOK'
  BY DEF IInv, TypeOK, server, PageShape, PollsInv, Drawn, Numbered, Counts, Events, Messages, Positions

\* The rows of one newest page are whole.
LEMMA OnceWhole ==
  ASSUME NEW n \in Nat, NEW S \in SUBSET (1 .. n), NEW all, all \subseteq 1 .. n,
         \A x \in all : x <= Top(S) /\ (\E y \in S : y < x) => x \in S
  PROVE  Once(n, S) \in Counts(n) /\ Whole(Once(n, S), Top(S), all)
  <1> DEFINE c == Once(n, S)
  <1>1. /\ DOMAIN c = 1 .. n /\ \A x \in 1 .. n : c[x] = IF x \in S THEN 1 ELSE 0
        /\ c \in Counts(n)
    BY DEF Once, Counts
  <1>2. S \in SUBSET Nat /\ \A x \in S : x <= n
    OBVIOUS
  <1>3. \A x \in S : x <= Top(S)
    BY <1>2, MaxFacts
  <1> HIDE DEF c
  <1>4. Whole(c, Top(S), all)
    <2>1. \A x \in DOMAIN c : c[x] <= 1 /\ (c[x] > 0 => x <= Top(S))
      BY <1>1, <1>3
    <2>2. ASSUME NEW x \in all, x <= Top(S), NEW y \in DOMAIN c, y < x, c[y] > 0 PROVE c[x] > 0
      <3>1. y \in S
        BY <1>1, <2>2
      <3>2. x \in S
        BY <2>2, <3>1
      <3> QED
        BY <1>1, <3>2
    <2> QED
      BY <2>1, <2>2 DEF Whole
  <1> QED
    BY <1>1, <1>4 DEF c

\* A load comes to its end: the page shows the newest page of its tab.
LEMMA LoadedOK == ASSUME IInv, NEW o \in Ops, Loaded(o) PROVE IInv'
  <1> DEFINE q == ops[o]
             p == [page EXCEPT !.ready = TRUE]
  <1>0. TypeOK /\ OpsInv /\ q \in Op /\ OpOK(q) /\ LiveOK(q) /\ ReadsOK(q) /\ page \in PageShape
    BY DEF IInv, OpsInv, ReadsInv, TypeOK, PageShape
  <1>1. /\ q.stage = "loaded" /\ Current(q) /\ UNCHANGED <<server, raced>> /\ Ends(o, p)
        /\ rows' = [event |-> Once(MaxEvent, q.events), message |-> Once(MaxMessage, q.messages)]
        /\ unacked' = q.unacked /\ pending' = NoRows.event /\ crossed' = {}
        /\ cursor' = [event |-> Top(q.events), message |-> Top(q.messages)]
    BY DEF Loaded, LoadedCursor
  <1>2. Live(q) /\ Loading(q) /\ q.tab = page.tab
    BY <1>0, <1>1 DEF Live, Loading, LiveOK
  <1>3. /\ Flow' /\ page' \in PageShape /\ page'.tab = page.tab /\ page'.gen = page.gen
        /\ ops' = [ops EXCEPT ![o] = NoOp]
    BY <1>1, <1>2, EndsFlow
  <1>4. ops'[o] = NoOp /\ \A x \in Ops : x # o => ops'[x] = ops[x]
    BY <1>0, <1>3 DEF OpsInv
  <1>5. UNCHANGED <<committed, late, sent, tardy, kind>>
    BY <1>1 DEF server
  <1>6. /\ MaxEvent \in Nat /\ MaxMessage \in Nat
        /\ q.events \in SUBSET Nat /\ (\A x \in q.events : x <= MaxEvent)
        /\ q.messages \in SUBSET Nat /\ (\A x \in q.messages : x <= MaxMessage)
        /\ q.events \in SUBSET (1 .. MaxEvent) /\ q.messages \in SUBSET (1 .. MaxMessage)
        /\ Punctual \subseteq 1 .. MaxEvent /\ Timely \subseteq 1 .. MaxMessage
    BY <1>0, Readable DEF Op, ReadsOK, Events, Messages, Punctual, Timely
  <1>7. /\ Top(q.events) \in 0 .. MaxEvent /\ Top(q.messages) \in 0 .. MaxMessage
        /\ Read(Top(q.events)) /\ ReadTo(Top(q.messages))
    <2>1. Top(q.events) \in 0 .. MaxEvent /\ (Top(q.events) = 0 \/ Top(q.events) \in q.events)
      BY <1>6, MaxFacts
    <2>2. Top(q.messages) \in 0 .. MaxMessage /\ (Top(q.messages) = 0 \/ Top(q.messages) \in q.messages)
      BY <1>6, MaxFacts
    <2> QED
      BY <1>0, <2>1, <2>2 DEF Read, ReadTo, ReadsOK
  <1>8. /\ Once(MaxEvent, q.events) \in Counts(MaxEvent)
        /\ Whole(Once(MaxEvent, q.events), Top(q.events), Punctual)
    BY <1>0, <1>1, <1>6, OnceWhole DEF ReadsOK
  <1>9. /\ Once(MaxMessage, q.messages) \in Counts(MaxMessage)
        /\ Whole(Once(MaxMessage, q.messages), Top(q.messages), Timely)
    BY <1>0, <1>1, <1>6, OnceWhole DEF ReadsOK
  <1>10. TypeOK'
    <2>1. cursor' \in Positions
      BY <1>1, <1>6, <1>7 DEF Positions
    <2>2. pending' \in Counts(MaxEvent)
      BY <1>1 DEF NoRows, Counts, Events
    <2>3. unacked' \subseteq Messages /\ crossed' \subseteq Messages
      BY <1>0, <1>1 DEF Op
    <2>4. raced' \in BOOLEAN
      BY <1>0, <1>1 DEF TypeOK
    <2> QED
      BY <1>1, <1>3, <1>8, <1>9, <2>1, <2>2, <2>3, <2>4, ShownShape DEF Flow
  <1>11. RowsWhole'
    <2>1. [e \in Events |-> rows'.event[e] + pending'[e]] = Once(MaxEvent, q.events)
      BY <1>1 DEF NoRows, Events, Once
    <2>2. cursor'.event = Top(q.events) /\ cursor'.message = Top(q.messages)
      BY <1>1
    <2>3. rows'.message = Once(MaxMessage, q.messages)
      BY <1>1
    <2> QED
      BY <1>5, <1>8, <1>9, <2>1, <2>2, <2>3 DEF RowsWhole, TablesWhole, Punctual, Timely
  <1>12. AcksShown'
    <2> SUFFICES ASSUME page'.tab = "messages" PROVE \A e \in Punctual : e > cursor'.event
      BY <1>5 DEF AcksShown, Punctual
    <2>1. q.events = {}
      BY <1>0, <1>1, <1>2, <1>3 DEF ReadsOK
    <2>2. cursor'.event = 0
      BY <1>1, <2>1 DEF Top
    <2>3. Punctual \subseteq 1 .. MaxEvent /\ MaxEvent \in Nat
      BY <1>6
    <2>4. \A e \in Punctual : e > 0
      BY <2>3
    <2> QED
      BY <2>2, <2>4
  <1>13. ReadsInv'
    <2>1. ReadsOK(ops[o])'
      BY <1>4, NoOpFacts DEF ReadsOK
    <2> QED
      BY <1>1, <1>4, <1>6, <1>7, <2>1, OthersReads
  <1>14. NewsInv'
    <2> SUFFICES ASSUME ~raced, NEW x \in Ops, Fetching(ops[x])' PROVE FALSE
      BY <1>1 DEF NewsInv
    <2>1. x # o /\ Fetching(ops[x])
      BY <1>3, <1>4, NoOpFacts DEF Fetching, Live, Current
    <2>2. page.ready
      BY <1>0, <2>1 DEF OpsInv, LiveOK, Fetching
    <2> QED
      BY <1>2, <2>2 DEF IInv, LoadsInv
  <1> QED
    BY <1>3, <1>10, <1>11, <1>12, <1>13, <1>14 DEF IInv, Flow

\* The button New activity: what waited becomes rows.
LEMMA ShowPendingOK == ASSUME IInv, ShowPending PROVE IInv'
  <1>0. TypeOK /\ page \in PageShape /\ PollsInv
    BY DEF IInv, TypeOK, PageShape
  <1>1. /\ UNCHANGED <<server, page, unacked, cursor, crossed, ops, raced>>
        /\ rows' = [rows EXCEPT !.event = [e \in Events |->
                      IF rows.event[e] + pending[e] > 2 THEN 2 ELSE rows.event[e] + pending[e]]]
        /\ pending' = NoRows.event
    BY <1>0 DEF ShowPending, TypeOK
  <1>2. /\ rows \in [event : [Events -> 0 .. 2], message : [Messages -> 0 .. 2]]
        /\ pending \in [Events -> 0 .. 2]
        /\ \A e \in Events : rows.event[e] \in 0 .. 2 /\ pending[e] \in 0 .. 2
    BY <1>0 DEF TypeOK
  <1>3. /\ rows'.message = rows.message /\ pending' \in [Events -> 0 .. 2]
        /\ \A e \in Events :
             /\ rows'.event[e] \in 0 .. 2 /\ pending'[e] = 0
             /\ rows'.event[e] = IF rows.event[e] + pending[e] > 2 THEN 2 ELSE rows.event[e] + pending[e]
        /\ rows' \in [event : [Events -> 0 .. 2], message : [Messages -> 0 .. 2]]
    BY <1>1, <1>2 DEF NoRows
  <1>4. PageInv' /\ PollsInv' /\ OpsInv' /\ LoadsInv' /\ KeepsPolling'
    BY <1>1, PageWaits
  <1>5. UNCHANGED <<committed, late, sent, tardy, kind, cursor>>
    BY <1>1 DEF server
  <1>6. TypeOK'
    <2>1. /\ page' \in PageShape /\ raced' \in BOOLEAN /\ unacked' \subseteq Messages
          /\ crossed' \subseteq Messages /\ cursor' \in Positions
      BY <1>0, <1>1 DEF TypeOK, Positions
    <2> QED
      BY <1>1, <1>3, <1>4, <2>1, ShownShape DEF Counts, Events, Messages
  <1>7. RowsWhole'
    <2> SUFFICES ASSUME page.ready, ~raced PROVE TablesWhole'
      BY <1>1 DEF RowsWhole
    <2> DEFINE c == [e \in Events |-> rows.event[e] + pending[e]]
    <2>1. TablesWhole
      BY DEF IInv, RowsWhole
    <2>2. \A e \in Events : rows.event[e] + pending[e] <= 1
      BY <2>1 DEF TablesWhole, Whole
    <2>3. [e \in Events |-> rows'.event[e] + pending'[e]] = c
      <3>1. \A e \in Events : rows'.event[e] + pending'[e] = rows.event[e] + pending[e]
        BY <1>2, <1>3, <2>2
      <3> QED
        BY <3>1
    <2> QED
      BY <1>1, <1>3, <1>5, <2>1, <2>3 DEF TablesWhole, Whole
  <1>8. AcksShown'
    BY <1>1, <1>5 DEF IInv, AcksShown
  <1>9. ReadsInv' /\ NewsInv'
    <2>1. \A x \in Ops : /\ ReadsOK(ops[x])' = ReadsOK(ops[x]) /\ NewsOK(ops[x])' = NewsOK(ops[x])
                         /\ Fetching(ops[x])' = Fetching(ops[x])
      BY <1>1, <1>5 DEF ReadsOK, NewsOK, Punctual, Timely, Read, ReadTo, Fetching, Live, Current
    <2> QED
      BY <1>1, <1>5, <2>1 DEF IInv, ReadsInv, NewsInv, Read, ReadTo
  <1> QED
    BY <1>4, <1>6, <1>7, <1>8, <1>9 DEF IInv

\* One more row for each of S.
LEMMA MoreFacts ==
  ASSUME NEW n \in Nat, NEW c \in Counts(n), NEW S \in SUBSET (1 .. n)
  PROVE  /\ More(c, S) \in Counts(n)
         /\ \A x \in 1 .. n : /\ x \notin S => More(c, S)[x] = c[x]
                              /\ x \in S /\ c[x] = 0 => More(c, S)[x] = 1
  <1>1. DOMAIN c = 1 .. n /\ \A x \in 1 .. n : c[x] \in 0 .. 2
    BY DEF Counts
  <1>2. More(c, S) = [x \in 1 .. n |-> IF x \in S /\ c[x] < 2 THEN c[x] + 1 ELSE c[x]]
    BY <1>1 DEF More
  <1>3. \A x \in 1 .. n : (IF x \in S /\ c[x] < 2 THEN c[x] + 1 ELSE c[x]) \in 0 .. 2
    BY <1>1
  <1>4. \A x \in 1 .. n : More(c, S)[x] = IF x \in S /\ c[x] < 2 THEN c[x] + 1 ELSE c[x]
    BY <1>2
  <1> QED
    BY <1>2, <1>3, <1>4 DEF Counts

\* The rows d, up to place, are the rows c, up to top, and one row for each of S,
\* which leaves out nothing of all that is between top and place.
Joins(n, c, top, S, d, place, all) ==
    /\ n \in Nat /\ DOMAIN c = 1 .. n /\ DOMAIN d = 1 .. n /\ \A x \in 1 .. n : c[x] \in Nat
    /\ top \in Nat /\ place \in Nat /\ top <= place
    /\ all \subseteq 1 .. n /\ S \subseteq 1 .. n
    /\ \A x \in S : top < x /\ x <= place
    /\ \A x \in all : top < x /\ x <= place => x \in S
    /\ \A x \in 1 .. n : d[x] = IF x \in S THEN 1 ELSE c[x]

\* Whole rows stay whole when what comes after them is added.
LEMMA Joined ==
  ASSUME NEW n, NEW c, NEW top, NEW S, NEW d, NEW place, NEW all,
         Joins(n, c, top, S, d, place, all), Whole(c, top, all)
  PROVE  Whole(d, place, all)
  <1> USE DEF Joins
  <1>1. ASSUME NEW x \in 1 .. n PROVE d[x] <= 1 /\ (d[x] > 0 => x <= place)
    <2>1. c[x] <= 1 /\ (c[x] > 0 => x <= top)
      BY DEF Whole
    <2> QED
      BY <2>1
  <1>2. ASSUME NEW x \in all, x <= place, NEW y \in 1 .. n, y < x, d[y] > 0 PROVE d[x] > 0
    <2>1. x \in 1 .. n
      OBVIOUS
    <2>2. CASE x \in S
      BY <2>1, <2>2
    <2>3. CASE x \notin S
      <3>1. x <= top
        BY <1>2, <2>1, <2>3
      <3>2. y \notin S /\ c[y] > 0
        BY <1>2, <2>1, <3>1
      <3>3. c[x] > 0
        BY <1>2, <3>1, <3>2 DEF Whole
      <3> QED
        BY <2>1, <2>3, <3>3
    <2> QED
      BY <2>2, <2>3
  <1> QED
    BY <1>1, <1>2 DEF Whole

\* A poll comes to its end: its news join what is shown.
LEMMA FetchedOK == ASSUME IInv, NEW o \in Ops, Fetched(o) PROVE IInv'
  <1> DEFINE q == ops[o]
  <1>0. /\ TypeOK /\ OpsInv /\ q \in Op /\ OpOK(q) /\ LiveOK(q) /\ ReadsOK(q) /\ page \in PageShape
        /\ cursor \in Positions
    BY DEF IInv, OpsInv, ReadsInv, TypeOK, PageShape, Positions
  <1>1. /\ q.stage = "fetch" /\ Current(q) /\ UNCHANGED <<server, raced>> /\ Ends(o, page)
        /\ unacked' = (unacked \ AcksIn(q)) \cup q.unacked /\ UpdateRows(q)
        /\ cursor' = q.after /\ crossed' = crossed \cup (AcksIn(q) \cap q.unacked)
    BY DEF Fetched
  <1>2. Live(q) /\ Fetching(q) /\ page.ready /\ q.owner = page.owner /\ q.by = "poll"
    BY <1>0, <1>1 DEF Live, Fetching, LiveOK, OpOK
  <1>3. /\ Flow' /\ page' \in PageShape /\ page'.tab = page.tab /\ page'.gen = page.gen
        /\ page'.ready = page.ready /\ ops' = [ops EXCEPT ![o] = NoOp]
    BY <1>1, EndsFlow
  <1>4. ops'[o] = NoOp /\ \A x \in Ops : x # o => ops'[x] = ops[x]
    BY <1>0, <1>3 DEF OpsInv
  <1>5. UNCHANGED <<committed, late, sent, tardy, kind>>
    BY <1>1 DEF server
  <1>6. /\ MaxEvent \in Nat /\ MaxMessage \in Nat
        /\ q.events \in SUBSET (1 .. MaxEvent) /\ q.messages \in SUBSET (1 .. MaxMessage)
        /\ Punctual \subseteq 1 .. MaxEvent /\ Timely \subseteq 1 .. MaxMessage
        /\ cursor.event \in Nat /\ cursor.message \in Nat
        /\ q.after \in Positions /\ q.after.event \in Nat /\ q.after.message \in Nat
        /\ rows \in [event : Counts(MaxEvent), message : Counts(MaxMessage)]
        /\ rows.event \in Counts(MaxEvent) /\ rows.message \in Counts(MaxMessage)
        /\ pending \in Counts(MaxEvent)
    <2>1. /\ MaxEvent \in Nat /\ MaxMessage \in Nat
          /\ q.events \in SUBSET (1 .. MaxEvent) /\ q.messages \in SUBSET (1 .. MaxMessage)
          /\ Punctual \subseteq 1 .. MaxEvent /\ Timely \subseteq 1 .. MaxMessage
      BY <1>0, Readable DEF Op, Events, Messages, Punctual, Timely
    <2>2. q.after \in Positions
      BY <1>0 DEF Op
    <2>3. /\ cursor.event \in Nat /\ cursor.message \in Nat
          /\ q.after.event \in Nat /\ q.after.message \in Nat
      BY <1>0, <2>1, <2>2 DEF Positions
    <2>4. /\ rows \in [event : Counts(MaxEvent), message : Counts(MaxMessage)]
          /\ pending \in Counts(MaxEvent)
      BY <1>0 DEF TypeOK, Counts, Events, Messages
    <2> QED
      BY <2>1, <2>2, <2>3, <2>4
  <1>7. /\ rows' \in [event : Counts(MaxEvent), message : Counts(MaxMessage)]
        /\ pending' \in Counts(MaxEvent)
        /\ rows'.message = More(rows.message, q.messages)
        /\ \/ rows'.event = More(rows.event, q.events) /\ pending' = pending
           \/ rows'.event = rows.event /\ pending' = More(pending, q.events)
    <2>1. /\ More(rows.message, q.messages) \in Counts(MaxMessage)
          /\ More(rows.event, q.events) \in Counts(MaxEvent)
          /\ More(pending, q.events) \in Counts(MaxEvent)
      BY <1>6, MoreFacts
    <2>2. \/ /\ rows' = [event |-> More(rows.event, q.events), message |-> More(rows.message, q.messages)]
             /\ pending' = pending
          \/ /\ rows' = [rows EXCEPT !.message = More(rows.message, q.messages)]
             /\ pending' = More(pending, q.events)
      BY <1>1, <1>6 DEF UpdateRows
    <2> HIDE DEF q
    <2> QED
      BY <1>6, <2>1, <2>2
  <1>8. TypeOK'
    <2>1. AcksIn(q) \subseteq Messages
      <3>1. \A e \in q.events : kind[e] \in Messages \cup {Other}
        BY <1>0 DEF Op, TypeOK
      <3> QED
        BY <3>1 DEF AcksIn
    <2>2. unacked' \subseteq Messages /\ crossed' \subseteq Messages
      BY <1>0, <1>1, <2>1 DEF Op, TypeOK
    <2>3. cursor' \in Positions /\ raced' \in BOOLEAN
      BY <1>0, <1>1, <1>6 DEF TypeOK
    <2> QED
      BY <1>1, <1>3, <1>7, <2>2, <2>3, ShownShape DEF Flow
  <1>9. ASSUME ~raced PROVE NewsOK(q)
    BY <1>2, <1>9 DEF IInv, NewsInv
  <1>10. RowsWhole'
    <2> SUFFICES ASSUME ~raced PROVE TablesWhole'
      BY <1>1 DEF RowsWhole
    <2> DEFINE c == [e \in Events |-> rows.event[e] + pending[e]]
               d == [e \in Events |-> rows'.event[e] + pending'[e]]
    <2>1. TablesWhole /\ NewsOK(q)
      BY <1>2, <1>9 DEF IInv, RowsWhole
    <2>2. \A x \in 1 .. MaxEvent : rows.event[x] \in Nat /\ pending[x] \in Nat /\ c[x] = rows.event[x] + pending[x]
      <3>1. \A x \in 1 .. MaxEvent : rows.event[x] \in 0 .. 2 /\ pending[x] \in 0 .. 2
        BY <1>6 DEF Counts
      <3> QED
        BY <3>1 DEF Events
    <2>3. Whole(c, cursor.event, Punctual)
      BY <2>1 DEF TablesWhole, Punctual, Timely
    <2>4. \A x \in q.events : cursor.event < x /\ x <= q.after.event
      BY <2>1 DEF NewsOK
    <2>5. \A x \in q.events : rows.event[x] = 0 /\ pending[x] = 0
      <3> SUFFICES ASSUME NEW x \in q.events PROVE rows.event[x] = 0 /\ pending[x] = 0
        OBVIOUS
      <3>1. x \in 1 .. MaxEvent /\ x \in Nat
        BY <1>6
      <3>2. c[x] > 0 => x <= cursor.event
        BY <2>3, <3>1 DEF Whole, Events
      <3>3. ~(c[x] > 0)
        BY <1>6, <2>4, <3>1, <3>2
      <3> HIDE DEF c
      <3> QED
        BY <2>2, <3>1, <3>3
    <2>6. \A x \in 1 .. MaxEvent : d[x] = IF x \in q.events THEN 1 ELSE c[x]
      <3> SUFFICES ASSUME NEW x \in 1 .. MaxEvent
                   PROVE  rows'.event[x] + pending'[x] = IF x \in q.events THEN 1 ELSE rows.event[x] + pending[x]
        BY DEF Events
      <3>1. /\ x \notin q.events => /\ More(rows.event, q.events)[x] = rows.event[x]
                                    /\ More(pending, q.events)[x] = pending[x]
            /\ x \in q.events => More(rows.event, q.events)[x] = 1 /\ More(pending, q.events)[x] = 1
        BY <1>6, <2>5, MoreFacts
      <3> QED
        BY <1>7, <2>2, <2>5, <3>1
    <2>7. Whole(d, q.after.event, Punctual)
      <3>1. DOMAIN c = 1 .. MaxEvent /\ DOMAIN d = 1 .. MaxEvent /\ \A x \in 1 .. MaxEvent : c[x] \in Nat
        BY <2>2 DEF Events
      <3>2. /\ cursor.event <= q.after.event
            /\ \A x \in Punctual : cursor.event < x /\ x <= q.after.event => x \in q.events
        BY <2>1 DEF NewsOK
      <3> HIDE DEF c, d
      <3>3. Joins(MaxEvent, c, cursor.event, q.events, d, q.after.event, Punctual)
        BY <1>6, <2>4, <2>6, <3>1, <3>2 DEF Joins
      <3> QED
        BY <2>3, <3>3, Joined
    <2>8. ASSUME page.tab = "messages" PROVE Whole(rows'.message, q.after.message, Timely)
      <3>1. /\ Whole(rows.message, cursor.message, Timely)
            /\ cursor.message <= q.after.message
            /\ \A x \in q.messages : cursor.message < x /\ x <= q.after.message
            /\ \A x \in Timely : cursor.message < x /\ x <= q.after.message => x \in q.messages
        BY <2>1, <2>8 DEF TablesWhole, NewsOK, Timely
      <3>2. /\ DOMAIN rows.message = 1 .. MaxMessage /\ DOMAIN rows'.message = 1 .. MaxMessage
            /\ \A x \in 1 .. MaxMessage : rows.message[x] \in Nat
        <4>1. rows.message \in Counts(MaxMessage) /\ rows'.message \in Counts(MaxMessage)
          BY <1>6, <1>7
        <4> QED
          BY <4>1, CountsFacts
      <3>3. \A x \in q.messages : rows.message[x] = 0
        BY <1>6, <3>1, <3>2 DEF Whole
      <3>4. \A x \in 1 .. MaxMessage : rows'.message[x] = IF x \in q.messages THEN 1 ELSE rows.message[x]
        BY <1>6, <1>7, <3>3, MoreFacts
      <3>5. Joins(MaxMessage, rows.message, cursor.message, q.messages, rows'.message,
                  q.after.message, Timely)
        BY <1>6, <3>1, <3>2, <3>4 DEF Joins
      <3> QED
        BY <3>1, <3>5, Joined
    <2> HIDE DEF c, d
    <2> QED
      BY <1>1, <1>3, <1>5, <2>7, <2>8 DEF TablesWhole, Punctual, Timely, d
  <1>11. AcksShown'
    <2> SUFFICES ASSUME ~raced, page.tab = "messages", NEW m \in unacked' \ crossed',
                        NEW e \in Punctual, kind[e] = m
                 PROVE  e > q.after.event
      BY <1>1, <1>3, <1>5 DEF AcksShown, Punctual
    <2> SUFFICES ASSUME e <= q.after.event PROVE FALSE
      BY <1>6
    <2>0. m # Other
      BY <1>8 DEF TypeOK, Messages, Other
    <2>1. e > cursor.event => m \in AcksIn(q)
      <3> SUFFICES ASSUME e > cursor.event PROVE m \in AcksIn(q)
        OBVIOUS
      <3>1. cursor.event < e
        BY <1>6
      <3>2. e \in q.events
        BY <1>9, <3>1 DEF NewsOK
      <3> QED
        BY <2>0, <3>2 DEF AcksIn
    <2>2. CASE m \in q.unacked
      <3>1. e > cursor.event
        BY <1>9, <2>2 DEF NewsOK
      <3> QED
        BY <1>1, <2>1, <2>2, <3>1
    <2>3. CASE m \notin q.unacked
      <3>1. m \in unacked /\ m \notin AcksIn(q) /\ m \notin crossed
        BY <1>1, <2>3
      <3>2. e > cursor.event
        BY <1>2, <3>1 DEF IInv, AcksShown, Punctual
      <3> QED
        BY <2>1, <3>1, <3>2
    <2> QED
      BY <2>2, <2>3
  <1>12. ReadsInv'
    <2>1. ReadsOK(ops[o])'
      BY <1>4, NoOpFacts DEF ReadsOK
    <2>2. Read(cursor'.event) /\ ReadTo(cursor'.message)
      BY <1>0, <1>1 DEF ReadsOK
    <2> QED
      BY <1>1, <1>4, <2>1, <2>2, OthersReads
  <1>13. NewsInv'
    <2> SUFFICES ASSUME NEW x \in Ops, Fetching(ops[x])' PROVE FALSE
      BY DEF NewsInv
    <2>1. x # o /\ Fetching(ops[x])
      BY <1>3, <1>4, NoOpFacts DEF Fetching, Live, Current
    <2>2. ops[x].by = "poll" /\ ops[x].owner = page.owner
      BY <1>0, <2>1 DEF OpsInv, LiveOK, OpOK, Fetching
    <2> QED
      BY <1>2, <2>1, <2>2 DEF IInv, PollsInv
  <1> QED
    BY <1>3, <1>8, <1>10, <1>11, <1>12, <1>13 DEF IInv, Flow

---------------------------------------------------------------------------
\* The invariant.

\* The page before boot has asked for anything.
LEMMA InitInv == Init => IInv
  <1> SUFFICES ASSUME Init PROVE IInv
    OBVIOUS
  <1> DEFINE b == [NoOp EXCEPT !.by = "boot", !.stage = "projects"]
  <1>1. /\ drawn = 0 /\ kind = [e \in Events |-> Other] /\ committed = {} /\ late = {}
        /\ numbered = 0 /\ sent = {} /\ tardy = {}
        /\ page = NewPage /\ rows = NoRows /\ pending = NoRows.event /\ unacked = {}
        /\ cursor = Zero /\ raced = FALSE /\ crossed = {}
    BY DEF Init
  <1>2. PICK o \in Ops : ops = [p \in Ops |-> IF p = o THEN b ELSE NoOp]
    BY DEF Init
  <1>3. /\ b \in Op /\ b.by = "boot" /\ b.stage = "projects" /\ b.owner = 0 /\ b.gen = 0
        /\ b.events = {} /\ b.messages = {} /\ b.unacked = {}
    BY NoOpFacts DEF Op
  <1> HIDE DEF b
  <1>4. ops \in [Ops -> Op] /\ \A x \in Ops : ops[x] = IF x = o THEN b ELSE NoOp
    BY <1>2, <1>3, NoOpFacts
  <1>5. /\ NewPage \in PageShape /\ NewPage.gen = 0 /\ NewPage.owner = 0 /\ ~NewPage.known
        /\ ~NewPage.ready /\ ~NewPage.active
    BY DashboardAssumption DEF NewPage, PageShape, Tabs
  <1>6. \A x \in Ops : ops[x].by # "poll" /\ ops[x].stage \in {"idle", "projects"}
    BY <1>3, <1>4, NoOpFacts, DashboardAssumption
  <1>7. TypeOK
    <2>1. /\ drawn \in 0 .. MaxEvent /\ kind \in [Events -> Messages \cup {Other}]
          /\ numbered \in 0 .. MaxMessage
          /\ cursor \in [event : 0 .. MaxEvent, message : 0 .. MaxMessage]
      BY <1>1, DashboardAssumption DEF Zero
    <2>2. /\ rows \in [event : [Events -> 0 .. 2], message : [Messages -> 0 .. 2]]
          /\ pending \in [Events -> 0 .. 2]
      BY <1>1 DEF NoRows
    <2> QED
      BY <1>1, <1>5, <1>6, <2>1, <2>2 DEF TypeOK, PageShape, Drawn, Numbered
  <1>8. PageInv /\ PollsInv
    BY <1>1, <1>5, <1>6, DashboardAssumption DEF PageInv, PollsInv
  <1>9. OpsInv
    <2> SUFFICES ASSUME NEW x \in Ops PROVE OpOK(ops[x]) /\ LiveOK(ops[x])
      BY <1>4 DEF OpsInv
    <2>1. OpOK(ops[x])
      BY <1>1, <1>3, <1>4, <1>5, <1>6, NoOpFacts DEF OpOK
    <2>2. LiveOK(ops[x])
      BY <1>1, <1>3, <1>4, <1>5, NoOpFacts DEF LiveOK, Live
    <2> QED
      BY <2>1, <2>2
  <1>10. LoadsInv /\ NewsInv
    BY <1>6 DEF LoadsInv, NewsInv, Loading, Fetching
  <1>11. ReadsInv
    <2>1. cursor.event = 0 /\ cursor.message = 0
      BY <1>1 DEF Zero
    <2>2. \A x \in Ops : ReadsOK(ops[x])
      BY <1>3, <1>4, <1>6, NoOpFacts DEF ReadsOK
    <2> QED
      BY <1>1, <2>1, <2>2 DEF ReadsInv, Read, ReadTo
  <1>12. RowsWhole /\ AcksShown
    BY <1>1, <1>5 DEF RowsWhole, AcksShown
  <1>13. KeepsPolling
    <2>1. Rearms(ops[o])
      BY <1>1, <1>3, <1>4, <1>5 DEF Rearms
    <2> QED
      BY <2>1 DEF KeepsPolling
  <1> QED
    BY <1>7, <1>8, <1>9, <1>10, <1>11, <1>12, <1>13 DEF IInv

\* A step that changes nothing changes no part of it.
LEMMA StutterOK == ASSUME IInv, UNCHANGED vars PROVE IInv'
  <1>1. /\ UNCHANGED <<drawn, kind, committed, late, numbered, sent, tardy>>
        /\ UNCHANGED <<page, rows, pending, unacked, cursor, crossed>>
        /\ UNCHANGED <<server, shown, page, ops, raced>>
    BY DEF vars, server, shown
  <1>2. PageInv' /\ PollsInv' /\ OpsInv' /\ LoadsInv' /\ KeepsPolling'
    BY <1>1, PageWaits
  <1>3. TypeOK' /\ RowsWhole' /\ AcksShown'
    BY <1>1, <1>2, ShapeKept, Unshown DEF IInv, TypeOK, PageShape
  <1>4. \A x \in Ops : /\ ReadsOK(ops[x])' = ReadsOK(ops[x]) /\ NewsOK(ops[x])' = NewsOK(ops[x])
                       /\ Fetching(ops[x])' = Fetching(ops[x])
    BY <1>1 DEF ReadsOK, NewsOK, Punctual, Timely, Read, ReadTo, Fetching, Live, Current
  <1> QED
    BY <1>1, <1>2, <1>3, <1>4 DEF IInv, ReadsInv, NewsInv, Read, ReadTo

\* Every step keeps the inductive invariant.
LEMMA StepInv == IInv /\ [Next]_vars => IInv'
  <1> SUFFICES ASSUME IInv, [Next]_vars PROVE IInv'
    OBVIOUS
  <1>1. CASE \/ DrawMessage \/ \E m \in Messages : CommitMessage(m)
             \/ DrawEvent \/ \E e \in Events : CommitEvent(e)
    BY <1>1, AgentOK DEF AgentStep, MessageStep, EventStep
  <1>2. ASSUME NEW o \in Ops,
               \/ SelectProject(o) \/ ReadRows(o) \/ Loaded(o)
               \/ Poll(o) \/ FetchEvents(o) \/ FetchMessages(o) \/ Fetched(o)
               \/ GiveUp(o)
        PROVE  IInv'
    BY <1>2, SelectProjectOK, ReadRowsOK, LoadedOK, PollOK, FetchEventsOK, FetchMessagesOK,
       FetchedOK, GiveUpOK
  <1>3. ASSUME NEW o \in Ops, NEW t \in Tabs, NEW project \in BOOLEAN, Switch(o, t, project)
        PROVE  IInv'
    BY <1>3, SwitchOK
  <1>4. CASE PollSkipped \/ VisibilityChange
    BY <1>4, TimerOK
  <1>5. CASE ShowPending
    BY <1>5, ShowPendingOK
  <1>6. CASE UNCHANGED vars
    BY <1>6, StutterOK
  <1> QED
    BY <1>1, <1>2, <1>3, <1>4, <1>5, <1>6 DEF Next

\* The strengthening of all the properties below is inductive.
THEOREM Invariant == Spec => []IInv
  BY InitInv, StepInv, PTL DEF Spec

---------------------------------------------------------------------------
\* What follows from it.

\* The tables, the cursors and the page's flags keep their shape, and each owner of
\* the poll timer has one poll in flight, however often the operator switches.
THEOREM TypeCorrect == Spec => []TypeOK
  <1>1. IInv => TypeOK
    BY DEF IInv
  <1> QED
    BY <1>1, Invariant, PTL

\* loadProject and poll leave no gap between the rows and repeat none, whichever
\* requests fail, come late or are left behind by a switch and in whatever order
\* agents commit, but for the events and messages committed below a higher one.
THEOREM TablesStayWhole == Spec => []RowsWhole
  <1>1. IInv => RowsWhole
    BY DEF IInv
  <1> QED
    BY <1>1, Invariant, PTL

\* applyAcknowledgements and the rows read with a poll leave no message shown as
\* unacknowledged whose acknowledgement has been fetched before.
THEOREM AcksReachThePage == Spec => []AcksShown
  <1>1. IInv => AcksShown
    BY DEF IInv
  <1> QED
    BY <1>1, Invariant, PTL

\* Whatever is switched, hidden or lost, some finally block or the timer brings
\* the next poll.
THEOREM NeverAsleep == Spec => []KeepsPolling
  <1>1. IInv => KeepsPolling
    BY DEF IInv
  <1> QED
    BY <1>1, Invariant, PTL
=============================================================================
