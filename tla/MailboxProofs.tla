--------------------------- MODULE MailboxProofs ---------------------------
(***************************************************************************)
(* Proofs about Mailbox.tla for any number of agents, keys, texts,         *)
(* concurrent requests and messages: the type invariant, the safety        *)
(* invariants, and the refinement of Inbox.tla.                            *)
(***************************************************************************)
EXTENDS Mailbox, FiniteSetTheorems, TLAPS

Requested(q) == q.from \in Agents /\ q.to \in Agents /\ q.from # q.to
                /\ q.key \in Keys /\ q.text \in Texts /\ q.seq \in Seqs

\* A send that has drawn its sequence number owns it; a retry points at the
\* row it repeats.
SendInv ==
    /\ \A s \in SendSlots : send[s].stage # "idle" => Requested(send[s])
    /\ \A s \in SendSlots : send[s].stage \in {"drawn", "inserted"} =>
          send[s].seq < nextSeq /\ messages[send[s].seq] = NoRow
    /\ \A s, t \in SendSlots :
          (/\ s # t
           /\ send[s].stage \in {"drawn", "inserted"}
           /\ send[t].stage \in {"drawn", "inserted"})
          => send[s].seq # send[t].seq
    /\ \A s \in SendSlots : send[s].stage = "duplicate" =>
          /\ send[s].seq \in Stored
          /\ SameKey(send[s].seq, send[s])
          /\ SameContent(send[s].seq, send[s])

\* The unique index over rows and over the inserts of open transactions.
KeyInv ==
    /\ OneMessagePerKey
    /\ \A s \in SendSlots : send[s].stage = "inserted" =>
          \A m \in Stored : ~SameKey(m, send[s])
    /\ \A s, t \in SendSlots :
          (/\ s # t
           /\ send[s].stage = "inserted" /\ send[t].stage = "inserted"
           /\ send[s].from = send[t].from)
          => send[s].key # send[t].key

RowInv ==
    \A m \in Stored :
        /\ m < nextSeq
        /\ messages[m].sender # messages[m].recipient

\* Message rows and agent rows are locked by at most one poll; what a poll is
\* acknowledging is open, addressed to its agent and known to it.
SyncInv ==
    /\ \A s \in SyncSlots : sync[s].stage # "idle" =>
          sync[s].agent \in Agents /\ sync[s].ack \subseteq Known(sync[s].agent)
    /\ \A s \in SyncSlots : sync[s].stage \in {"idle", "begun"} => sync[s].acking = {}
    /\ \A s \in SyncSlots : \A m \in sync[s].acking :
          m \in Open(sync[s].agent) /\ m \in received[sync[s].agent]
    /\ \A s, t \in SyncSlots : s # t => sync[s].acking \cap sync[t].acking = {}
    /\ \A s, t \in SyncSlots : \A a \in Agents :
          s # t /\ HoldsAgent(s, a) => ~HoldsAgent(t, a)

\* The inductive invariant.
IInv ==
    /\ TypeOK
    /\ SendInv
    /\ KeyInv
    /\ RowInv
    /\ RepliesHonest
    /\ SyncInv
    /\ AckedWasReceived
    /\ PageIsOpen
    /\ JournalExact

---------------------------------------------------------------------------
\* The record types are disjoint from their empty values.
LEMMA NoRowFacts == NoRow \notin Row /\ NoRow.acked = FALSE
  BY MailboxAssumption DEF NoRow, Row

\* A journal count stays within its cap.
LEMMA BumpType == \A n \in 0..JournalCap : Bump(n) \in 0..JournalCap
  BY MailboxAssumption DEF Bump

\* The initial state satisfies the inductive invariant.
LEMMA InitInv == Init => IInv
  <1> SUFFICES ASSUME Init PROVE IInv
    OBVIOUS
  <1> USE MailboxAssumption DEF Init, Seqs
  <1>1. Stored = {}
    BY DEF Stored
  <1>2. TypeOK
    <2>1. messages \in [Seqs -> Row \cup {NoRow}] /\ nextSeq \in 1..(MaxSeq + 1)
      OBVIOUS
    <2>2. sentEvents \in [Seqs -> 0..JournalCap] /\ ackEvents \in [Seqs -> 0..JournalCap]
      OBVIOUS
    <2>3. IdleSend \in SendTxn /\ IdleSync \in SyncTxn
      BY DEF IdleSend, SendTxn, SendStages, IdleSync, SyncTxn, SyncStages
    <2> QED
      BY <2>1, <2>2, <2>3 DEF TypeOK
  <1>3. SendInv /\ KeyInv
    BY <1>1 DEF SendInv, KeyInv, OneMessagePerKey, IdleSend
  <1>4. RowInv /\ RepliesHonest /\ AckedWasReceived
    BY <1>1 DEF RowInv, RepliesHonest, AckedWasReceived
  <1>5. SyncInv /\ PageIsOpen
    BY DEF SyncInv, PageIsOpen, IdleSync, HoldsAgent
  <1>6. JournalExact
    BY <1>1 DEF JournalExact
  <1> QED
    BY <1>2, <1>3, <1>4, <1>5, <1>6 DEF IInv

\* Which actions a step of the specification may be.
LEMMA NextCases ==
  ASSUME Next
  PROVE \/ \E s \in SendSlots, from, to \in Agents \cup {Stranger},
              key \in Keys, text \in Texts : SendBegin(s, from, to, key, text)
        \/ \E s \in SendSlots : SendInsert(s)
        \/ \E s \in SendSlots : SendConflict(s) \/ SendAbort(s)
        \/ \E s \in SendSlots, heard \in BOOLEAN : SendCommit(s, heard)
        \/ \E s \in SyncSlots, a \in Agents, limit \in Limits :
              \E ack \in SUBSET Known(a) : SyncBegin(s, a, ack, limit)
        \/ \E s \in SyncSlots : SyncAcknowledge(s)
        \/ \E s \in SyncSlots : SyncTouch(s)
        \/ \E s \in SyncSlots : SyncRead(s)
        \/ \E s \in SyncSlots, heard \in BOOLEAN : SyncCommit(s, heard)
        \/ \E s \in SyncSlots : SyncAbort(s)
  BY DEF Next, SendNext, SyncNext, SyncStep, Poll

\* Every step keeps the types.
LEMMA TypeStep == IInv /\ [Next]_vars => TypeOK'
  <1> SUFFICES ASSUME IInv, [Next]_vars PROVE TypeOK'
    OBVIOUS
  <1> USE MailboxAssumption DEF Seqs
  <1>0. TypeOK
    BY DEF IInv
  <1>idle. IdleSend \in SendTxn /\ IdleSync \in SyncTxn
    BY DEF IdleSend, SendTxn, SendStages, IdleSync, SyncTxn, SyncStages
  <1>1. CASE UNCHANGED vars
    BY <1>0, <1>1 DEF TypeOK, vars
  <1>2. ASSUME NEW s \in SendSlots, NEW from \in Agents \cup {Stranger},
               NEW to \in Agents \cup {Stranger}, NEW key \in Keys,
               NEW text \in Texts, SendBegin(s, from, to, key, text)
        PROVE TypeOK'
    <2>1. send' \in [SendSlots -> SendTxn] /\ nextSeq' \in 1..(MaxSeq + 1)
      BY <1>0, <1>2 DEF TypeOK, SendBegin, ValidSend, SendTxn, SendStages
    <2> QED
      BY <1>0, <1>2, <2>1 DEF TypeOK, SendBegin
  <1>3. ASSUME NEW s \in SendSlots, SendInsert(s)
        PROVE TypeOK'
    <2>0. send[s] \in SendTxn
      BY <1>0 DEF TypeOK
    <2>a. [send[s] EXCEPT !.stage = "inserted"] \in SendTxn
      BY <2>0 DEF SendTxn, SendStages
    <2>b. ASSUME NEW m \in Seqs
          PROVE  [send[s] EXCEPT !.stage = "duplicate", !.seq = m] \in SendTxn
      <3>1. m \in 0..MaxSeq
        OBVIOUS
      <3> QED
        BY <2>0, <3>1 DEF SendTxn, SendStages
    <2>1. send' \in [SendSlots -> SendTxn]
      BY <1>0, <1>3, <2>a, <2>b DEF TypeOK, SendInsert, Stored
    <2> QED
      BY <1>0, <1>3, <2>1 DEF TypeOK, SendInsert
  <1>4. ASSUME NEW s \in SendSlots, SendConflict(s) \/ SendAbort(s)
        PROVE TypeOK'
    BY <1>0, <1>4, <1>idle DEF TypeOK, SendConflict, SendAbort
  <1>5. ASSUME NEW s \in SendSlots, NEW heard \in BOOLEAN, SendCommit(s, heard)
        PROVE TypeOK'
    <2>1. Requested(send[s])
      BY <1>5 DEF IInv, SendInv, SendCommit, Persist
    <2>2. NewRow(send[s]) \in Row
      BY <2>1 DEF NewRow, Row, Requested
    <2>3. messages' \in [Seqs -> Row \cup {NoRow}]
      BY <1>0, <1>5, <2>1, <2>2 DEF TypeOK, SendCommit, Persist, Requested
    <2>4. sentEvents' \in [Seqs -> 0..JournalCap] /\ ackEvents' \in [Seqs -> 0..JournalCap]
      <3>1. send[s].seq \in Seqs /\ Bump(sentEvents[send[s].seq]) \in 0..JournalCap
        BY <1>0, <2>1, BumpType DEF TypeOK, Requested
      <3>2. CASE Persist(send[s])
        <4>1. sentEvents' = [sentEvents EXCEPT ![send[s].seq] =
                               Bump(sentEvents[send[s].seq])]
          BY <3>2 DEF Persist
        <4> QED
          BY <1>0, <3>1, <3>2, <4>1 DEF TypeOK, Persist
      <3>3. CASE UNCHANGED <<messages, sentEvents, ackEvents>>
        BY <1>0, <3>3 DEF TypeOK
      <3> QED
        BY <1>5, <3>2, <3>3 DEF SendCommit
    <2>5. replies' \subseteq Reply
      BY <1>0, <1>5, <2>1 DEF TypeOK, SendCommit, Requested, Reply
    <2> QED
      BY <1>0, <1>5, <1>idle, <2>3, <2>4, <2>5 DEF TypeOK, SendCommit
  <1>6. ASSUME NEW s \in SyncSlots, NEW a \in Agents, NEW limit \in Limits,
               NEW ack \in SUBSET Known(a), SyncBegin(s, a, ack, limit)
        PROVE TypeOK'
    <2>1. Known(a) \subseteq Seqs
      BY <1>0 DEF TypeOK, Known, Reply
    <2>2. Open(a) \subseteq Seqs
      BY DEF Open, Stored
    <2>a. [stage |-> "begun", agent |-> a, ack |-> ack, limit |-> limit,
           acking |-> {}, page |-> {}, more |-> FALSE, owed |-> Open(a)]
             \in SyncTxn
      BY <2>1, <2>2 DEF SyncTxn, SyncStages, Limits
    <2>3. sync' \in [SyncSlots -> SyncTxn]
      BY <1>0, <1>6, <2>a DEF TypeOK, SyncBegin
    <2> QED
      BY <1>0, <1>6, <2>3 DEF TypeOK, SyncBegin
  <1>7. ASSUME NEW s \in SyncSlots,
               SyncAcknowledge(s) \/ SyncTouch(s) \/ SyncRead(s) \/ SyncAbort(s)
        PROVE TypeOK'
    <2>1. Acknowledgeable(s) \subseteq Seqs /\ Delivered(s) \subseteq Seqs
      BY DEF Acknowledgeable, Open, Stored, Delivered, Fetched, Visible, Oldest
    <2>0. sync[s] \in SyncTxn
      BY <1>0 DEF TypeOK
    <2>a. [sync[s] EXCEPT !.stage = "acknowledged", !.acking = Acknowledgeable(s)]
             \in SyncTxn
      BY <2>0, <2>1 DEF SyncTxn, SyncStages
    <2>b. [sync[s] EXCEPT !.stage = "touched"] \in SyncTxn
      BY <2>0 DEF SyncTxn, SyncStages
    <2>c. [sync[s] EXCEPT !.stage = "read", !.page = Delivered(s),
             !.more = Cardinality(Fetched(s)) > sync[s].limit] \in SyncTxn
      <3>1. (Cardinality(Fetched(s)) > sync[s].limit) \in BOOLEAN
        OBVIOUS
      <3> QED
        BY <2>0, <2>1, <3>1 DEF SyncTxn, SyncStages
    <2>2. sync' \in [SyncSlots -> SyncTxn]
      BY <1>0, <1>7, <1>idle, <2>a, <2>b, <2>c
         DEF TypeOK, SyncAcknowledge, SyncTouch, SyncRead, SyncAbort
    <2> QED
      BY <1>0, <1>7, <2>2
         DEF TypeOK, SyncAcknowledge, SyncTouch, SyncRead, SyncAbort
  <1>8. ASSUME NEW s \in SyncSlots, NEW heard \in BOOLEAN, SyncCommit(s, heard)
        PROVE TypeOK'
    <2>1. \A m \in sync[s].acking : m \in Seqs /\ messages[m] \in Row
      BY <1>0 DEF IInv, SyncInv, Open, Stored, TypeOK
    <2>2. messages' \in [Seqs -> Row \cup {NoRow}]
      BY <1>0, <1>8, <2>1 DEF TypeOK, SyncCommit, Row
    <2>3. sentEvents' \in [Seqs -> 0..JournalCap] /\ ackEvents' \in [Seqs -> 0..JournalCap]
      BY <1>0, <1>8, BumpType DEF TypeOK, SyncCommit
    <2>4. received' \in [Agents -> SUBSET Seqs]
      BY <1>0, <1>8 DEF TypeOK, SyncCommit, SyncTxn
    <2> QED
      BY <1>0, <1>8, <1>idle, <2>2, <2>3, <2>4 DEF TypeOK, SyncCommit
  <1> QED
    BY <1>1, <1>2, <1>3, <1>4, <1>5, <1>6, <1>7, <1>8, NextCases

---------------------------------------------------------------------------
\* What a step of a send request short of its commit leaves alone.
SyncSide == <<messages, sentEvents, ackEvents, sync, received, replies>>

\* Parts of the invariant that only mention the messages, the replies, the
\* journal and the polls survive a step that changes none of those.
LEMMA SyncSideKept ==
  ASSUME IInv, UNCHANGED SyncSide, nextSeq' >= nextSeq, nextSeq \in Int,
         nextSeq' \in Int
  PROVE  /\ RowInv' /\ RepliesHonest' /\ SyncInv' /\ AckedWasReceived'
         /\ PageIsOpen' /\ JournalExact' /\ OneMessagePerKey'
  <1> USE DEF SyncSide
  <1>1. Stored' = Stored
    BY DEF Stored
  <1>2. RowInv'
    <2> SUFFICES ASSUME NEW m \in Stored
                 PROVE m < nextSeq' /\ messages[m].sender # messages[m].recipient
      BY <1>1 DEF RowInv
    <2> QED
      BY DEF IInv, RowInv, Stored, Seqs
  <1>3. RepliesHonest' /\ AckedWasReceived' /\ JournalExact'
    BY <1>1 DEF IInv, RepliesHonest, AckedWasReceived, JournalExact
  <1>4. \A a : Open(a)' = Open(a) /\ Known(a)' = Known(a)
    BY <1>1 DEF Open, Known
  <1>5. SyncInv'
    BY <1>4 DEF IInv, SyncInv, HoldsAgent
  <1>6. PageIsOpen'
    BY <1>4 DEF IInv, PageIsOpen
  <1>7. OneMessagePerKey'
    BY <1>1 DEF IInv, KeyInv, OneMessagePerKey
  <1> QED
    BY <1>2, <1>3, <1>5, <1>6, <1>7

\* The start of a send draws a sequence number nobody else holds.
LEMMA SendBeginInv ==
  ASSUME IInv, TypeOK', NEW s \in SendSlots, NEW from, NEW to, NEW key \in Keys,
         NEW text \in Texts, SendBegin(s, from, to, key, text)
  PROVE  IInv'
  <1> USE MailboxAssumption
  <1>0. TypeOK /\ nextSeq \in Seqs /\ nextSeq' = nextSeq + 1
    <2>1. TypeOK /\ nextSeq <= MaxSeq /\ nextSeq' = nextSeq + 1
      BY DEF IInv, SendBegin
    <2>2. nextSeq \in Nat \ {0}
      BY <2>1 DEF TypeOK
    <2> QED
      BY <2>1, <2>2 DEF Seqs
  <1>1. UNCHANGED SyncSide
    BY DEF SendBegin, SyncSide
  <1>2. /\ RowInv' /\ RepliesHonest' /\ SyncInv' /\ AckedWasReceived'
        /\ PageIsOpen' /\ JournalExact' /\ OneMessagePerKey'
    BY <1>0, <1>1, SyncSideKept DEF Seqs
  <1>3. messages[nextSeq] = NoRow
    BY <1>0 DEF IInv, RowInv, Stored, Seqs
  <1>4. send'[s] = [stage |-> "drawn", from |-> from, to |-> to, key |-> key,
                    text |-> text, seq |-> nextSeq]
    BY <1>0 DEF SendBegin, TypeOK
  <1>5. \A t \in SendSlots : t # s => send'[t] = send[t]
    BY <1>0 DEF SendBegin, TypeOK
  <1>6. Stored' = Stored /\ messages' = messages
    BY DEF Stored, SendBegin
  <1>7. Requested(send'[s])
    BY <1>0, <1>4 DEF Requested, SendBegin, ValidSend
  <1>8. SendInv'
    <2>1. \A t \in SendSlots : send'[t].stage # "idle" => Requested(send'[t])
      BY <1>5, <1>7 DEF IInv, SendInv
    <2>2. \A t \in SendSlots : send'[t].stage \in {"drawn", "inserted"} =>
             send'[t].seq < nextSeq' /\ messages'[send'[t].seq] = NoRow
      <3> TAKE t \in SendSlots
      <3>1. CASE t = s
        BY <1>0, <1>3, <1>4, <1>6, <3>1 DEF Seqs
      <3>2. CASE t # s
        BY <1>0, <1>5, <1>6, <3>2 DEF IInv, SendInv, Requested, Seqs
      <3> QED
        BY <3>1, <3>2
    <2>3. \A t, u \in SendSlots :
             (/\ t # u
              /\ send'[t].stage \in {"drawn", "inserted"}
              /\ send'[u].stage \in {"drawn", "inserted"})
             => send'[t].seq # send'[u].seq
      <3>1. \A t \in SendSlots : t # s /\ send'[t].stage \in {"drawn", "inserted"}
               => send'[t].seq < nextSeq /\ send'[t].seq \in Seqs
        BY <1>5 DEF IInv, SendInv, Requested
      <3>2. \A t \in SendSlots : t # s /\ send'[t].stage \in {"drawn", "inserted"}
               => send'[t].seq # send'[s].seq
        BY <1>0, <1>4, <3>1 DEF Seqs
      <3> QED
        BY <1>5, <3>2 DEF IInv, SendInv
    <2>4. \A t \in SendSlots : send'[t].stage = "duplicate" =>
             /\ send'[t].seq \in Stored'
             /\ SameKey(send[t].seq, send[t])'
             /\ SameContent(send[t].seq, send[t])'
      BY <1>4, <1>5, <1>6 DEF IInv, SendInv, SameKey, SameContent
    <2> QED
      BY <2>1, <2>2, <2>3, <2>4 DEF SendInv, Requested
  <1>9. KeyInv'
    BY <1>2, <1>4, <1>5, <1>6 DEF IInv, KeyInv, SameKey
  <1> QED
    BY <1>2, <1>8, <1>9 DEF IInv

\* The INSERT takes a key no committed row and no open insert holds, or finds
\* the row the request repeats.
LEMMA SendInsertInv ==
  ASSUME IInv, TypeOK', NEW s \in SendSlots, SendInsert(s)
  PROVE  IInv'
  <1>0. TypeOK /\ nextSeq' = nextSeq /\ nextSeq \in Int
    <2>1. nextSeq' = nextSeq
      BY DEF SendInsert
    <2> QED
      BY <2>1, MailboxAssumption DEF IInv, TypeOK
  <1>1. UNCHANGED SyncSide
    BY DEF SendInsert, SyncSide
  <1>2. /\ RowInv' /\ RepliesHonest' /\ SyncInv' /\ AckedWasReceived'
        /\ PageIsOpen' /\ JournalExact' /\ OneMessagePerKey'
    BY <1>0, <1>1, SyncSideKept
  <1>3. Stored' = Stored /\ messages' = messages
    BY DEF Stored, SendInsert
  <1>4. \A t \in SendSlots : t # s => send'[t] = send[t]
    BY <1>0 DEF SendInsert, TypeOK
  <1>5. send[s].stage = "drawn" /\ Requested(send[s])
    BY DEF SendInsert, IInv, SendInv
  <1>6. CASE /\ \A m \in Stored : ~SameKey(m, send[s])
             /\ send' = [send EXCEPT ![s].stage = "inserted"]
    <2>1. /\ send'[s].stage = "inserted"
          /\ send'[s].from = send[s].from /\ send'[s].to = send[s].to
          /\ send'[s].key = send[s].key /\ send'[s].text = send[s].text
          /\ send'[s].seq = send[s].seq
      BY <1>0, <1>6 DEF TypeOK, SendTxn
    <2>2. SendInv'
      BY <1>0, <1>3, <1>4, <1>5, <2>1
         DEF IInv, SendInv, Requested, SameKey, SameContent
    <2>3. ASSUME NEW t \in SendSlots, t # s, send'[t].stage = "inserted"
          PROVE  ~(send'[t].from = send'[s].from /\ send'[t].key = send'[s].key)
      <3>1. t \in SendSlots \ {s} /\ send'[t] = send[t]
        BY <1>4, <2>3
      <3>2. ~(/\ send[t].stage = "inserted"
              /\ send[t].from = send[s].from /\ send[t].key = send[s].key)
        BY <3>1 DEF SendInsert, InsertMayProceed
      <3> QED
        BY <2>1, <2>3, <3>1, <3>2
    <2>4. KeyInv'
      BY <1>2, <1>3, <1>4, <1>6, <2>1, <2>3 DEF IInv, KeyInv, SameKey
    <2> QED
      BY <1>2, <2>2, <2>4 DEF IInv
  <1>7. ASSUME NEW m \in Stored, SameKey(m, send[s]), SameContent(m, send[s]),
               send' = [send EXCEPT ![s] =
                          [@ EXCEPT !.stage = "duplicate", !.seq = m]]
        PROVE IInv'
    <2>1. /\ send'[s].stage = "duplicate"
          /\ send'[s].from = send[s].from /\ send'[s].to = send[s].to
          /\ send'[s].key = send[s].key /\ send'[s].text = send[s].text
          /\ send'[s].seq = m
      BY <1>0, <1>7 DEF TypeOK, SendTxn
    <2>2. SendInv'
      BY <1>0, <1>3, <1>4, <1>5, <1>7, <2>1
         DEF IInv, SendInv, Requested, SameKey, SameContent, Stored
    <2>3. KeyInv'
      BY <1>2, <1>3, <1>4, <2>1 DEF IInv, KeyInv, SameKey
    <2> QED
      BY <1>2, <2>2, <2>3 DEF IInv
  <1> QED
    BY <1>6, <1>7 DEF SendInsert

\* A refused or failed send leaves nothing behind but its sequence number.
LEMMA SendEndInv ==
  ASSUME IInv, TypeOK', NEW s \in SendSlots, SendConflict(s) \/ SendAbort(s)
  PROVE  IInv'
  <1>0. TypeOK /\ nextSeq' = nextSeq /\ nextSeq \in Int
    BY MailboxAssumption DEF IInv, TypeOK, SendConflict, SendAbort
  <1>1. UNCHANGED SyncSide
    BY DEF SendConflict, SendAbort, SyncSide
  <1>2. /\ RowInv' /\ RepliesHonest' /\ SyncInv' /\ AckedWasReceived'
        /\ PageIsOpen' /\ JournalExact' /\ OneMessagePerKey'
    BY <1>0, <1>1, SyncSideKept
  <1>3. Stored' = Stored /\ messages' = messages
    BY DEF Stored, SendConflict, SendAbort
  <1>4. send'[s].stage = "idle"
    BY <1>0 DEF SendConflict, SendAbort, TypeOK, IdleSend
  <1>5. \A t \in SendSlots : t # s => send'[t] = send[t]
    BY <1>0 DEF SendConflict, SendAbort, TypeOK
  <1>6. SendInv'
    BY <1>0, <1>3, <1>4, <1>5 DEF IInv, SendInv, Requested, SameKey, SameContent
  <1>7. KeyInv'
    BY <1>2, <1>3, <1>4, <1>5 DEF IInv, KeyInv, SameKey
  <1> QED
    BY <1>2, <1>6, <1>7 DEF IInv

\* Committing a send stores its row, if it is new, and adds its reply.
LEMMA SendCommitInv ==
  ASSUME IInv, TypeOK', NEW s \in SendSlots, NEW heard \in BOOLEAN,
         SendCommit(s, heard)
  PROVE  IInv'
  <1> USE MailboxAssumption
  <1>0. TypeOK /\ nextSeq' = nextSeq /\ nextSeq \in Int
    BY DEF IInv, TypeOK, SendCommit
  <1>1. send[s].stage \in {"inserted", "duplicate"} /\ Requested(send[s])
    BY DEF SendCommit, Persist, IInv, SendInv
  <1>2. send'[s].stage = "idle" /\ \A t \in SendSlots : t # s => send'[t] = send[t]
    BY <1>0 DEF SendCommit, TypeOK, IdleSend
  <1>3. sync' = sync /\ received' = received
    BY DEF SendCommit
  <1>4. replies' \subseteq replies \cup
          {[seq |-> send[s].seq, from |-> send[s].from, to |-> send[s].to,
            key |-> send[s].key, text |-> send[s].text]}
    BY DEF SendCommit
  <1>4a. replies \subseteq replies'
    BY DEF SendCommit
  <1>5. CASE Persist(send[s])
    <2> DEFINE new == send[s].seq
               row == NewRow(send[s])
    <2>1. /\ new \in Seqs /\ messages[new] = NoRow /\ new < nextSeq
          /\ row \in Row /\ row # NoRow /\ row.acked = FALSE
          /\ row.sender = send[s].from /\ row.recipient = send[s].to
          /\ row.key = send[s].key /\ row.text = send[s].text
      <3>1. new \in Seqs /\ messages[new] = NoRow /\ new < nextSeq
        BY <1>1, <1>5 DEF Persist, IInv, SendInv, Requested
      <3>2. row \in Row
        BY <1>1 DEF NewRow, Row, Requested
      <3> QED
        BY <3>1, <3>2, NoRowFacts DEF NewRow
    <2>2. messages'[new] = row /\ \A m \in Seqs : m # new => messages'[m] = messages[m]
      BY <1>0, <1>5, <2>1 DEF Persist, TypeOK
    <2>3. Stored' = Stored \cup {new} /\ new \notin Stored
      BY <2>1, <2>2 DEF Stored
    <2>4. SendInv'
      <3>1. \A t \in SendSlots : t # s /\ send[t].stage \in {"drawn", "inserted"}
               => send[t].seq # new
        BY <1>1, <1>5 DEF IInv, SendInv, Persist
      <3>2. \A t \in SendSlots : t # s /\ send[t].stage = "duplicate"
               => send[t].seq # new
        BY <2>3 DEF IInv, SendInv
      <3> QED
        BY <1>0, <1>2, <2>2, <2>3, <3>1, <3>2
           DEF IInv, SendInv, Requested, SameKey, SameContent, Stored
    <2>5. \A m \in Stored : ~SameKey(m, send[s])
      BY <1>5 DEF Persist, IInv, KeyInv
    <2>6. OneMessagePerKey'
      BY <2>1, <2>2, <2>3, <2>5
         DEF IInv, KeyInv, OneMessagePerKey, SameKey, Stored
    <2>7. KeyInv'
      <3>1. \A t \in SendSlots : send'[t].stage = "inserted" =>
               \A m \in Stored' : ~SameKey(m, send[t])'
        <4> SUFFICES ASSUME NEW t \in SendSlots, send'[t].stage = "inserted",
                            NEW m \in Stored'
                     PROVE ~SameKey(m, send[t])'
          OBVIOUS
        <4>1. t # s /\ send'[t] = send[t]
          BY <1>2
        <4>2. CASE m = new
          BY <1>5, <2>1, <2>2, <4>1, <4>2 DEF IInv, KeyInv, SameKey, Persist
        <4>3. CASE m \in Stored
          BY <2>2, <2>3, <4>1, <4>3 DEF IInv, KeyInv, SameKey, Stored
        <4> QED
          BY <2>3, <4>2, <4>3
      <3> QED
        BY <1>2, <2>6, <3>1 DEF IInv, KeyInv
    <2>8. RowInv'
      BY <1>0, <1>1, <2>1, <2>2, <2>3 DEF IInv, RowInv, Stored, Requested
    <2>9. RepliesHonest'
      BY <1>4, <2>1, <2>2, <2>3 DEF IInv, RepliesHonest, Stored
    <2>10. \A a : Open(a) \subseteq Open(a)' /\ Known(a) \subseteq Known(a)'
      BY <1>3, <1>4a, <2>2, <2>3 DEF Open, Known, Stored
    <2>11. SyncInv'
      BY <1>3, <2>10 DEF IInv, SyncInv, HoldsAgent
    <2>12. AckedWasReceived'
      BY <1>3, <2>1, <2>2, <2>3 DEF IInv, AckedWasReceived, Stored
    <2>13. PageIsOpen'
      BY <1>3, <2>10 DEF IInv, PageIsOpen
    <2>14. JournalExact'
      <3>1. /\ sentEvents'[new] = Bump(sentEvents[new])
            /\ \A m \in Seqs : m # new => sentEvents'[m] = sentEvents[m]
            /\ ackEvents' = ackEvents
        BY <1>0, <1>5, <2>1 DEF Persist, TypeOK
      <3>2. sentEvents[new] = 0 /\ ackEvents[new] = 0
        BY <2>1, <2>3 DEF IInv, JournalExact
      <3>3. sentEvents'[new] = 1
        BY <3>1, <3>2 DEF Bump
      <3> QED
        BY <2>1, <2>2, <2>3, <3>1, <3>2, <3>3 DEF IInv, JournalExact, Stored
    <2> QED
      BY <2>4, <2>7, <2>8, <2>9, <2>11, <2>12, <2>13, <2>14 DEF IInv
  <1>6. CASE send[s].stage = "duplicate" /\ UNCHANGED <<messages, sentEvents, ackEvents>>
    <2>1. Stored' = Stored /\ messages' = messages
      BY <1>6 DEF Stored
    <2>2. SendInv'
      BY <1>0, <1>2, <2>1 DEF IInv, SendInv, Requested, SameKey, SameContent
    <2>3. KeyInv'
      BY <1>2, <2>1 DEF IInv, KeyInv, OneMessagePerKey, SameKey
    <2>4. RowInv' /\ AckedWasReceived' /\ JournalExact'
      BY <1>0, <1>3, <1>6, <2>1 DEF IInv, RowInv, AckedWasReceived, JournalExact
    <2>5. RepliesHonest'
      BY <1>4, <1>6, <2>1
         DEF IInv, RepliesHonest, SendInv, SameKey, SameContent
    <2>6. \A a : Open(a)' = Open(a) /\ Known(a) \subseteq Known(a)'
      BY <1>3, <1>4a, <2>1 DEF Open, Known
    <2>7. SyncInv' /\ PageIsOpen'
      BY <1>3, <2>6 DEF IInv, SyncInv, PageIsOpen, HoldsAgent
    <2> QED
      BY <2>2, <2>3, <2>4, <2>5, <2>7 DEF IInv
  <1> QED
    BY <1>5, <1>6 DEF SendCommit

---------------------------------------------------------------------------
\* What a step of a poll short of its commit leaves alone.
SendSide == <<messages, nextSeq, sentEvents, ackEvents, send, received, replies>>

\* Parts of the invariant that do not mention the polls survive a step that
\* only changes the state of a poll.
LEMMA SendSideKept ==
  ASSUME IInv, UNCHANGED SendSide
  PROVE  /\ SendInv' /\ KeyInv' /\ RowInv' /\ RepliesHonest'
         /\ AckedWasReceived' /\ JournalExact'
         /\ \A a : Open(a)' = Open(a) /\ Known(a)' = Known(a)
  <1> USE DEF SendSide
  <1>1. Stored' = Stored
    BY DEF Stored
  <1>2. SendInv' /\ KeyInv'
    BY <1>1 DEF IInv, SendInv, KeyInv, OneMessagePerKey, Requested, SameKey,
       SameContent
  <1>3. RowInv' /\ RepliesHonest' /\ AckedWasReceived' /\ JournalExact'
    BY <1>1 DEF IInv, RowInv, RepliesHonest, AckedWasReceived, JournalExact
  <1>4. \A a : Open(a)' = Open(a) /\ Known(a)' = Known(a)
    BY <1>1 DEF Open, Known
  <1> QED
    BY <1>2, <1>3, <1>4

\* A poll begins holding no lock and names only ids its client knows.
LEMMA SyncBeginInv ==
  ASSUME IInv, TypeOK', NEW s \in SyncSlots, NEW a \in Agents, NEW limit,
         NEW ack \in SUBSET Known(a), SyncBegin(s, a, ack, limit)
  PROVE  IInv'
  <1>0. TypeOK
    BY DEF IInv
  <1>1. UNCHANGED SendSide
    BY DEF SyncBegin, SendSide
  <1>2. /\ sync'[s].stage = "begun" /\ sync'[s].agent = a /\ sync'[s].ack = ack
        /\ sync'[s].acking = {}
        /\ \A t \in SyncSlots : t # s => sync'[t] = sync[t]
    BY <1>0 DEF SyncBegin, TypeOK
  <1>3. SyncInv'
    <2>1. received' = received
      BY DEF SyncBegin
    <2> QED
      BY <1>1, <1>2, <2>1, SendSideKept DEF IInv, SyncInv, HoldsAgent
  <1>4. PageIsOpen'
    BY <1>1, <1>2, SendSideKept DEF IInv, PageIsOpen
  <1> QED
    BY <1>1, <1>3, <1>4, SendSideKept DEF IInv

\* What a poll acknowledges is open, addressed to its agent and was received
\* by it: an id the agent knows from one of its own sends is not addressed to
\* it.
LEMMA AcknowledgeableReceived ==
  ASSUME IInv, NEW s \in SyncSlots, sync[s].stage # "idle",
         NEW m \in Acknowledgeable(s)
  PROVE  m \in Open(sync[s].agent) /\ m \in received[sync[s].agent]
  <1>1. m \in Open(sync[s].agent) /\ m \in Known(sync[s].agent)
    BY DEF Acknowledgeable, IInv, SyncInv
  <1>2. \A r \in replies : r.seq = m => r.from # sync[s].agent
    BY <1>1 DEF IInv, RepliesHonest, RowInv, Open
  <1> QED
    BY <1>1, <1>2 DEF Known

\* The acknowledging UPDATE locks rows nobody else has locked.
LEMMA SyncAcknowledgeInv ==
  ASSUME IInv, TypeOK', NEW s \in SyncSlots, SyncAcknowledge(s)
  PROVE  IInv'
  <1>0. TypeOK
    BY DEF IInv
  <1>1. UNCHANGED SendSide
    BY DEF SyncAcknowledge, SendSide
  <1>2. /\ sync'[s].stage = "acknowledged" /\ sync'[s].agent = sync[s].agent
        /\ sync'[s].ack = sync[s].ack /\ sync'[s].acking = Acknowledgeable(s)
        /\ \A t \in SyncSlots : t # s => sync'[t] = sync[t]
    BY <1>0 DEF SyncAcknowledge, TypeOK, SyncTxn
  <1>3. sync[s].stage = "begun" /\ received' = received
    BY DEF SyncAcknowledge
  <1>4. \A t \in SyncSlots : t # s => sync[t].acking \cap Acknowledgeable(s) = {}
    BY DEF SyncAcknowledge, RowsFree
  <1>5. \A m \in Acknowledgeable(s) :
           m \in Open(sync[s].agent) /\ m \in received[sync[s].agent]
    BY <1>3, AcknowledgeableReceived
  <1>6. SyncInv'
    <2>1. \A t \in SyncSlots : sync'[t].stage # "idle" =>
             /\ sync'[t].agent \in Agents
             /\ sync'[t].ack \subseteq Known(sync[t].agent)'
      BY <1>1, <1>2, <1>3, SendSideKept DEF IInv, SyncInv
    <2>2. \A t \in SyncSlots : sync'[t].stage \in {"idle", "begun"} =>
             sync'[t].acking = {}
      BY <1>2 DEF IInv, SyncInv
    <2>3. \A t \in SyncSlots : \A m \in sync'[t].acking :
             m \in Open(sync[t].agent)' /\ m \in received'[sync'[t].agent]
      BY <1>1, <1>2, <1>3, <1>5, SendSideKept DEF IInv, SyncInv
    <2>4. \A t, u \in SyncSlots : t # u => sync'[t].acking \cap sync'[u].acking = {}
      <3> SUFFICES ASSUME NEW t \in SyncSlots, NEW u \in SyncSlots, t # u
                   PROVE sync'[t].acking \cap sync'[u].acking = {}
        OBVIOUS
      <3>1. CASE t # s /\ u # s
        BY <1>2, <3>1 DEF IInv, SyncInv
      <3>2. CASE t = s \/ u = s
        BY <1>2, <1>4, <3>2
      <3> QED
        BY <3>1, <3>2
    <2>5. \A t, u \in SyncSlots : \A a \in Agents :
             t # u /\ HoldsAgent(t, a)' => ~HoldsAgent(u, a)'
      BY <1>2 DEF IInv, SyncInv, HoldsAgent
    <2> QED
      BY <2>1, <2>2, <2>3, <2>4, <2>5 DEF SyncInv
  <1>7. PageIsOpen'
    BY <1>1, <1>2, SendSideKept DEF IInv, PageIsOpen
  <1> QED
    BY <1>1, <1>6, <1>7, SendSideKept DEF IInv

\* The agent row is locked by one poll at a time, from this step on.
LEMMA SyncTouchInv ==
  ASSUME IInv, TypeOK', NEW s \in SyncSlots, SyncTouch(s)
  PROVE  IInv'
  <1>0. TypeOK
    BY DEF IInv
  <1>1. UNCHANGED SendSide
    BY DEF SyncTouch, SendSide
  <1>2. /\ sync'[s].stage = "touched" /\ sync'[s].agent = sync[s].agent
        /\ sync'[s].ack = sync[s].ack /\ sync'[s].acking = sync[s].acking
        /\ \A t \in SyncSlots : t # s => sync'[t] = sync[t]
    BY <1>0 DEF SyncTouch, TypeOK, SyncTxn
  <1>3. sync[s].stage = "acknowledged" /\ received' = received
    BY DEF SyncTouch
  <1>4. \A t \in SyncSlots : t # s => ~HoldsAgent(t, sync[s].agent)
    BY DEF SyncTouch, AgentRowFree
  <1>5. SyncInv'
    <2>1. \A t, u \in SyncSlots : \A a \in Agents :
             t # u /\ HoldsAgent(t, a)' => ~HoldsAgent(u, a)'
      BY <1>2, <1>4 DEF IInv, SyncInv, HoldsAgent
    <2> QED
      BY <1>1, <1>2, <1>3, <2>1, SendSideKept DEF IInv, SyncInv
  <1>6. PageIsOpen'
    BY <1>1, <1>2, SendSideKept DEF IInv, PageIsOpen
  <1> QED
    BY <1>1, <1>5, <1>6, SendSideKept DEF IInv

\* The page is part of what is open once the poll's own updates are applied.
LEMMA SyncReadInv ==
  ASSUME IInv, TypeOK', NEW s \in SyncSlots, SyncRead(s)
  PROVE  IInv'
  <1>0. TypeOK
    BY DEF IInv
  <1>1. UNCHANGED SendSide
    BY DEF SyncRead, SendSide
  <1>2. /\ sync'[s].stage = "read" /\ sync'[s].agent = sync[s].agent
        /\ sync'[s].ack = sync[s].ack /\ sync'[s].acking = sync[s].acking
        /\ sync'[s].page = Delivered(s)
        /\ \A t \in SyncSlots : t # s => sync'[t] = sync[t]
    BY <1>0 DEF SyncRead, TypeOK, SyncTxn
  <1>3. sync[s].stage = "touched" /\ received' = received
    BY DEF SyncRead
  <1>4. Delivered(s) \subseteq Open(sync[s].agent) \ sync[s].acking
    BY DEF Delivered, Fetched, Visible, Oldest
  <1>5. SyncInv'
    BY <1>1, <1>2, <1>3, SendSideKept DEF IInv, SyncInv, HoldsAgent
  <1>6. PageIsOpen'
    BY <1>1, <1>2, <1>4, SendSideKept DEF IInv, PageIsOpen
  <1> QED
    BY <1>1, <1>5, <1>6, SendSideKept DEF IInv

\* A failed poll releases its locks and changes nothing else.
LEMMA SyncAbortInv ==
  ASSUME IInv, TypeOK', NEW s \in SyncSlots, SyncAbort(s)
  PROVE  IInv'
  <1>0. TypeOK
    BY DEF IInv
  <1>1. UNCHANGED SendSide
    BY DEF SyncAbort, SendSide
  <1>2. /\ sync'[s].stage = "idle" /\ sync'[s].acking = {}
        /\ \A t \in SyncSlots : t # s => sync'[t] = sync[t]
    BY <1>0 DEF SyncAbort, TypeOK, IdleSync
  <1>3. received' = received
    BY DEF SyncAbort
  <1>4. SyncInv'
    BY <1>1, <1>2, <1>3, SendSideKept DEF IInv, SyncInv, HoldsAgent
  <1>5. PageIsOpen'
    BY <1>1, <1>2, SendSideKept DEF IInv, PageIsOpen
  <1> QED
    BY <1>1, <1>4, <1>5, SendSideKept DEF IInv

\* Committing a poll acknowledges rows that only this poll has locked, and no
\* other poll of the same agent is between its agent-row update and its commit.
LEMMA SyncCommitInv ==
  ASSUME IInv, TypeOK', NEW s \in SyncSlots, NEW heard \in BOOLEAN,
         SyncCommit(s, heard)
  PROVE  IInv'
  <1> USE MailboxAssumption
  <1> DEFINE q == sync[s]
  <1>0. TypeOK /\ q.stage = "read" /\ q.agent \in Agents
    BY DEF IInv, SyncCommit, SyncInv
  <1>1. /\ sync'[s].stage = "idle" /\ sync'[s].acking = {}
        /\ \A t \in SyncSlots : t # s => sync'[t] = sync[t]
    BY <1>0 DEF SyncCommit, TypeOK, IdleSync
  <1>2. send' = send /\ replies' = replies /\ nextSeq' = nextSeq
        /\ sentEvents' = sentEvents
    BY DEF SyncCommit
  <1>3. \A a \in Agents : received[a] \subseteq received'[a]
    BY <1>0 DEF SyncCommit, TypeOK
  <1>4. \A m \in q.acking : /\ m \in Stored /\ messages[m].recipient = q.agent
                            /\ messages[m].acked = FALSE
                            /\ m \in received[q.agent]
    <2>1. \A m \in q.acking : m \in Open(q.agent) /\ m \in received[q.agent]
      BY DEF IInv, SyncInv
    <2>2. \A m \in q.acking : messages[m].acked \in BOOLEAN
      BY <1>0, <2>1 DEF TypeOK, Open, Stored, Row, NoRow
    <2> QED
      BY <2>1, <2>2 DEF Open
  <1>5. ASSUME NEW m \in Seqs
        PROVE  /\ messages'[m].sender = messages[m].sender
               /\ messages'[m].recipient = messages[m].recipient
               /\ messages'[m].key = messages[m].key
               /\ messages'[m].text = messages[m].text
               /\ m \in q.acking => messages'[m].acked = TRUE
               /\ m \notin q.acking => messages'[m] = messages[m]
    <2>1. messages[m] \in [sender : Agents \cup {None}, recipient : Agents \cup {None},
             key : Keys \cup {None}, text : Texts \cup {None}, acked : BOOLEAN]
      <3>1. messages[m] \in Row \/ messages[m] = NoRow
        BY <1>0 DEF TypeOK
      <3>2. CASE messages[m] \in Row
        BY <3>2 DEF Row
      <3>3. CASE messages[m] = NoRow
        BY <3>3 DEF NoRow
      <3> QED
        BY <3>1, <3>2, <3>3
    <2>2. messages'[m] = IF m \in q.acking
                         THEN [messages[m] EXCEPT !.acked = TRUE]
                         ELSE messages[m]
      BY DEF SyncCommit
    <2> QED
      BY <2>1, <2>2
  <1>5a. \A m \in Seqs : /\ messages'[m].sender = messages[m].sender
                         /\ messages'[m].recipient = messages[m].recipient
                         /\ messages'[m].key = messages[m].key
                         /\ messages'[m].text = messages[m].text
    BY <1>5
  <1>6. Stored' = Stored
    <2>1. ASSUME NEW m \in Seqs PROVE (messages'[m] = NoRow) <=> (messages[m] = NoRow)
      <3>1. CASE m \in q.acking
        <4>1. messages[m] \in Row /\ messages'[m] \in Row \cup {NoRow}
          BY <1>0, <1>4, <3>1 DEF Stored, TypeOK
        <4>2. messages'[m].acked = TRUE
          BY <1>5, <3>1
        <4> QED
          BY <4>1, <4>2, NoRowFacts
      <3>2. CASE m \notin q.acking
        BY <1>5, <3>2
      <3> QED
        BY <3>1, <3>2
    <2> QED
      BY <2>1 DEF Stored
  <1>7. SendInv'
    <2>1. \A t \in SendSlots : send[t].stage \in {"drawn", "inserted"} =>
             messages'[send[t].seq] = NoRow
      <3> SUFFICES ASSUME NEW t \in SendSlots,
                          send[t].stage \in {"drawn", "inserted"}
                   PROVE messages'[send[t].seq] = NoRow
        OBVIOUS
      <3>1. send[t].seq \in Seqs /\ messages[send[t].seq] = NoRow
        BY DEF IInv, SendInv, Requested
      <3>2. send[t].seq \notin q.acking
        BY <1>4, <3>1 DEF Stored
      <3> QED
        BY <1>5, <3>1, <3>2
    <2>2. \A t \in SendSlots : send[t].stage = "duplicate" =>
             /\ send[t].seq \in Stored'
             /\ SameKey(send[t].seq, send[t])'
             /\ SameContent(send[t].seq, send[t])'
      <3> SUFFICES ASSUME NEW t \in SendSlots, send[t].stage = "duplicate"
                   PROVE /\ send[t].seq \in Stored'
                         /\ SameKey(send[t].seq, send[t])'
                         /\ SameContent(send[t].seq, send[t])'
        OBVIOUS
      <3>1. /\ send[t].seq \in Stored /\ send[t].seq \in Seqs
            /\ SameKey(send[t].seq, send[t]) /\ SameContent(send[t].seq, send[t])
        BY DEF IInv, SendInv, Stored
      <3> QED
        BY <1>2, <1>5a, <1>6, <3>1 DEF SameKey, SameContent
    <2> QED
      BY <1>2, <2>1, <2>2 DEF IInv, SendInv, Requested
  <1>8. KeyInv'
    <2>1. \A m \in Stored : m \in Seqs
      BY DEF Stored
    <2>2. OneMessagePerKey'
      BY <1>5a, <1>6, <2>1 DEF IInv, KeyInv, OneMessagePerKey
    <2>3. \A t \in SendSlots : send'[t].stage = "inserted" =>
             \A m \in Stored' : ~SameKey(m, send[t])'
      BY <1>2, <1>5a, <1>6, <2>1 DEF IInv, KeyInv, SameKey
    <2> QED
      BY <1>2, <2>2, <2>3 DEF IInv, KeyInv
  <1>9. RowInv' /\ RepliesHonest'
    <2>1. \A m \in Stored : m \in Seqs
      BY DEF Stored
    <2>2. RowInv'
      BY <1>2, <1>5a, <1>6, <2>1 DEF IInv, RowInv
    <2> QED
      BY <1>2, <1>5a, <1>6, <2>1, <2>2 DEF IInv, RepliesHonest
  <1>10. \A a \in Agents : Known(a) \subseteq Known(a)'
    BY <1>2, <1>3 DEF Known
  <1>11. ASSUME NEW t \in SyncSlots, t # s, NEW m \in Open(sync[t].agent),
                m \notin q.acking
         PROVE  m \in Open(sync[t].agent)'
    BY <1>1, <1>5, <1>6, <1>11 DEF Open, Stored
  <1>12. SyncInv'
    <2>1. \A t \in SyncSlots : sync'[t].stage # "idle" =>
             /\ sync'[t].agent \in Agents
             /\ sync'[t].ack \subseteq Known(sync[t].agent)'
      BY <1>1, <1>10 DEF IInv, SyncInv
    <2>2. ASSUME NEW t \in SyncSlots, NEW m \in sync'[t].acking
          PROVE  m \in Open(sync[t].agent)' /\ m \in received'[sync'[t].agent]
      <3>1. t # s /\ sync'[t] = sync[t]
        BY <1>1, <2>2
      <3>2. m \notin q.acking /\ m \in Open(sync[t].agent)
            /\ m \in received[sync[t].agent]
        BY <2>2, <3>1 DEF IInv, SyncInv
      <3>3. sync[t].agent \in Agents
        BY <2>2, <3>1 DEF IInv, SyncInv
      <3> QED
        BY <1>3, <1>11, <3>1, <3>2, <3>3
    <2>3. \A t, u \in SyncSlots : t # u => sync'[t].acking \cap sync'[u].acking = {}
      BY <1>1 DEF IInv, SyncInv
    <2>4. \A t, u \in SyncSlots : \A a \in Agents :
             t # u /\ HoldsAgent(t, a)' => ~HoldsAgent(u, a)'
      BY <1>1 DEF IInv, SyncInv, HoldsAgent
    <2>5. \A t \in SyncSlots : sync'[t].stage \in {"idle", "begun"} =>
             sync'[t].acking = {}
      BY <1>1 DEF IInv, SyncInv
    <2> QED
      BY <2>1, <2>2, <2>3, <2>4, <2>5 DEF SyncInv
  <1>13. AckedWasReceived'
    <2> SUFFICES ASSUME NEW m \in Stored, messages'[m].acked
                 PROVE m \in received'[messages'[m].recipient]
      BY <1>6 DEF AckedWasReceived
    <2>1. messages'[m].recipient = messages[m].recipient /\ messages[m].recipient \in Agents
      BY ZenonT(60), <1>0, <1>5 DEF Stored, TypeOK, Row
    <2>2. CASE m \in q.acking
      BY <1>0, <1>3, <1>4, <2>1, <2>2
    <2>3. CASE m \notin q.acking
      BY <1>3, <1>5, <2>1, <2>3 DEF IInv, AckedWasReceived, Stored
    <2> QED
      BY <2>2, <2>3
  <1>14. PageIsOpen'
    <2> SUFFICES ASSUME NEW t \in SyncSlots, sync'[t].stage = "read",
                        NEW m \in sync'[t].page
                 PROVE m \in Open(sync[t].agent)' /\ m \notin sync'[t].acking
      BY DEF PageIsOpen
    <2>1. t # s /\ sync'[t] = sync[t]
      BY <1>1
    <2>2. m \in Open(sync[t].agent) /\ m \notin sync[t].acking
      BY <2>1 DEF IInv, PageIsOpen
    <2>3. sync[t].agent # q.agent
      BY <1>0, <2>1 DEF IInv, SyncInv, HoldsAgent
    <2>4. m \notin q.acking
      BY <1>4, <2>2, <2>3 DEF Open
    <2> QED
      BY <1>11, <2>1, <2>2, <2>4
  <1>15. JournalExact'
    <2> SUFFICES ASSUME NEW m \in Seqs
                 PROVE /\ sentEvents'[m] = IF m \in Stored THEN 1 ELSE 0
                       /\ ackEvents'[m] = IF m \in Stored /\ messages'[m].acked
                                          THEN 1 ELSE 0
      BY <1>6 DEF JournalExact
    <2>1. ackEvents'[m] = IF m \in q.acking THEN Bump(ackEvents[m]) ELSE ackEvents[m]
      BY DEF SyncCommit
    <2>2. CASE m \in q.acking
      <3>1. m \in Stored /\ ackEvents[m] = 0 /\ sentEvents[m] = 1
        BY <1>4, <2>2 DEF IInv, JournalExact
      <3>2. messages'[m].acked = TRUE
        BY <1>5, <2>2
      <3>3. Bump(0) = 1
        BY DEF Bump
      <3> QED
        BY <1>2, <2>1, <2>2, <3>1, <3>2, <3>3
    <2>3. CASE m \notin q.acking
      BY <1>2, <1>5, <2>1, <2>3 DEF IInv, JournalExact
    <2> QED
      BY <2>2, <2>3
  <1> QED
    BY <1>7, <1>8, <1>9, <1>12, <1>13, <1>14, <1>15 DEF IInv

\* Every step keeps the inductive invariant.
LEMMA StepInv == IInv /\ [Next]_vars => IInv'
  <1> SUFFICES ASSUME IInv, [Next]_vars PROVE IInv'
    OBVIOUS
  <1>1. TypeOK'
    BY TypeStep
  <1>2. CASE UNCHANGED vars
    <2>1. UNCHANGED SyncSide /\ UNCHANGED SendSide /\ sync' = sync
      BY <1>2 DEF vars, SyncSide, SendSide
    <2>2. SyncInv' /\ PageIsOpen'
      BY <2>1, SendSideKept DEF SendSide, IInv, SyncInv, PageIsOpen, HoldsAgent
    <2> QED
      BY <1>1, <2>1, <2>2, SendSideKept DEF IInv
  <1>3. CASE Next
    BY <1>1, <1>3, NextCases, SendBeginInv, SendInsertInv, SendEndInv,
       SendCommitInv, SyncBeginInv, SyncAcknowledgeInv, SyncTouchInv,
       SyncReadInv, SyncCommitInv, SyncAbortInv
  <1> QED
    BY <1>2, <1>3

---------------------------------------------------------------------------
\* The types of Mailbox hold in every reachable state.
THEOREM TypeCorrect == Spec => []TypeOK
  <1>1. IInv => TypeOK
    BY DEF IInv
  <1> QED
    BY InitInv, StepInv, <1>1, PTL DEF Spec

\* sendMessage stores at most one message per sender and idempotency key.
THEOREM SendIdempotent == Spec => []OneMessagePerKey
  <1>1. IInv => OneMessagePerKey
    BY DEF IInv, KeyInv
  <1> QED
    BY InitInv, StepInv, <1>1, PTL DEF Spec

\* Whatever sends race, fail and are repeated, a reply to one names a stored
\* message with the sender, key, recipient and text of the request it answers.
THEOREM SendRepliesHonest == Spec => []RepliesHonest
  <1>1. IInv => RepliesHonest
    BY DEF IInv, KeyInv
  <1> QED
    BY InitInv, StepInv, <1>1, PTL DEF Spec

\* A message is acknowledged only after its recipient has received it.
THEOREM NoMessageLost == Spec => []AckedWasReceived
  <1>1. IInv => AckedWasReceived
    BY DEF IInv
  <1> QED
    BY InitInv, StepInv, <1>1, PTL DEF Spec

\* A reply never offers a message that is acknowledged already.
THEOREM RepliesOpen == Spec => []PageIsOpen
  <1>1. IInv => PageIsOpen
    BY DEF IInv
  <1> QED
    BY InitInv, StepInv, <1>1, PTL DEF Spec

\* The journal has exactly one event per send and per acknowledgement.
THEOREM JournalCorrect == Spec => []JournalExact
  <1>1. IInv => JournalExact
    BY DEF IInv
  <1> QED
    BY InitInv, StepInv, <1>1, PTL DEF Spec

---------------------------------------------------------------------------
\* What a page leaves out.

\* Every set of sequence numbers has a smallest one.
LEMMA SmallestExists ==
  ASSUME NEW T \in SUBSET Nat, T # {}
  PROVE  \E x \in T : \A y \in T : x <= y
  <1>1. PICK x \in T : \A y \in T : <<y, x>> \notin OpToRel(<, Nat)
    BY NatLessThanWellFounded, WFMin
  <1>2. ASSUME NEW y \in T, y < x PROVE FALSE
    <2>1. <<y, x>> \in Nat \X Nat /\ <<y, x>>[1] < <<y, x>>[2]
      BY <1>2
    <2> QED
      BY <1>1, <2>1 DEF OpToRel
  <1> QED
    BY <1>2

\* There are finitely many of them.
LEMMA SeqsFinite == ASSUME NEW V \in SUBSET Seqs PROVE IsFiniteSet(V) /\ V \subseteq Nat
  <1>1. IsFiniteSet(Seqs)
    BY FS_Interval, MailboxAssumption DEF Seqs
  <1>2. Seqs \subseteq Nat
    BY MailboxAssumption DEF Seqs
  <1> QED
    BY <1>1, <1>2, FS_Subset

\* Cutting a set off after its oldest n keeps with a message all older ones.
LEMMA OldestDownward ==
  ASSUME NEW V \in SUBSET Seqs, NEW n \in Nat, NEW m \in Oldest(V, n),
         NEW k \in V, k < m
  PROVE  k \in Oldest(V, n)
  <1> DEFINE Below(x) == {j \in V : j < x}
  <1>1. IsFiniteSet(V) /\ V \subseteq Nat
    BY SeqsFinite
  <1>2. Below(m) \in SUBSET V /\ Below(k) \in SUBSET Below(m)
    <2>1. m \in Nat /\ k \in Nat
      BY <1>1 DEF Oldest
    <2>2. \A j \in V : j < k => j < m
      BY <1>1, <2>1
    <2> QED
      BY <2>2
  <1>3. IsFiniteSet(Below(m)) /\ IsFiniteSet(Below(k)) /\ Cardinality(Below(k)) <= Cardinality(Below(m))
    BY <1>1, <1>2, FS_Subset
  <1>4. Cardinality(Below(m)) \in Nat /\ Cardinality(Below(k)) \in Nat
    BY <1>3, FS_CardinalityType
  <1>5. Cardinality(Below(m)) < n
    BY DEF Oldest
  <1>6. Cardinality(Below(k)) < n
    BY <1>3, <1>4, <1>5
  <1> QED
    BY <1>6 DEF Oldest

\* With limit + 1 rows fetched and limit delivered, a visible message that is not
\* delivered is newer than all that are, and more rows than limit were fetched.
LEMMA PageTells ==
  ASSUME NEW V \in SUBSET Seqs, NEW n \in Nat, NEW m \in V,
         m \notin Oldest(Oldest(V, n + 1), n)
  PROVE  /\ Cardinality(Oldest(V, n + 1)) > n
         /\ \A k \in Oldest(Oldest(V, n + 1), n) : k < m
  <1> DEFINE F == Oldest(V, n + 1)
             Below(S, x) == {j \in S : j < x}
  <1>1. F \in SUBSET V /\ F \in SUBSET Seqs /\ n + 1 \in Nat
    BY DEF Oldest
  <1>2. IsFiniteSet(V) /\ IsFiniteSet(F) /\ V \subseteq Nat
    BY <1>1, SeqsFinite
  <1>3. Cardinality(F) \in Nat
    BY <1>2, FS_CardinalityType
  <1>4. ASSUME NEW k \in Oldest(F, n) PROVE k < m
    <2>1. k \in F /\ k \in Nat /\ m \in Nat /\ k # m
      BY <1>1, <1>2 DEF Oldest
    <2>2. CASE m < k
      <3>1. m \in F
        BY <1>1, <2>1, <2>2, OldestDownward
      <3>2. m \in Oldest(F, n)
        BY <1>1, <2>2, <3>1, OldestDownward
      <3> QED
        BY <3>2
    <2> QED
      BY <2>1, <2>2
  <1>5. CASE m \in F
    <2>1. ~(Cardinality(Below(F, m)) < n)
      BY <1>5 DEF Oldest
    <2>2. IsFiniteSet(F \ {m}) /\ Cardinality(F \ {m}) = Cardinality(F) - 1
      BY <1>2, <1>5, FS_RemoveElement
    <2>3. Below(F, m) \in SUBSET (F \ {m})
      BY <1>1, <1>2
    <2>4. IsFiniteSet(Below(F, m)) /\ Cardinality(Below(F, m)) <= Cardinality(F \ {m})
      BY <2>2, <2>3, FS_Subset
    <2>5. Cardinality(Below(F, m)) \in Nat
      BY <2>4, FS_CardinalityType
    <2> QED
      BY <1>3, <1>4, <2>1, <2>2, <2>4, <2>5
  <1>6. CASE m \notin F
    <2>1. PICK x \in V \ F : \A y \in V \ F : x <= y
      BY <1>2, <1>6, SmallestExists
    <2>2. ~(Cardinality(Below(V, x)) < n + 1)
      BY <2>1 DEF Oldest
    <2>3. Below(V, x) \in SUBSET F
      <3>1. ASSUME NEW j \in V, j < x PROVE j \in F
        BY <1>2, <2>1, <3>1
      <3> QED
        BY <3>1
    <2>4. IsFiniteSet(Below(V, x)) /\ Cardinality(Below(V, x)) <= Cardinality(F)
      BY <1>2, <2>3, FS_Subset
    <2>5. Cardinality(Below(V, x)) \in Nat
      BY <2>4, FS_CardinalityType
    <2> QED
      BY <1>3, <1>4, <2>2, <2>4, <2>5
  <1> QED
    BY <1>5, <1>6

\* What is owed to a poll are stored messages addressed to its agent.
OwedInv ==
    \A s \in SyncSlots : \A m \in sync[s].owed :
        m \in Stored /\ messages[m].recipient = sync[s].agent

\* A stored message stays, keeps its recipient and is never opened again.
LEMMA RowsKept ==
  ASSUME IInv, [Next]_vars, NEW m \in Stored
  PROVE  /\ m \in Stored' /\ messages'[m].recipient = messages[m].recipient
         /\ messages[m].acked => messages'[m].acked
  <1>0. TypeOK /\ m \in Seqs
    BY DEF IInv, Stored
  <1>1. CASE UNCHANGED messages
    BY <1>0, <1>1 DEF Stored
  <1>2. ASSUME NEW s \in SendSlots, NEW heard \in BOOLEAN, SendCommit(s, heard) PROVE
           messages'[m] = messages[m]
    <2>1. CASE Persist(send[s])
      <3>1. m # send[s].seq
        BY <2>1 DEF Persist, IInv, SendInv, Stored
      <3> QED
        BY <1>0, <2>1, <3>1 DEF Persist, TypeOK
    <2> QED
      BY <1>2, <2>1 DEF SendCommit
  <1>3. ASSUME NEW s \in SyncSlots, NEW heard \in BOOLEAN, SyncCommit(s, heard) PROVE
           messages'[m] \in {messages[m], [messages[m] EXCEPT !.acked = TRUE]}
    BY <1>0, <1>3 DEF SyncCommit
  <1>4. messages[m] \in Row /\ messages[m] # NoRow
    BY <1>0 DEF TypeOK, Stored
  <1>5. messages'[m] \in {messages[m], [messages[m] EXCEPT !.acked = TRUE]}
    <2>1. CASE Next
      BY <1>2, <1>3, <2>1, NextCases
         DEF SendBegin, SendInsert, SendConflict, SendAbort, SyncBegin, SyncAcknowledge,
             SyncTouch, SyncRead, SyncAbort
    <2> QED
      BY <2>1 DEF vars
  <1>6. [messages[m] EXCEPT !.acked = TRUE] \in Row
    BY <1>4 DEF Row
  <1> QED
    BY <1>0, <1>4, <1>5, <1>6, NoRowFacts DEF Stored, Row

\* A poll owes what is open when it begins, and its read settles the debt.
LEMMA OwedStep ==
  IInv /\ OwedInv /\ NothingSkipped /\ [Next]_vars => OwedInv' /\ NothingSkipped'
  <1> SUFFICES ASSUME IInv, OwedInv, NothingSkipped, [Next]_vars,
                      NEW s \in SyncSlots, NEW m \in sync'[s].owed
               PROVE  /\ m \in Stored' /\ messages'[m].recipient = sync'[s].agent
                      /\ sync'[s].stage = "read" =>
                           \/ m \in sync'[s].page \/ m \in sync'[s].acking
                           \/ messages'[m].acked
                           \/ sync'[s].more /\ \A k \in sync'[s].page : k < m
    BY DEF OwedInv, NothingSkipped
  <1>0. TypeOK
    BY DEF IInv
  <1>1. CASE sync'[s] = sync[s]
    BY <1>1, RowsKept DEF OwedInv, NothingSkipped
  <1>2. CASE \E a \in Agents, limit \in Limits, ack \in SUBSET Seqs : SyncBegin(s, a, ack, limit)
    <2>1. PICK a \in Agents : sync'[s].agent = a /\ sync'[s].owed = Open(a)
                              /\ sync'[s].stage = "begun"
      BY <1>0, <1>2 DEF SyncBegin, TypeOK
    <2>2. m \in Stored /\ messages[m].recipient = a
      BY <2>1 DEF Open
    <2> QED
      BY <2>1, <2>2, RowsKept
  <1>3. CASE SyncAcknowledge(s) \/ SyncTouch(s)
    <2>1. /\ sync'[s].stage \in {"acknowledged", "touched"}
          /\ sync'[s].agent = sync[s].agent /\ sync'[s].owed = sync[s].owed
      <3>1. CASE SyncAcknowledge(s)
        BY <1>0, <3>1 DEF SyncAcknowledge, TypeOK, SyncTxn
      <3>2. CASE SyncTouch(s)
        BY <1>0, <3>2 DEF SyncTouch, TypeOK, SyncTxn
      <3> QED
        BY <1>3, <3>1, <3>2
    <2> QED
      BY <2>1, RowsKept DEF OwedInv
  <1>4. CASE SyncRead(s)
    <2>1. /\ sync'[s].agent = sync[s].agent /\ sync'[s].owed = sync[s].owed
          /\ sync'[s].acking = sync[s].acking /\ sync'[s].page = Delivered(s)
          /\ sync'[s].more = (Cardinality(Fetched(s)) > sync[s].limit)
      BY <1>0, <1>4 DEF SyncRead, TypeOK, SyncTxn
    <2>2. m \in Stored /\ messages[m].recipient = sync[s].agent
      BY <2>1 DEF OwedInv
    <2>3. CASE ~messages[m].acked /\ m \notin sync[s].acking /\ m \notin Delivered(s)
      <3>1. m \in Visible(s) /\ Visible(s) \in SUBSET Seqs
        BY <2>2, <2>3 DEF Visible, Open, Stored
      <3>2. sync[s].limit \in Nat
        BY <1>0, MailboxAssumption DEF TypeOK, SyncTxn
      <3>3. Cardinality(Fetched(s)) > sync[s].limit /\ \A k \in Delivered(s) : k < m
        BY <2>3, <3>1, <3>2, PageTells DEF Delivered, Fetched
      <3> QED
        BY <2>1, <2>2, <3>3, RowsKept
    <2> QED
      BY <2>1, <2>2, <2>3, RowsKept
  <1>5. CASE (\E heard \in BOOLEAN : SyncCommit(s, heard)) \/ SyncAbort(s)
    <2>1. sync'[s] = IdleSync
      BY <1>0, <1>5 DEF SyncCommit, SyncAbort, TypeOK
    <2> QED
      BY <2>1 DEF IdleSync
  <1>6. CASE UNCHANGED sync
    BY <1>1, <1>6
  <1>7. ASSUME NEW t \in SyncSlots \ {s},
               \/ \E a \in Agents, limit \in Limits, ack \in SUBSET Seqs : SyncBegin(t, a, ack, limit)
               \/ SyncAcknowledge(t) \/ SyncTouch(t) \/ SyncRead(t) \/ SyncAbort(t)
               \/ \E heard \in BOOLEAN : SyncCommit(t, heard)
        PROVE  sync'[s] = sync[s]
    BY <1>0, <1>7 DEF TypeOK, SyncBegin, SyncAcknowledge, SyncTouch, SyncRead, SyncAbort, SyncCommit
  <1>8. \A a \in Agents : Known(a) \subseteq Seqs
    BY <1>0 DEF TypeOK, Known, Reply
  <1>9. CASE Next
    BY <1>1, <1>2, <1>3, <1>4, <1>5, <1>6, <1>7, <1>8, <1>9, NextCases
       DEF SendBegin, SendInsert, SendConflict, SendAbort, SendCommit
  <1> QED
    BY <1>6, <1>9 DEF vars

\* However sends that commit late and polls of one agent interleave, a poll's
\* reply hands out or announces all that was open when it began and is not
\* acknowledged since.
THEOREM PollSkipsNothing == Spec => []NothingSkipped
  <1>1. Init => OwedInv /\ NothingSkipped
    BY DEF Init, IdleSync, OwedInv, NothingSkipped
  <1> QED
    BY <1>1, InitInv, StepInv, OwedStep, PTL DEF Spec

---------------------------------------------------------------------------
\* The refinement of Inbox.tla.

LetterOf(m) == [id |-> m, sender |-> messages[m].sender,
                recipient |-> messages[m].recipient, key |-> messages[m].key,
                text |-> messages[m].text]

Posted == {LetterOf(m) : m \in Stored}

Acknowledged == {m \in Stored : messages[m].acked}

\* A step that keeps the rows and what the agents received changes nothing in
\* the abstract inbox.
LEMMA InboxStutter ==
  ASSUME messages' = messages, received' = received
  PROVE  UNCHANGED Abstract!inboxVars
  BY DEF Abstract!inboxVars, Stored

\* Committing a new message posts its letter.
LEMMA CommitPosts ==
  ASSUME IInv, TypeOK', NEW s \in SendSlots, Persist(send[s]),
         received' = received
  PROVE  Abstract!InboxNext
  <1> DEFINE row == NewRow(send[s])
  <1>new. PICK new : new = send[s].seq
    OBVIOUS
  <1>l. PICK l : l = [id |-> new, sender |-> send[s].from, recipient |-> send[s].to,
                      key |-> send[s].key, text |-> send[s].text]
    OBVIOUS
  <1> USE <1>new, <1>l
  <1>0. TypeOK /\ Requested(send[s])
    BY DEF IInv, SendInv, Persist
  <1>1. new \in Seqs /\ messages[new] = NoRow
    BY <1>0 DEF Persist, IInv, SendInv, Requested
  <1>2. /\ row \in Row /\ row # NoRow /\ row.acked = FALSE
        /\ row.sender = send[s].from /\ row.recipient = send[s].to
        /\ row.key = send[s].key /\ row.text = send[s].text
    <2>1. row \in Row
      BY <1>0 DEF NewRow, Row, Requested
    <2> QED
      BY <2>1, NoRowFacts DEF NewRow
  <1>3. messages'[new] = row /\ \A m \in Seqs : m # new => messages'[m] = messages[m]
    BY <1>0, <1>1 DEF Persist, TypeOK
  <1>4. Stored' = Stored \cup {new} /\ new \notin Stored
    BY <1>1, <1>2, <1>3 DEF Stored
  <1>5. \A m \in Stored : messages'[m] = messages[m]
    BY <1>3, <1>4 DEF Stored
  <1>6. Posted' = Posted \cup {l}
    <2>1. LetterOf(new)' = l
      BY <1>2, <1>3 DEF LetterOf
    <2>2. \A m \in Stored : LetterOf(m)' = LetterOf(m)
      BY <1>5 DEF LetterOf
    <2> QED
      BY <1>4, <2>1, <2>2 DEF Posted
  <1>7. Acknowledged' = Acknowledged
    BY <1>2, <1>3, <1>4, <1>5 DEF Acknowledged
  <1>8. \A p \in Posted : p.id # new /\ <<p.sender, p.key>> # <<l.sender, l.key>>
    <2> SUFFICES ASSUME NEW m \in Stored
                 PROVE  /\ LetterOf(m).id # new
                        /\ <<LetterOf(m).sender, LetterOf(m).key>> # <<l.sender, l.key>>
      BY DEF Posted
    <2>1. m # new
      BY <1>4
    <2>2. ~(messages[m].sender = send[s].from /\ messages[m].key = send[s].key)
      BY DEF Persist, IInv, KeyInv, SameKey
    <2> QED
      BY <2>1, <2>2 DEF LetterOf
  <1>9. l \in Abstract!Letter /\ l.sender # l.recipient
    BY <1>0, <1>1 DEF Abstract!Letter, Requested
  <1>10. Abstract!Post(l)
    BY <1>6, <1>7, <1>8, <1>9
       DEF Abstract!Post, Posted, LetterOf, Acknowledged
  <1> QED
    <2>1. \E k \in Abstract!Letter : Abstract!Post(k)
      BY <1>9, <1>10
    <2> QED
      BY <2>1 DEF Abstract!InboxNext

\* The abstract address book is the recipient column.
LEMMA AddressedRows ==
  ASSUME NEW a
  PROVE  Abstract!Addressed(a) = {m \in Stored : messages[m].recipient = a}
  <1>1. Abstract!Addressed(a) = {l.id : l \in {k \in Posted : k.recipient = a}}
    BY DEF Abstract!Addressed, Posted, LetterOf
  <1>2. \A m \in Stored : /\ LetterOf(m) \in Posted /\ LetterOf(m).id = m
                          /\ LetterOf(m).recipient = messages[m].recipient
    BY DEF Posted, LetterOf
  <1>3. \A k \in Posted : k.id \in Stored /\ k = LetterOf(k.id)
    BY DEF Posted, LetterOf
  <1>4. \A k \in Posted : k.recipient = messages[k.id].recipient
    BY <1>2, <1>3
  <1>5. Abstract!Addressed(a) \subseteq {m \in Stored : messages[m].recipient = a}
    BY <1>1, <1>3, <1>4
  <1>6. ASSUME NEW m \in Stored, messages[m].recipient = a
        PROVE  m \in Abstract!Addressed(a)
    BY <1>1, <1>2, <1>6
  <1> QED
    BY <1>5, <1>6

\* Committing a poll is one exchange of the abstract inbox.
LEMMA CommitExchanges ==
  ASSUME IInv, NEW s \in SyncSlots, NEW heard \in BOOLEAN, SyncCommit(s, heard)
  PROVE  Abstract!InboxNext
  <1>q. PICK a, acks, page : a = sync[s].agent /\ acks = sync[s].acking
                             /\ page = sync[s].page
    OBVIOUS
  <1> USE <1>q
  <1>0. TypeOK /\ a \in Agents /\ sync[s].stage = "read"
    BY DEF IInv, SyncCommit, SyncInv
  <1>1. acks \in SUBSET Seqs /\ page \in SUBSET Seqs
    BY <1>0 DEF TypeOK, SyncTxn
  <1>2. acks \subseteq Open(a) /\ acks \subseteq received[a]
    BY DEF IInv, SyncInv
  <1>3. page \subseteq Open(a) /\ page \cap acks = {}
    BY <1>0 DEF IInv, PageIsOpen
  <1>4. ASSUME NEW m \in Seqs
        PROVE  /\ LetterOf(m)' = LetterOf(m)
               /\ m \in acks => messages'[m].acked = TRUE
               /\ m \notin acks => messages'[m] = messages[m]
    <2>1. messages[m] \in Row \/ messages[m] = NoRow
      BY <1>0 DEF TypeOK
    <2>2. messages[m] \in [sender : Agents \cup {None}, recipient : Agents \cup {None},
             key : Keys \cup {None}, text : Texts \cup {None}, acked : BOOLEAN]
      <3>1. CASE messages[m] \in Row
        BY <3>1 DEF Row
      <3>2. CASE messages[m] = NoRow
        BY <3>2 DEF NoRow
      <3> QED
        BY <2>1, <3>1, <3>2
    <2>3. messages'[m] = IF m \in acks THEN [messages[m] EXCEPT !.acked = TRUE]
                         ELSE messages[m]
      BY DEF SyncCommit
    <2> QED
      BY <2>2, <2>3 DEF LetterOf
  <1>5. \A m \in acks : messages[m] \in Row /\ messages[m] # NoRow
    BY <1>0, <1>1, <1>2 DEF Open, Stored, TypeOK
  <1>6. Stored' = Stored
    <2>1. ASSUME NEW m \in Seqs PROVE (messages'[m] = NoRow) <=> (messages[m] = NoRow)
      <3>1. CASE m \in acks
        BY <1>4, <1>5, <3>1, NoRowFacts
      <3>2. CASE m \notin acks
        BY <1>4, <3>2
      <3> QED
        BY <3>1, <3>2
    <2> QED
      BY <2>1 DEF Stored
  <1>7. Posted' = Posted
    BY <1>4, <1>6 DEF Posted, Stored
  <1>8. Acknowledged' = Acknowledged \cup acks
    <2>1. acks \subseteq Stored
      BY <1>2 DEF Open
    <2> QED
      BY <1>1, <1>4, <1>6, <2>1 DEF Acknowledged, Stored
  <1>9. received' \in {received, [received EXCEPT ![a] = @ \cup page]}
    BY DEF SyncCommit
  <1>10. acks \subseteq (received[a] \cap Abstract!Addressed(a)) \ Acknowledged
    BY <1>2, AddressedRows DEF Open, Acknowledged
  <1>11. page \subseteq Abstract!Addressed(a) \ (Acknowledged \cup acks)
    BY <1>3, AddressedRows DEF Open, Acknowledged
  <1>12. Abstract!Exchange(a, acks, page)
    BY <1>7, <1>8, <1>9, <1>10, <1>11
       DEF Abstract!Exchange, Posted, LetterOf, Acknowledged
  <1>13. \E b \in Agents, ks, p \in SUBSET Seqs : Abstract!Exchange(b, ks, p)
    BY <1>0, <1>1, <1>12
  <1> QED
    BY <1>13 DEF Abstract!InboxNext

\* Mailbox implements Inbox: the initial state maps to its initial state and
\* every step to one of its steps or to none.
THEOREM Refinement == Spec => ImplementsInbox
  <1>1. Init => Abstract!InboxInit
    BY DEF Init, Abstract!InboxInit, Stored
  <1>2. IInv /\ [Next]_vars => [Abstract!InboxNext]_(Abstract!inboxVars)
    <2> SUFFICES ASSUME IInv, [Next]_vars
                 PROVE  Abstract!InboxNext \/ UNCHANGED Abstract!inboxVars
      OBVIOUS
    <2>0. TypeOK'
      BY TypeStep
    <2>1. CASE messages' = messages /\ received' = received
      BY <2>1, InboxStutter
    <2>2. ASSUME NEW s \in SendSlots, NEW heard \in BOOLEAN, SendCommit(s, heard)
          PROVE  Abstract!InboxNext \/ UNCHANGED Abstract!inboxVars
      <3>1. received' = received
        BY <2>2 DEF SendCommit
      <3>2. CASE Persist(send[s])
        BY <2>0, <3>1, <3>2, CommitPosts
      <3>3. CASE messages' = messages
        BY <3>1, <3>3, InboxStutter
      <3> QED
        BY <2>2, <3>2, <3>3 DEF SendCommit
    <2>3. ASSUME NEW s \in SyncSlots, NEW heard \in BOOLEAN, SyncCommit(s, heard)
          PROVE  Abstract!InboxNext
      BY <2>3, CommitExchanges
    <2>4. CASE UNCHANGED vars
      BY <2>1, <2>4 DEF vars
    <2>5. CASE Next
      <3>1. ASSUME NEW s \in SendSlots, SendInsert(s) \/ SendConflict(s) \/ SendAbort(s)
            PROVE  messages' = messages /\ received' = received
        BY <3>1 DEF SendInsert, SendConflict, SendAbort
      <3>2. ASSUME NEW s \in SyncSlots, SyncAcknowledge(s) \/ SyncTouch(s)
                     \/ SyncRead(s) \/ SyncAbort(s)
            PROVE  messages' = messages /\ received' = received
        BY <3>2 DEF SyncAcknowledge, SyncTouch, SyncRead, SyncAbort
      <3>3. ASSUME NEW s, NEW from, NEW to, NEW key, NEW text,
                   SendBegin(s, from, to, key, text)
            PROVE  messages' = messages /\ received' = received
        BY <3>3 DEF SendBegin
      <3>4. ASSUME NEW s, NEW a, NEW ack, NEW limit, SyncBegin(s, a, ack, limit)
            PROVE  messages' = messages /\ received' = received
        BY <3>4 DEF SyncBegin
      <3> QED
        BY <2>1, <2>2, <2>3, <2>5, <3>1, <3>2, <3>3, <3>4, NextCases
    <2> QED
      BY <2>4, <2>5
  <1> QED
    BY <1>1, <1>2, InitInv, StepInv, PTL DEF Spec, ImplementsInbox, Abstract!InboxSpec
=============================================================================
