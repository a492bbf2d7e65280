------------------------------ MODULE Mailbox ------------------------------
(***************************************************************************)
(* The mailbox of one AgentMesh project: agentmesh_send (sendMessage in    *)
(* messages/service.ts) and agentmesh_sync in poll mode (syncAgent in      *)
(* agents/service.ts) as PostgreSQL READ COMMITTED transactions whose      *)
(* statements interleave.                                                  *)
(*                                                                         *)
(* - Each request runs in a slot of its own, one statement per step. What  *)
(*   a transaction wrote is kept in its slot until it commits, so no other *)
(*   transaction reads it; the row locks it holds follow from its stage.   *)
(* - A message's uuid is identified with its sequence number: both are     *)
(*   drawn once per inserted row.                                          *)
(* - Any statement, the commit included, may fail (the connection drops,   *)
(*   the process dies): the transaction rolls back. The reply to a         *)
(*   committed request may be lost; the client then sees an error and may  *)
(*   repeat the request.                                                   *)
(* - The agents are registered; registration is not part of this module.   *)
(* - Of the activity journal only message.sent with deduplicated = false   *)
(*   and message.acknowledged are kept, as counts per message: the other   *)
(*   event types repeat without limit and nothing here depends on them.    *)
(***************************************************************************)
EXTENDS Integers, FiniteSets

CONSTANTS Agents,      \* the registered agents of the project
          Stranger,    \* an identity that is not an agent of the project
          Keys,        \* idempotency keys (input.idempotency_key)
          Texts,       \* message bodies (input.text)
          SendSlots,   \* concurrent send requests
          SyncSlots,   \* concurrent poll requests
          MaxSeq,      \* bound on the values drawn from messages.sequence
          MaxLimit,    \* bound on input.limit (100 in the code)
          JournalCap,  \* journal counts saturate here: 0, 1, ..., "many"
          None

ASSUME MailboxAssumption ==
    /\ Stranger \notin Agents /\ None \notin Agents
    /\ None \notin Keys /\ None \notin Texts
    /\ MaxSeq \in Nat /\ MaxLimit \in Nat
    /\ JournalCap \in Nat /\ JournalCap >= 2

Seqs == 1..MaxSeq

VARIABLES
    messages,   \* the committed rows of the messages table, by sequence
    nextSeq,    \* the next value of the messages.sequence generator
    sentEvents, \* per message, committed message.sent events, not deduplicated
    ackEvents,  \* per message, committed message.acknowledged events
    send,       \* the state of each send request
    sync,       \* the state of each poll request
    received,   \* per agent, the messages in the poll replies it has got
    replies     \* the send replies clients have got, as the client reads them

vars == <<messages, nextSeq, sentEvents, ackEvents, send, sync, received,
          replies>>

---------------------------------------------------------------------------
\* Rows and requests.

NoRow == [sender |-> None, recipient |-> None, key |-> None, text |-> None,
          acked |-> FALSE]

Row == [sender : Agents, recipient : Agents, key : Keys, text : Texts,
        acked : BOOLEAN]

Stored == {m \in Seqs : messages[m] # NoRow}

\* Committed, unacknowledged messages addressed to a.
Open(a) == {m \in Stored : messages[m].recipient = a /\ ~messages[m].acked}

SendStages == {"idle", "drawn", "inserted", "duplicate"}

IdleSend == [stage |-> "idle", from |-> None, to |-> None, key |-> None,
             text |-> None, seq |-> 0]

\* acking: the rows this transaction has updated and locked; page and more: the
\* reply; owed: what was open for the agent when the request began (history).
SyncStages == {"idle", "begun", "acknowledged", "touched", "read"}

IdleSync == [stage |-> "idle", agent |-> None, ack |-> {}, limit |-> 0,
             acking |-> {}, page |-> {}, more |-> FALSE, owed |-> {}]

Init ==
    /\ messages = [m \in Seqs |-> NoRow]
    /\ nextSeq = 1
    /\ sentEvents = [m \in Seqs |-> 0]
    /\ ackEvents = [m \in Seqs |-> 0]
    /\ send = [s \in SendSlots |-> IdleSend]
    /\ sync = [s \in SyncSlots |-> IdleSync]
    /\ received = [a \in Agents |-> {}]
    /\ replies = {}

\* One more event of a kind, counted up to JournalCap.
Bump(n) == IF n < JournalCap THEN n + 1 ELSE n

---------------------------------------------------------------------------
\* sendMessage.

\* Authenticate the sender, refuse itself and unknown agents as the target.
\* A refusal (AGENT_AUTH_INVALID, TARGET_AGENT_INVALID) writes no row.
ValidSend(from, to) == from \in Agents /\ to # from /\ to \in Agents

\* The checks, then the start of the INSERT: the sequence default is drawn
\* before the unique index is consulted and is never given back.
SendBegin(s, from, to, key, text) ==
    /\ send[s].stage = "idle"
    /\ nextSeq <= MaxSeq
    /\ ValidSend(from, to)
    /\ send' = [send EXCEPT ![s] = [stage |-> "drawn", from |-> from,
                  to |-> to, key |-> key, text |-> text, seq |-> nextSeq]]
    /\ nextSeq' = nextSeq + 1
    /\ UNCHANGED <<messages, sentEvents, ackEvents, sync, received, replies>>

SameKey(m, q) == messages[m].sender = q.from /\ messages[m].key = q.key

\* Mutant: any message that holds the key is taken for a retry.
SameContentUnchecked(m, q) == TRUE

SameContent(m, q) == messages[m].recipient = q.to /\ messages[m].text = q.text

\* Mutant: no unique index, the INSERT waits for nobody.
InsertUnordered(s) == TRUE

\* INSERT ... ON CONFLICT DO NOTHING waits while another open transaction has
\* inserted the same (sender, key).
InsertMayProceed(s) ==
    \A t \in SendSlots \ {s} :
        ~(/\ send[t].stage = "inserted"
          /\ send[t].from = send[s].from /\ send[t].key = send[s].key)

\* The outcome of the INSERT: a new row, or the row that holds the key, which
\* is returned when it has the same recipient and text.
SendInsert(s) ==
    /\ send[s].stage = "drawn"
    /\ InsertMayProceed(s)
    /\ \/ /\ \A m \in Stored : ~SameKey(m, send[s])
          /\ send' = [send EXCEPT ![s].stage = "inserted"]
       \/ \E m \in Stored :
            /\ SameKey(m, send[s])
            /\ SameContent(m, send[s])
            /\ send' = [send EXCEPT ![s] =
                           [@ EXCEPT !.stage = "duplicate", !.seq = m]]
    /\ UNCHANGED <<messages, nextSeq, sentEvents, ackEvents, sync,
                   received, replies>>

\* IDEMPOTENCY_CONFLICT: the key is taken by another message.
SendConflict(s) ==
    /\ send[s].stage = "drawn"
    /\ InsertMayProceed(s)
    /\ \E m \in Stored : SameKey(m, send[s]) /\ ~SameContent(m, send[s])
    /\ send' = [send EXCEPT ![s] = IdleSend]
    /\ UNCHANGED <<messages, nextSeq, sentEvents, ackEvents, sync,
                   received, replies>>

NewRow(q) == [sender |-> q.from, recipient |-> q.to, key |-> q.key,
              text |-> q.text, acked |-> FALSE]

\* Mutant: ON CONFLICT DO UPDATE, a retry writes the row anew.
PersistUpsert(q) ==
    /\ q.stage \in {"inserted", "duplicate"}
    /\ messages' = [messages EXCEPT ![q.seq] = NewRow(q)]
    /\ UNCHANGED <<sentEvents, ackEvents>>

\* The new row and its message.sent event.
Persist(q) ==
    /\ q.stage = "inserted"
    /\ messages' = [messages EXCEPT ![q.seq] = NewRow(q)]
    /\ sentEvents' = [sentEvents EXCEPT ![q.seq] = Bump(@)]
    /\ UNCHANGED ackEvents

\* The commit; heard says whether the reply arrives. For a retry the journal
\* gets a deduplicated message.sent event, which is not kept here.
SendCommit(s, heard) ==
    LET q == send[s] IN
    /\ \/ Persist(q)
       \/ q.stage = "duplicate" /\ UNCHANGED <<messages, sentEvents, ackEvents>>
    /\ send' = [send EXCEPT ![s] = IdleSend]
    /\ replies' = IF heard
                  THEN replies \cup {[seq |-> q.seq, from |-> q.from,
                         to |-> q.to, key |-> q.key, text |-> q.text]}
                  ELSE replies
    /\ UNCHANGED <<nextSeq, sync, received>>

\* A failed statement or a crash rolls the transaction back.
SendAbort(s) ==
    /\ send[s].stage # "idle"
    /\ send' = [send EXCEPT ![s] = IdleSend]
    /\ UNCHANGED <<messages, nextSeq, sentEvents, ackEvents, sync,
                   received, replies>>

---------------------------------------------------------------------------
\* syncAgent.

\* The message ids a client can name: those in its poll replies and those in
\* the replies to its own sends.
Known(a) == received[a] \cup {r.seq : r \in {q \in replies : q.from = a}}

\* Authenticate the agent, outside the transaction.
SyncBegin(s, a, ack, limit) ==
    /\ sync[s].stage = "idle"
    /\ a \in Agents
    /\ sync' = [sync EXCEPT ![s] =
                  [stage |-> "begun", agent |-> a, ack |-> ack,
                   limit |-> limit, acking |-> {}, page |-> {},
                   more |-> FALSE, owed |-> Open(a)]]
    /\ UNCHANGED <<messages, nextSeq, sentEvents, ackEvents, send,
                   received, replies>>

\* Mutant: the recipient is not compared with the caller.
AcknowledgeableByAnyone(s) == {m \in sync[s].ack \cap Stored : ~messages[m].acked}

\* The WHERE clause of the acknowledging UPDATE.
Acknowledgeable(s) == sync[s].ack \cap Open(sync[s].agent)

\* Mutant: a row that another open transaction has updated is updated again.
RowsUnlocked(s) == TRUE

\* The UPDATE waits for a row another open transaction has updated, then looks
\* at the row again.
RowsFree(s) ==
    \A t \in SyncSlots \ {s} : sync[t].acking \cap Acknowledgeable(s) = {}

\* UPDATE messages SET acknowledged_at.
SyncAcknowledge(s) ==
    /\ sync[s].stage = "begun"
    /\ RowsFree(s)
    /\ sync' = [sync EXCEPT ![s] = [@ EXCEPT !.stage = "acknowledged",
                                            !.acking = Acknowledgeable(s)]]
    /\ UNCHANGED <<messages, nextSeq, sentEvents, ackEvents, send,
                   received, replies>>

\* The agent row is locked from its UPDATE to the end of the transaction.
HoldsAgent(s, a) == sync[s].agent = a /\ sync[s].stage \in {"touched", "read"}

\* Mutant: the agent row is not locked.
AgentRowUnlocked(s) == TRUE

AgentRowFree(s) == \A t \in SyncSlots \ {s} : ~HoldsAgent(t, sync[s].agent)

\* UPDATE agents SET last_seen_at. The time it writes is the subject of
\* Presence.tla; here the update matters for the lock it takes.
SyncTouch(s) ==
    /\ sync[s].stage = "acknowledged"
    /\ AgentRowFree(s)
    /\ sync' = [sync EXCEPT ![s].stage = "touched"]
    /\ UNCHANGED <<messages, nextSeq, sentEvents, ackEvents, send,
                   received, replies>>

\* ORDER BY sequence LIMIT n.
Oldest(S, n) == {m \in S : Cardinality({k \in S : k < m}) < n}

\* What the SELECT of this transaction sees: committed rows and its own update.
Visible(s) == Open(sync[s].agent) \ sync[s].acking

\* Mutant: LIMIT limit, so that has_more is never true.
FetchedNoExtra(s) == Oldest(Visible(s), sync[s].limit)

\* SELECT limit + 1 rows; the extra row only tells has_more.
Fetched(s) == Oldest(Visible(s), sync[s].limit + 1)

\* Mutant: slice(0, limit - 1).
DeliveredShort(s) == Oldest(Fetched(s), sync[s].limit - 1)

\* slice(0, limit).
Delivered(s) == Oldest(Fetched(s), sync[s].limit)

SyncRead(s) ==
    /\ sync[s].stage = "touched"
    /\ sync' = [sync EXCEPT ![s] = [@ EXCEPT !.stage = "read",
                  !.page = Delivered(s),
                  !.more = Cardinality(Fetched(s)) > sync[s].limit]]
    /\ UNCHANGED <<messages, nextSeq, sentEvents, ackEvents, send,
                   received, replies>>

\* One message.acknowledged event per updated row, then commit.
SyncCommit(s, heard) ==
    LET q == sync[s] IN
    /\ q.stage = "read"
    /\ messages' = [m \in Seqs |-> IF m \in q.acking
                      THEN [messages[m] EXCEPT !.acked = TRUE]
                      ELSE messages[m]]
    /\ ackEvents' = [m \in Seqs |-> IF m \in q.acking
                       THEN Bump(ackEvents[m]) ELSE ackEvents[m]]
    /\ received' = IF heard THEN [received EXCEPT ![q.agent] = @ \cup q.page]
                   ELSE received
    /\ sync' = [sync EXCEPT ![s] = IdleSync]
    /\ UNCHANGED <<nextSeq, sentEvents, send, replies>>

SyncAbort(s) ==
    /\ sync[s].stage # "idle"
    /\ sync' = [sync EXCEPT ![s] = IdleSync]
    /\ UNCHANGED <<messages, nextSeq, sentEvents, ackEvents, send,
                   received, replies>>

---------------------------------------------------------------------------
Limits == 1..MaxLimit

SendNext ==
    \E s \in SendSlots :
        \/ \E from, to \in Agents \cup {Stranger}, key \in Keys, text \in Texts :
              SendBegin(s, from, to, key, text)
        \/ SendInsert(s)
        \/ SendConflict(s)
        \/ \E heard \in BOOLEAN : SendCommit(s, heard)
        \/ SendAbort(s)

SyncStep(s) ==
    \/ SyncAcknowledge(s)
    \/ SyncTouch(s)
    \/ SyncRead(s)
    \/ \E heard \in BOOLEAN : SyncCommit(s, heard)
    \/ SyncAbort(s)

Poll(s, a) == \E ack \in SUBSET Known(a), limit \in Limits :
                 SyncBegin(s, a, ack, limit)

SyncNext == \E s \in SyncSlots : SyncStep(s) \/ \E a \in Agents : Poll(s, a)

Next == SendNext \/ SyncNext

Spec == Init /\ [][Next]_vars

---------------------------------------------------------------------------
\* Fairness. The clients of this specification acknowledge in every poll all
\* they have received. Every agent keeps polling, every statement of one of
\* its polls is eventually executed when it is enabled again and again, and
\* not every reply to it is lost: strong fairness, since a failed statement or
\* a lock held by another transaction may disable a step for a while.

DiligentPoll(a) ==
    \E s \in SyncSlots, limit \in Limits : SyncBegin(s, a, received[a], limit)

DiligentNext ==
    SendNext \/ (\E s \in SyncSlots : SyncStep(s))
             \/ \E a \in Agents : DiligentPoll(a)

OfAgent(s, a) == sync[s].agent = a

Fairness ==
    \A a \in Agents :
        /\ SF_vars(DiligentPoll(a))
        /\ SF_vars(\E s \in SyncSlots : OfAgent(s, a) /\ SyncAcknowledge(s))
        /\ SF_vars(\E s \in SyncSlots : OfAgent(s, a) /\ SyncTouch(s))
        /\ SF_vars(\E s \in SyncSlots : OfAgent(s, a) /\ SyncRead(s))
        /\ SF_vars(\E s \in SyncSlots : OfAgent(s, a) /\ SyncCommit(s, TRUE))

FairSpec == Init /\ [][DiligentNext]_vars /\ Fairness

---------------------------------------------------------------------------
\* Properties.

SendTxn == [stage : SendStages, from : Agents \cup {None},
            to : Agents \cup {None}, key : Keys \cup {None},
            text : Texts \cup {None}, seq : 0..MaxSeq]

SyncTxn == [stage : SyncStages, agent : Agents \cup {None},
            ack : SUBSET Seqs, limit : 0..MaxLimit,
            acking : SUBSET Seqs, page : SUBSET Seqs, more : BOOLEAN,
            owed : SUBSET Seqs]

Reply == [seq : Seqs, from : Agents, to : Agents, key : Keys, text : Texts]

\* Every variable has the shape the tables, requests and replies give it.
TypeOK ==
    /\ messages \in [Seqs -> Row \cup {NoRow}]
    /\ nextSeq \in 1..(MaxSeq + 1)
    /\ sentEvents \in [Seqs -> 0..JournalCap]
    /\ ackEvents \in [Seqs -> 0..JournalCap]
    /\ send \in [SendSlots -> SendTxn]
    /\ sync \in [SyncSlots -> SyncTxn]
    /\ received \in [Agents -> SUBSET Seqs]
    /\ replies \subseteq Reply

\* However sends of one key race, fail and are retried, at most one message of
\* a sender carries an idempotency key (sendMessage, ON CONFLICT DO NOTHING).
OneMessagePerKey ==
    \A m, n \in Stored :
        (/\ messages[m].sender = messages[n].sender
         /\ messages[m].key = messages[n].key) => m = n

\* A send reply, fresh or deduplicated, always names a stored message with
\* exactly the recipient and text that this client asked to send
\* (IDEMPOTENCY_CONFLICT otherwise).
RepliesHonest ==
    \A r \in replies :
        /\ r.seq \in Stored
        /\ messages[r.seq].sender = r.from /\ messages[r.seq].key = r.key
        /\ messages[r.seq].recipient = r.to /\ messages[r.seq].text = r.text

\* No message is lost: it stops being offered only after its recipient has had
\* it in a reply, whatever ids other agents put in their acknowledge list.
AckedWasReceived ==
    \A m \in Stored :
        messages[m].acked => m \in received[messages[m].recipient]

\* A poll that is about to reply hands out no message it acknowledges itself
\* and none that a concurrent poll of the same agent has acknowledged
\* meanwhile: the update of the agent row serialises the reads of one agent's
\* polls.
PageIsOpen ==
    \A s \in SyncSlots : sync[s].stage = "read" =>
        sync[s].page \subseteq Open(sync[s].agent) \ sync[s].acking

\* The journal agrees with the messages table: one message.sent event that is
\* not deduplicated per stored message, one message.acknowledged event per
\* acknowledged message, none for work that was rolled back, even when two
\* polls acknowledge the same message at once.
JournalExact ==
    \A m \in Seqs :
        /\ sentEvents[m] = IF m \in Stored THEN 1 ELSE 0
        /\ ackEvents[m] = IF m \in Stored /\ messages[m].acked THEN 1 ELSE 0

\* What was open for the agent when its poll began is in the reply, was
\* acknowledged since, or is announced: has_more is true and the whole page is
\* older. A message whose transaction committed late, below sequence numbers
\* already delivered, is therefore not skipped.
NothingSkipped ==
    \A s \in SyncSlots : sync[s].stage = "read" =>
        \A m \in sync[s].owed :
            \/ m \in sync[s].page
            \/ m \in sync[s].acking
            \/ messages[m].acked
            \/ sync[s].more /\ \A k \in sync[s].page : k < m

\* Every stored message is eventually in a poll reply its recipient gets.
EventuallyReceived ==
    \A m \in Seqs : \A a \in Agents :
        (m \in Stored /\ messages[m].recipient = a) ~> (m \in received[a])

Abstract == INSTANCE Inbox WITH
    Ids <- Seqs,
    posted <- {[id |-> m, sender |-> messages[m].sender,
                recipient |-> messages[m].recipient, key |-> messages[m].key,
                text |-> messages[m].text] : m \in Stored},
    acknowledged <- {m \in Stored : messages[m].acked}

\* The transactions implement the at-least-once inbox of Inbox.tla: stored
\* messages never change, disappear or reopen, and are acknowledged only by a
\* recipient that got them.
ImplementsInbox == Abstract!InboxSpec
=============================================================================
