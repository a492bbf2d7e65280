------------------------------- MODULE Inbox -------------------------------
(***************************************************************************)
(* What the mailbox of one AgentMesh project promises to the agents that   *)
(* use it, with no transactions, locks or sequence allocation:             *)
(*   - a letter is posted once per (sender, idempotency key) and then      *)
(*     neither changes nor disappears;                                     *)
(*   - a letter is handed to its recipient again and again until that      *)
(*     recipient, having received it, acknowledges it; after that it is    *)
(*     never handed out again.                                             *)
(* Mailbox.tla is shown to implement this specification.                   *)
(***************************************************************************)
CONSTANTS Agents,     \* the registered agents of the project
          Ids,        \* message identities
          Keys,       \* idempotency keys
          Texts       \* message bodies

VARIABLES posted,        \* the letters stored so far
          acknowledged,  \* ids of the letters their recipient acknowledged
          received       \* per agent, ids of the letters handed to it

inboxVars == <<posted, acknowledged, received>>

Letter == [id : Ids, sender : Agents, recipient : Agents,
           key : Keys, text : Texts]

InboxInit ==
    /\ posted = {}
    /\ acknowledged = {}
    /\ received = [a \in Agents |-> {}]

Addressed(a) == {l.id : l \in {m \in posted : m.recipient = a}}

Post(l) ==
    /\ l.sender # l.recipient
    /\ \A m \in posted : m.id # l.id /\ <<m.sender, m.key>> # <<l.sender, l.key>>
    /\ posted' = posted \cup {l}
    /\ UNCHANGED <<acknowledged, received>>

\* One poll of agent a: it acknowledges letters it has received and is handed
\* a page of the letters still open after that, which the network may lose.
Exchange(a, acks, page) ==
    /\ acks \subseteq (received[a] \cap Addressed(a)) \ acknowledged
    /\ page \subseteq Addressed(a) \ (acknowledged \cup acks)
    /\ acknowledged' = acknowledged \cup acks
    /\ received' \in {received, [received EXCEPT ![a] = @ \cup page]}
    /\ UNCHANGED posted

InboxNext ==
    \/ \E l \in Letter : Post(l)
    \/ \E a \in Agents, acks, page \in SUBSET Ids : Exchange(a, acks, page)

InboxSpec == InboxInit /\ [][InboxNext]_inboxVars
=============================================================================
