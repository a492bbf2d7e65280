----------------------------- MODULE Blackboard -----------------------------
(***************************************************************************)
(* Shared facts of one project: setFact, getFacts and deleteFact of        *)
(* blackboard/service.ts, called by agents that remember the last version  *)
(* of a fact they were shown and may write conditionally on it.            *)
(*                                                                         *)
(* A mutation is one statement and a commit.  Between the two the row, or  *)
(* the index entry of the row inserted, is locked: other statements on the *)
(* same key wait and then look at the committed row again.  deleteFact has *)
(* no MCP tool, but the service exports it.                                *)
(***************************************************************************)
EXTENDS Naturals, FiniteSets

CONSTANTS
    Keys,        \* (namespace, key)
    Agents,      \* each has one call open at a time
    Writes,      \* what is written; every call writes something of its own
    MaxVersion,  \* bound
    Nothing

ASSUME BlackboardAssumption ==
    /\ Nothing \notin Writes \cup Keys
    /\ MaxVersion \in Nat \ {0}

VARIABLES
    fact,     \* the blackboard_entries rows
    shown,    \* per agent and key the row it was last shown
    calls,    \* the open call of each agent
    journal   \* <<key, version, write>> of every blackboard.fact_set event, and
              \* <<key, version, Nothing>> of every blackboard.fact_deleted event

boardVars == <<fact, shown, calls, journal>>

\* A key without a row has version 0; a fact may have a TTL, and outlive it.
NoRow == [version |-> 0, write |-> Nothing, life |-> "lasting"]

Row == [version : 0 .. MaxVersion, write : Writes \cup {Nothing},
        life : {"lasting", "temporary", "expired"}]

NoCall == [op |-> "none", stage |-> "idle", key |-> Nothing, base |-> NoRow, next |-> NoRow]

BoardInit ==
    /\ fact = [k \in Keys |-> NoRow]
    /\ shown = [a \in Agents |-> [k \in Keys |-> NoRow]]
    /\ calls = [a \in Agents |-> NoCall]
    /\ journal = {}

---------------------------------------------------------------------------
\* getFacts: expired facts are not returned.

Visible(k) == fact[k].version > 0 /\ fact[k].life # "expired"

GetFact(a, k) ==
    /\ calls[a].stage = "idle"
    /\ shown' = [shown EXCEPT ![a][k] = IF Visible(k) THEN fact[k] ELSE NoRow]
    /\ UNCHANGED <<fact, calls, journal>>

---------------------------------------------------------------------------
\* setFact and deleteFact.

Fresh == {w \in Writes :
    /\ \A a \in Agents : calls[a].next.write # w
    /\ \A e \in journal : e[3] # w}

\* base is the row whose version the caller expects; next what it writes.
Begin(a, k) ==
    /\ calls[a].stage = "idle"
    /\ \E op \in {"set", "cas", "delete"} :
       \E w \in Fresh, life \in {"lasting", "temporary"} :
         /\ op = "cas" => shown[a][k].version > 0
         /\ calls' = [calls EXCEPT ![a] =
              [op |-> op, stage |-> "begun", key |-> k,
               base |-> IF op = "cas" THEN shown[a][k] ELSE NoRow,
               next |-> IF op = "delete" THEN NoRow
                        ELSE [version |-> 0, write |-> w, life |-> life]]]
    /\ UNCHANGED <<fact, shown, journal>>

HoldsKey(a, k) == calls[a].stage = "written" /\ calls[a].key = k

\* Mutant: the version is read before, without waiting for the row.
KeyUnlocked(a, k) == TRUE

KeyFree(a, k) == \A b \in Agents \ {a} : ~HoldsKey(b, k)

\* Mutant: expected_version is a lower bound.
MatchesAtLeast(q) ==
    /\ q.op = "cas" => fact[q.key].version >= q.base.version
    /\ q.op = "delete" => fact[q.key].version > 0

\* A conditional update needs the expected version, a delete a row; else the
\* call ends with VERSION_CONFLICT, or with nothing deleted (AbortCall).
Matches(q) ==
    /\ q.op = "cas" => fact[q.key].version = q.base.version
    /\ q.op = "delete" => fact[q.key].version > 0

\* The insert writes version 1, every update the next one.
Bump(q) == fact[q.key].version + 1

Write(a) ==
    LET q == calls[a] IN
    /\ q.stage = "begun"
    /\ KeyFree(a, q.key)
    /\ Matches(q)
    /\ q.op # "delete" => Bump(q) <= MaxVersion
    /\ calls' = [calls EXCEPT ![a].stage = "written",
                              ![a].next.version = IF q.op = "delete" THEN 0 ELSE Bump(q)]
    /\ UNCHANGED <<fact, shown, journal>>

\* The event recorded in the same transaction; a delete names the version gone.
Journalled(q) ==
    IF q.op = "delete"
    THEN {<<q.key, fact[q.key].version, Nothing>>}
    ELSE {<<q.key, q.next.version, q.next.write>>}

\* The reply, which may get lost, shows the caller the row it wrote.
Commit(a) ==
    LET q == calls[a] IN
    /\ q.stage = "written"
    /\ fact' = [fact EXCEPT ![q.key] = q.next]
    /\ journal' = journal \cup Journalled(q)
    /\ shown' \in {shown, [shown EXCEPT ![a][q.key] = q.next]}
    /\ calls' = [calls EXCEPT ![a] = NoCall]

\* VERSION_CONFLICT, any other failure, a crash.
AbortCall(a) ==
    /\ calls[a].stage # "idle"
    /\ calls' = [calls EXCEPT ![a] = NoCall]
    /\ UNCHANGED <<fact, shown, journal>>

\* Time passes the expires_at of a row.
Expire(k) ==
    /\ fact[k].life = "temporary"
    /\ fact' = [fact EXCEPT ![k].life = "expired"]
    /\ UNCHANGED <<shown, calls, journal>>

BoardNext ==
    \/ \E a \in Agents, k \in Keys : GetFact(a, k) \/ Begin(a, k)
    \/ \E a \in Agents : Write(a) \/ Commit(a) \/ AbortCall(a)
    \/ \E k \in Keys : Expire(k)

BoardSpec == BoardInit /\ [][BoardNext]_boardVars

---------------------------------------------------------------------------
\* Properties.

\* Every variable has the shape the table and the calls give it.
BoardTypeOK ==
    /\ fact \in [Keys -> Row]
    /\ shown \in [Agents -> [Keys -> Row]]
    /\ calls \in [Agents -> [op : {"none", "set", "cas", "delete"},
                             stage : {"idle", "begun", "written"},
                             key : Keys \cup {Nothing}, base : Row, next : Row]]
    /\ journal \subseteq Keys \X (1 .. MaxVersion) \X (Writes \cup {Nothing})

\* The journal tells that a fact was deleted.
EverDeleted(k) == \E e \in journal : e[1] = k /\ e[3] = Nothing

\* As long as a fact is never deleted, a version of it names one value for good:
\* racing upserts and conditional updates never write the same version twice, and
\* the journal tells of the row that is there.
VersionNamesOneValue ==
    /\ \A e, f \in journal :
         e[1] = f[1] /\ e[2] = f[2] /\ ~EverDeleted(e[1]) => e = f
    /\ \A k \in Keys : fact[k].version > 0 =>
         <<k, fact[k].version, fact[k].write>> \in journal

\* A conditional write that goes through replaces the very value its caller was
\* shown, never a newer one, unless the fact was ever deleted (its versions then
\* start again at one, and can come to name another value).
NoStaleOverwrite ==
    \A a \in Agents :
        calls[a].stage = "written" /\ calls[a].op = "cas" /\ ~EverDeleted(calls[a].key) =>
            fact[calls[a].key].write = calls[a].base.write

\* The mutation that a call asks for.
Wish(q) ==
    [op |-> q.op, key |-> q.key, version |-> q.base.version,
     write |-> q.next.write, life |-> q.next.life]

Store == INSTANCE FactStore WITH wish <- [a \in Agents |-> Wish(calls[a])]

\* The locking statements implement the atomic store of FactStore.tla: however the
\* calls of racing agents overlap, each mutation that commits happens as if at one
\* moment, on the row then there, and a conditional one only on the version it
\* expects (setFact's on-conflict upsert and versioned update, deleteFact).
ImplementsFactStore == Store!StoreSpec
=============================================================================
