----------------------------- MODULE FactStore ------------------------------
(***************************************************************************)
(* What the blackboard promises its agents, without transactions or locks: *)
(* between a call and its reply there is one moment at which the mutation  *)
(* asked for happens whole, on the row that is there at that moment, with  *)
(* its entry in the journal; a conditional write happens only when that    *)
(* row has the version expected.                                           *)
(***************************************************************************)
EXTENDS Naturals

CONSTANTS Keys, Agents, Writes, Nothing

VARIABLES
    fact,     \* the facts that are there
    shown,    \* per agent and key the fact it was last shown
    wish,     \* the mutation each agent has asked for
    journal   \* <<key, version, write>>, and <<key, version, Nothing>> of a deletion

storeVars == <<fact, shown, wish, journal>>

NoFact == [version |-> 0, write |-> Nothing, life |-> "lasting"]

NoWish == [op |-> "none", key |-> Nothing, version |-> 0, write |-> Nothing, life |-> "lasting"]

StoreInit ==
    /\ fact = [k \in Keys |-> NoFact]
    /\ shown = [a \in Agents |-> [k \in Keys |-> NoFact]]
    /\ wish = [a \in Agents |-> NoWish]
    /\ journal = {}

\* A fact that is there, and has not expired, is shown as it is.
Look(a, k) ==
    /\ wish[a] = NoWish
    /\ LET there == fact[k].version > 0 /\ fact[k].life # "expired"
       IN  shown' = [shown EXCEPT ![a][k] = IF there THEN fact[k] ELSE NoFact]
    /\ UNCHANGED <<fact, wish, journal>>

WishSet(a, k) ==
    \E w \in Writes, life \in {"lasting", "temporary"} :
        wish' = [wish EXCEPT ![a] =
                    [op |-> "set", key |-> k, version |-> 0, write |-> w, life |-> life]]

\* The version expected is that of a fact the agent was shown.
WishCas(a, k) ==
    \E w \in Writes, life \in {"lasting", "temporary"} :
        /\ shown[a][k].version > 0
        /\ wish' = [wish EXCEPT ![a] =
                       [op |-> "cas", key |-> k, version |-> shown[a][k].version,
                        write |-> w, life |-> life]]

WishDelete(a, k) ==
    wish' = [wish EXCEPT ![a] =
                [op |-> "delete", key |-> k, version |-> 0, write |-> Nothing,
                 life |-> "lasting"]]

Ask(a, k) ==
    /\ wish[a] = NoWish
    /\ WishSet(a, k) \/ WishCas(a, k) \/ WishDelete(a, k)
    /\ UNCHANGED <<fact, shown, journal>>

\* The reply shows the agent the fact it wrote, or gets lost.
Grant(a) ==
    LET q == wish[a]
        old == fact[q.key]
        new == IF q.op = "delete" THEN NoFact
               ELSE [version |-> old.version + 1, write |-> q.write, life |-> q.life]
        named == IF q.op = "delete" THEN old.version ELSE new.version
    IN  /\ q # NoWish
        /\ q.op = "cas" => old.version = q.version
        /\ q.op = "delete" => old.version > 0
        /\ fact' = [fact EXCEPT ![q.key] = new]
        /\ journal' = journal \cup {<<q.key, named, new.write>>}
        /\ shown' \in {shown, [shown EXCEPT ![a][q.key] = new]}
        /\ wish' = [wish EXCEPT ![a] = NoWish]

Refuse(a) ==
    /\ wish' = [wish EXCEPT ![a] = NoWish]
    /\ UNCHANGED <<fact, shown, journal>>

Age(k) ==
    /\ fact[k].life = "temporary"
    /\ fact' = [fact EXCEPT ![k].life = "expired"]
    /\ UNCHANGED <<shown, wish, journal>>

StoreNext ==
    \/ \E a \in Agents, k \in Keys : Look(a, k) \/ Ask(a, k)
    \/ \E a \in Agents : Grant(a) \/ Refuse(a)
    \/ \E k \in Keys : Age(k)

StoreSpec == StoreInit /\ [][StoreNext]_storeVars
=============================================================================
