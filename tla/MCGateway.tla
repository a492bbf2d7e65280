----------------------------- MODULE MCGateway ------------------------------
(***************************************************************************)
(* Gateway on small instances: every limit is two requests, ten minutes    *)
(* and a minute are one tick, an hour is two.                              *)
(***************************************************************************)
EXTENDS Gateway, TLC

TwoEach == [g \in Groups |-> 2]

Windows == [g \in Groups |-> IF g = "connection-create" THEN 2 ELSE 1]

\* Slots and sessions are interchangeable.
GatewaySymmetry == Permutations(Slots) \cup Permutations(Sessions)

Only(routes) == \A s \in Slots : call[s].route \in routes \cup {None}

Still == now = 0 /\ database.turns = 0

\* Connections are created while the clock runs.
LimitScope ==
    /\ Only({"connect"}) /\ alive = Credentials /\ calls <= 4
    /\ \A s \in Slots : call[s].reply \in {None, "ok", "limited"}
    /\ \A x \in Sessions : csrf[x] = 0
    /\ database.turns = 0 /\ process.signals = {}
    /\ \A k \in DOMAIN count : k[1] \in {"owner-mutation", "connection-create"}

\* Any two requests, while credentials end and the process is told to stop.
ServeScope ==
    /\ Still /\ Only(Routes \ {"ready"})
    /\ calls <= IF process.signals = {} THEN 2 ELSE 1

\* Readiness, while the database comes and goes and the process is told to stop.
ReadyScope == now = 0 /\ Only({"ready"}) /\ alive = Credentials /\ calls <= 4

\* The states whose successors are looked at.
Scope == LimitScope \/ ServeScope \/ ReadyScope
=============================================================================
