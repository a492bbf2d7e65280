---------------------------- MODULE MCWebSession ----------------------------
(***************************************************************************)
(* WebSession on small instances.  Five minutes, seven days and thirty     *)
(* days become a few ticks that keep their order and let a session be      *)
(* touched, idle out and reach its absolute end within the bound.          *)
(***************************************************************************)
EXTENDS WebSession, TLC

\* Users, sessions, attempts and slots are interchangeable.
WebSessionSymmetry ==
    Permutations(Users) \cup Permutations(SessionIds)
    \cup Permutations(Attempts) \cup Permutations(Slots)

Only(ops) == \A s \in Slots : req[s].op \in ops \cup {None}

Started == {a \in Attempts : attempt[a].state # "unused"}

\* Logins and blockings of all users, while the clock stands still.
LoginScope == now = 0 /\ Only({"login", "block", "unblock"})

\* Whatever can happen to one session of one user, while the clock runs.
UseScope ==
    /\ Cardinality(Created) <= 1 /\ Cardinality(known) <= 1
    /\ Cardinality(Started) <= 1

\* A reauthentication of that session beside a call that touches it, while the
\* clock runs; the successor is the last thing that happens.
RotationScope ==
    /\ now <= 2 /\ Only({"login", "call"})
    /\ Cardinality(Created) <= 1 /\ Cardinality(known) <= 1
    /\ Cardinality(Started) <= 2

\* The states whose successors are looked at.
Scope == LoginScope \/ UseScope \/ RotationScope
=============================================================================
