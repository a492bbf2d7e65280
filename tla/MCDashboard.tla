---------------------------- MODULE MCDashboard -----------------------------
(***************************************************************************)
(* Dashboard on small instances.                                           *)
(***************************************************************************)
EXTENDS Dashboard, TLC

\* The slots of loads and polls are interchangeable.
DashboardSymmetry == Permutations(Ops)

\* Bound on events and messages together: three of one kind are enough for one
\* that is committed between two others, with one of the other kind beside them.
Scope == drawn + numbered <= 4
=============================================================================
