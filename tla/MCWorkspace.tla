----------------------------- MODULE MCWorkspace ----------------------------
(***************************************************************************)
(* Workspace on small instances: two subjects whose names differ, and the  *)
(* neighbourhoods in which the tab moves.                                  *)
(***************************************************************************)
EXTENDS Workspace, TLC

\* A subject's name tells it from the other.
OwnName == [i \in Ids |-> i]

WorkspaceSymmetry == Permutations(Ids)

\* Pages among which the tab moves.
Neighbourhoods ==
    {{"landing", "users", "user"}, {"settings", "projects"}, {"overview", "connections"},
     {"pulse", "landing"}, {"invite", "overview", "projects"}}

OnlyIf(condition, near, pages) == condition => near \cap pages # {}

Orphans == {i \in 1 .. Len(tab.asks) : tab.asks[i].owner # "mounted"}

\* The states whose successors are looked at.
Scope ==
    /\ \E near \in Neighbourhoods :
         /\ tab.page \in near
         /\ \A i \in 1 .. Len(tab.asks) : tab.asks[i].page \in near
         /\ server.operator <=> near \cap Ops # {}
         /\ (\A i \in Ids : server.projects[i] = "absent") <=> near \cap Ops # {}
         /\ OnlyIf(server.trips > 0, near, {"landing"})
         /\ OnlyIf(\E i \in Ids : server.projects[i] = "absent", near, {"overview", "user"})
         /\ OnlyIf(tab.view.create # "closed", near, {"overview"})
         /\ OnlyIf(Orphans # {}, near, {"overview", "landing"})
    /\ Cardinality(Orphans) <= 1 /\ Len(tab.asks) <= 3
=============================================================================
