----------------------------- MODULE MCPresence -----------------------------
(***************************************************************************)
(* Presence on a small instance.  Five and thirty minutes become two and   *)
(* three ticks, the life of a call one.                                    *)
(***************************************************************************)
EXTENDS Presence, TLC

\* Identifiers, profiles and slots are interchangeable.
PresenceSymmetry ==
    Permutations(Sessions) \cup Permutations(Profiles) \cup Permutations(AgentIds)
    \cup Permutations(ReportIds) \cup Permutations(Slots)
=============================================================================
