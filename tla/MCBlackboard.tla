---------------------------- MODULE MCBlackboard ----------------------------
(***************************************************************************)
(* Blackboard on small instances.                                          *)
(***************************************************************************)
EXTENDS Blackboard, TLC

\* Agents, keys and written values are interchangeable.
BlackboardSymmetry ==
    Permutations(Keys) \cup Permutations(Agents) \cup Permutations(Writes)
=============================================================================
