------------------------------ MODULE MCAccess ------------------------------
(***************************************************************************)
(* Access on small instances.                                              *)
(***************************************************************************)
EXTENDS Access, TLC

\* Users, projects, tokens, keys and slots are interchangeable.
AccessSymmetry == Permutations(Users) \cup Permutations(Projects)
                  \cup Permutations(Tokens) \cup Permutations(Keys)
                  \cup Permutations(Slots)
=============================================================================
