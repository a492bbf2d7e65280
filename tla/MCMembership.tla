---------------------------- MODULE MCMembership ----------------------------
(***************************************************************************)
(* Membership on a small instance: the owner and two recipients.           *)
(***************************************************************************)
EXTENDS Membership, TLC

\* The recipients, the invitations and the slots are interchangeable.
MembershipSymmetry == Permutations(Users \ {Owner}) \cup Permutations(Invitations)
                      \cup Permutations(Slots)
=============================================================================
