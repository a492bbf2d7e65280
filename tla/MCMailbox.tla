----------------------------- MODULE MCMailbox -----------------------------
(* Small instances of Mailbox for TLC. Slots, keys and agents are           *)
(* interchangeable in every safety property; the liveness run uses no       *)
(* symmetry.                                                                *)
EXTENDS Mailbox, TLC

MailboxSymmetry ==
    Permutations(SendSlots) \cup Permutations(SyncSlots)
        \cup Permutations(Agents) \cup Permutations(Keys)
            \cup Permutations(Texts)
=============================================================================
