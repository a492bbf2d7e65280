----------------------------- MODULE Guestlist -----------------------------
(***************************************************************************)
(* What the invitations of a project promise, without transactions: an     *)
(* invitation admits at most one guest, who was neither owner nor guest,   *)
(* and nobody once it is withdrawn; guests leave only by being removed or  *)
(* with the project.                                                       *)
(***************************************************************************)
CONSTANTS People, Owner, Invitations

VARIABLES guests,  \* who may read the project besides its owner
          used,    \* pairs of a used invitation and its guest
          issued,  \* invitations handed out
          closed   \* the project is deleted

guestVars == <<guests, used, issued, closed>>

GuestInit == guests = {} /\ used = {} /\ issued = {} /\ closed = FALSE

Invite(i) ==
    /\ ~closed
    /\ issued' = issued \cup {i}
    /\ UNCHANGED <<guests, used, closed>>

Join(i, p) ==
    /\ ~closed /\ i \in issued
    /\ p # Owner /\ p \notin guests
    /\ \A x \in People : <<i, x>> \notin used
    /\ guests' = guests \cup {p}
    /\ used' = used \cup {<<i, p>>}
    /\ UNCHANGED <<issued, closed>>

\* A withdrawn invitation is not issued any more.
Withdraw(i) ==
    /\ \A x \in People : <<i, x>> \notin used
    /\ issued' = issued \ {i}
    /\ UNCHANGED <<guests, used, closed>>

Remove(p) ==
    /\ guests' = guests \ {p}
    /\ UNCHANGED <<used, issued, closed>>

Close ==
    /\ closed' = TRUE /\ guests' = {} /\ issued' = {}
    /\ UNCHANGED used

GuestNext ==
    \/ \E i \in Invitations : Invite(i) \/ Withdraw(i)
    \/ \E i \in Invitations, p \in People : Join(i, p)
    \/ \E p \in People : Remove(p)
    \/ Close

GuestSpec == GuestInit /\ [][GuestNext]_guestVars
=============================================================================
