----------------------------- MODULE Membership -----------------------------
(***************************************************************************)
(* Viewer invitations of one project: createInvitation, redeem,            *)
(* revokeInvitation and removeViewer of control/membership-service.ts,     *)
(* with the deletion of the project (control/project-service.ts), as       *)
(* READ COMMITTED transactions whose statements interleave.                *)
(*                                                                         *)
(* - The owner's requests lock the project row and then write; redeem      *)
(*   locks the invitation row, reads, and needs the project row only for   *)
(*   the foreign key of the membership it inserts (KEY SHARE).             *)
(* - The clock is read once, before the transaction: timely says that the  *)
(*   invitation had not expired then.                                      *)
(* - Abort stands for a refusal, a failure, a lost connection and for the  *)
(*   victim of a deadlock: an owner's request that holds the project and   *)
(*   a redemption that holds the invitation may wait for each other.       *)
(* - capture only reads, and everything it reads redeem reads again.       *)
(***************************************************************************)
EXTENDS FiniteSets

CONSTANTS Users, Owner, Invitations, Slots, None

ASSUME MembershipAssumption == Owner \in Users /\ None \notin Users

VARIABLES
    exists,      \* the project row
    role,        \* project_memberships.role per user
    invitation,  \* per invitation: unused id, pending, redeemed, revoked, gone
    redeemedBy,  \* project_invitations.redeemed_by
    expired,     \* invitations whose expires_at has passed
    req,         \* the request in each slot
    joined       \* history: <<invitation, user>> of every committed redemption

tables == <<exists, role, invitation, redeemedBy>>
vars == <<tables, expired, req, joined>>

Idle == [op |-> None, stage |-> "idle", user |-> None, inv |-> None,
         timely |-> FALSE]

Init ==
    /\ exists = TRUE
    /\ role = [u \in Users |-> IF u = Owner THEN "owner" ELSE "none"]
    /\ invitation = [i \in Invitations |-> "unused"]
    /\ redeemedBy = [i \in Invitations |-> None]
    /\ expired = {}
    /\ req = [s \in Slots |-> Idle]
    /\ joined = {}

---------------------------------------------------------------------------
\* Requests: the user of a redeem is its recipient, of a remove the viewer.

OwnerOps == {"create", "revoke", "remove", "delete"}

OwnerRequest(op, u, i) ==
    [op |-> op, stage |-> "begun", user |-> IF op = "remove" THEN u ELSE None,
     inv |-> IF op = "revoke" THEN i ELSE None, timely |-> i \notin expired]

RedeemRequest(u, i) ==
    [op |-> "redeem", stage |-> "begun", user |-> u, inv |-> i,
     timely |-> i \notin expired]

\* A link, or the id of an invitation, is known once it exists.
Begin(s) ==
    /\ req[s].stage = "idle"
    /\ \E u \in Users, i \in Invitations :
         \/ \E op \in OwnerOps :
              /\ op = "revoke" => invitation[i] # "unused"
              /\ req' = [req EXCEPT ![s] = OwnerRequest(op, u, i)]
         \/ /\ invitation[i] # "unused"
            /\ req' = [req EXCEPT ![s] = RedeemRequest(u, i)]
    /\ UNCHANGED <<tables, expired, joined>>

\* Locks.
HoldsProject(s) == req[s].op \in OwnerOps /\ req[s].stage = "project"

SharesProject(s) == req[s].op = "redeem" /\ req[s].stage = "inserted"

HoldsInvitation(s, i) ==
    /\ req[s].op = "redeem" /\ req[s].inv = i
    /\ req[s].stage \in {"locked", "checked", "inserted"}

\* Mutant: neither the SELECT nor the UPDATE waits for the row.
InvitationUnlocked(s, i) == TRUE

InvitationFree(s, i) == \A r \in Slots \ {s} : ~HoldsInvitation(r, i)

Pending(q) == invitation[q.inv] = "pending" /\ q.timely

Advance(s, from, to) ==
    /\ req[s].stage = from
    /\ req' = [req EXCEPT ![s].stage = to]
    /\ UNCHANGED <<tables, expired, joined>>

---------------------------------------------------------------------------
\* redeem.

RedeemLock(s) ==
    /\ req[s].op = "redeem"
    /\ Advance(s, "begun", "locked")
    /\ InvitationFree(s, req[s].inv) /\ Pending(req[s])

\* Neither a member nor the owner (ALREADY_MEMBER), read without a lock.
RedeemCheck(s) ==
    /\ Advance(s, "locked", "checked")
    /\ role[req[s].user] = "none"

\* Mutant: ON CONFLICT DO NOTHING on the membership.
InsertIgnored(s) == TRUE

\* The unique index on (project, user): wait for an insert of the same pair in
\* another open transaction, then fail (23505) if the pair is there.
MemberInsertable(s) ==
    /\ role[req[s].user] = "none"
    /\ \A r \in Slots \ {s} : ~(SharesProject(r) /\ req[r].user = req[s].user)

\* The conditional UPDATE and the INSERT of the membership.
RedeemInsert(s) ==
    /\ Advance(s, "checked", "inserted")
    /\ InvitationFree(s, req[s].inv) /\ Pending(req[s])
    /\ MemberInsertable(s)
    /\ exists /\ \A r \in Slots \ {s} : ~HoldsProject(r)

RedeemCommit(s) ==
    LET q == req[s] IN
    /\ q.op = "redeem" /\ q.stage = "inserted"
    /\ invitation' = [invitation EXCEPT ![q.inv] = "redeemed"]
    /\ redeemedBy' = [redeemedBy EXCEPT ![q.inv] = q.user]
    /\ role' = [role EXCEPT ![q.user] = "viewer"]
    /\ joined' = joined \cup {<<q.inv, q.user>>}
    /\ req' = [req EXCEPT ![s] = Idle]
    /\ UNCHANGED <<exists, expired>>

---------------------------------------------------------------------------
\* The owner's requests.

\* requireOwner with lock, and deleteProject's own SELECT ... FOR UPDATE.
LockProject(s) ==
    /\ req[s].op \in OwnerOps
    /\ Advance(s, "begun", "project")
    /\ exists
    /\ \A r \in Slots \ {s} : ~HoldsProject(r) /\ ~SharesProject(r)

Commits(s, op) ==
    /\ req[s].op = op /\ req[s].stage = "project"
    /\ req' = [req EXCEPT ![s] = Idle]
    /\ UNCHANGED <<expired, joined>>

CreateInvitation(s) ==
    /\ Commits(s, "create")
    /\ \E i \in Invitations :
         /\ invitation[i] = "unused"
         /\ invitation' = [invitation EXCEPT ![i] = "pending"]
    /\ UNCHANGED <<exists, role, redeemedBy>>

Revocable(q) == Pending(q)

\* The UPDATE waits for a redemption that has locked the row.
RevokeInvitation(s) ==
    /\ Commits(s, "revoke")
    /\ InvitationFree(s, req[s].inv) /\ Revocable(req[s])
    /\ invitation' = [invitation EXCEPT ![req[s].inv] = "revoked"]
    /\ UNCHANGED <<exists, role, redeemedBy>>

\* Mutant: the DELETE names no role.
RemovableMember(u) == role[u] # "none"

Removable(u) == role[u] = "viewer"

RemoveViewer(s) ==
    /\ Commits(s, "remove")
    /\ Removable(req[s].user)
    /\ role' = [role EXCEPT ![req[s].user] = "none"]
    /\ UNCHANGED <<exists, invitation, redeemedBy>>

\* The cascade waits for every invitation row that is locked.
DeleteProject(s) ==
    /\ Commits(s, "delete")
    /\ \A i \in Invitations : InvitationFree(s, i)
    /\ exists' = FALSE
    /\ role' = [u \in Users |-> "none"]
    /\ invitation' = [i \in Invitations |->
          IF invitation[i] = "unused" THEN "unused" ELSE "gone"]
    /\ redeemedBy' = [i \in Invitations |-> None]

---------------------------------------------------------------------------
Abort(s) ==
    /\ req[s].stage # "idle"
    /\ req' = [req EXCEPT ![s] = Idle]
    /\ UNCHANGED <<tables, expired, joined>>

Expire ==
    /\ \E i \in Invitations : invitation[i] # "unused" /\ expired' = expired \cup {i}
    /\ UNCHANGED <<tables, req, joined>>

Step(s) ==
    \/ Begin(s)
    \/ RedeemLock(s) \/ RedeemCheck(s) \/ RedeemInsert(s) \/ RedeemCommit(s)
    \/ LockProject(s) \/ CreateInvitation(s) \/ RevokeInvitation(s)
    \/ RemoveViewer(s) \/ DeleteProject(s)
    \/ Abort(s)

Next == (\E s \in Slots : Step(s)) \/ Expire

Spec == Init /\ [][Next]_vars

---------------------------------------------------------------------------
\* Properties.

\* Every variable has the shape the tables and requests give it, and a row names
\* the user it was redeemed by exactly when it is redeemed and not revoked.
TypeOK ==
    /\ exists \in BOOLEAN
    /\ role \in [Users -> {"none", "viewer", "owner"}]
    /\ invitation \in
         [Invitations -> {"unused", "pending", "redeemed", "revoked", "gone"}]
    /\ redeemedBy \in [Invitations -> Users \cup {None}]
    /\ \A i \in Invitations : redeemedBy[i] # None <=> invitation[i] = "redeemed"
    /\ expired \subseteq Invitations
    /\ req \in [Slots -> [op : OwnerOps \cup {"redeem", None},
                          stage : {"idle", "begun", "project", "locked",
                                   "checked", "inserted"},
                          user : Users \cup {None},
                          inv : Invitations \cup {None}, timely : BOOLEAN]]
    /\ joined \subseteq Invitations \X Users

\* However redemptions of one link race each other, its revocation and the
\* deletion of the project, it admits one user at most, the one its row names,
\* and nobody once it is revoked.
SpentOnce ==
    \A i \in Invitations :
        /\ \A p, q \in {j \in joined : j[1] = i} : p = q
        /\ invitation[i] \in {"pending", "revoked"} =>
             \A u \in Users : <<i, u>> \notin joined
        /\ invitation[i] = "redeemed" => <<i, redeemedBy[i]>> \in joined

\* As long as the project exists its owner keeps the owner membership, nobody
\* else has one, and whoever is a viewer has redeemed an invitation; with the
\* project all memberships are gone.
MembersLegitimate ==
    \A u \in Users :
        /\ role[u] = "owner" <=> exists /\ u = Owner
        /\ role[u] = "viewer" =>
             exists /\ \E i \in Invitations : <<i, u>> \in joined

Abstract == INSTANCE Guestlist WITH
    People <- Users,
    guests <- {u \in Users : role[u] = "viewer"},
    used <- joined,
    issued <- {i \in Invitations : invitation[i] \in {"pending", "redeemed"}},
    closed <- ~exists

\* The transactions implement the guest list of Guestlist.tla: an invitation
\* is consumed only in the step that makes an outsider a viewer, so a
\* redemption that loses a race against another link of the same user leaves
\* its own link unused.
ImplementsGuestlist == Abstract!GuestSpec
=============================================================================
