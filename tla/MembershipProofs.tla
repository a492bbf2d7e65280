-------------------------- MODULE MembershipProofs --------------------------
(***************************************************************************)
(* Proofs about Membership.tla for any number of users, invitations and    *)
(* concurrent requests.                                                    *)
(***************************************************************************)
EXTENDS Membership, TLAPS

Stages == {"idle", "begun", "project", "locked", "checked", "inserted"}

Txn == [op : OwnerOps \cup {"redeem", None}, stage : Stages,
        user : Users \cup {None}, inv : Invitations \cup {None},
        timely : BOOLEAN]

\* What a request names, and what it has found in the rows it holds.
SlotFacts(s) ==
    LET q == req[s] IN
    /\ q.stage = "begun" => q.op \in OwnerOps \cup {"redeem"}
    /\ q.stage # "idle" /\ q.op = "redeem" => q.user \in Users
    /\ q.stage # "idle" /\ q.op = "remove" => q.user \in Users
    /\ q.stage # "idle" /\ q.op \in {"redeem", "revoke"} => q.inv \in Invitations
    /\ q.stage = "project" => q.op \in OwnerOps /\ exists
    /\ q.stage \in {"locked", "checked", "inserted"} =>
         q.op = "redeem" /\ invitation[q.inv] = "pending"
    /\ q.stage = "inserted" => exists /\ role[q.user] = "none"

\* Rows are locked by one request, the project row is shared by redemptions
\* only, and no two of them insert the same membership.
Mutex ==
    \A s, r \in Slots : s # r =>
        /\ \A i \in Invitations : ~(HoldsInvitation(s, i) /\ HoldsInvitation(r, i))
        /\ ~(HoldsProject(s) /\ (HoldsProject(r) \/ SharesProject(r)))
        /\ ~(SharesProject(s) /\ SharesProject(r) /\ req[s].user = req[r].user)

\* Nobody has redeemed what was never created.
Fresh ==
    \A i \in Invitations :
        invitation[i] = "unused" => \A u \in Users : <<i, u>> \notin joined

\* The inductive invariant.
IInv ==
    /\ TypeOK
    /\ \A s \in Slots : SlotFacts(s)
    /\ Mutex
    /\ Fresh
    /\ SpentOnce
    /\ MembersLegitimate

---------------------------------------------------------------------------
\* An idle slot has the type of a request.
LEMMA IdleFacts == Idle \in Txn /\ Idle.stage = "idle"
  BY DEF Idle, Txn, Stages

\* The initial state satisfies the inductive invariant.
LEMMA InitInv == Init => IInv
  <1> SUFFICES ASSUME Init PROVE IInv
    OBVIOUS
  <1> USE MembershipAssumption, IdleFacts DEF Init
  <1>1. TypeOK
    BY DEF TypeOK, Txn, Stages
  <1>2. ASSUME NEW s \in Slots PROVE SlotFacts(s)
    <2>1. req[s].stage = "idle"
      OBVIOUS
    <2> QED
      BY <2>1 DEF SlotFacts
  <1>3. Mutex
    BY DEF Mutex, HoldsInvitation, HoldsProject, SharesProject
  <1>4. Fresh /\ SpentOnce /\ MembersLegitimate
    BY DEF Fresh, SpentOnce, MembersLegitimate
  <1> QED
    BY <1>1, <1>2, <1>3, <1>4 DEF IInv

---------------------------------------------------------------------------
\* A step that changes nothing but one request keeps the invariant when the
\* request's own facts hold after it and it has taken no lock of another.
LEMMA RequestStep ==
  ASSUME IInv, NEW s \in Slots, NEW q \in Txn, req' = [req EXCEPT ![s] = q],
         UNCHANGED <<tables, joined>>, expired' \subseteq Invitations,
         SlotFacts(s)',
         \A r \in Slots \ {s} :
            /\ \A i \in Invitations : ~(HoldsInvitation(s, i)' /\ HoldsInvitation(r, i))
            /\ ~(HoldsProject(s)' /\ (HoldsProject(r) \/ SharesProject(r)))
            /\ ~(SharesProject(s)' /\ HoldsProject(r))
            /\ ~(SharesProject(s)' /\ SharesProject(r) /\ q.user = req[r].user)
  PROVE  IInv'
  <1> USE DEF tables
  <1>0. req \in [Slots -> Txn]
    BY DEF IInv, TypeOK, Txn, Stages
  <1>1. req'[s] = q /\ \A r \in Slots \ {s} : req'[r] = req[r]
    BY <1>0
  <1>2. TypeOK'
    BY <1>0 DEF IInv, TypeOK, Txn, Stages
  <1>3. ASSUME NEW r \in Slots PROVE SlotFacts(r)'
    <2>1. CASE r = s
      BY <2>1
    <2>2. CASE r # s
      BY <1>1, <2>2 DEF IInv, SlotFacts
    <2> QED
      BY <2>1, <2>2
  <1>4. Mutex'
    <2>1. \A r \in Slots \ {s} :
            /\ \A i \in Invitations : HoldsInvitation(r, i)' <=> HoldsInvitation(r, i)
            /\ HoldsProject(r)' <=> HoldsProject(r)
            /\ SharesProject(r)' <=> SharesProject(r)
      BY <1>1 DEF HoldsInvitation, HoldsProject, SharesProject
    <2> QED
      BY <1>1, <2>1 DEF IInv, Mutex
  <1>5. Fresh' /\ SpentOnce' /\ MembersLegitimate'
    BY DEF IInv, Fresh, SpentOnce, MembersLegitimate
  <1> QED
    BY <1>2, <1>3, <1>4, <1>5 DEF IInv

\* A request that ends without a write.
LEMMA AbortInv == ASSUME IInv, NEW s \in Slots, Abort(s) PROVE IInv'
  <1>1. req'[s].stage = "idle" /\ UNCHANGED <<tables, joined>> /\ expired' = expired
    BY IdleFacts DEF IInv, TypeOK, Abort
  <1>2. SlotFacts(s)'
    BY <1>1 DEF SlotFacts
  <1>3. /\ \A i \in Invitations : ~HoldsInvitation(s, i)'
        /\ ~HoldsProject(s)' /\ ~SharesProject(s)'
    BY <1>1 DEF HoldsInvitation, HoldsProject, SharesProject
  <1>4. expired' \subseteq Invitations
    BY <1>1 DEF IInv, TypeOK
  <1> QED
    BY <1>1, <1>2, <1>3, <1>4, IdleFacts, RequestStep DEF Abort

\* A new request holds no lock yet.
LEMMA BeginInv == ASSUME IInv, NEW s \in Slots, Begin(s) PROVE IInv'
  <1>1. PICK q \in Txn : /\ req' = [req EXCEPT ![s] = q]
                         /\ q.stage = "begun" /\ q.op \in OwnerOps \cup {"redeem"}
                         /\ q.op \in {"redeem", "remove"} => q.user \in Users
                         /\ q.op \in {"redeem", "revoke"} => q.inv \in Invitations
    <2>1. PICK u \in Users, i \in Invitations :
            \/ \E op \in OwnerOps : req' = [req EXCEPT ![s] = OwnerRequest(op, u, i)]
            \/ req' = [req EXCEPT ![s] = RedeemRequest(u, i)]
      BY DEF Begin
    <2>2. CASE req' = [req EXCEPT ![s] = RedeemRequest(u, i)]
      <3>1. RedeemRequest(u, i) \in Txn
        BY DEF RedeemRequest, Txn, Stages
      <3>2. /\ RedeemRequest(u, i).stage = "begun" /\ RedeemRequest(u, i).op = "redeem"
            /\ RedeemRequest(u, i).user \in Users /\ RedeemRequest(u, i).inv \in Invitations
        BY DEF RedeemRequest
      <3> QED
        BY <2>2, <3>1, <3>2
    <2>3. ASSUME NEW op \in OwnerOps, req' = [req EXCEPT ![s] = OwnerRequest(op, u, i)]
          PROVE  \E q \in Txn : /\ req' = [req EXCEPT ![s] = q]
                                /\ q.stage = "begun" /\ q.op \in OwnerOps \cup {"redeem"}
                                /\ q.op \in {"redeem", "remove"} => q.user \in Users
                                /\ q.op \in {"redeem", "revoke"} => q.inv \in Invitations
      <3>1. OwnerRequest(op, u, i) \in Txn
        BY DEF OwnerRequest, Txn, Stages
      <3>2. /\ OwnerRequest(op, u, i).stage = "begun"
            /\ OwnerRequest(op, u, i).op = op /\ op # "redeem"
            /\ op = "remove" => OwnerRequest(op, u, i).user \in Users
            /\ op = "revoke" => OwnerRequest(op, u, i).inv \in Invitations
        BY DEF OwnerRequest, OwnerOps
      <3> QED
        BY <2>3, <3>1, <3>2
    <2> QED
      BY <2>1, <2>2, <2>3
  <1>3. req'[s] = q
    BY <1>1 DEF IInv, TypeOK
  <1>4. SlotFacts(s)'
    BY <1>1, <1>3 DEF SlotFacts
  <1>5. /\ \A j \in Invitations : ~HoldsInvitation(s, j)'
        /\ ~HoldsProject(s)' /\ ~SharesProject(s)'
    BY <1>1, <1>3 DEF HoldsInvitation, HoldsProject, SharesProject
  <1>6. UNCHANGED <<tables, joined>> /\ expired' \subseteq Invitations
    BY DEF Begin, IInv, TypeOK
  <1> QED
    BY <1>1, <1>4, <1>5, <1>6, RequestStep

\* A request that moves on keeps what it names.
LEMMA AdvanceStep ==
  ASSUME IInv, NEW s \in Slots, NEW from \in Stages, NEW to \in Stages,
         Advance(s, from, to)
  PROVE  /\ [req[s] EXCEPT !.stage = to] \in Txn
         /\ req' = [req EXCEPT ![s] = [req[s] EXCEPT !.stage = to]]
         /\ req'[s] = [req[s] EXCEPT !.stage = to]
         /\ req[s] \in Txn /\ req[s].stage = from
         /\ UNCHANGED <<tables, joined>> /\ expired' \subseteq Invitations
         /\ SlotFacts(s)
  <1>1. req \in [Slots -> Txn]
    BY DEF IInv, TypeOK, Txn, Stages
  <1> QED
    BY <1>1 DEF Advance, Txn, IInv, TypeOK

\* redeem's SELECT ... FOR UPDATE: a pending invitation no one else has locked.
LEMMA RedeemLockInv == ASSUME IInv, NEW s \in Slots, RedeemLock(s) PROVE IInv'
  <1>1. Advance(s, "begun", "locked") /\ "begun" \in Stages /\ "locked" \in Stages
    BY DEF RedeemLock, Stages
  <1> DEFINE q == [req[s] EXCEPT !.stage = "locked"]
  <1>2. /\ q \in Txn /\ req' = [req EXCEPT ![s] = q] /\ req'[s] = q
        /\ req[s] \in Txn /\ req[s].stage = "begun"
        /\ UNCHANGED <<tables, joined>> /\ expired' \subseteq Invitations /\ SlotFacts(s)
    BY <1>1, AdvanceStep
  <1>3. q.op = "redeem" /\ q.stage = "locked" /\ q.inv = req[s].inv /\ q.user = req[s].user
    BY <1>2 DEF RedeemLock, Txn
  <1>4. invitation[q.inv] = "pending" /\ \A r \in Slots \ {s} : ~HoldsInvitation(r, q.inv)
    BY <1>3 DEF RedeemLock, Pending, InvitationFree
  <1> HIDE DEF q
  <1>5. SlotFacts(s)'
    <2>1. q.user \in Users /\ q.inv \in Invitations
      BY <1>2, <1>3 DEF SlotFacts, RedeemLock
    <2>2. invitation'[q.inv] = "pending"
      BY <1>2, <1>4 DEF tables
    <2> QED
      BY <1>2, <1>3, <2>1, <2>2 DEF SlotFacts
  <1>6. /\ \A i \in Invitations : HoldsInvitation(s, i)' => i = q.inv
        /\ ~HoldsProject(s)' /\ ~SharesProject(s)'
    BY <1>2, <1>3 DEF HoldsInvitation, HoldsProject, SharesProject
  <1> QED
    BY <1>2, <1>4, <1>5, <1>6, RequestStep

\* redeem's reads of membership and owner.
LEMMA RedeemCheckInv == ASSUME IInv, NEW s \in Slots, RedeemCheck(s) PROVE IInv'
  <1>1. Advance(s, "locked", "checked") /\ "locked" \in Stages /\ "checked" \in Stages
    BY DEF RedeemCheck, Stages
  <1> DEFINE q == [req[s] EXCEPT !.stage = "checked"]
  <1>2. /\ q \in Txn /\ req' = [req EXCEPT ![s] = q] /\ req'[s] = q
        /\ req[s] \in Txn /\ req[s].stage = "locked"
        /\ UNCHANGED <<tables, joined>> /\ expired' \subseteq Invitations /\ SlotFacts(s)
    BY <1>1, AdvanceStep
  <1>3. q.op = req[s].op /\ q.stage = "checked" /\ q.inv = req[s].inv /\ q.user = req[s].user
    BY <1>2 DEF Txn
  <1> HIDE DEF q
  <1>4. SlotFacts(s)'
    BY <1>2, <1>3 DEF SlotFacts, tables
  <1>5. /\ \A i \in Invitations : HoldsInvitation(s, i)' => HoldsInvitation(s, i)
        /\ ~HoldsProject(s)' /\ ~SharesProject(s)'
    BY <1>2, <1>3 DEF HoldsInvitation, HoldsProject, SharesProject
  <1> QED
    BY <1>2, <1>4, <1>5, RequestStep DEF IInv, Mutex

\* redeem's UPDATE and INSERT: the unique index and the project row let it.
LEMMA RedeemInsertInv == ASSUME IInv, NEW s \in Slots, RedeemInsert(s) PROVE IInv'
  <1>1. Advance(s, "checked", "inserted") /\ "checked" \in Stages /\ "inserted" \in Stages
    BY DEF RedeemInsert, Stages
  <1> DEFINE q == [req[s] EXCEPT !.stage = "inserted"]
  <1>2. /\ q \in Txn /\ req' = [req EXCEPT ![s] = q] /\ req'[s] = q
        /\ req[s] \in Txn /\ req[s].stage = "checked"
        /\ UNCHANGED <<tables, joined>> /\ expired' \subseteq Invitations /\ SlotFacts(s)
    BY <1>1, AdvanceStep
  <1>3. q.op = req[s].op /\ q.stage = "inserted" /\ q.inv = req[s].inv /\ q.user = req[s].user
    BY <1>2 DEF Txn
  <1>4. /\ exists /\ role[q.user] = "none"
        /\ \A r \in Slots \ {s} :
             ~HoldsProject(r) /\ ~(SharesProject(r) /\ req[r].user = q.user)
    BY <1>3 DEF RedeemInsert, MemberInsertable
  <1> HIDE DEF q
  <1>5. SlotFacts(s)'
    BY <1>2, <1>3, <1>4 DEF SlotFacts, tables
  <1>6. /\ \A i \in Invitations : HoldsInvitation(s, i)' => HoldsInvitation(s, i)
        /\ ~HoldsProject(s)'
    BY <1>2, <1>3 DEF HoldsInvitation, HoldsProject
  <1> QED
    BY <1>2, <1>4, <1>5, <1>6, RequestStep DEF IInv, Mutex

\* The owner's SELECT ... FOR UPDATE of the project.
LEMMA LockProjectInv == ASSUME IInv, NEW s \in Slots, LockProject(s) PROVE IInv'
  <1>1. Advance(s, "begun", "project") /\ "begun" \in Stages /\ "project" \in Stages
    BY DEF LockProject, Stages
  <1> DEFINE q == [req[s] EXCEPT !.stage = "project"]
  <1>2. /\ q \in Txn /\ req' = [req EXCEPT ![s] = q] /\ req'[s] = q
        /\ req[s] \in Txn /\ req[s].stage = "begun"
        /\ UNCHANGED <<tables, joined>> /\ expired' \subseteq Invitations /\ SlotFacts(s)
    BY <1>1, AdvanceStep
  <1>3. /\ q.op = req[s].op /\ q.stage = "project" /\ q.inv = req[s].inv
        /\ q.user = req[s].user /\ q.op \in OwnerOps
    BY <1>2 DEF LockProject, Txn
  <1>4. exists /\ \A r \in Slots \ {s} : ~HoldsProject(r) /\ ~SharesProject(r)
    BY DEF LockProject
  <1> HIDE DEF q
  <1>5. SlotFacts(s)'
    BY <1>2, <1>3, <1>4 DEF SlotFacts, tables
  <1>6. (\A i \in Invitations : ~HoldsInvitation(s, i)') /\ ~SharesProject(s)'
    BY <1>2, <1>3 DEF HoldsInvitation, SharesProject
  <1> QED
    BY <1>2, <1>4, <1>5, <1>6, RequestStep

---------------------------------------------------------------------------
\* The commits.  They free the slot, so only the other requests' facts and the
\* tables are at stake.
LEMMA CommitStep ==
  ASSUME IInv, NEW s \in Slots, req' = [req EXCEPT ![s] = Idle],
         TypeOK', Fresh', SpentOnce', MembersLegitimate',
         \A r \in Slots \ {s} : SlotFacts(r) /\ req'[r] = req[r] => SlotFacts(r)'
  PROVE  IInv'
  <1>1. req'[s].stage = "idle" /\ \A r \in Slots \ {s} : req'[r] = req[r]
    BY IdleFacts DEF IInv, TypeOK
  <1>2. ASSUME NEW r \in Slots PROVE SlotFacts(r)'
    <2>1. CASE r = s
      BY <1>1, <2>1 DEF SlotFacts
    <2>2. CASE r # s
      BY <1>1, <2>2 DEF IInv
    <2> QED
      BY <2>1, <2>2
  <1>3. Mutex'
    <2>1. \A i \in Invitations : ~HoldsInvitation(s, i)'
      BY <1>1 DEF HoldsInvitation
    <2>2. ~HoldsProject(s)' /\ ~SharesProject(s)'
      BY <1>1 DEF HoldsProject, SharesProject
    <2>3. \A r \in Slots \ {s} :
            /\ \A i \in Invitations : HoldsInvitation(r, i)' <=> HoldsInvitation(r, i)
            /\ HoldsProject(r)' <=> HoldsProject(r)
            /\ SharesProject(r)' <=> SharesProject(r)
      BY <1>1 DEF HoldsInvitation, HoldsProject, SharesProject
    <2> QED
      BY <1>1, <2>1, <2>2, <2>3 DEF IInv, Mutex
  <1> QED
    BY <1>2, <1>3 DEF IInv

\* A request slot that becomes idle keeps the type of req.
LEMMA IdleType ==
  ASSUME IInv, NEW s \in Slots, req' = [req EXCEPT ![s] = Idle]
  PROVE  req' \in [Slots -> Txn]
  BY IdleFacts DEF IInv, TypeOK, Txn, Stages

\* A redemption commits: its invitation is pending, and locked by it alone.
LEMMA RedeemCommitInv == ASSUME IInv, NEW s \in Slots, RedeemCommit(s) PROVE IInv'
  <1> DEFINE i == req[s].inv
             u == req[s].user
  <1>1. /\ i \in Invitations /\ u \in Users /\ invitation[i] = "pending"
        /\ exists /\ role[u] = "none" /\ HoldsInvitation(s, i) /\ SharesProject(s)
    BY DEF IInv, SlotFacts, RedeemCommit, HoldsInvitation, SharesProject
  <1>2. /\ invitation' = [invitation EXCEPT ![i] = "redeemed"]
        /\ redeemedBy' = [redeemedBy EXCEPT ![i] = u]
        /\ role' = [role EXCEPT ![u] = "viewer"]
        /\ joined' = joined \cup {<<i, u>>}
        /\ req' = [req EXCEPT ![s] = Idle]
        /\ exists' = exists /\ expired' = expired
    BY DEF RedeemCommit
  <1> HIDE DEF i, u
  <1> USE DEF IInv
  <1>3. TypeOK'
    <2>1. joined' \subseteq Invitations \X Users
      BY <1>1, <1>2 DEF TypeOK
    <2>2. role' \in [Users -> {"none", "viewer", "owner"}]
      BY <1>1, <1>2 DEF TypeOK
    <2>3. /\ invitation' \in
               [Invitations -> {"unused", "pending", "redeemed", "revoked", "gone"}]
          /\ redeemedBy' \in [Invitations -> Users \cup {None}]
          /\ \A j \in Invitations : redeemedBy'[j] # None <=> invitation'[j] = "redeemed"
      BY <1>1, <1>2, MembershipAssumption DEF TypeOK
    <2> QED
      BY <1>2, <2>1, <2>2, <2>3, IdleType DEF TypeOK, Txn, Stages
  <1>4. Fresh'
    BY <1>1, <1>2 DEF Fresh, TypeOK
  <1>5. SpentOnce'
    <2>1. \A v \in Users : <<i, v>> \notin joined
      BY <1>1 DEF SpentOnce
    <2>2. ASSUME NEW j \in Invitations,
                 NEW p \in joined', NEW q \in joined', p[1] = j, q[1] = j
          PROVE  p = q
      <3>1. CASE j = i
        <4>1. ASSUME NEW x \in joined, x[1] = i PROVE FALSE
          BY <2>1, <4>1 DEF TypeOK
        <4> QED
          BY <1>2, <2>2, <3>1, <4>1
      <3>2. CASE j # i
        <4>1. p \in joined /\ q \in joined
          BY <1>2, <2>2, <3>2
        <4> QED
          BY <2>2, <4>1 DEF SpentOnce
      <3> QED
        BY <3>1, <3>2
    <2>3. ASSUME NEW j \in Invitations, invitation'[j] \in {"pending", "revoked"},
                 NEW v \in Users
          PROVE  <<j, v>> \notin joined'
      <3>1. j # i /\ invitation[j] \in {"pending", "revoked"}
        BY <1>1, <1>2, <2>3 DEF TypeOK
      <3> QED
        BY <1>2, <3>1 DEF SpentOnce
    <2>4. ASSUME NEW j \in Invitations, invitation'[j] = "redeemed"
          PROVE  <<j, redeemedBy'[j]>> \in joined'
      <3>1. CASE j = i
        BY <1>1, <1>2, <3>1 DEF TypeOK
      <3>2. CASE j # i
        BY <1>1, <1>2, <2>4, <3>2 DEF TypeOK, SpentOnce
      <3> QED
        BY <3>1, <3>2
    <2> QED
      BY <2>2, <2>3, <2>4 DEF SpentOnce
  <1>6. MembersLegitimate'
    <2>1. u # Owner
      BY <1>1 DEF MembersLegitimate
    <2>2. ASSUME NEW v \in Users, v # u
          PROVE  /\ role'[v] = "owner" <=> exists' /\ v = Owner
                 /\ role'[v] = "viewer" =>
                      exists' /\ \E j \in Invitations : <<j, v>> \in joined'
      <3>1. role'[v] = role[v]
        BY <1>1, <1>2, <2>2 DEF TypeOK
      <3> QED
        BY <1>2, <3>1 DEF MembersLegitimate
    <2>3. role'[u] = "viewer" /\ <<i, u>> \in joined'
      BY <1>1, <1>2 DEF TypeOK
    <2> QED
      BY <1>1, <1>2, <2>1, <2>2, <2>3 DEF MembersLegitimate
  <1>7. ASSUME NEW r \in Slots \ {s}, SlotFacts(r), req'[r] = req[r]
        PROVE  SlotFacts(r)'
    <2>1. req[r].stage \in {"locked", "checked", "inserted"} =>
            req[r].op = "redeem" /\ req[r].inv \in Invitations /\ req[r].inv # i
      BY <1>1, <1>7 DEF SlotFacts, HoldsInvitation, Mutex
    <2>2. req[r].stage = "inserted" => req[r].user \in Users /\ req[r].user # u
      <3>1. req[r].stage = "inserted" => SharesProject(r) /\ req[r].user \in Users
        BY <1>7 DEF SlotFacts, SharesProject
      <3> QED
        BY <1>1, <3>1 DEF Mutex, u
    <2>3. \A j \in Invitations : j # i => invitation'[j] = invitation[j]
      BY <1>1, <1>2 DEF TypeOK
    <2>4. \A v \in Users : v # u => role'[v] = role[v]
      BY <1>1, <1>2 DEF TypeOK
    <2> QED
      BY <1>2, <1>7, <2>1, <2>2, <2>3, <2>4 DEF SlotFacts
  <1> QED
    BY <1>2, <1>3, <1>4, <1>5, <1>6, <1>7, CommitStep

---------------------------------------------------------------------------
\* An owner's request that commits has locked the project and names its rows.
LEMMA OwnerCommits ==
  ASSUME IInv, NEW s \in Slots, NEW op \in OwnerOps, Commits(s, op)
  PROVE  /\ HoldsProject(s) /\ exists /\ SlotFacts(s) /\ TypeOK
         /\ req' = [req EXCEPT ![s] = Idle] /\ req' \in [Slots -> Txn]
         /\ expired' = expired /\ joined' = joined
         /\ \A r \in Slots \ {s} : ~SharesProject(r) /\ ~HoldsProject(r)
  <1>1. HoldsProject(s)
    BY DEF Commits, HoldsProject
  <1>2. exists /\ SlotFacts(s) /\ TypeOK
    BY DEF IInv, SlotFacts, Commits
  <1>3. \A r \in Slots \ {s} : ~SharesProject(r) /\ ~HoldsProject(r)
    BY <1>1 DEF IInv, Mutex
  <1> QED
    BY <1>1, <1>2, <1>3, IdleType DEF Commits

\* createInvitation adds a pending row nobody has redeemed.
LEMMA CreateInvitationInv ==
  ASSUME IInv, NEW s \in Slots, CreateInvitation(s) PROVE IInv'
  <1>0. /\ exists /\ TypeOK /\ req' = [req EXCEPT ![s] = Idle]
        /\ req' \in [Slots -> Txn] /\ expired' = expired /\ joined' = joined
    BY OwnerCommits DEF CreateInvitation, OwnerOps
  <1>1. PICK i \in Invitations :
          /\ invitation[i] = "unused"
          /\ invitation' = [invitation EXCEPT ![i] = "pending"]
    BY DEF CreateInvitation
  <1>2. UNCHANGED <<exists, role, redeemedBy>>
    BY DEF CreateInvitation
  <1>3. TypeOK'
    BY <1>0, <1>1, <1>2 DEF TypeOK, Txn, Stages
  <1>4. Fresh'
    BY <1>0, <1>1 DEF IInv, Fresh, TypeOK
  <1>5. SpentOnce'
    BY <1>0, <1>1, <1>2 DEF IInv, Fresh, SpentOnce, TypeOK
  <1>6. MembersLegitimate'
    BY <1>0, <1>2 DEF IInv, MembersLegitimate
  <1>7. ASSUME NEW r \in Slots \ {s}, SlotFacts(r), req'[r] = req[r]
        PROVE  SlotFacts(r)'
    BY <1>0, <1>1, <1>2, <1>7 DEF SlotFacts, TypeOK
  <1> QED
    BY <1>0, <1>3, <1>4, <1>5, <1>6, <1>7, CommitStep

\* revokeInvitation withdraws a pending row no redemption has locked.
LEMMA RevokeInvitationInv ==
  ASSUME IInv, NEW s \in Slots, RevokeInvitation(s) PROVE IInv'
  <1>0. /\ exists /\ TypeOK /\ SlotFacts(s) /\ req' = [req EXCEPT ![s] = Idle]
        /\ req' \in [Slots -> Txn] /\ expired' = expired /\ joined' = joined
    BY OwnerCommits DEF RevokeInvitation, OwnerOps
  <1> DEFINE i == req[s].inv
  <1>1. /\ i \in Invitations /\ invitation[i] = "pending"
        /\ \A r \in Slots \ {s} : ~HoldsInvitation(r, i)
    BY <1>0 DEF RevokeInvitation, Commits, SlotFacts, Revocable, Pending, InvitationFree
  <1>2. /\ UNCHANGED <<exists, role, redeemedBy>>
        /\ invitation' = [invitation EXCEPT ![i] = "revoked"]
    BY DEF RevokeInvitation
  <1> HIDE DEF i
  <1>3. TypeOK'
    BY <1>0, <1>1, <1>2 DEF TypeOK, Txn, Stages
  <1>4. Fresh'
    BY <1>0, <1>1, <1>2 DEF IInv, Fresh, TypeOK
  <1>5. SpentOnce'
    BY <1>0, <1>1, <1>2 DEF IInv, SpentOnce, TypeOK
  <1>6. MembersLegitimate'
    BY <1>0, <1>2 DEF IInv, MembersLegitimate
  <1>7. ASSUME NEW r \in Slots \ {s}, SlotFacts(r), req'[r] = req[r]
        PROVE  SlotFacts(r)'
    <2>1. req[r].stage \in {"locked", "checked", "inserted"} =>
            req[r].inv \in Invitations /\ req[r].inv # i
      BY <1>1, <1>7 DEF SlotFacts, HoldsInvitation
    <2>2. \A j \in Invitations : j # i => invitation'[j] = invitation[j]
      BY <1>0, <1>1, <1>2 DEF TypeOK
    <2> QED
      BY <1>2, <1>7, <2>1, <2>2 DEF SlotFacts
  <1> QED
    BY <1>0, <1>3, <1>4, <1>5, <1>6, <1>7, CommitStep

\* removeViewer deletes a viewer's membership, never the owner's.
LEMMA RemoveViewerInv == ASSUME IInv, NEW s \in Slots, RemoveViewer(s) PROVE IInv'
  <1>0. /\ exists /\ TypeOK /\ SlotFacts(s) /\ req' = [req EXCEPT ![s] = Idle]
        /\ req' \in [Slots -> Txn] /\ expired' = expired /\ joined' = joined
    BY OwnerCommits DEF RemoveViewer, OwnerOps
  <1> DEFINE u == req[s].user
  <1>1. u \in Users /\ role[u] = "viewer"
    BY <1>0 DEF RemoveViewer, Commits, SlotFacts, Removable
  <1>2. UNCHANGED <<exists, invitation, redeemedBy>> /\ role' = [role EXCEPT ![u] = "none"]
    BY DEF RemoveViewer
  <1> HIDE DEF u
  <1>3. TypeOK'
    BY <1>0, <1>1, <1>2 DEF TypeOK, Txn, Stages
  <1>4. Fresh' /\ SpentOnce'
    BY <1>0, <1>2 DEF IInv, Fresh, SpentOnce
  <1>5. MembersLegitimate'
    BY <1>0, <1>1, <1>2 DEF IInv, MembersLegitimate, TypeOK
  <1>6. ASSUME NEW r \in Slots \ {s}, SlotFacts(r), req'[r] = req[r]
        PROVE  SlotFacts(r)'
    BY <1>0, <1>1, <1>2, <1>6 DEF SlotFacts, TypeOK
  <1> QED
    BY <1>0, <1>3, <1>4, <1>5, <1>6, CommitStep

\* deleteProject: no redemption is under way, and every row goes.
LEMMA DeleteProjectInv == ASSUME IInv, NEW s \in Slots, DeleteProject(s) PROVE IInv'
  <1>0. /\ exists /\ TypeOK /\ req' = [req EXCEPT ![s] = Idle]
        /\ req' \in [Slots -> Txn] /\ expired' = expired /\ joined' = joined
        /\ \A r \in Slots \ {s} : ~SharesProject(r) /\ ~HoldsProject(r)
    BY OwnerCommits DEF DeleteProject, OwnerOps
  <1>1. /\ exists' = FALSE
        /\ role' = [u \in Users |-> "none"]
        /\ invitation' = [i \in Invitations |->
              IF invitation[i] = "unused" THEN "unused" ELSE "gone"]
        /\ redeemedBy' = [i \in Invitations |-> None]
        /\ \A i \in Invitations, r \in Slots \ {s} : ~HoldsInvitation(r, i)
    BY DEF DeleteProject, InvitationFree
  <1>2. TypeOK'
    BY <1>0, <1>1 DEF TypeOK, Txn, Stages
  <1>3. Fresh' /\ SpentOnce'
    BY <1>0, <1>1 DEF IInv, Fresh, SpentOnce
  <1>4. MembersLegitimate'
    BY <1>1 DEF MembersLegitimate
  <1>5. ASSUME NEW r \in Slots \ {s}, SlotFacts(r), req'[r] = req[r]
        PROVE  SlotFacts(r)'
    <2>1. req[r].stage \notin {"locked", "checked", "inserted"}
      BY <1>1, <1>5 DEF SlotFacts, HoldsInvitation
    <2>2. req[r].stage # "project"
      BY <1>0, <1>5 DEF SlotFacts, HoldsProject
    <2> QED
      BY <1>5, <2>1, <2>2 DEF SlotFacts
  <1> QED
    BY <1>0, <1>2, <1>3, <1>4, <1>5, CommitStep

\* Time passes.
LEMMA ExpireInv == ASSUME IInv, Expire PROVE IInv'
  <1>1. UNCHANGED <<tables, req, joined>> /\ expired' \subseteq Invitations
    BY DEF Expire, IInv, TypeOK
  <1>2. TypeOK' /\ Fresh' /\ SpentOnce' /\ MembersLegitimate'
    BY <1>1 DEF IInv, TypeOK, Fresh, SpentOnce, MembersLegitimate, tables
  <1>3. \A s \in Slots : SlotFacts(s)'
    BY <1>1 DEF IInv, SlotFacts, tables
  <1>4. Mutex'
    BY <1>1 DEF IInv, Mutex, HoldsInvitation, HoldsProject, SharesProject
  <1> QED
    BY <1>2, <1>3, <1>4 DEF IInv

\* A stuttering step changes nothing the invariant speaks of.
LEMMA StutterInv == ASSUME IInv, UNCHANGED vars PROVE IInv'
  <1>1. UNCHANGED <<tables, expired, req, joined>>
    BY DEF vars
  <1>2. TypeOK' /\ Fresh' /\ SpentOnce' /\ MembersLegitimate'
    BY <1>1 DEF IInv, TypeOK, Fresh, SpentOnce, MembersLegitimate, tables
  <1>3. \A s \in Slots : SlotFacts(s)'
    BY <1>1 DEF IInv, SlotFacts, tables
  <1>4. Mutex'
    BY <1>1 DEF IInv, Mutex, HoldsInvitation, HoldsProject, SharesProject
  <1> QED
    BY <1>2, <1>3, <1>4 DEF IInv

\* Every step keeps the invariant.
LEMMA StepInv == IInv /\ [Next]_vars => IInv'
  <1> SUFFICES ASSUME IInv, [Next]_vars PROVE IInv'
    OBVIOUS
  <1>1. ASSUME NEW s \in Slots, Step(s) PROVE IInv'
    BY <1>1, BeginInv, RedeemLockInv, RedeemCheckInv, RedeemInsertInv,
       RedeemCommitInv, LockProjectInv, CreateInvitationInv, RevokeInvitationInv,
       RemoveViewerInv, DeleteProjectInv, AbortInv
       DEF Step
  <1>2. CASE Expire
    BY <1>2, ExpireInv
  <1>3. CASE UNCHANGED vars
    BY <1>3, StutterInv
  <1> QED
    BY <1>1, <1>2, <1>3 DEF Next

---------------------------------------------------------------------------
\* The strengthened invariant holds in every reachable state.
THEOREM Invariant == Spec => []IInv
  BY InitInv, StepInv, PTL DEF Spec

\* Every reachable state has the types of TypeOK, and the redemption columns of
\* an invitation agree.
THEOREM TypeCorrect == Spec => []TypeOK
  <1>1. IInv => TypeOK
    BY DEF IInv
  <1> QED
    BY <1>1, Invariant, PTL

\* An invitation admits at most one user, and none once it is revoked, for any
\* number of concurrent redemptions, revocations and deletions.
THEOREM InvitationsSpentOnce == Spec => []SpentOnce
  <1>1. IInv => SpentOnce
    BY DEF IInv
  <1> QED
    BY <1>1, Invariant, PTL

\* The owner's membership cannot be removed and viewers have been invited.
THEOREM OnlyTheInvited == Spec => []MembersLegitimate
  <1>1. IInv => MembersLegitimate
    BY DEF IInv
  <1> QED
    BY <1>1, Invariant, PTL

---------------------------------------------------------------------------
\* Refinement.

Viewers == {u \in Users : role[u] = "viewer"}

Issued == {i \in Invitations : invitation[i] \in {"pending", "redeemed"}}

\* A committed redemption is a Join.
LEMMA RedeemJoins ==
  ASSUME IInv, NEW s \in Slots, RedeemCommit(s)
  PROVE  Abstract!GuestNext
  <1>0. PICK i \in Invitations, u \in Users : i = req[s].inv /\ u = req[s].user
    BY DEF IInv, SlotFacts, RedeemCommit
  <1>1. invitation[i] = "pending" /\ exists /\ role[u] = "none"
    BY <1>0 DEF IInv, SlotFacts, RedeemCommit
  <1>2. /\ invitation' = [invitation EXCEPT ![i] = "redeemed"]
        /\ role' = [role EXCEPT ![u] = "viewer"]
        /\ joined' = joined \cup {<<i, u>>}
        /\ exists' = exists
    BY <1>0 DEF RedeemCommit
  <1>3. u # Owner /\ \A v \in Users : <<i, v>> \notin joined
    BY <1>1 DEF IInv, MembersLegitimate, SpentOnce
  <1>4. Viewers' = Viewers \cup {u} /\ u \notin Viewers
    BY <1>1, <1>2 DEF IInv, TypeOK, Viewers
  <1>5. Issued' = Issued /\ i \in Issued
    BY <1>1, <1>2 DEF IInv, TypeOK, Issued
  <1>6. Abstract!Join(i, u)
    BY <1>1, <1>2, <1>3, <1>4, <1>5 DEF Abstract!Join, Viewers, Issued
  <1> QED
    BY <1>6 DEF Abstract!GuestNext

\* The owner's commits are the guest list's other steps.
LEMMA OwnerSteps ==
  ASSUME IInv, NEW s \in Slots,
         \/ CreateInvitation(s) \/ RevokeInvitation(s)
         \/ RemoveViewer(s) \/ DeleteProject(s)
  PROVE  Abstract!GuestNext
  <1>1. CASE CreateInvitation(s)
    <2>0. exists /\ TypeOK /\ joined' = joined
      BY <1>1, OwnerCommits DEF CreateInvitation, OwnerOps
    <2>1. PICK i \in Invitations :
            /\ invitation[i] = "unused"
            /\ invitation' = [invitation EXCEPT ![i] = "pending"]
      BY <1>1 DEF CreateInvitation
    <2>2. Viewers' = Viewers /\ exists' = exists
      BY <1>1 DEF CreateInvitation, Viewers
    <2>3. Issued' = Issued \cup {i}
      BY <2>0, <2>1 DEF TypeOK, Issued
    <2>4. Abstract!Invite(i)
      BY <2>0, <2>2, <2>3 DEF Abstract!Invite, Viewers, Issued
    <2> QED
      BY <2>4 DEF Abstract!GuestNext
  <1>2. CASE RevokeInvitation(s)
    <2>0. exists /\ TypeOK /\ joined' = joined /\ SlotFacts(s)
      BY <1>2, OwnerCommits DEF RevokeInvitation, OwnerOps
    <2> PICK i \in Invitations : i = req[s].inv
      BY <1>2, <2>0 DEF RevokeInvitation, Commits, SlotFacts
    <2>1. /\ invitation[i] = "pending"
          /\ invitation' = [invitation EXCEPT ![i] = "revoked"]
      BY <1>2, <2>0 DEF RevokeInvitation, Revocable, Pending
    <2>2. Viewers' = Viewers /\ exists' = exists
      BY <1>2 DEF RevokeInvitation, Viewers
    <2>3. Issued' = Issued \ {i}
      BY <2>0, <2>1 DEF TypeOK, Issued
    <2>4. \A v \in Users : <<i, v>> \notin joined
      BY <2>1 DEF IInv, SpentOnce
    <2>5. Abstract!Withdraw(i)
      BY <2>0, <2>2, <2>3, <2>4 DEF Abstract!Withdraw, Viewers, Issued
    <2> QED
      BY <2>5 DEF Abstract!GuestNext
  <1>3. CASE RemoveViewer(s)
    <2>0. exists /\ TypeOK /\ joined' = joined /\ SlotFacts(s)
      BY <1>3, OwnerCommits DEF RemoveViewer, OwnerOps
    <2> PICK u \in Users : u = req[s].user
      BY <1>3, <2>0 DEF RemoveViewer, Commits, SlotFacts
    <2>1. role' = [role EXCEPT ![u] = "none"]
      BY <1>3 DEF RemoveViewer
    <2>2. Issued' = Issued /\ exists' = exists
      BY <1>3 DEF RemoveViewer, Issued
    <2>3. Viewers' = Viewers \ {u}
      BY <2>0, <2>1 DEF TypeOK, Viewers
    <2>4. Abstract!Remove(u)
      BY <2>0, <2>2, <2>3 DEF Abstract!Remove, Viewers, Issued
    <2> QED
      BY <2>4 DEF Abstract!GuestNext
  <1>4. CASE DeleteProject(s)
    <2>0. joined' = joined
      BY <1>4, OwnerCommits DEF DeleteProject, OwnerOps
    <2>1. Viewers' = {} /\ Issued' = {} /\ exists' = FALSE
      BY <1>4 DEF DeleteProject, Viewers, Issued
    <2>2. Abstract!Close
      BY <2>0, <2>1 DEF Abstract!Close, Viewers, Issued
    <2> QED
      BY <2>2 DEF Abstract!GuestNext
  <1> QED
    BY <1>1, <1>2, <1>3, <1>4

\* Every other step leaves the guest list alone.
LEMMA GuestStutter ==
  ASSUME UNCHANGED <<tables, joined>> PROVE UNCHANGED Abstract!guestVars
  BY DEF tables, Abstract!guestVars

\* Membership implements Guestlist: the initial state maps to its initial state
\* and every step to one of its steps or to none.
THEOREM Refinement == Spec => ImplementsGuestlist
  <1>1. Init => Abstract!GuestInit
    BY DEF Init, Abstract!GuestInit
  <1>2. IInv /\ [Next]_vars => [Abstract!GuestNext]_(Abstract!guestVars)
    <2> SUFFICES ASSUME IInv, [Next]_vars
                 PROVE  Abstract!GuestNext \/ UNCHANGED Abstract!guestVars
      OBVIOUS
    <2>1. ASSUME NEW s \in Slots, Step(s)
          PROVE  Abstract!GuestNext \/ UNCHANGED Abstract!guestVars
      <3>1. CASE Begin(s) \/ RedeemLock(s) \/ RedeemCheck(s) \/ RedeemInsert(s)
                 \/ LockProject(s) \/ Abort(s)
        <4>1. UNCHANGED <<tables, joined>>
          BY <3>1 DEF Begin, RedeemLock, RedeemCheck, RedeemInsert, LockProject,
                      Abort, Advance
        <4> QED
          BY <4>1, GuestStutter
      <3>2. CASE RedeemCommit(s)
        BY <3>2, RedeemJoins
      <3>3. CASE CreateInvitation(s) \/ RevokeInvitation(s) \/ RemoveViewer(s)
                 \/ DeleteProject(s)
        BY <3>3, OwnerSteps
      <3> QED
        BY <2>1, <3>1, <3>2, <3>3 DEF Step
    <2>2. CASE Expire
      <3>1. UNCHANGED <<tables, joined>>
        BY <2>2 DEF Expire
      <3> QED
        BY <3>1, GuestStutter
    <2>3. CASE UNCHANGED vars
      <3>1. UNCHANGED <<tables, joined>>
        BY <2>3 DEF vars
      <3> QED
        BY <3>1, GuestStutter
    <2> QED
      BY <2>1, <2>2, <2>3 DEF Next
  <1> QED
    BY <1>1, <1>2, InitInv, StepInv, PTL DEF Spec, ImplementsGuestlist, Abstract!GuestSpec
=============================================================================
