-------------------------- MODULE WebSessionProofs --------------------------
(***************************************************************************)
(* Proofs about WebSession.tla for any number of users, sessions, login    *)
(* attempts, concurrent requests and ticks of the clock.                   *)
(***************************************************************************)
EXTENDS WebSession, TLAPS

Request == [op : AllOps \cup {None}, txn : Transactions \cup {None},
            stage : {"idle", "next", "start", "session", "user"}, at : Times,
            sess : SessionIds \cup {None}, user : Users \cup {None},
            att : Attempts \cup {None}]

SessionRow == [user : Users \cup {None}, auth : Times, seen : Times, idle : Times,
               abs : Times, revoked : BOOLEAN, csrf : 0 .. MaxCsrf,
               from : SessionIds \cup {None}, att : Attempts \cup {None}]

\* What a request names, and what it has found in the rows it has locked.
SlotFacts(s) ==
    LET q == req[s] IN
    /\ q.at <= now
    /\ q.stage = "idle" => q.txn = None /\ q.op = None
    /\ q.stage = "session" => q.txn \in Joined
    /\ q.stage = "user" => q.txn \in Joined \cup {"issue", "block", "unblock"}
    /\ q.sess # None => q.sess \in Created
    /\ q.txn \in Joined \cup {"revoke"} => q.sess # None
    /\ q.txn = "authenticate" => q.op \in {"call", "bootstrap", "logout", "login"}
    /\ q.txn \in {"consume", "exchange", "issue", "rotate"} => q.op = "login"
    /\ q.op = "login" => q.att \in Attempts
    /\ q.txn \in {"issue", "rotate", "block", "unblock"} => q.user \in known
    /\ q.stage = "user" /\ q.txn \in Joined =>
         /\ ~session[q.sess].revoked /\ session[q.sess].user \notin blocked
         /\ Rotatable(q)
    /\ q.stage = "user" /\ q.txn = "issue" => q.user \notin blocked

\* A session row and a user row are locked by one request.
Mutex ==
    /\ \A s, r \in Slots, x \in SessionIds : s # r => ~(HoldsSession(s, x) /\ HoldsSession(r, x))
    /\ \A s, r \in Slots, u \in Users : s # r => ~(HoldsUser(s, u) /\ HoldsUser(r, u))

\* The rows by themselves.
RowInv ==
    /\ BlockedIsOut
    /\ OneSuccessor
    /\ LifeIsBounded
    /\ \A x \in Created : session[x].from # None => session[x].from \in Created

\* A login that has consumed its attempt, and has not made its session yet.
Spending(s) == req[s].op = "login" /\ req[s].txn \in {"authenticate", "exchange", "issue", "rotate"}

Spent(a) == a \in Attempts /\ attempt[a].state = "consumed"

\* An attempt is spent for one request, or for one session.
AttemptInv ==
    /\ \A x \in Created : Spent(session[x].att)
    /\ \A s \in Slots : Spending(s) =>
         Spent(req[s].att) /\ \A x \in Created : session[x].att # req[s].att
    /\ \A s, r \in Slots : s # r /\ Spending(s) /\ Spending(r) => req[s].att # req[r].att
    /\ AttemptSpentOnce

\* The inductive invariant.
IInv ==
    /\ TypeOK
    /\ RowInv
    /\ \A s \in Slots : SlotFacts(s)
    /\ Mutex
    /\ AttemptInv

---------------------------------------------------------------------------
\* The sums of durations are times.
LEMMA TimesFacts ==
  /\ 0 \in Times
  /\ \A t \in 0 .. MaxTime : /\ t \in Times /\ t + IdleLife \in Times /\ t + AbsoluteLife \in Times
                             /\ t + AttemptLife \in Times
  /\ Times \subseteq Nat
  BY WebSessionAssumption DEF Times

\* An empty slot and an absent row have their types.
LEMMA IdleFacts ==
  /\ Idle \in Request /\ Idle.stage = "idle" /\ Idle.txn = None /\ Idle.op = None
  /\ Idle.sess = None /\ Idle.at = 0
  /\ NoRow \in SessionRow /\ NoRow.user = None
  /\ None \notin Users /\ None \notin SessionIds /\ None \notin Attempts
  <1>1. 0 \in Times /\ 0 \in 0 .. MaxCsrf
    BY TimesFacts, WebSessionAssumption
  <1> QED
    BY <1>1, WebSessionAssumption DEF Idle, NoRow, Request, SessionRow

\* The types of the rows and requests, in short.
LEMMA Types ==
  ASSUME TypeOK
  PROVE  /\ now \in 0 .. MaxTime /\ known \subseteq Users /\ blocked \subseteq known
         /\ session \in [SessionIds -> SessionRow] /\ req \in [Slots -> Request]
         /\ attempt \in [Attempts -> [state : {"unused", "open", "consumed"}, ends : Times]]
         /\ Created \subseteq SessionIds /\ \A x \in Created : session[x].user \in known
  BY DEF TypeOK, SessionRow, Request, Created

\* No user, session or attempt, an idle server: the inductive invariant holds.
LEMMA InitInv == Init => IInv
  <1> SUFFICES ASSUME Init PROVE IInv
    OBVIOUS
  <1>1. Created = {}
    BY IdleFacts DEF Init, Created
  <1>2. TypeOK
    <2>1. now \in 0 .. MaxTime
      BY WebSessionAssumption DEF Init
    <2>2. session \in [SessionIds -> SessionRow] /\ req \in [Slots -> Request]
      BY IdleFacts DEF Init
    <2>3. attempt \in [Attempts -> [state : {"unused", "open", "consumed"}, ends : Times]]
      BY TimesFacts DEF Init
    <2> QED
      BY <1>1, <2>1, <2>2, <2>3 DEF Init, TypeOK, SessionRow, Request
  <1>3. RowInv
    BY <1>1 DEF RowInv, BlockedIsOut, OneSuccessor, LifeIsBounded
  <1>4. \A s \in Slots : req[s] = Idle
    BY DEF Init
  <1>5. ASSUME NEW s \in Slots PROVE SlotFacts(s)
    BY <1>4, IdleFacts, WebSessionAssumption DEF Init, SlotFacts, Joined, Transactions, AllOps
  <1>6. Mutex
    BY <1>4, IdleFacts DEF Mutex, HoldsSession, HoldsUser
  <1>7. AttemptInv
    BY <1>1, <1>4, IdleFacts DEF AttemptInv, Spending, AttemptSpentOnce
  <1> QED
    BY <1>2, <1>3, <1>5, <1>6, <1>7 DEF IInv

---------------------------------------------------------------------------
\* A step leaves what another request has found out as it is.
Undisturbed(r) ==
    req[r].stage = "user" =>
      /\ req[r].txn \in Joined =>
           session'[req[r].sess].revoked = session[req[r].sess].revoked
      /\ req[r].txn \in Joined \cup {"issue"} /\ LockedUser(req[r]) \notin blocked =>
           LockedUser(req[r]) \notin blocked'

\* A request that steps without disturbing the others, and locks what is free,
\* keeps what all requests know, and the locks exclusive.
LEMMA SlotStep ==
  ASSUME IInv, NEW s \in Slots, NEW q \in Request, req' = [req EXCEPT ![s] = q],
         now' = now, known \subseteq known',
         \A x \in Created : session'[x].user = session[x].user,
         \A r \in Slots \ {s} : Undisturbed(r),
         SlotFacts(s)',
         \/ q.stage \in {"idle", "next", "start"}
         \/ /\ UNCHANGED session
            /\ q.txn \in Joined => SessionFree(s, q.sess)
            /\ q.stage = "user" => UserFree(s, LockedUser(q))
  PROVE  (\A r \in Slots : SlotFacts(r)') /\ Mutex'
  <1>0. req \in [Slots -> Request] /\ session \in [SessionIds -> SessionRow] /\ Created \subseteq SessionIds
    BY Types DEF IInv
  <1>1. req'[s] = q /\ \A r \in Slots \ {s} : req'[r] = req[r]
    BY <1>0
  <1>2. \A x \in Created : x \in Created'
    BY IdleFacts DEF Created
  <1>3. ASSUME NEW r \in Slots \ {s} PROVE SlotFacts(r)'
    <2>1. SlotFacts(r) /\ Undisturbed(r) /\ req'[r] = req[r]
      BY <1>1 DEF IInv
    <2>2. req[r].sess # None => req[r].sess \in Created'
      BY <1>2, <2>1 DEF SlotFacts
    <2>3. req[r].stage = "user" /\ req[r].txn \in Joined =>
            /\ ~session'[req[r].sess].revoked /\ session'[req[r].sess].user \notin blocked'
            /\ req[r].txn = "rotate" => session'[req[r].sess].user = req[r].user
      BY <2>1 DEF SlotFacts, Undisturbed, LockedUser, Rotatable
    <2>4. req[r].stage = "user" /\ req[r].txn = "issue" => req[r].user \notin blocked'
      BY <2>1 DEF SlotFacts, Undisturbed, LockedUser, Joined
    <2> QED
      BY <2>1, <2>2, <2>3, <2>4 DEF SlotFacts, Rotatable
  <1>4. \A r \in Slots \ {s}, x \in SessionIds : HoldsSession(r, x)' <=> HoldsSession(r, x)
    BY <1>1 DEF HoldsSession
  <1>5. \A r \in Slots \ {s}, u \in Users : HoldsUser(r, u)' <=> HoldsUser(r, u)
    <2>1. \A r \in Slots : req[r].txn \in Joined => req[r].sess \in Created
      BY DEF IInv, SlotFacts
    <2> QED
      BY <1>1, <2>1 DEF HoldsUser, LockedUser
  <1>6. \A x \in SessionIds, r \in Slots \ {s} : HoldsSession(s, x)' => ~HoldsSession(r, x)
    BY <1>1 DEF HoldsSession, SessionFree
  <1>7. \A u \in Users, r \in Slots \ {s} : HoldsUser(s, u)' => ~HoldsUser(r, u)
    BY <1>1 DEF HoldsUser, LockedUser, UserFree
  <1>8. Mutex'
    <2>1. ASSUME NEW r \in Slots, NEW t \in Slots, NEW x \in SessionIds, r # t
          PROVE  ~(HoldsSession(r, x)' /\ HoldsSession(t, x)')
      BY <1>4, <1>6, <2>1 DEF IInv, Mutex
    <2>2. ASSUME NEW r \in Slots, NEW t \in Slots, NEW u \in Users, r # t
          PROVE  ~(HoldsUser(r, u)' /\ HoldsUser(t, u)')
      BY <1>5, <1>7, <2>2 DEF IInv, Mutex
    <2> QED
      BY <2>1, <2>2 DEF Mutex
  <1> QED
    BY <1>3, <1>8

\* Steps that make no session and consume no attempt keep the attempts' facts.
LEMMA AttemptStep ==
  ASSUME IInv, NEW s \in Slots, NEW q \in Request, req' = [req EXCEPT ![s] = q],
         Created' = Created, \A x \in Created : session'[x].att = session[x].att,
         \A a \in Attempts : Spent(a) => Spent(a)',
         q.op = "login" /\ q.txn \in {"authenticate", "exchange", "issue", "rotate"} =>
             Spending(s) /\ q.att = req[s].att
  PROVE  AttemptInv'
  <1>0. req'[s] = q /\ \A r \in Slots \ {s} : req'[r] = req[r]
    BY Types DEF IInv
  <1>1. \A r \in Slots : Spending(r)' => Spending(r) /\ req'[r].att = req[r].att
    BY <1>0 DEF Spending
  <1>2. \A a : Spent(a) => Spent(a)'
    BY DEF Spent
  <1> QED
    BY <1>1, <1>2 DEF IInv, AttemptInv, AttemptSpentOnce

\* A step of one request that changes no row.
LEMMA RequestStep ==
  ASSUME IInv, NEW s \in Slots, NEW q \in Request, req' = [req EXCEPT ![s] = q],
         UNCHANGED <<now, rows>>, SlotFacts(s)',
         q.op = "login" /\ q.txn \in {"authenticate", "exchange", "issue", "rotate"} =>
             Spending(s) /\ q.att = req[s].att,
         \/ q.stage \in {"idle", "next", "start"}
         \/ /\ q.txn \in Joined => SessionFree(s, q.sess)
            /\ q.stage = "user" => UserFree(s, LockedUser(q))
  PROVE  IInv'
  <1> USE DEF rows
  <1>1. (\A r \in Slots : SlotFacts(r)') /\ Mutex'
    <2>1. \A r \in Slots \ {s} : Undisturbed(r)
      BY DEF Undisturbed
    <2> QED
      BY <2>1, SlotStep
  <1>2. Created' = Created
    BY DEF Created
  <1>3. AttemptInv'
    BY <1>2, AttemptStep DEF Spent
  <1>4. RowInv'
    BY <1>2 DEF IInv, RowInv, BlockedIsOut, OneSuccessor, LifeIsBounded
  <1>5. TypeOK'
    <2>1. req' \in [Slots -> Request]
      BY Types DEF IInv
    <2> QED
      BY <1>2, <2>1 DEF IInv, TypeOK, Request
  <1> QED
    BY <1>1, <1>3, <1>4, <1>5 DEF IInv

---------------------------------------------------------------------------
\* A new request names a session that exists, a known user, or an attempt.
LEMMA BeginsInv ==
  ASSUME IInv, NEW s \in Slots, NEW op \in AllOps, NEW txn \in Transactions,
         NEW x \in Created \cup {None}, NEW u \in known \cup {None},
         NEW a \in Attempts \cup {None},
         Begins(s, op, txn, x, u, a),
         \/ txn = "authenticate" /\ x # None /\ op \in {"call", "bootstrap", "logout"}
         \/ txn = "consume" /\ op = "login" /\ a # None
         \/ txn \in {"block", "unblock"} /\ op = txn /\ u # None
  PROVE  IInv'
  <1> DEFINE q == [op |-> op, txn |-> txn, stage |-> "next", at |-> 0, sess |-> x, user |-> u,
                   att |-> a]
  <1>1. q \in Request
    BY Types, TimesFacts DEF IInv, Request
  <1>2. req' = [req EXCEPT ![s] = q] /\ req'[s] = q /\ UNCHANGED <<now, rows>>
    BY Types DEF IInv, Begins
  <1>3. 0 <= now
    BY Types, WebSessionAssumption DEF IInv
  <1>4. SlotFacts(s)'
    BY <1>2, <1>3, IdleFacts, WebSessionAssumption
       DEF SlotFacts, Created, rows, Joined, Transactions, AllOps
  <1> QED
    BY <1>1, <1>2, <1>4, RequestStep, WebSessionAssumption DEF Transactions

\* The three kinds of request.
LEMMA ArriveInv ==
  ASSUME IInv, NEW s \in Slots,
         \/ \E x \in Created : Call(s, x)
         \/ \E a \in Attempts, x \in Created \cup {None} : Callback(s, a, x)
         \/ \E u \in known : Operate(s, u)
  PROVE  IInv'
  <1> USE IdleFacts DEF AllOps, Transactions, Joined
  <1>1. CASE \E x \in Created : Call(s, x)
    <2>1. PICK x \in Created, op \in {"call", "bootstrap", "logout"} :
            Begins(s, op, "authenticate", x, None, None)
      BY <1>1 DEF Call
    <2>2. x # None
      BY DEF Created
    <2> QED
      BY <2>1, <2>2, BeginsInv
  <1>2. CASE \E a \in Attempts, x \in Created \cup {None} : Callback(s, a, x)
    <2>1. PICK a \in Attempts, x \in Created \cup {None} : Begins(s, "login", "consume", x, None, a)
      BY <1>2 DEF Callback
    <2> QED
      BY <2>1, BeginsInv
  <1>3. CASE \E u \in known : Operate(s, u)
    <2>1. PICK u \in known, op \in {"block", "unblock"} : Begins(s, op, op, None, u, None)
      BY <1>3 DEF Operate
    <2>2. u # None
      BY Types DEF IInv
    <2> QED
      BY <2>1, <2>2, BeginsInv
  <1> QED
    BY <1>1, <1>2, <1>3

\* The clock is read, and is not ahead of itself.
LEMMA EnterInv == ASSUME IInv, NEW s \in Slots, Enter(s) PROVE IInv'
  <1> DEFINE q == [req[s] EXCEPT !.stage = "start", !.at = now]
  <1>1. req[s] \in Request /\ now \in Times /\ now \in Nat
    BY Types, TimesFacts, WebSessionAssumption DEF IInv
  <1>2. q \in Request
    BY <1>1 DEF Request
  <1>3. req' = [req EXCEPT ![s] = q] /\ req'[s] = q /\ UNCHANGED <<now, rows>>
    BY Types DEF IInv, Enter
  <1>4. /\ q.op = req[s].op /\ q.txn = req[s].txn /\ q.sess = req[s].sess /\ q.user = req[s].user
        /\ q.att = req[s].att /\ q.stage = "start" /\ q.at = now
    BY <1>1 DEF Request
  <1> HIDE DEF q
  <1>5. SlotFacts(s)'
    <2>1. SlotFacts(s)
      BY DEF IInv
    <2> QED
      BY <1>1, <1>3, <1>4, <2>1 DEF SlotFacts, Created, rows
  <1> QED
    BY <1>2, <1>3, <1>4, <1>5, RequestStep DEF Spending

\* The first lock of a join.
LEMMA LockSessionInv == ASSUME IInv, NEW s \in Slots, LockSession(s) PROVE IInv'
  <1> DEFINE q == [req[s] EXCEPT !.stage = "session"]
  <1>1. req[s] \in Request
    BY Types DEF IInv
  <1>2. q \in Request
    BY <1>1 DEF Request
  <1>3. req' = [req EXCEPT ![s] = q] /\ req'[s] = q /\ UNCHANGED <<now, rows>>
    BY Types DEF IInv, LockSession, Advance
  <1>4. /\ q.op = req[s].op /\ q.txn = req[s].txn /\ q.sess = req[s].sess /\ q.user = req[s].user
        /\ q.att = req[s].att /\ q.stage = "session" /\ q.at = req[s].at
    BY <1>1 DEF Request
  <1> HIDE DEF q
  <1>5. SlotFacts(s)'
    <2>1. SlotFacts(s) /\ req[s].txn \in Joined
      BY DEF IInv, LockSession
    <2> QED
      BY <1>3, <1>4, <2>1 DEF SlotFacts, Created, rows
  <1> QED
    BY <1>2, <1>3, <1>4, <1>5, RequestStep DEF Spending, LockSession

\* The user's lock, with what the rows must say.
LEMMA LockUserInv == ASSUME IInv, NEW s \in Slots, LockUser(s) PROVE IInv'
  <1> DEFINE q == [req[s] EXCEPT !.stage = "user"]
  <1>1. req[s] \in Request
    BY Types DEF IInv
  <1>2. q \in Request
    BY <1>1 DEF Request
  <1>3. req' = [req EXCEPT ![s] = q] /\ req'[s] = q /\ UNCHANGED <<now, rows>>
    BY Types DEF IInv, LockUser, Advance
  <1>4. /\ q.op = req[s].op /\ q.txn = req[s].txn /\ q.sess = req[s].sess /\ q.user = req[s].user
        /\ q.att = req[s].att /\ q.stage = "user" /\ q.at = req[s].at
    BY <1>1 DEF Request
  <1>5. /\ req[s].txn \in Joined \cup {"issue", "block", "unblock"}
        /\ req[s].txn \in Joined =>
             Usable(session[req[s].sess], req[s].at) /\ Rotatable(req[s])
        /\ req[s].txn = "issue" => req[s].user \notin blocked
    BY DEF LockUser, AtUserLock, Accepted, Joined
  <1> HIDE DEF q
  <1>6. SlotFacts(s)'
    <2>1. SlotFacts(s)
      BY DEF IInv
    <2> QED
      BY <1>3, <1>4, <1>5, <2>1 DEF SlotFacts, Created, rows, Usable, Rotatable
  <1>7. q.txn \in Joined => SessionFree(s, q.sess)
    <2>1. q.txn \in Joined => HoldsSession(s, q.sess) /\ q.sess \in SessionIds
      <3>1. req[s].txn \in Joined => req[s].stage = "session" /\ req[s].sess \in Created
        BY DEF IInv, LockUser, AtUserLock, SlotFacts, Joined
      <3> QED
        BY <1>4, <3>1 DEF HoldsSession, Created
    <2> QED
      BY <2>1 DEF IInv, Mutex, SessionFree
  <1>8. UserFree(s, LockedUser(q))
    BY <1>4 DEF LockUser, LockedUser
  <1> QED
    BY <1>2, <1>3, <1>4, <1>6, <1>7, <1>8, RequestStep DEF Spending

\* A request that ends without a commit.
LEMMA AbortInv == ASSUME IInv, NEW s \in Slots, Abort(s) PROVE IInv'
  <1>1. req' = [req EXCEPT ![s] = Idle] /\ req'[s] = Idle /\ UNCHANGED <<now, rows>>
    BY Types DEF IInv, Abort, Finish
  <1>2. now \in Nat
    BY Types, WebSessionAssumption DEF IInv
  <1>3. SlotFacts(s)'
    BY <1>1, <1>2, IdleFacts, WebSessionAssumption
       DEF SlotFacts, Joined, Transactions, AllOps, rows
  <1> QED
    BY <1>1, <1>3, IdleFacts, WebSessionAssumption, RequestStep DEF AllOps

---------------------------------------------------------------------------
\* Rows that a commit changes without making a session keep their invariant.
LEMMA RowStep ==
  ASSUME IInv, now' = now, session' \in [SessionIds -> SessionRow],
         \A x \in SessionIds :
           /\ session'[x].user = session[x].user /\ session'[x].att = session[x].att
           /\ session'[x].from = session[x].from /\ session'[x].auth = session[x].auth
           /\ session'[x].abs = session[x].abs
           /\ session[x].revoked => session'[x].revoked,
         \A x \in Created : session'[x].seen <= now /\ session'[x].idle <= session[x].abs,
         \A x \in Created : session[x].user \in blocked' => session'[x].revoked
  PROVE  Created' = Created /\ RowInv'
  <1>1. Created' = Created
    BY DEF Created
  <1>2. Created \subseteq SessionIds
    BY DEF Created
  <1>3. BlockedIsOut' /\ LifeIsBounded'
    BY <1>1, <1>2 DEF IInv, RowInv, BlockedIsOut, LifeIsBounded
  <1>4. OneSuccessor'
    BY <1>1, <1>2 DEF IInv, RowInv, OneSuccessor
  <1>5. \A x \in Created' : session'[x].from # None => session'[x].from \in Created'
    BY <1>1, <1>2 DEF IInv, RowInv
  <1> QED
    BY <1>1, <1>3, <1>4, <1>5 DEF RowInv

\* The state types after a commit.
LEMMA TypeStep ==
  ASSUME IInv, NEW s \in Slots, NEW q \in Request, req' = [req EXCEPT ![s] = q], now' = now,
         known' \subseteq Users, blocked' \subseteq known',
         session' \in [SessionIds -> SessionRow], \A x \in Created' : session'[x].user \in known',
         attempt' \in [Attempts -> [state : {"unused", "open", "consumed"}, ends : Times]]
  PROVE  TypeOK'
  <1>1. req' \in [Slots -> Request]
    BY Types DEF IInv
  <1> QED
    BY <1>1 DEF IInv, TypeOK, SessionRow, Request

\* An ended request knows nothing.
LEMMA FinishFacts ==
  ASSUME IInv, NEW s \in Slots, Finish(s), now' = now
  PROVE  SlotFacts(s)' /\ req' = [req EXCEPT ![s] = Idle]
  <1>1. req' = [req EXCEPT ![s] = Idle] /\ req'[s] = Idle
    BY Types DEF IInv, Finish
  <1>2. now \in Nat
    BY Types, WebSessionAssumption DEF IInv
  <1> QED
    BY <1>1, <1>2, IdleFacts, WebSessionAssumption DEF SlotFacts, Joined, Transactions, AllOps

\* What a request has locked, or finds free, is not what another one holds.
LEMMA Disjoint ==
  ASSUME IInv, NEW s \in Slots, NEW r \in Slots \ {s}, req[r].stage = "user",
         req[r].txn \in Joined
  PROVE  /\ req[r].sess \in Created
         /\ \A x : SessionFree(s, x) => x # req[r].sess
         /\ \A x : HoldsSession(s, x) => x # req[r].sess
         /\ \A u \in Users : HoldsUser(s, u) => u # LockedUser(req[r])
  <1>1. req[r].sess \in Created /\ HoldsSession(r, req[r].sess)
    BY DEF IInv, SlotFacts, HoldsSession
  <1>2. HoldsUser(r, LockedUser(req[r]))
    BY DEF HoldsUser
  <1> QED
    BY <1>1, <1>2 DEF IInv, Mutex, SessionFree, Created

\* A commit that makes no session: it may touch, renew or revoke what exists.
LEMMA SessionStep ==
  ASSUME IInv, NEW s \in Slots, NEW q \in Request, req' = [req EXCEPT ![s] = q],
         q.stage \in {"idle", "next"}, SlotFacts(s)',
         q.op = "login" /\ q.txn \in {"authenticate", "exchange", "issue", "rotate"} =>
             Spending(s) /\ q.att = req[s].att,
         now' = now, known' = known, attempt' = attempt, blocked' \subseteq known,
         session' \in [SessionIds -> SessionRow],
         \A x \in SessionIds :
           /\ session'[x].user = session[x].user /\ session'[x].att = session[x].att
           /\ session'[x].from = session[x].from /\ session'[x].auth = session[x].auth
           /\ session'[x].abs = session[x].abs
           /\ session[x].revoked => session'[x].revoked,
         \A x \in Created : session'[x].seen <= now /\ session'[x].idle <= session[x].abs,
         \A x \in Created : session[x].user \in blocked' => session'[x].revoked,
         \A r \in Slots \ {s} : Undisturbed(r)
  PROVE  IInv'
  <1>1. Created' = Created /\ RowInv'
    BY RowStep
  <1>2. \A x \in Created : x \in SessionIds
    BY DEF Created
  <1>3. (\A r \in Slots : SlotFacts(r)') /\ Mutex'
    BY <1>2, SlotStep
  <1>4. AttemptInv'
    BY <1>1, <1>2, AttemptStep DEF Spent
  <1>5. TypeOK'
    <2>1. \A x \in Created' : session'[x].user \in known'
      BY <1>1, <1>2, Types DEF IInv
    <2> QED
      BY <2>1, Types, TypeStep DEF IInv
  <1> QED
    BY <1>1, <1>3, <1>4, <1>5 DEF IInv

\* A request's use of its session: the row slides, but not past its absolute end.
LEMMA AuthenticateInv == ASSUME IInv, NEW s \in Slots, Authenticate(s) PROVE IInv'
  <1> DEFINE x == req[s].sess
             row == Touched(session[x], req[s].at)
  <1>0. /\ req[s] \in Request /\ x \in Created /\ x \in SessionIds /\ session[x] \in SessionRow
        /\ req[s].at \in 0 .. MaxTime /\ req[s].at <= now /\ now \in 0 .. MaxTime
        /\ SlotFacts(s) /\ HoldsSession(s, x)
    <2>1. SlotFacts(s) /\ req[s].txn = "authenticate" /\ req[s].stage = "user"
      BY DEF IInv, Authenticate, AtCommit
    <2>2. x \in Created /\ req[s].at <= now
      BY <2>1 DEF SlotFacts, Joined
    <2>3. req[s] \in Request /\ req[s].at \in Nat /\ now \in 0 .. MaxTime
      BY Types, TimesFacts DEF IInv, Request
    <2>4. HoldsSession(s, x)
      BY <2>1 DEF HoldsSession, Joined
    <2> QED
      BY <2>1, <2>2, <2>3, <2>4, Types, WebSessionAssumption DEF IInv, Created
  <1>1. /\ session' = [session EXCEPT ![x] = row] /\ now' = now
        /\ known' = known /\ blocked' = blocked /\ attempt' = attempt
    BY DEF Authenticate
  <1>2. /\ row \in SessionRow /\ row.user = session[x].user /\ row.att = session[x].att
        /\ row.from = session[x].from /\ row.auth = session[x].auth
        /\ row.abs = session[x].abs /\ row.revoked = session[x].revoked
        /\ row.seen <= now /\ row.idle <= session[x].abs
    <2>1. req[s].at + IdleLife \in Times /\ req[s].at \in Times /\ Times \subseteq Nat
      BY <1>0, TimesFacts
    <2>0. session[x].abs \in Times
      BY <1>0 DEF SessionRow
    <2>2. Slide(session[x], req[s].at) \in Times /\ Slide(session[x], req[s].at) <= session[x].abs
      <3>1. \A a, b \in Times : Earlier(a, b) \in Times /\ Earlier(a, b) <= b
        BY <2>1 DEF Earlier
      <3> QED
        BY <2>0, <2>1, <3>1 DEF Slide
    <2>3. session[x].seen <= now /\ session[x].idle <= session[x].abs
      BY <1>0 DEF IInv, RowInv, LifeIsBounded
    <2> HIDE DEF x
    <2> QED
      BY <1>0, <2>1, <2>2, <2>3 DEF Touched, SessionRow
  <1> HIDE DEF row
  <1>3. session' \in [SessionIds -> SessionRow]
    BY <1>0, <1>1, <1>2, Types DEF IInv
  <1>4. session'[x] = row /\ \A y \in SessionIds : y # x => session'[y] = session[y]
    BY <1>0, <1>1, Types DEF IInv
  <1>5. /\ \A y \in SessionIds :
             /\ session'[y].user = session[y].user /\ session'[y].att = session[y].att
             /\ session'[y].from = session[y].from /\ session'[y].auth = session[y].auth
             /\ session'[y].abs = session[y].abs
             /\ session[y].revoked => session'[y].revoked
        /\ \A y \in Created : session'[y].seen <= now /\ session'[y].idle <= session[y].abs
        /\ \A y \in Created : session[y].user \in blocked' => session'[y].revoked
    <2>1. \A y \in SessionIds :
           /\ session'[y].user = session[y].user /\ session'[y].att = session[y].att
           /\ session'[y].from = session[y].from /\ session'[y].auth = session[y].auth
           /\ session'[y].abs = session[y].abs
           /\ session[y].revoked => session'[y].revoked
      BY <1>2, <1>4
    <2>2. \A y \in Created : session'[y].seen <= now /\ session'[y].idle <= session[y].abs
      BY <1>2, <1>4 DEF IInv, RowInv, LifeIsBounded, Created
    <2>3. \A y \in Created : session[y].user \in blocked' => session'[y].revoked
      BY <1>1, <2>1 DEF IInv, RowInv, BlockedIsOut, Created
    <2> QED
      BY <2>1, <2>2, <2>3
  <1>6. PICK q \in Request :
          /\ req' = [req EXCEPT ![s] = q] /\ q.stage \in {"idle", "next"}
          /\ SlotFacts(s)'
          /\ q.op = "login" => req[s].op = "login" /\ q.att = req[s].att
    <2>1. CASE req[s].op = "call"
      BY <1>1, <2>1, FinishFacts, IdleFacts, WebSessionAssumption DEF Authenticate, AllOps
    <2>2. ASSUME NEW txn \in {"rotateCsrf", "revoke", "exchange"}, Continue(s, txn),
                 txn = "exchange" => req[s].op = "login"
          PROVE  LET q == [req[s] EXCEPT !.txn = txn, !.stage = "next", !.at = 0] IN
                 /\ q \in Request /\ req' = [req EXCEPT ![s] = q] /\ q.stage \in {"idle", "next"}
                 /\ SlotFacts(s)'
                 /\ q.op = "login" => req[s].op = "login" /\ q.att = req[s].att
      <3> DEFINE q == [req[s] EXCEPT !.txn = txn, !.stage = "next", !.at = 0]
      <3>1. q \in Request
        BY <1>0, TimesFacts DEF Request, Transactions, Joined
      <3>2. req' = [req EXCEPT ![s] = q] /\ req'[s] = q
        BY <2>2, Types DEF IInv, Continue
      <3>3. /\ q.op = req[s].op /\ q.txn = txn /\ q.sess = x /\ q.user = req[s].user
            /\ q.att = req[s].att /\ q.stage = "next" /\ q.at = 0
        BY <1>0 DEF Request
      <3> HIDE DEF q
      <3>4. SlotFacts(s)'
        BY <1>0, <1>1, <1>5, <2>2, <3>2, <3>3, IdleFacts DEF SlotFacts, Joined, Created
      <3> QED
        BY <3>1, <3>2, <3>3, <3>4 DEF q
    <2>3. req[s].op \in {"call", "bootstrap", "logout", "login"}
      BY <1>0 DEF SlotFacts, Authenticate, AtCommit
    <2>4. CASE req[s].op = "bootstrap"
      BY <2>2, <2>4 DEF Authenticate
    <2>5. CASE req[s].op = "logout"
      BY <2>2, <2>5 DEF Authenticate
    <2>6. CASE req[s].op = "login"
      BY <2>2, <2>6 DEF Authenticate
    <2> QED
      BY <2>1, <2>3, <2>4, <2>5, <2>6
  <1>7. \A r \in Slots \ {s} : Undisturbed(r)
    BY <1>0, <1>1, <1>2, <1>4, Disjoint DEF Undisturbed, Created
  <1>8. q.op = "login" /\ q.txn \in {"authenticate", "exchange", "issue", "rotate"} =>
          Spending(s) /\ q.att = req[s].att
    <2>1. req[s].txn = "authenticate"
      BY DEF Authenticate, AtCommit
    <2>2. q.op = "login" => req[s].op = "login" /\ q.att = req[s].att
      BY <1>6
    <2> QED
      BY <2>1, <2>2 DEF Spending
  <1>9. /\ req' = [req EXCEPT ![s] = q] /\ q.stage \in {"idle", "next"} /\ SlotFacts(s)'
        /\ blocked' \subseteq known
    BY <1>1, <1>6, Types DEF IInv
  <1>10. now' = now /\ known' = known /\ attempt' = attempt
    BY <1>1
  <1> HIDE DEF x
  <1> QED
    BY <1>3, <1>5, <1>7, <1>8, <1>9, <1>10, SessionStep

\* A new CSRF secret changes nothing else.
LEMMA RotateCsrfInv == ASSUME IInv, NEW s \in Slots, RotateCsrf(s) PROVE IInv'
  <1> DEFINE x == req[s].sess
  <1>1. x \in SessionIds /\ session[x] \in SessionRow
    BY Types DEF IInv, SlotFacts, RotateCsrf, AtCommit, Joined
  <1>2. [session[x] EXCEPT !.csrf = @ + 1] \in SessionRow
    BY <1>1, WebSessionAssumption DEF RotateCsrf, SessionRow
  <1>3. session' \in [SessionIds -> SessionRow]
    BY <1>1, <1>2, Types DEF IInv, RotateCsrf
  <1>4. \A y \in SessionIds :
          /\ session'[y].user = session[y].user /\ session'[y].att = session[y].att
          /\ session'[y].from = session[y].from /\ session'[y].auth = session[y].auth
          /\ session'[y].abs = session[y].abs /\ session'[y].revoked = session[y].revoked
          /\ session'[y].seen = session[y].seen /\ session'[y].idle = session[y].idle
    BY Types DEF IInv, RotateCsrf, SessionRow
  <1>5. /\ \A y \in Created : session'[y].seen <= now /\ session'[y].idle <= session[y].abs
        /\ \A y \in Created : session[y].user \in blocked' => session'[y].revoked
    BY <1>4 DEF IInv, RowInv, LifeIsBounded, BlockedIsOut, Created, RotateCsrf
  <1>6. \A r \in Slots \ {s} : Undisturbed(r)
    BY <1>4, Disjoint DEF Undisturbed, Created, RotateCsrf
  <1>7. SlotFacts(s)' /\ req' = [req EXCEPT ![s] = Idle]
    BY FinishFacts DEF RotateCsrf
  <1> QED
    BY ZenonT(60), <1>3, <1>4, <1>5, <1>6, <1>7, IdleFacts, WebSessionAssumption, Types, SessionStep
       DEF IInv, RotateCsrf, AllOps

\* A revocation waits for the row, so nobody who decides about it is disturbed.
LEMMA RevokeInv == ASSUME IInv, NEW s \in Slots, Revoke(s) PROVE IInv'
  <1> DEFINE x == req[s].sess
  <1>1. x \in SessionIds /\ session[x] \in SessionRow
    BY Types DEF IInv, SlotFacts, Revoke
  <1>2. [session[x] EXCEPT !.revoked = TRUE] \in SessionRow
    BY <1>1 DEF SessionRow
  <1>3. session' \in [SessionIds -> SessionRow]
    BY <1>1, <1>2, Types DEF IInv, Revoke
  <1>4. \A y \in SessionIds :
          /\ session'[y].user = session[y].user /\ session'[y].att = session[y].att
          /\ session'[y].from = session[y].from /\ session'[y].auth = session[y].auth
          /\ session'[y].abs = session[y].abs /\ (session[y].revoked => session'[y].revoked)
          /\ session'[y].seen = session[y].seen /\ session'[y].idle = session[y].idle
          /\ y # x => session'[y] = session[y]
    BY Types DEF IInv, Revoke, SessionRow
  <1>5. /\ \A y \in Created : session'[y].seen <= now /\ session'[y].idle <= session[y].abs
        /\ \A y \in Created : session[y].user \in blocked' => session'[y].revoked
    BY <1>4 DEF IInv, RowInv, LifeIsBounded, BlockedIsOut, Created, Revoke
  <1>6. ASSUME NEW r \in Slots \ {s} PROVE Undisturbed(r)
    <2>1. req[r].stage = "user" /\ req[r].txn \in Joined => req[r].sess # x /\ req[r].sess \in SessionIds
      BY Disjoint DEF Revoke, Created
    <2>2. blocked' = blocked
      BY DEF Revoke
    <2> QED
      BY <1>4, <2>1, <2>2 DEF Undisturbed
  <1>7. SlotFacts(s)' /\ req' = [req EXCEPT ![s] = Idle]
    BY FinishFacts DEF Revoke
  <1> QED
    BY <1>3, <1>4, <1>5, <1>6, <1>7, IdleFacts, WebSessionAssumption, Types, SessionStep
       DEF IInv, Revoke, AllOps

\* Blocking holds the user's row and revokes all of the user's sessions.
LEMMA BlockInv == ASSUME IInv, NEW s \in Slots, Block(s) PROVE IInv'
  <1> DEFINE u == req[s].user
             open == {x \in Created : session[x].user = u /\ ~session[x].revoked}
  <1>1. /\ u \in known /\ u \in Users /\ HoldsUser(s, u)
        /\ blocked' = blocked \cup {u} /\ now' = now /\ known' = known /\ attempt' = attempt
        /\ session' = [x \in SessionIds |->
              IF x \in open THEN [session[x] EXCEPT !.revoked = TRUE] ELSE session[x]]
    <2>1. u \in known /\ HoldsUser(s, u)
      BY DEF IInv, SlotFacts, Block, AtCommit, HoldsUser, LockedUser, Joined
    <2> QED
      BY <2>1, Types DEF IInv, Block
  <1>2. \A y \in SessionIds :
          /\ session'[y] \in SessionRow
          /\ session'[y].user = session[y].user /\ session'[y].att = session[y].att
          /\ session'[y].from = session[y].from /\ session'[y].auth = session[y].auth
          /\ session'[y].abs = session[y].abs /\ (session[y].revoked => session'[y].revoked)
          /\ session'[y].seen = session[y].seen /\ session'[y].idle = session[y].idle
          /\ (y \in open => session'[y].revoked) /\ (y \notin open => session'[y] = session[y])
    <2>1. \A y \in SessionIds : session[y] \in SessionRow
      BY Types DEF IInv
    <2> HIDE DEF open
    <2> QED
      BY <1>1, <2>1 DEF SessionRow
  <1>3. session' \in [SessionIds -> SessionRow]
    BY <1>1, <1>2
  <1>5. /\ \A y \in Created : session'[y].seen <= now /\ session'[y].idle <= session[y].abs
        /\ \A y \in Created : session[y].user \in blocked' => session'[y].revoked
    BY <1>1, <1>2 DEF IInv, RowInv, LifeIsBounded, BlockedIsOut, Created
  <1>6. ASSUME NEW r \in Slots \ {s} PROVE Undisturbed(r)
    <2>1. req[r].stage = "user" /\ req[r].txn \in Joined =>
            req[r].sess \notin open /\ req[r].sess \in SessionIds
      BY Disjoint DEF Block, Created
    <2>2. HoldsUser(r, LockedUser(req[r])) => LockedUser(req[r]) # u
      BY <1>1 DEF IInv, Mutex
    <2>3. req[r].stage = "user" => HoldsUser(r, LockedUser(req[r]))
      BY DEF HoldsUser
    <2> HIDE DEF open, u
    <2> QED
      BY <1>1, <1>2, <2>1, <2>2, <2>3 DEF Undisturbed
  <1>7. SlotFacts(s)' /\ req' = [req EXCEPT ![s] = Idle]
    BY FinishFacts DEF Block
  <1>8. blocked' \subseteq known
    BY <1>1, Types DEF IInv
  <1> HIDE DEF open, u
  <1> QED
    BY <1>1, <1>2, <1>3, <1>5, <1>6, <1>7, <1>8, IdleFacts, WebSessionAssumption, SessionStep
       DEF AllOps

\* Unblocking makes nothing valid again.
LEMMA UnblockInv == ASSUME IInv, NEW s \in Slots, Unblock(s) PROVE IInv'
  <1>1. SlotFacts(s)' /\ req' = [req EXCEPT ![s] = Idle]
    BY FinishFacts DEF Unblock
  <1>2. \A r \in Slots \ {s} : Undisturbed(r)
    BY DEF Undisturbed, Unblock
  <1>3. /\ \A y \in Created : session'[y].seen <= now /\ session'[y].idle <= session[y].abs
        /\ \A y \in Created : session[y].user \in blocked' => session'[y].revoked
    BY DEF IInv, RowInv, LifeIsBounded, BlockedIsOut, Unblock
  <1> QED
    BY <1>1, <1>2, <1>3, IdleFacts, WebSessionAssumption, Types, SessionStep
       DEF IInv, Unblock, AllOps

\* The upsert of an identity: the request now has a user who has one.
LEMMA ExchangeInv == ASSUME IInv, NEW s \in Slots, Exchange(s) PROVE IInv'
  <1>1. PICK u \in Users :
          /\ req[s].sess # None => session[req[s].sess].user = u
          /\ known' = known \cup {u}
          /\ req' = [req EXCEPT ![s].user = u, ![s].stage = "next",
                       ![s].txn = IF req[s].sess = None THEN "issue" ELSE "rotate"]
    BY DEF Exchange, Upserted
  <1> DEFINE q == [req[s] EXCEPT !.user = u, !.stage = "next",
                                 !.txn = IF req[s].sess = None THEN "issue" ELSE "rotate"]
  <1>2. req[s] \in Request /\ SlotFacts(s) /\ req[s].txn = "exchange" /\ req[s].op = "login"
    BY Types DEF IInv, Exchange, SlotFacts
  <1>3. q \in Request
    BY <1>2 DEF Request, Transactions, Joined
  <1>4. req' = [req EXCEPT ![s] = q] /\ req'[s] = q
    BY <1>1, Types DEF IInv
  <1>5. /\ q.op = "login" /\ q.sess = req[s].sess /\ q.user = u /\ q.att = req[s].att
        /\ q.stage = "next" /\ q.at = req[s].at
        /\ q.txn = IF req[s].sess = None THEN "issue" ELSE "rotate"
    BY <1>2 DEF Request
  <1> HIDE DEF q
  <1>6. now' = now /\ blocked' = blocked /\ session' = session /\ attempt' = attempt
        /\ Created' = Created
    BY DEF Exchange, Created
  <1>7. SlotFacts(s)'
    BY <1>1, <1>2, <1>4, <1>5, <1>6, IdleFacts DEF SlotFacts, Joined
  <1>8. (\A r \in Slots : SlotFacts(r)') /\ Mutex'
    <2>1. \A r \in Slots \ {s} : Undisturbed(r)
      BY <1>6 DEF Undisturbed
    <2> QED
      BY <1>1, <1>3, <1>4, <1>5, <1>6, <1>7, <2>1, SlotStep
  <1>9. AttemptInv'
    BY <1>2, <1>3, <1>4, <1>5, <1>6, AttemptStep DEF Spent, Spending
  <1>10. RowInv'
    BY <1>6 DEF IInv, RowInv, BlockedIsOut, OneSuccessor, LifeIsBounded
  <1>11. TypeOK'
    <2>1. /\ known' \subseteq Users /\ known \subseteq known' /\ blocked' \subseteq known'
          /\ session' \in [SessionIds -> SessionRow]
          /\ attempt' \in [Attempts -> [state : {"unused", "open", "consumed"}, ends : Times]]
      BY <1>1, <1>6, Types DEF IInv
    <2>2. \A x \in Created' : session'[x].user \in known'
      BY <1>6, <2>1, Types DEF IInv
    <2> QED
      BY <1>3, <1>4, <1>6, <2>1, <2>2, TypeStep
  <1> QED
    BY <1>8, <1>9, <1>10, <1>11 DEF IInv

\* Attempts are opened, and spent for one request.
LEMMA StartLoginInv == ASSUME IInv, StartLogin PROVE IInv'
  <1>1. PICK a \in Attempts :
          /\ attempt[a].state = "unused"
          /\ attempt' = [attempt EXCEPT ![a] = [state |-> "open", ends |-> now + AttemptLife]]
    BY DEF StartLogin
  <1>2. now' = now /\ known' = known /\ blocked' = blocked /\ session' = session /\ req' = req
        /\ Created' = Created
    BY DEF StartLogin, Created
  <1>3. attempt' \in [Attempts -> [state : {"unused", "open", "consumed"}, ends : Times]]
    BY <1>1, Types, TimesFacts DEF IInv
  <1>4. TypeOK'
    BY <1>2, <1>3 DEF IInv, TypeOK
  <1>5. RowInv'
    BY <1>2 DEF IInv, RowInv, BlockedIsOut, OneSuccessor, LifeIsBounded
  <1>6. ASSUME NEW s \in Slots PROVE SlotFacts(s)'
    <2>1. SlotFacts(s)
      BY DEF IInv
    <2> QED
      BY <1>2, <2>1 DEF SlotFacts, Rotatable, Created
  <1>8. Mutex'
    BY <1>2 DEF IInv, Mutex, HoldsSession, HoldsUser, LockedUser
  <1>7. AttemptInv'
    <2>1. \A b : Spent(b) => Spent(b)'
      BY <1>1, Types DEF IInv, Spent
    <2> QED
      BY <1>2, <2>1 DEF IInv, AttemptInv, Spending, AttemptSpentOnce
  <1> QED
    BY <1>4, <1>5, <1>6, <1>7, <1>8 DEF IInv

LEMMA ConsumeInv == ASSUME IInv, NEW s \in Slots, Consume(s) PROVE IInv'
  <1> SUFFICES ASSUME NEW a, a = req[s].att PROVE IInv'
    OBVIOUS
  <1> DEFINE txn == IF req[s].sess = None THEN "exchange" ELSE "authenticate"
             q == [req[s] EXCEPT !.txn = txn, !.stage = "next", !.at = 0]
  <1>1. /\ req[s] \in Request /\ SlotFacts(s) /\ req[s].txn = "consume" /\ req[s].op = "login"
        /\ a \in Attempts /\ attempt[a].state = "open" /\ 0 <= now
    BY Types, WebSessionAssumption DEF IInv, Consume, SlotFacts, Consumable
  <1>2. q \in Request
    BY ZenonT(60), <1>1, TimesFacts DEF Request, Transactions, Joined
  <1>3. req' = [req EXCEPT ![s] = q] /\ req'[s] = q /\ \A r \in Slots \ {s} : req'[r] = req[r]
    BY Types DEF IInv, Consume, Continue
  <1>4. /\ q.op = "login" /\ q.sess = req[s].sess /\ q.user = req[s].user /\ q.att = a
        /\ q.stage = "next" /\ q.at = 0 /\ q.txn = txn
    BY <1>1 DEF Request
  <1> HIDE DEF q
  <1>5. /\ now' = now /\ known' = known /\ blocked' = blocked /\ session' = session
        /\ attempt' = [attempt EXCEPT ![a].state = "consumed"] /\ Created' = Created
    BY DEF Consume, Created
  <1>6. attempt' \in [Attempts -> [state : {"unused", "open", "consumed"}, ends : Times]]
    BY <1>1, <1>5, Types DEF IInv
  <1>7. TypeOK'
    BY <1>2, <1>3, <1>5, <1>6, Types, TypeStep DEF IInv
  <1>8. RowInv'
    BY <1>5 DEF IInv, RowInv, BlockedIsOut, OneSuccessor, LifeIsBounded
  <1>9. SlotFacts(s)'
    BY <1>1, <1>3, <1>4, <1>5, IdleFacts DEF SlotFacts, Joined
  <1>10. (\A r \in Slots : SlotFacts(r)') /\ Mutex'
    <2>1. \A r \in Slots \ {s} : Undisturbed(r)
      BY <1>5 DEF Undisturbed
    <2> QED
      BY <1>2, <1>3, <1>4, <1>5, <1>9, <2>1, SlotStep
  <1>11. AttemptInv'
    <2>1. /\ \A b : Spent(b) => Spent(b)' /\ b # a
          /\ Spent(a)'
      BY <1>1, <1>5, Types DEF IInv, Spent
    <2>2. \A r \in Slots \ {s} : (Spending(r)' <=> Spending(r)) /\ req'[r].att = req[r].att
      BY <1>3 DEF Spending
    <2>3. req'[s].att = a
      BY <1>3, <1>4
    <2>4. \A r \in Slots : Spending(r)' =>
            Spent(req[r].att)' /\ \A x \in Created : session[x].att # req'[r].att
      BY <2>1, <2>2, <2>3 DEF IInv, AttemptInv
    <2>5. \A r, t \in Slots : r # t /\ Spending(r)' /\ Spending(t)' => req'[r].att # req'[t].att
      BY <2>1, <2>2, <2>3 DEF IInv, AttemptInv
    <2> QED
      BY <1>5, <2>1, <2>4, <2>5 DEF IInv, AttemptInv, AttemptSpentOnce
  <1> QED
    BY <1>7, <1>8, <1>10, <1>11 DEF IInv

\* The clock only makes times pass.
LEMMA TickInv == ASSUME IInv, Tick PROVE IInv'
  <1>1. now \in Nat /\ now' = now + 1 /\ now' \in 0 .. MaxTime /\ req' = req
        /\ known' = known /\ blocked' = blocked /\ session' = session /\ attempt' = attempt
        /\ Created' = Created
    BY Types, WebSessionAssumption DEF IInv, Tick, rows, Created
  <1>2. TypeOK'
    BY <1>1 DEF IInv, TypeOK
  <1>3. \A x \in Created : session[x].seen \in Nat
    BY Types, TimesFacts DEF IInv, SessionRow
  <1>4. RowInv'
    BY <1>1, <1>3 DEF IInv, RowInv, BlockedIsOut, OneSuccessor, LifeIsBounded
  <1>5. \A s \in Slots : SlotFacts(s)'
    <2>1. \A s \in Slots : req[s].at \in Nat
      BY Types, TimesFacts DEF IInv, Request
    <2> QED
      BY <1>1, <2>1 DEF IInv, SlotFacts, Rotatable
  <1>6. Mutex' /\ AttemptInv'
    BY <1>1 DEF IInv, Mutex, HoldsSession, HoldsUser, LockedUser, AttemptInv, Spending, Spent,
                AttemptSpentOnce
  <1> QED
    BY <1>2, <1>4, <1>5, <1>6 DEF IInv

---------------------------------------------------------------------------
\* Session x is made for request s; in a rotation its parent is revoked.
Inserts(s, x, parent) ==
    session' = [y \in SessionIds |->
        IF y = x THEN NewRow(req[s], parent)
        ELSE IF y = parent THEN [session[y] EXCEPT !.revoked = TRUE]
        ELSE session[y]]

\* A new session spends the attempt of its login, and, in a rotation, revokes the
\* session that it replaces.
LEMMA NewSessionInv ==
  ASSUME IInv, NEW s \in Slots, AtCommit(s, "issue") \/ AtCommit(s, "rotate"),
         NEW x \in SessionIds \ Created, NEW parent \in SessionIds \cup {None},
         parent = IF req[s].txn = "rotate" THEN req[s].sess ELSE None,
         Inserts(s, x, parent), Finish(s), UNCHANGED <<now, known, blocked, attempt>>
  PROVE  IInv'
  <1> SUFFICES ASSUME NEW q, q = req[s], NEW row, row = NewRow(q, parent) PROVE IInv'
    OBVIOUS
  <1>1. /\ q \in Request /\ SlotFacts(s) /\ q.op = "login" /\ q.user \in known /\ q.user # None
        /\ q.user \notin blocked /\ q.att \in Attempts /\ q.at <= now /\ Spending(s)
        /\ q.txn \in {"issue", "rotate"} /\ q.stage = "user"
    <2>1. SlotFacts(s) /\ q.txn \in {"issue", "rotate"} /\ q.stage = "user"
      BY DEF IInv, AtCommit
    <2>2. q \in Request /\ known \subseteq Users
      BY Types DEF IInv
    <2>3. q.op = "login" /\ q.user \in known /\ q.att \in Attempts /\ q.at <= now
      BY <2>1 DEF SlotFacts
    <2>4. q.user \notin blocked
      BY <2>1 DEF SlotFacts, Rotatable, Joined
    <2> QED
      BY <2>1, <2>2, <2>3, <2>4, IdleFacts DEF Spending
  <1>2. parent # None =>
          /\ parent \in Created /\ parent # x /\ HoldsSession(s, parent)
          /\ ~session[parent].revoked /\ session[parent].user = q.user
    BY <1>1 DEF SlotFacts, Rotatable, Joined, HoldsSession
  <1>3. q.at \in 0 .. MaxTime /\ q.at \in Nat /\ now \in 0 .. MaxTime
    BY <1>1, Types, TimesFacts, WebSessionAssumption DEF IInv, Request
  <1>4. /\ row \in SessionRow /\ row.user = q.user /\ row.from = parent /\ row.att = q.att
        /\ ~row.revoked /\ row.auth = q.at /\ row.seen = q.at
        /\ row.abs = q.at + AbsoluteLife /\ row.idle <= row.abs
    <2>1. /\ q.at \in Times /\ q.at + IdleLife \in Times /\ q.at + AbsoluteLife \in Times
          /\ Times \subseteq Nat
      BY <1>3, TimesFacts
    <2>2. \A a, b \in Times : Earlier(a, b) \in Times /\ Earlier(a, b) <= b
      BY <2>1 DEF Earlier
    <2>3. q.user \in Users
      BY <1>1, Types DEF IInv
    <2> QED
      <3>1. /\ row.user = q.user /\ row.from = parent /\ row.att = q.att
            /\ ~row.revoked /\ row.auth = q.at /\ row.seen = q.at
            /\ row.abs = q.at + AbsoluteLife /\ row.idle = Earlier(q.at + IdleLife, row.abs)
        BY DEF NewRow
      <3>2. /\ Earlier(q.at + IdleLife, q.at + AbsoluteLife) \in Times
            /\ Earlier(q.at + IdleLife, q.at + AbsoluteLife) <= q.at + AbsoluteLife
        BY <2>1, <2>2
      <3>3. 0 \in 0 .. MaxCsrf
        BY WebSessionAssumption
      <3>4. row \in SessionRow
        BY <1>1, <2>1, <2>3, <3>2, <3>3 DEF NewRow, SessionRow
      <3> QED
        BY <2>1, <2>2, <3>1, <3>4
  <1>5. /\ session'[x] = row
        /\ parent # None => session'[parent] = [session[parent] EXCEPT !.revoked = TRUE]
        /\ \A y \in SessionIds : y \notin {x, parent} => session'[y] = session[y]
    BY <1>2, IdleFacts DEF Inserts
  <1>6. session' \in [SessionIds -> SessionRow]
    <2>1. ASSUME NEW y \in SessionIds PROVE session'[y] \in SessionRow
      <3>1. session[y] \in SessionRow
        BY Types DEF IInv
      <3>2. [session[y] EXCEPT !.revoked = TRUE] \in SessionRow
        BY <3>1 DEF SessionRow
      <3> QED
        BY <1>4, <1>5, <3>1, <3>2, IdleFacts
    <2> QED
      BY <2>1 DEF Inserts
  <1>7. \A y \in SessionIds \ {x} :
          /\ session'[y].user = session[y].user /\ session'[y].att = session[y].att
          /\ session'[y].from = session[y].from /\ session'[y].auth = session[y].auth
          /\ session'[y].abs = session[y].abs /\ session'[y].seen = session[y].seen
          /\ session'[y].idle = session[y].idle
          /\ (session[y].revoked => session'[y].revoked)
          /\ y # parent => session'[y].revoked = session[y].revoked
    <2> TAKE y \in SessionIds \ {x}
    <2>1. session[y] \in SessionRow
      BY Types DEF IInv
    <2>2. CASE session'[y] = session[y]
      BY <2>2
    <2>3. CASE y = parent /\ session'[y] = [session[y] EXCEPT !.revoked = TRUE]
      BY <2>1, <2>3 DEF SessionRow
    <2> QED
      BY <1>5, <2>2, <2>3, IdleFacts
  <1>8. Created' = Created \cup {x} /\ Created \subseteq SessionIds /\ x \notin Created
    BY <1>1, <1>4, <1>5, <1>7 DEF Created
  <1>9. RowInv'
    <2>1. BlockedIsOut'
      BY <1>1, <1>4, <1>5, <1>7, <1>8 DEF IInv, RowInv, BlockedIsOut
    <2>2. LifeIsBounded'
      BY <1>1, <1>4, <1>5, <1>7, <1>8 DEF IInv, RowInv, LifeIsBounded
    <2>3. \A y \in Created' : session'[y].from # None => session'[y].from \in Created'
      BY <1>2, <1>4, <1>5, <1>7, <1>8 DEF IInv, RowInv
    <2>4. ASSUME NEW y \in Created', NEW z \in Created', session'[z].from = y
          PROVE  /\ session'[y].revoked /\ session'[y].user = session'[z].user
                 /\ \A w \in Created' : session'[w].from = y => w = z
      <3>1. y # None /\ y # x
        BY <1>2, <1>4, <1>5, <1>7, <1>8, <2>4, IdleFacts DEF IInv, RowInv
      <3>2. y \in Created
        BY <1>8, <3>1
      <3>3. CASE y = parent
        <4>1. \A w \in Created : session[w].from # y
          BY <1>2, <3>1, <3>2, <3>3 DEF IInv, RowInv, OneSuccessor
        <4>2. \A w \in Created' : session'[w].from = y => w = x
          BY <1>7, <1>8, <4>1
        <4>3. session'[y].revoked /\ session'[y].user = q.user
          BY <1>2, <1>5, <1>7, <1>8, <3>1, <3>2, <3>3, Types DEF IInv, SessionRow
        <4> QED
          BY <1>4, <1>5, <2>4, <4>2, <4>3
      <3>4. CASE y # parent
        <4>1. \A w \in Created' : session'[w].from = y => w \in Created /\ session[w].from = y
          BY <1>4, <1>5, <1>7, <1>8, <3>4
        <4> QED
          BY <1>7, <1>8, <2>4, <3>2, <4>1 DEF IInv, RowInv, OneSuccessor
      <3> QED
        BY <3>3, <3>4
    <2>5. OneSuccessor'
      BY <2>4 DEF OneSuccessor
    <2> QED
      BY <2>1, <2>2, <2>3, <2>5 DEF RowInv
  <1>10. SlotFacts(s)' /\ req' = [req EXCEPT ![s] = Idle]
    BY FinishFacts
  <1>11. (\A r \in Slots : SlotFacts(r)') /\ Mutex'
    <2>1. ASSUME NEW r \in Slots \ {s} PROVE Undisturbed(r)
      <3>1. req[r].stage = "user" /\ req[r].txn \in Joined => req[r].sess \in Created /\ req[r].sess # parent
        <4>1. CASE parent = None
          BY <4>1, IdleFacts, Disjoint DEF Created
        <4>2. CASE parent # None
          BY <1>2, <4>2, Disjoint
        <4> QED
          BY <4>1, <4>2
      <3>2. blocked' = blocked
        OBVIOUS
      <3>3. req[r].stage = "user" /\ req[r].txn \in Joined =>
              /\ req[r].sess \in SessionIds \ {x}
              /\ session'[req[r].sess].revoked = session[req[r].sess].revoked
        BY <1>7, <1>8, <3>1
      <3> QED
        BY <3>2, <3>3 DEF Undisturbed
    <2>2. \A y \in Created : session'[y].user = session[y].user
      BY <1>7, <1>8
    <2>3. Idle \in Request /\ Idle.stage = "idle" /\ now' = now /\ known \subseteq known'
      BY IdleFacts
    <2> QED
      BY <1>10, <2>1, <2>2, <2>3, SlotStep
  <1>12. TypeOK'
    <2>1. \A y \in Created' : session'[y].user \in known'
      BY <1>1, <1>4, <1>5, <1>7, <1>8, Types DEF IInv
    <2> QED
      BY <1>6, <1>10, <2>1, Types, IdleFacts, TypeStep DEF IInv
  <1>13. AttemptInv'
    <2>1. req'[s] = Idle /\ \A r \in Slots \ {s} : req'[r] = req[r]
      BY <1>10, Types DEF IInv
    <2>2. ~Spending(s)' /\ \A r \in Slots \ {s} : Spending(r)' <=> Spending(r)
      BY <2>1, IdleFacts, WebSessionAssumption DEF Spending, AllOps
    <2>3. \A a : Spent(a)' <=> Spent(a)
      BY DEF Spent
    <2>4. Spent(q.att) /\ \A y \in Created : session[y].att # q.att
      BY <1>1 DEF IInv, AttemptInv
    <2>5. \A y \in Created : y \in SessionIds \ {x} /\ session'[y].att = session[y].att
      BY <1>7, <1>8
    <2>6. \A y \in Created' : Spent(session'[y].att)
      BY <1>4, <1>5, <1>8, <2>4, <2>5 DEF IInv, AttemptInv
    <2>7. \A r \in Slots \ {s} : Spending(r) =>
            Spent(req[r].att) /\ \A y \in Created' : session'[y].att # req[r].att
      BY <1>1, <1>4, <1>5, <1>8, <2>5 DEF IInv, AttemptInv
    <2>8. AttemptSpentOnce'
      BY <1>4, <1>5, <1>8, <2>4, <2>5 DEF IInv, AttemptInv, AttemptSpentOnce
    <2>9. \A y \in Created' : Spent(session[y].att)'
      BY <2>3, <2>6
    <2>10. \A r \in Slots : Spending(r)' =>
             Spent(req[r].att)' /\ \A y \in Created' : session'[y].att # req'[r].att
      BY <2>1, <2>2, <2>3, <2>7
    <2>11. \A r, t \in Slots : r # t /\ Spending(r)' /\ Spending(t)' => req'[r].att # req'[t].att
      BY <2>1, <2>2 DEF IInv, AttemptInv
    <2> QED
      BY <2>8, <2>9, <2>10, <2>11 DEF AttemptInv
  <1> QED
    BY <1>9, <1>11, <1>12, <1>13 DEF IInv

LEMMA IssueInv == ASSUME IInv, NEW s \in Slots, Issue(s) PROVE IInv'
  <1>1. PICK x \in SessionIds \ Created : session' = [session EXCEPT ![x] = NewRow(req[s], None)]
    BY DEF Issue
  <1>2. Inserts(s, x, None)
    BY <1>1, IdleFacts, Types DEF IInv, Inserts
  <1>3. /\ AtCommit(s, "issue") /\ req[s].txn # "rotate" /\ Finish(s)
        /\ UNCHANGED <<now, known, blocked, attempt>>
    BY DEF Issue, AtCommit
  <1> QED
    BY <1>2, <1>3, NewSessionInv

LEMMA RotateInv == ASSUME IInv, NEW s \in Slots, Rotate(s) PROVE IInv'
  <1> DEFINE p == req[s].sess
  <1>1. PICK x \in SessionIds \ Created :
          session' = [session EXCEPT ![p].revoked = TRUE, ![x] = NewRow(req[s], p)]
    BY DEF Rotate
  <1>2. p \in Created /\ p \in SessionIds
    BY DEF IInv, SlotFacts, Rotate, AtCommit, Joined, Created
  <1>3. Inserts(s, x, p)
    BY <1>1, <1>2, Types DEF IInv, Inserts
  <1>4. /\ AtCommit(s, "rotate") /\ req[s].txn = "rotate" /\ Finish(s)
        /\ UNCHANGED <<now, known, blocked, attempt>>
    BY DEF Rotate, AtCommit
  <1> QED
    BY <1>2, <1>3, <1>4, NewSessionInv

\* Every step keeps the inductive invariant.
LEMMA StepInv == IInv /\ [Next]_vars => IInv'
  <1> SUFFICES ASSUME IInv, [Next]_vars PROVE IInv'
    OBVIOUS
  <1>1. CASE UNCHANGED vars
    <2>1. UNCHANGED <<now, known, blocked, session, attempt, req>> /\ Created' = Created
      BY <1>1 DEF vars, rows, Created
    <2>2. TypeOK' /\ RowInv'
      BY <2>1 DEF IInv, TypeOK, RowInv, BlockedIsOut, OneSuccessor, LifeIsBounded
    <2>3. ASSUME NEW s \in Slots PROVE SlotFacts(s)'
      <3>1. SlotFacts(s)
        BY DEF IInv
      <3> QED
        BY <2>1, <3>1 DEF SlotFacts, Rotatable
    <2>4. Mutex' /\ AttemptInv'
      BY <2>1 DEF IInv, Mutex, HoldsSession, HoldsUser, LockedUser, AttemptInv, Spending, Spent,
                  AttemptSpentOnce
    <2> QED
      BY <2>2, <2>3, <2>4 DEF IInv
  <1>2. ASSUME NEW s \in Slots, Step(s) PROVE IInv'
    BY <1>2, ArriveInv, EnterInv, LockSessionInv, LockUserInv, AuthenticateInv, RotateCsrfInv,
       RevokeInv, ConsumeInv, ExchangeInv, IssueInv, RotateInv, BlockInv, UnblockInv, AbortInv
       DEF Step
  <1> QED
    BY <1>1, <1>2, StartLoginInv, TickInv DEF Next

\* The inductive invariant holds in every reachable state.
LEMMA Invariant == Spec => []IInv
  BY InitInv, StepInv, PTL DEF Spec

---------------------------------------------------------------------------
\* Where a request that has locked its session finds it, and how far a session's
\* idle expiry lies ahead.
Found(s) ==
    req[s].stage = "user" /\ req[s].txn \in Joined => session[req[s].sess].seen <= req[s].at

\* Signing in again never costs time, and what that rests on.
LifeInv ==
    /\ \A x \in Created :
         /\ session[x].auth <= session[x].seen
         /\ session[x].idle <= session[x].seen + IdleLife
    /\ \A s \in Slots : Found(s)
    /\ SuccessorLivesOn

\* The rows of the sessions keep all that their lives depend on.
SameLives ==
    \A x \in SessionIds :
        /\ session'[x].user = session[x].user /\ session'[x].from = session[x].from
        /\ session'[x].auth = session[x].auth /\ session'[x].seen = session[x].seen
        /\ session'[x].idle = session[x].idle /\ session'[x].abs = session[x].abs

\* A request that steps, and sees what it has found if it holds locks then.
LEMMA SlotLife ==
  ASSUME IInv, LifeInv, SameLives, NEW s \in Slots,
         \A r \in Slots \ {s} : req'[r] = req[r],
         Found(s)'
  PROVE  LifeInv'
  <1>1. Created' = Created /\ Created \subseteq SessionIds
    BY DEF Created, SameLives
  <1>2. ASSUME NEW r \in Slots PROVE Found(r)'
    <2>1. req[r].stage = "user" /\ req[r].txn \in Joined => req[r].sess \in SessionIds
      BY <1>1 DEF IInv, SlotFacts
    <2> QED
      BY <2>1 DEF LifeInv, Found, SameLives
  <1>3. SuccessorLivesOn'
    BY <1>1 DEF LifeInv, SuccessorLivesOn, SameLives
  <1> QED
    BY <1>1, <1>2, <1>3 DEF LifeInv, SameLives

\* Every step but a touch, an issue and a rotation leaves the lives as they are;
\* a request that then holds its locks has compared the clock with last_seen_at.
LEMMA OtherStepsLife ==
  ASSUME IInv, LifeInv, NEW s \in Slots, Step(s),
         ~Authenticate(s), ~Issue(s), ~Rotate(s)
  PROVE  LifeInv'
  <1>0. /\ session \in [SessionIds -> SessionRow] /\ req \in [Slots -> Request]
        /\ Idle.stage = "idle"
    BY Types, IdleFacts DEF IInv
  <1>1. ASSUME session' = session, NEW q, req' = [req EXCEPT ![s] = q],
               q.stage = "user" /\ q.txn \in Joined => session[q.sess].seen <= q.at
        PROVE  LifeInv'
    BY <1>0, <1>1, SlotLife DEF SameLives, Found
  <1>2. ASSUME SameLives, Finish(s) PROVE LifeInv'
    BY <1>0, <1>2, SlotLife DEF Finish, Found
  <1>3. CASE \E x \in Created : Call(s, x)
    BY <1>1, <1>3 DEF Call, Begins, rows
  <1>4. CASE \E a \in Attempts, x \in Created \cup {None} : Callback(s, a, x)
    BY <1>1, <1>4 DEF Callback, Begins, rows
  <1>5. CASE \E u \in known : Operate(s, u)
    BY <1>1, <1>5 DEF Operate, Begins, rows
  <1>6. CASE Enter(s)
    <2>1. [req[s] EXCEPT !.stage = "start", !.at = now].stage = "start"
      BY <1>0 DEF Request
    <2> QED
      BY <1>1, <1>6, <2>1 DEF Enter, rows
  <1>7. CASE LockSession(s)
    <2>1. [req[s] EXCEPT !.stage = "session"].stage = "session"
      BY <1>0 DEF Request
    <2> QED
      BY <1>1, <1>7, <2>1 DEF LockSession, Advance, rows
  <1>8. CASE LockUser(s)
    <2> DEFINE q == [req[s] EXCEPT !.stage = "user"]
    <2>1. q.txn = req[s].txn /\ q.sess = req[s].sess /\ q.at = req[s].at
      BY <1>0 DEF Request
    <2>2. req[s].txn \in Joined => session[req[s].sess].seen <= req[s].at
      <3>1. req[s].txn \in Joined => Usable(session[req[s].sess], req[s].at)
        BY <1>8 DEF LockUser, Accepted, Joined
      <3> QED
        BY <3>1 DEF Usable, ActiveAt
    <2>3. session' = session /\ req' = [req EXCEPT ![s] = q]
      BY <1>8 DEF LockUser, Advance, rows
    <2> HIDE DEF q
    <2> QED
      BY <1>1, <2>1, <2>2, <2>3
  <1>9. CASE RotateCsrf(s)
    BY <1>0, <1>2, <1>9 DEF RotateCsrf, SameLives, SessionRow
  <1>10. CASE Revoke(s)
    BY <1>0, <1>2, <1>10 DEF Revoke, SameLives, SessionRow
  <1>11. CASE Consume(s)
    <2> DEFINE txn == IF req[s].sess = None THEN "exchange" ELSE "authenticate"
               q == [req[s] EXCEPT !.txn = txn, !.stage = "next", !.at = 0]
    <2>1. q.stage = "next"
      BY <1>0 DEF Request
    <2>2. session' = session /\ req' = [req EXCEPT ![s] = q]
      BY <1>11 DEF Consume, Continue
    <2> HIDE DEF q
    <2> QED
      BY <1>1, <2>1, <2>2
  <1>12. CASE Exchange(s)
    <2>1. PICK u \in Users :
            req' = [req EXCEPT ![s].user = u, ![s].stage = "next",
                        ![s].txn = IF req[s].sess = None THEN "issue" ELSE "rotate"]
      BY <1>12 DEF Exchange
    <2>2. req'[s].stage = "next" /\ \A r \in Slots \ {s} : req'[r] = req[r]
      BY <1>0, <2>1 DEF Request
    <2>3. SameLives
      BY <1>12 DEF Exchange, SameLives
    <2> QED
      BY <2>2, <2>3, SlotLife DEF Found
  <1>13. CASE Block(s)
    BY <1>0, <1>2, <1>13 DEF Block, SameLives, SessionRow
  <1>14. CASE Unblock(s)
    BY <1>2, <1>14 DEF Unblock, SameLives
  <1>15. CASE Abort(s)
    BY <1>2, <1>15 DEF Abort, SameLives, rows
  <1> QED
    BY <1>3, <1>4, <1>5, <1>6, <1>7, <1>8, <1>9, <1>10, <1>11, <1>12, <1>13, <1>14, <1>15 DEF Step

\* A touch moves last_seen_at and the idle expiry forward; nothing has replaced
\* the session, which is not revoked, and nobody else has found it.
LEMMA AuthenticateLife ==
  ASSUME IInv, LifeInv, NEW s \in Slots, Authenticate(s) PROVE LifeInv'
  <1> SUFFICES ASSUME NEW p, p = req[s].sess, NEW t, t = req[s].at,
                      NEW row, row = Touched(session[p], t)
               PROVE  LifeInv'
    OBVIOUS
  <1>1. /\ req[s].txn = "authenticate" /\ req[s].stage = "user" /\ SlotFacts(s) /\ Found(s)
        /\ HoldsSession(s, p) /\ session' = [session EXCEPT ![p] = row]
    BY DEF IInv, LifeInv, Authenticate, AtCommit, HoldsSession, Joined
  <1>2. p \in Created /\ ~session[p].revoked /\ session[p].seen <= t
    BY <1>1 DEF SlotFacts, Found, Joined
  <1>3. /\ session \in [SessionIds -> SessionRow] /\ req \in [Slots -> Request]
        /\ Created \subseteq SessionIds /\ Times \subseteq Nat
        /\ session[p] \in SessionRow /\ req[s] \in Request
        /\ t \in Nat /\ IdleLife \in Nat
    <2>1. /\ session \in [SessionIds -> SessionRow] /\ req \in [Slots -> Request]
          /\ Created \subseteq SessionIds
      BY Types DEF IInv
    <2>2. session[p] \in SessionRow /\ req[s] \in Request
      BY <1>2, <2>1
    <2> QED
      BY <2>1, <2>2, TimesFacts, WebSessionAssumption DEF Request
  <1>4. /\ row.user = session[p].user /\ row.from = session[p].from
        /\ row.auth = session[p].auth /\ row.abs = session[p].abs
        /\ row.auth <= row.seen /\ row.seen >= session[p].seen
        /\ row.idle >= session[p].idle /\ row.idle <= row.seen + IdleLife
    <2>1. /\ session[p].auth \in Nat /\ session[p].seen \in Nat /\ session[p].idle \in Nat
          /\ session[p].abs \in Nat
      BY <1>3 DEF SessionRow
    <2>2. /\ session[p].auth <= session[p].seen /\ session[p].idle <= session[p].seen + IdleLife
          /\ session[p].idle <= session[p].abs
      BY <1>2 DEF IInv, RowInv, LifeIsBounded, LifeInv
    <2>3. /\ Slide(session[p], t) >= session[p].idle /\ Slide(session[p], t) <= t + IdleLife
      BY <1>2, <1>3, <2>1, <2>2 DEF Slide, Earlier
    <2>4. CASE row = session[p]
      BY <2>1, <2>2, <2>4
    <2>5. CASE row = [session[p] EXCEPT !.seen = t, !.idle = Slide(session[p], t)]
      <3>1. /\ row.seen = t /\ row.idle = Slide(session[p], t)
            /\ row.user = session[p].user /\ row.from = session[p].from
            /\ row.auth = session[p].auth /\ row.abs = session[p].abs
        BY <1>3, <2>5 DEF SessionRow
      <3> QED
        BY <1>2, <1>3, <2>1, <2>2, <2>3, <3>1
    <2> QED
      BY <2>4, <2>5 DEF Touched
  <1>5. session'[p] = row /\ \A y \in SessionIds : y # p => session'[y] = session[y]
    BY <1>1, <1>2, <1>3
  <1>6. Created' = Created
    BY <1>3, <1>4, <1>5 DEF Created
  <1>7. \A y \in Created : session'[y].from # p
    <2>1. \A y \in Created : session[y].from # p
      BY <1>2 DEF IInv, RowInv, OneSuccessor
    <2> QED
      BY <1>3, <1>4, <1>5, <2>1, <1>2
  <1>8. SuccessorLivesOn'
    <2>1. ASSUME NEW x \in Created, NEW y \in Created, session'[y].from = x
          PROVE  /\ session'[y].seen >= session'[x].seen
                 /\ session'[y].idle >= session'[x].idle
                 /\ session'[y].abs >= session'[x].abs
      <3>1. x # p /\ session'[x] = session[x]
        BY <1>3, <1>5, <1>7, <2>1
      <3>2. session[y].from = x
        BY <1>3, <1>4, <1>5, <2>1
      <3>3. /\ session[y].seen >= session[x].seen
            /\ session[y].idle >= session[x].idle
            /\ session[y].abs >= session[x].abs
        BY <3>2 DEF LifeInv, SuccessorLivesOn
      <3>4. session'[y].seen >= session[y].seen /\ session'[y].idle >= session[y].idle
              /\ session'[y].abs = session[y].abs
        <4>1. session[y] \in SessionRow /\ session[y].seen \in Nat /\ session[y].idle \in Nat
          BY <1>3 DEF SessionRow
        <4> QED
          BY <1>3, <1>4, <1>5, <4>1
      <3>5. /\ session[x].seen \in Nat /\ session[x].idle \in Nat
            /\ session[y].seen \in Nat /\ session[y].idle \in Nat
            /\ session'[y].seen \in Nat /\ session'[y].idle \in Nat
        <4>1. session[x] \in SessionRow /\ session[y] \in SessionRow
          BY <1>3
        <4>2. IInv'
          BY AuthenticateInv
        <4>3. session' \in [SessionIds -> SessionRow]
          BY <4>2 DEF IInv, TypeOK, SessionRow
        <4> QED
          BY <1>3, <4>1, <4>3 DEF SessionRow
      <3> QED
        BY <3>1, <3>3, <3>4, <3>5
    <2> QED
      BY <1>6, <2>1 DEF SuccessorLivesOn
  <1>9. req'[s].stage # "user" /\ \A r \in Slots \ {s} : req'[r] = req[r]
    <2>1. \A txn : Continue(s, txn) =>
            req'[s].stage = "next" /\ \A r \in Slots \ {s} : req'[r] = req[r]
      BY <1>3 DEF Continue, Request
    <2>2. Finish(s) => req'[s].stage = "idle" /\ \A r \in Slots \ {s} : req'[r] = req[r]
      BY <1>3, IdleFacts DEF Finish
    <2>3. req[s].op \in {"call", "bootstrap", "logout", "login"}
      BY <1>1 DEF SlotFacts
    <2> QED
      BY <2>1, <2>2, <2>3 DEF Authenticate
  <1>10. ASSUME NEW r \in Slots PROVE Found(r)'
    <2>1. CASE r = s
      BY <1>9, <2>1 DEF Found
    <2>2. CASE r # s /\ req[r].stage = "user" /\ req[r].txn \in Joined
      <3>1. req[r].sess \in Created /\ req[r].sess # p
        BY <1>1, <2>2, Disjoint
      <3> QED
        BY <1>3, <1>5, <1>9, <2>2, <3>1 DEF LifeInv, Found
    <2> QED
      BY <1>9, <2>1, <2>2 DEF Found
  <1>11. \A y \in Created :
           /\ session'[y].auth <= session'[y].seen
           /\ session'[y].idle <= session'[y].seen + IdleLife
    BY <1>3, <1>4, <1>5 DEF LifeInv
  <1> QED
    BY <1>6, <1>8, <1>10, <1>11 DEF LifeInv

\* A session that replaces another one is seen when its request read the clock,
\* and that is not before the other one was seen.
LEMMA NewSessionLife ==
  ASSUME IInv, LifeInv, NEW s \in Slots, AtCommit(s, "issue") \/ AtCommit(s, "rotate"),
         NEW x \in SessionIds \ Created, NEW parent \in SessionIds \cup {None},
         parent = IF req[s].txn = "rotate" THEN req[s].sess ELSE None,
         Inserts(s, x, parent), Finish(s)
  PROVE  LifeInv'
  <1> SUFFICES ASSUME NEW t, t = req[s].at, NEW row, row = NewRow(req[s], parent) PROVE LifeInv'
    OBVIOUS
  <1>1. /\ session \in [SessionIds -> SessionRow] /\ req \in [Slots -> Request]
        /\ Created \subseteq SessionIds /\ Times \subseteq Nat /\ known \subseteq Users
        /\ t \in Nat /\ IdleLife \in Nat /\ AbsoluteLife \in Nat
    BY Types, TimesFacts, WebSessionAssumption DEF IInv, Request
  <1>2. /\ SlotFacts(s) /\ Found(s) /\ req[s].stage = "user" /\ req[s].txn \in {"issue", "rotate"}
    BY DEF IInv, LifeInv, AtCommit
  <1>3. parent # None => /\ parent \in Created /\ parent # x /\ ~session[parent].revoked
                         /\ session[parent].seen <= t
    BY <1>2 DEF SlotFacts, Found, Joined
  <1>4. /\ row.user = req[s].user /\ row.from = parent /\ row.auth = t /\ row.seen = t
        /\ row.abs = t + AbsoluteLife /\ row.idle = Earlier(t + IdleLife, t + AbsoluteLife)
    BY DEF NewRow
  <1>5. row.user # None
    BY <1>1, <1>2, <1>4, IdleFacts DEF SlotFacts
  <1>6. session'[x] = row
    BY DEF Inserts
  <1>7. \A y \in SessionIds \ {x} :
          /\ session'[y].user = session[y].user /\ session'[y].from = session[y].from
          /\ session'[y].auth = session[y].auth /\ session'[y].seen = session[y].seen
          /\ session'[y].idle = session[y].idle /\ session'[y].abs = session[y].abs
    <2> TAKE y \in SessionIds \ {x}
    <2>1. session[y] \in SessionRow
      BY <1>1
    <2>2. session'[y] = IF y = parent THEN [session[y] EXCEPT !.revoked = TRUE] ELSE session[y]
      BY DEF Inserts
    <2> QED
      BY <2>1, <2>2 DEF SessionRow
  <1>8. Created' = Created \cup {x}
    BY <1>1, <1>4, <1>5, <1>6, <1>7 DEF Created
  <1>9. parent # None => /\ row.seen >= session[parent].seen /\ row.idle >= session[parent].idle
                         /\ row.abs >= session[parent].abs
    <2> HAVE parent # None
    <2>1. /\ session[parent].auth \in Nat /\ session[parent].seen \in Nat
          /\ session[parent].idle \in Nat /\ session[parent].abs \in Nat
      <3>1. session[parent] \in SessionRow
        BY <1>1, <1>3
      <3> QED
        BY <1>1, <3>1 DEF SessionRow
    <2>2. /\ session[parent].auth <= session[parent].seen
          /\ session[parent].idle <= session[parent].seen + IdleLife
          /\ session[parent].abs = session[parent].auth + AbsoluteLife
          /\ session[parent].idle <= session[parent].abs
      BY <1>3 DEF IInv, RowInv, LifeIsBounded, LifeInv
    <2> QED
      BY <1>1, <1>3, <1>4, <2>1, <2>2 DEF Earlier
  <1>10. SuccessorLivesOn'
    <2>1. ASSUME NEW y \in Created', NEW z \in Created', session'[z].from = y
          PROVE  /\ session'[z].seen >= session'[y].seen
                 /\ session'[z].idle >= session'[y].idle
                 /\ session'[z].abs >= session'[y].abs
      <3>1. y \in Created /\ y # x
        BY <1>1, <1>3, <1>4, <1>6, <1>7, <1>8, <2>1, IdleFacts DEF IInv, RowInv
      <3>2. CASE z = x
        BY <1>1, <1>4, <1>6, <1>7, <1>9, <2>1, <3>1, <3>2, IdleFacts
      <3>3. CASE z # x
        BY <1>1, <1>7, <1>8, <2>1, <3>1, <3>3 DEF LifeInv, SuccessorLivesOn
      <3> QED
        BY <3>2, <3>3
    <2> QED
      BY <2>1 DEF SuccessorLivesOn
  <1>11. \A y \in Created' :
           /\ session'[y].auth <= session'[y].seen
           /\ session'[y].idle <= session'[y].seen + IdleLife
    <2>1. /\ row.auth <= row.seen /\ row.idle <= row.seen + IdleLife
      BY <1>1, <1>4 DEF Earlier
    <2> QED
      BY <1>1, <1>6, <1>7, <1>8, <2>1 DEF LifeInv
  <1>12. ASSUME NEW r \in Slots PROVE Found(r)'
    <2>1. req' = [req EXCEPT ![s] = Idle] /\ Idle.stage = "idle"
      BY IdleFacts DEF Finish
    <2>2. CASE r = s
      BY <1>1, <2>1, <2>2 DEF Found
    <2>3. CASE r # s
      <3>1. req'[r] = req[r]
        BY <1>1, <2>1, <2>3
      <3>2. req[r].stage = "user" /\ req[r].txn \in Joined =>
              req[r].sess \in SessionIds \ {x} /\ session[req[r].sess].seen <= req[r].at
        BY <1>1 DEF IInv, SlotFacts, LifeInv, Found
      <3> QED
        BY <1>7, <3>1, <3>2 DEF Found
    <2> QED
      BY <2>2, <2>3
  <1> QED
    BY <1>10, <1>11, <1>12 DEF LifeInv

\* Every step keeps what is known of the sessions' lives.
LEMMA LifeStep == IInv /\ LifeInv /\ [Next]_vars => LifeInv'
  <1> SUFFICES ASSUME IInv, LifeInv, [Next]_vars PROVE LifeInv'
    OBVIOUS
  <1>1. CASE UNCHANGED <<session, req>>
    BY <1>1 DEF LifeInv, Found, SuccessorLivesOn, Created
  <1>2. ASSUME NEW s \in Slots, Issue(s) PROVE LifeInv'
    <2>1. PICK x \in SessionIds \ Created : session' = [session EXCEPT ![x] = NewRow(req[s], None)]
      BY <1>2 DEF Issue
    <2>2. Inserts(s, x, None)
      BY <2>1, IdleFacts, Types DEF IInv, Inserts
    <2>3. AtCommit(s, "issue") /\ req[s].txn # "rotate" /\ Finish(s)
      BY <1>2 DEF Issue, AtCommit
    <2> QED
      BY <2>2, <2>3, NewSessionLife
  <1>3. ASSUME NEW s \in Slots, Rotate(s) PROVE LifeInv'
    <2> DEFINE p == req[s].sess
    <2>1. PICK x \in SessionIds \ Created :
            session' = [session EXCEPT ![p].revoked = TRUE, ![x] = NewRow(req[s], p)]
      BY <1>3 DEF Rotate
    <2>2. p \in Created /\ p \in SessionIds
      BY <1>3 DEF IInv, SlotFacts, Rotate, AtCommit, Joined, Created
    <2>3. Inserts(s, x, p)
      BY <2>1, <2>2, Types DEF IInv, Inserts
    <2>4. AtCommit(s, "rotate") /\ req[s].txn = "rotate" /\ Finish(s)
      BY <1>3 DEF Rotate, AtCommit
    <2> QED
      BY <2>2, <2>3, <2>4, NewSessionLife
  <1>4. ASSUME NEW s \in Slots, Step(s) PROVE LifeInv'
    BY <1>2, <1>3, <1>4, AuthenticateLife, OtherStepsLife
  <1> QED
    BY <1>1, <1>4 DEF Next, vars, rows, StartLogin, Tick

---------------------------------------------------------------------------
\* Every reachable state has the types of TypeOK; above all, only users with an
\* identity are blocked or have sessions (upsertGitHub, issue, blockUser).
THEOREM TypeCorrect == Spec => []TypeOK
  <1>1. IInv => TypeOK
    BY DEF IInv
  <1> QED
    BY <1>1, Invariant, PTL

\* However many logins, rotations and requests race a block, the blocked user has
\* no open session, and every session is of a user with an identity (blockUser,
\* issue, rotateForReauthentication, upsertGitHub).
THEOREM BlockedHaveNoSession == Spec => []SessionsLegitimate
  <1>1. IInv => SessionsLegitimate
    BY DEF IInv, TypeOK, RowInv, SessionsLegitimate
  <1> QED
    BY <1>1, Invariant, PTL

\* However many callbacks carry its cookie, a session has one successor, of the
\* same user, and is revoked by then (rotateForReauthentication).
THEOREM RotationsExclusive == Spec => []OneSuccessor
  <1>1. IInv => OneSuccessor
    BY DEF IInv, RowInv
  <1> QED
    BY <1>1, Invariant, PTL

\* However often a callback is repeated, its attempt yields one session
\* (consumeAttempt).
THEOREM AttemptsSpentOnce == Spec => []AttemptSpentOnce
  <1>1. IInv => AttemptSpentOnce
    BY DEF IInv, AttemptInv
  <1> QED
    BY <1>1, Invariant, PTL

\* Whatever the durations and the order of the requests that touch it, a session
\* ends at its absolute expiry (authenticate).
THEOREM LivesBounded == Spec => []LifeIsBounded
  <1>1. IInv => LifeIsBounded
    BY DEF IInv, RowInv
  <1> QED
    BY <1>1, Invariant, PTL

\* However late a rotation's reading of the clock is overtaken by requests that
\* slide the session, the session that replaces it was not seen earlier and ends
\* no earlier (activeAt, issue, rotateForReauthentication).
THEOREM SuccessorsLiveOn == Spec => []SuccessorLivesOn
  <1>1. Init => LifeInv
    <2>1. ASSUME Init PROVE LifeInv
      <3>1. Created = {} /\ \A s \in Slots : req[s].stage = "idle"
        BY <2>1, IdleFacts DEF Init, Created
      <3> QED
        BY <3>1 DEF LifeInv, Found, SuccessorLivesOn
    <2> QED
      BY <2>1
  <1>2. LifeInv => SuccessorLivesOn
    BY DEF LifeInv
  <1> QED
    BY <1>1, <1>2, LifeStep, Invariant, PTL DEF Spec
=============================================================================
