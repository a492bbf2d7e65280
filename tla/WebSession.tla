----------------------------- MODULE WebSession -----------------------------
(***************************************************************************)
(* Web sessions and GitHub logins: web-auth/session-service.ts, the        *)
(* callback and session routes of web-auth/routes.ts with oauth-service.ts *)
(* and identity-service.ts, and the blocking of a user                     *)
(* (control/operator-service.ts).                                          *)
(*                                                                         *)
(* A request is a sequence of transactions; each reads the clock before    *)
(* it locks anything (Enter), so the time it decides with may be older     *)
(* than rows it then waits for.                                            *)
(*                                                                         *)
(* - SELECT ... FOR UPDATE over web_sessions JOIN users locks the session  *)
(*   row, then the user row; blocking locks the user and then updates the  *)
(*   sessions.  Abort stands for a refusal, a failure, a lost connection   *)
(*   and the victim of the deadlock that these two orders allow.           *)
(* - One GitHub account is one local user: upsertGitHub serialises each    *)
(*   account with an advisory lock and is one step here.                   *)
(* - start's removal of expired attempts is left out: an expired attempt   *)
(*   cannot be consumed whether its row exists or not.                     *)
(***************************************************************************)
EXTENDS Naturals, FiniteSets

CONSTANTS
    Users, SessionIds, Attempts, Slots, None,
    Ops,                                   \* the requests of this instance
    IdleLife, AbsoluteLife, TouchInterval, AttemptLife,
    MaxTime,                               \* bound: the clock stops there
    MaxCsrf                                \* bound: CSRF secrets per session

AllOps == {"call", "bootstrap", "logout", "login", "block", "unblock"}
Joined == {"authenticate", "rotateCsrf", "rotate"}
Transactions == Joined \cup {"consume", "exchange", "issue", "revoke", "block", "unblock"}

ASSUME WebSessionAssumption ==
    /\ None \notin Users \cup SessionIds \cup Attempts \cup AllOps \cup Transactions
    /\ Ops \subseteq AllOps
    /\ IdleLife \in Nat \ {0} /\ AbsoluteLife \in Nat \ {0}
    /\ TouchInterval \in Nat \ {0} /\ AttemptLife \in Nat \ {0}
    /\ MaxTime \in Nat /\ MaxCsrf \in Nat

VARIABLES
    now,      \* the wall clock
    known,    \* users with an identity row
    blocked,  \* users whose blocked_at is set
    session,  \* the web_sessions rows
    attempt,  \* the oauth_attempts rows
    req       \* the request in each slot

rows == <<known, blocked, session, attempt>>
vars == <<now, rows, req>>

NoRow == [user |-> None, auth |-> 0, seen |-> 0, idle |-> 0, abs |-> 0,
          revoked |-> TRUE, csrf |-> 0, from |-> None, att |-> None]

Idle == [op |-> None, txn |-> None, stage |-> "idle", at |-> 0, sess |-> None,
         user |-> None, att |-> None]

Created == {x \in SessionIds : session[x].user # None}

Init ==
    /\ now = 0
    /\ known = {} /\ blocked = {}
    /\ session = [x \in SessionIds |-> NoRow]
    /\ attempt = [a \in Attempts |-> [state |-> "unused", ends |-> 0]]
    /\ req = [s \in Slots |-> Idle]

---------------------------------------------------------------------------
\* Session rows.

Earlier(a, b) == IF a < b THEN a ELSE b

\* Mutant: last_seen_at is not compared with the reading of the clock.
ActiveUnseen(r, t) == r.auth <= t /\ t < r.idle /\ t < r.abs

ActiveAt(r, t) == r.auth <= t /\ r.seen <= t /\ t < r.idle /\ t < r.abs

\* Mutant: revoked_at is not looked at.
UsableRevoked(r, t) == r.user \notin blocked /\ ActiveAt(r, t)

Usable(r, t) == ~r.revoked /\ r.user \notin blocked /\ ActiveAt(r, t)

\* Mutant: the sliding expiry ignores the absolute one.
SlideUncapped(r, t) == t + IdleLife

Slide(r, t) == Earlier(t + IdleLife, r.abs)

Touched(r, t) ==
    IF t >= r.seen + TouchInterval
    THEN [r EXCEPT !.seen = t, !.idle = Slide(r, t)]
    ELSE r

NewRow(q, parent) ==
    [user |-> q.user, auth |-> q.at, seen |-> q.at,
     idle |-> Earlier(q.at + IdleLife, q.at + AbsoluteLife),
     abs |-> q.at + AbsoluteLife, revoked |-> FALSE, csrf |-> 0,
     from |-> parent, att |-> q.att]

---------------------------------------------------------------------------
\* Requests and their transactions.

Begins(s, op, txn, x, u, a) ==
    /\ op \in Ops /\ req[s].stage = "idle"
    /\ req' = [req EXCEPT ![s] = [op |-> op, txn |-> txn, stage |-> "next",
                                  at |-> 0, sess |-> x, user |-> u, att |-> a]]
    /\ UNCHANGED <<now, rows>>

Call(s, x) == \E op \in {"call", "bootstrap", "logout"} :
    Begins(s, op, "authenticate", x, None, None)

Callback(s, a, x) ==
    /\ attempt[a].state # "unused"
    /\ Begins(s, "login", "consume", x, None, a)

Operate(s, u) == \E op \in {"block", "unblock"} : Begins(s, op, op, None, u, None)

\* const now = clock()
Enter(s) ==
    /\ req[s].stage = "next" /\ req[s].txn # "exchange"
    /\ req' = [req EXCEPT ![s].stage = "start", ![s].at = now]
    /\ UNCHANGED <<now, rows>>

HoldsSession(s, x) ==
    req[s].txn \in Joined /\ req[s].sess = x /\ req[s].stage \in {"session", "user"}

LockedUser(q) == IF q.txn \in Joined THEN session[q.sess].user ELSE q.user

HoldsUser(s, u) == req[s].stage = "user" /\ u = LockedUser(req[s])

SessionFree(s, x) == \A r \in Slots \ {s} : ~HoldsSession(r, x)

\* Mutant: issue reads the user without FOR UPDATE.
UserUnlocked(s, u) == TRUE

UserFree(s, u) == \A r \in Slots \ {s} : ~HoldsUser(r, u)

Advance(s, to) ==
    /\ req' = [req EXCEPT ![s].stage = to]
    /\ UNCHANGED <<now, rows>>

LockSession(s) ==
    /\ req[s].txn \in Joined /\ req[s].stage = "start"
    /\ SessionFree(s, req[s].sess)
    /\ Advance(s, "session")

Rotatable(q) == q.txn = "rotate" => session[q.sess].user = q.user

\* What the locked rows must say for the transaction to go on.
Accepted(q) ==
    CASE q.txn \in Joined  -> Usable(session[q.sess], q.at) /\ Rotatable(q)
      [] q.txn = "issue"   -> q.user \notin blocked
      [] q.txn = "block"   -> q.user \notin blocked
      [] q.txn = "unblock" -> q.user \in blocked

\* The second lock of a join, the only one of the other transactions; the rows
\* are then looked at, and stay as they are until the commit.
AtUserLock(s) ==
    \/ req[s].txn \in Joined /\ req[s].stage = "session"
    \/ req[s].txn \in {"issue", "block", "unblock"} /\ req[s].stage = "start"

LockUser(s) ==
    /\ AtUserLock(s)
    /\ UserFree(s, LockedUser(req[s]))
    /\ Accepted(req[s])
    /\ Advance(s, "user")

\* The transaction commits and the request goes on with the next one, or ends.
Continue(s, txn) == req' = [req EXCEPT ![s].txn = txn, ![s].stage = "next", ![s].at = 0]

Finish(s) == req' = [req EXCEPT ![s] = Idle]

AtCommit(s, txn) == req[s].txn = txn /\ req[s].stage = "user"

---------------------------------------------------------------------------
\* Commits of a session's requests.

\* authenticate: middleware and callback alike.
Authenticate(s) ==
    LET q == req[s] IN
    /\ AtCommit(s, "authenticate")
    /\ session' = [session EXCEPT ![q.sess] = Touched(@, q.at)]
    /\ CASE q.op = "call"      -> Finish(s)
         [] q.op = "bootstrap" -> Continue(s, "rotateCsrf")
         [] q.op = "logout"    -> Continue(s, "revoke")
         [] q.op = "login"     -> Continue(s, "exchange")
    /\ UNCHANGED <<now, known, blocked, attempt>>

RotateCsrf(s) ==
    LET q == req[s] IN
    /\ AtCommit(s, "rotateCsrf")
    /\ session[q.sess].csrf < MaxCsrf
    /\ session' = [session EXCEPT ![q.sess].csrf = @ + 1]
    /\ Finish(s)
    /\ UNCHANGED <<now, known, blocked, attempt>>

\* One conditional UPDATE, which waits for the row.
Revoke(s) ==
    LET q == req[s] IN
    /\ q.txn = "revoke" /\ q.stage = "start"
    /\ SessionFree(s, q.sess)
    /\ session' = [session EXCEPT ![q.sess].revoked = TRUE]
    /\ Finish(s)
    /\ UNCHANGED <<now, known, blocked, attempt>>

---------------------------------------------------------------------------
\* Logins.

StartLogin ==
    /\ "login" \in Ops
    /\ \E a \in Attempts :
         /\ attempt[a].state = "unused"
         /\ attempt' = [attempt EXCEPT
              ![a] = [state |-> "open", ends |-> now + AttemptLife]]
    /\ UNCHANGED <<now, known, blocked, session, req>>

\* Mutant: the UPDATE does not ask for consumed_at IS NULL.
ConsumableAgain(a, t) == t < attempt[a].ends

Consumable(a, t) == attempt[a].state = "open" /\ t < attempt[a].ends

\* One UPDATE: a concurrent one of the same attempt waits and then re-evaluates.
Consume(s) ==
    LET q == req[s] IN
    /\ q.txn = "consume" /\ q.stage = "start"
    /\ Consumable(q.att, q.at)
    /\ attempt' = [attempt EXCEPT ![q.att].state = "consumed"]
    /\ Continue(s, IF q.sess = None THEN "exchange" ELSE "authenticate")
    /\ UNCHANGED <<now, known, blocked, session>>

\* Mutant: the new user's id is used although its rows were rolled back.
UpsertLost(u) == known

Upserted(u) == known \cup {u}

\* exchangeCode and fetchProfile of the current session's account, or of any
\* when there is none, and upsertGitHub.
Exchange(s) ==
    LET q == req[s] IN
    /\ q.txn = "exchange" /\ q.stage = "next"
    /\ \E u \in Users :
         /\ q.sess # None => session[q.sess].user = u
         /\ UserFree(s, u)
         /\ known' = Upserted(u)
         /\ req' = [req EXCEPT ![s].user = u, ![s].stage = "next",
                       ![s].txn = IF q.sess = None THEN "issue" ELSE "rotate"]
    /\ UNCHANGED <<now, blocked, session, attempt>>

Issue(s) ==
    LET q == req[s] IN
    /\ AtCommit(s, "issue")
    /\ \E x \in SessionIds \ Created : session' = [session EXCEPT ![x] = NewRow(q, None)]
    /\ Finish(s)
    /\ UNCHANGED <<now, known, blocked, attempt>>

Rotate(s) ==
    LET q == req[s] IN
    /\ AtCommit(s, "rotate")
    /\ \E x \in SessionIds \ Created :
         session' = [session EXCEPT ![q.sess].revoked = TRUE, ![x] = NewRow(q, q.sess)]
    /\ Finish(s)
    /\ UNCHANGED <<now, known, blocked, attempt>>

---------------------------------------------------------------------------
\* Blocking revokes every open session in the same transaction.
Block(s) ==
    LET u == req[s].user
        open == {x \in Created : session[x].user = u /\ ~session[x].revoked}
    IN  /\ AtCommit(s, "block")
        /\ \A x \in open : SessionFree(s, x)
        /\ blocked' = blocked \cup {u}
        /\ session' = [x \in SessionIds |->
               IF x \in open THEN [session[x] EXCEPT !.revoked = TRUE] ELSE session[x]]
        /\ Finish(s)
        /\ UNCHANGED <<now, known, attempt>>

Unblock(s) ==
    /\ AtCommit(s, "unblock")
    /\ blocked' = blocked \ {req[s].user}
    /\ Finish(s)
    /\ UNCHANGED <<now, known, session, attempt>>

Abort(s) ==
    /\ req[s].stage # "idle"
    /\ Finish(s)
    /\ UNCHANGED <<now, rows>>

Tick ==
    /\ now < MaxTime
    /\ now' = now + 1
    /\ UNCHANGED <<rows, req>>

Step(s) ==
    \/ \E x \in Created : Call(s, x)
    \/ \E a \in Attempts, x \in Created \cup {None} : Callback(s, a, x)
    \/ \E u \in known : Operate(s, u)
    \/ Enter(s) \/ LockSession(s) \/ LockUser(s)
    \/ Authenticate(s) \/ RotateCsrf(s) \/ Revoke(s)
    \/ Consume(s) \/ Exchange(s) \/ Issue(s) \/ Rotate(s)
    \/ Block(s) \/ Unblock(s)
    \/ Abort(s)

Next == (\E s \in Slots : Step(s)) \/ StartLogin \/ Tick

Spec == Init /\ [][Next]_vars

---------------------------------------------------------------------------
\* Properties.

Times == 0 .. MaxTime + IdleLife + AbsoluteLife + AttemptLife

\* Every variable has the shape the tables and requests give it, and only users
\* with an identity are blocked or have sessions.
TypeOK ==
    /\ now \in 0 .. MaxTime
    /\ known \subseteq Users /\ blocked \subseteq known
    /\ session \in [SessionIds ->
         [user : Users \cup {None}, auth : Times, seen : Times, idle : Times,
          abs : Times, revoked : BOOLEAN, csrf : 0 .. MaxCsrf,
          from : SessionIds \cup {None}, att : Attempts \cup {None}]]
    /\ \A x \in Created : session[x].user \in known
    /\ attempt \in [Attempts ->
         [state : {"unused", "open", "consumed"}, ends : Times]]
    /\ req \in [Slots ->
         [op : AllOps \cup {None},
          txn : Transactions \cup {None},
          stage : {"idle", "next", "start", "session", "user"}, at : Times,
          sess : SessionIds \cup {None}, user : Users \cup {None},
          att : Attempts \cup {None}]]

\* Blocking revokes all of a user's sessions, and no login or rotation that was
\* under way when the user was blocked leaves an open one behind.
BlockedIsOut ==
    \A x \in Created : session[x].user \in blocked => session[x].revoked

\* A session always belongs to a user who has an identity, also when the login
\* that would have made the user was rolled back, and a blocked one has none open.
SessionsLegitimate == (\A x \in Created : session[x].user \in known) /\ BlockedIsOut

\* A session is replaced at most once, by a session of the same user, and is
\* revoked by then, however many callbacks carry its cookie.
OneSuccessor ==
    \A x, y \in Created :
        session[y].from = x =>
            /\ session[x].revoked
            /\ session[x].user = session[y].user
            /\ \A z \in Created : session[z].from = x => z = y

\* Signing in again never costs time: although the rotation's clock was read
\* before it waited for the row, and other requests may have slid the session
\* since, the session that replaces it was not seen earlier and ends no earlier.
SuccessorLivesOn ==
    \A x, y \in Created :
        session[y].from = x =>
            /\ session[y].seen >= session[x].seen
            /\ session[y].idle >= session[x].idle
            /\ session[y].abs >= session[x].abs

\* A login attempt yields at most one session, whatever callbacks repeat it.
AttemptSpentOnce ==
    \A x, y \in Created : session[x].att = session[y].att => x = y

\* However often it is touched, a session ends at its absolute expiry.
LifeIsBounded ==
    \A x \in Created :
        /\ session[x].abs = session[x].auth + AbsoluteLife
        /\ session[x].seen <= now
        /\ session[x].idle <= session[x].abs
=============================================================================
