------------------------------- MODULE Access -------------------------------
(***************************************************************************)
(* Who may use a project: the rows of users, projects and project_tokens   *)
(* and every transaction that reads them to decide or changes them:        *)
(*   control/project-service.ts     create, archive, restore, delete       *)
(*   control/connection-service.ts  issue, revoke                          *)
(*   control/operator-service.ts    blockUser, unblockUser, archiveProject *)
(*                                  (here opArchive), assignOwner (assign) *)
(*   projects/service.ts            createProject, authenticateProject     *)
(*                                  (auth)                                 *)
(*                                                                         *)
(* - A request runs in a slot, one locking or reading statement per step;  *)
(*   its writes and its commit are one step, because the rows it writes    *)
(*   are locked and nothing it has written is read before. The row locks   *)
(*   it holds (SELECT ... FOR UPDATE) follow from its operation and stage. *)
(* - The INSERT into audit_events (and the created_by column of a token)   *)
(*   refers to the user, so PostgreSQL takes a KEY SHARE lock on that row: *)
(*   the commit waits while another transaction holds it FOR UPDATE. A     *)
(*   transaction waits for nothing more once it has such a lock.           *)
(* - A refused request changes nothing, like a failed or cancelled one or  *)
(*   the victim of a deadlock: Abort stands for all of them.               *)
(* - Operators are other users than the ones they block. Web sessions and  *)
(*   the viewers' memberships have modules of their own.                   *)
(***************************************************************************)
EXTENDS Integers, FiniteSets

CONSTANTS Users, Projects, Tokens,
          Keys,          \* create idempotency keys
          Slots,         \* concurrent requests
          Ops,           \* the operations clients use
          ProjectLimit,  \* projectLimit; 0 means unlimited
          None

AllOps == {"create", "restore", "archive", "delete", "issue", "revoke",
           "block", "unblock", "opArchive", "assign", "auth", "createProject"}

ASSUME AccessAssumption ==
    /\ IsFiniteSet(Projects)
    /\ None \notin Users /\ None \notin Projects
    /\ None \notin Tokens /\ None \notin Keys
    /\ Ops \subseteq AllOps
    /\ ProjectLimit \in Nat

VARIABLES
    blocked,       \* users with blocked_at set
    status,        \* per project: no row yet, active, archived, row deleted
    owner,         \* projects.owner_user_id
    createKey,     \* projects.create_idempotency_key
    ownerRows,     \* project_memberships with role owner: <<project, user>>
    tokenStatus,   \* per token: no row yet, live, revoked, row deleted
    tokenProject,  \* project_tokens.project_id
    tokenKey,      \* project_tokens.create_idempotency_key
    expired,       \* tokens whose expires_at has passed
    req            \* the request in each slot

projectVars == <<status, owner, createKey, ownerRows>>
tokenVars == <<tokenStatus, tokenProject, tokenKey, expired>>
vars == <<blocked, projectVars, tokenVars, req>>

---------------------------------------------------------------------------
\* Rows and requests.

Exists(p) == status[p] \in {"active", "archived"}

TokenExists(t) == tokenStatus[t] \in {"live", "revoked"}

ActiveOf(u) == {p \in Projects : status[p] = "active" /\ owner[p] = u}

Stages == {"idle", "begun", "user", "rechecked", "project", "looked", "token",
           "counted", "ready"}

Request(op, u, p, t, k) == [op |-> op, stage |-> "begun", user |-> u,
                            project |-> p, token |-> t, key |-> k]

Idle == [Request(None, None, None, None, None) EXCEPT !.stage = "idle"]

Init ==
    /\ blocked = {}
    /\ status = [p \in Projects |-> "absent"]
    /\ owner = [p \in Projects |-> None]
    /\ createKey = [p \in Projects |-> None]
    /\ ownerRows = {}
    /\ tokenStatus = [t \in Tokens |-> "absent"]
    /\ tokenProject = [t \in Tokens |-> None]
    /\ tokenKey = [t \in Tokens |-> None]
    /\ expired = {}
    /\ req = [s \in Slots |-> Idle]

---------------------------------------------------------------------------
\* Row locks.

\* These lock the user row first, and hold it to the end.
UserFirst == {"create", "restore", "assign", "block", "unblock"}

\* Mutant: restore reads the owner's row without locking it.
HoldsUserButRestore(s, u) ==
    /\ req[s].user = u
    /\ \/ req[s].op \in UserFirst \ {"restore"} /\ req[s].stage \notin {"idle", "begun"}
       \/ req[s].op = "auth" /\ req[s].stage = "ready"

HoldsUser(s, u) ==
    /\ req[s].user = u
    /\ \/ req[s].op \in UserFirst /\ req[s].stage \notin {"idle", "begun"}
       \/ req[s].op = "auth" /\ req[s].stage = "ready"

HoldsProject(s, p) ==
    /\ req[s].project = p
    /\ req[s].stage \in {"project", "looked", "token", "counted", "ready"}

HoldsToken(s, t) == req[s].token = t /\ req[s].stage \in {"token", "ready"}

\* Mutants: the SELECT has no FOR UPDATE.
UserUnlocked(s, u) == TRUE
ProjectUnlocked(s, p) == TRUE

UserFree(s, u) == \A r \in Slots \ {s} : ~HoldsUser(r, u)
ProjectFree(s, p) == \A r \in Slots \ {s} : ~HoldsProject(r, p)
TokenFree(s, t) == \A r \in Slots \ {s} : ~HoldsToken(r, t)

Advance(s, from, to) ==
    /\ req[s].stage = from
    /\ req' = [req EXCEPT ![s].stage = to]
    /\ UNCHANGED <<blocked, projectVars, tokenVars>>

---------------------------------------------------------------------------
\* A request arrives. Ids are unguessable: only issued ones are used.

Known == {p \in Projects : status[p] # "absent"}

KnownTokens == {t \in Tokens : tokenStatus[t] # "absent"}

\* The owner's routes, who is the user of the session,
CreateRequests == {Request("create", u, None, None, k) : u \in Users, k \in Keys}

LifecycleRequests ==
    {Request(op, u, p, None, None) : op \in {"restore", "archive"}, u \in Users, p \in Known}

DeleteRequests == {Request("delete", u, p, None, None) : u \in Users, p \in Known}

ConnectionRequests ==
    {Request("issue", u, p, None, k) : u \in Users, p \in Known, k \in Keys}
    \cup {Request("revoke", u, p, t, None) :
            u \in Users, p \in Known, t \in KnownTokens}

\* and the operators', whose own row is never the one they block.
OperatorRequests ==
    {Request(op, u, None, None, None) : op \in {"block", "unblock"}, u \in Users}
    \cup {Request("opArchive", None, p, None, None) : p \in Known}

Requests == CreateRequests \cup LifecycleRequests \cup DeleteRequests
            \cup ConnectionRequests \cup OperatorRequests

\* The reads outside the transaction: authenticateProject looks up the token's
\* project, assignOwner refuses a project that is not ownerless.
Preflighted ==
    {Request("auth", None, tokenProject[t], t, None) :
        t \in {x \in KnownTokens : TokenExists(x)}}
    \cup {Request("assign", u, p, None, None) :
            u \in Users, p \in {x \in Known : Exists(x) /\ owner[x] = None}}

Begin(s) ==
    /\ req[s].stage = "idle"
    /\ \E q \in Requests \cup Preflighted :
         q.op \in Ops /\ req' = [req EXCEPT ![s] = q]
    /\ UNCHANGED <<blocked, projectVars, tokenVars>>

---------------------------------------------------------------------------
\* The statements before the writes, with the conditions under which the
\* request goes on.

\* lockOwner, loadMutationUser, assignOwner's destination.
UserOk(q) ==
    CASE q.op \in {"block", "assign"} -> q.user \notin blocked
      [] q.op = "unblock" -> q.user \in blocked
      [] OTHER -> TRUE

LockUser(s) ==
    /\ req[s].op \in UserFirst
    /\ Advance(s, "begun", "user")
    /\ UserFree(s, req[s].user)
    /\ UserOk(req[s])

\* Mutant: the project is not looked at again.
OwnerlessAsBefore(p) == TRUE

StillOwnerless(p) == Exists(p) /\ owner[p] = None

\* assignOwner reads the project again, without a lock, before it waits for it.
Recheck(s) ==
    /\ req[s].op = "assign"
    /\ Advance(s, "user", "rechecked")
    /\ StillOwnerless(req[s].project)

\* The stage at which an operation locks the project row.
BeforeProject(op) == CASE op = "restore" -> "user"
                       [] op = "assign" -> "rechecked"
                       [] OTHER -> "begun"

\* Mutant: assignOwner trusts its unlocked reads.
AssignableAnyway(p) == TRUE

\* assignOwner looks at the owner a third time, under the lock.
Assignable(p) == owner[p] = None

\* The row as it is when the lock is granted. lockOwnedProject also reads
\* blocked_at of the owner, without a lock.
ProjectOk(q) ==
    /\ Exists(q.project)
    /\ q.op = "assign" => Assignable(q.project)
    /\ q.op \notin {"assign", "auth", "opArchive"} => owner[q.project] = q.user
    /\ q.op \in {"archive", "opArchive", "issue", "auth"} =>
         status[q.project] = "active"
    /\ q.op = "restore" => status[q.project] = "archived"
    /\ q.op \in {"issue", "revoke"} => q.user \notin blocked

LockProject(s) ==
    /\ req[s].op \notin {"create", "block", "unblock"}
    /\ Advance(s, BeforeProject(req[s].op), "project")
    /\ ProjectFree(s, req[s].project)
    /\ ProjectOk(req[s])

\* The token belongs to the project, is not revoked and, for auth, not expired.
TokenOk(q) ==
    /\ tokenStatus[q.token] = "live" /\ tokenProject[q.token] = q.project
    /\ q.op = "auth" => q.token \notin expired

LockToken(s) ==
    /\ req[s].op \in {"revoke", "auth"}
    /\ Advance(s, "project", "token")
    /\ TokenFree(s, req[s].token)
    /\ TokenOk(req[s])

\* authenticateProject locks the owner last and refuses a blocked one; a
\* project without owner needs none.
LockOwner(s) ==
    LET u == owner[req[s].project] IN
    /\ req[s].op = "auth" /\ req[s].stage = "token"
    /\ u # None => UserFree(s, u) /\ u \notin blocked
    /\ req' = [req EXCEPT ![s] = [@ EXCEPT !.stage = "ready", !.user = u]]
    /\ UNCHANGED <<blocked, projectVars, tokenVars>>

CreatedWith(u, k) == {p \in Projects : Exists(p) /\ owner[p] = u /\ createKey[p] = k}

IssuedWith(p, k) ==
    {t \in Tokens : TokenExists(t) /\ tokenProject[t] = p /\ tokenKey[t] = k}

\* enforceLimit, and the same count in assignOwner, which an archived project
\* does not need.
BelowLimit(u) == ProjectLimit = 0 \/ Cardinality(ActiveOf(u)) < ProjectLimit

Count(s) ==
    LET q == req[s] IN
    /\ \/ q.op = "create" /\ CreatedWith(q.user, q.key) = {}
          /\ BelowLimit(q.user) /\ Advance(s, "user", "counted")
       \/ q.op = "restore"
          /\ BelowLimit(q.user) /\ Advance(s, "project", "counted")
       \/ q.op = "assign"
          /\ Advance(s, "project", "counted")
          /\ (status[q.project] = "active" => BelowLimit(q.user))

\* issue looks for a token made with the same key.
Look(s) ==
    /\ req[s].op = "issue"
    /\ IssuedWith(req[s].project, req[s].key) = {}
    /\ Advance(s, "project", "looked")

\* A repeated key: the existing project, or the connection without its secret.
Replay(s) ==
    LET q == req[s] IN
    /\ \/ q.op = "create" /\ q.stage = "user" /\ CreatedWith(q.user, q.key) # {}
       \/ q.op = "issue" /\ q.stage = "project" /\ IssuedWith(q.project, q.key) # {}
    /\ req' = [req EXCEPT ![s] = Idle]
    /\ UNCHANGED <<blocked, projectVars, tokenVars>>

---------------------------------------------------------------------------
\* The writes and the commit.

Finish(s, op, stage) ==
    /\ req[s].op = op /\ req[s].stage = stage
    /\ req' = [req EXCEPT ![s] = Idle]

CommitCreate(s) ==
    LET q == req[s] IN
    /\ Finish(s, "create", "counted")
    /\ CreatedWith(q.user, q.key) = {}   \* the unique constraint
    /\ \E p \in Projects :
         /\ status[p] = "absent"
         /\ status' = [status EXCEPT ![p] = "active"]
         /\ owner' = [owner EXCEPT ![p] = q.user]
         /\ createKey' = [createKey EXCEPT ![p] = q.key]
         /\ ownerRows' = ownerRows \cup {<<p, q.user>>}
    /\ UNCHANGED <<blocked, tokenVars>>

CommitRestore(s) ==
    /\ Finish(s, "restore", "counted")
    /\ status' = [status EXCEPT ![req[s].project] = "active"]
    /\ UNCHANGED <<blocked, owner, createKey, ownerRows, tokenVars>>

CommitAssign(s) ==
    LET q == req[s] IN
    /\ Finish(s, "assign", "counted")
    /\ owner' = [owner EXCEPT ![q.project] = q.user]
    /\ ownerRows' = ownerRows \cup {<<q.project, q.user>>}
    /\ UNCHANGED <<blocked, status, createKey, tokenVars>>

\* The foreign key of audit_events.user_id.
AuditFree(s, u) == u # None => UserFree(s, u)

CommitArchive(s) ==
    LET p == req[s].project IN
    /\ \/ Finish(s, "archive", "project") \/ Finish(s, "opArchive", "project")
    /\ AuditFree(s, owner[p])
    /\ status' = [status EXCEPT ![p] = "archived"]
    /\ UNCHANGED <<blocked, owner, createKey, ownerRows, tokenVars>>

\* The project's tokens go with it (ON DELETE CASCADE), as its memberships do.
Cascaded(p) == [t \in Tokens |-> IF tokenProject[t] = p THEN "deleted"
                                 ELSE tokenStatus[t]]

CommitDelete(s) ==
    LET p == req[s].project IN
    /\ Finish(s, "delete", "project")
    /\ AuditFree(s, req[s].user)
    /\ status' = [status EXCEPT ![p] = "deleted"]
    /\ owner' = [owner EXCEPT ![p] = None]
    /\ createKey' = [createKey EXCEPT ![p] = None]
    /\ ownerRows' = {r \in ownerRows : r[1] # p}
    /\ tokenStatus' = Cascaded(p)
    /\ UNCHANGED <<blocked, tokenProject, tokenKey, expired>>

CommitIssue(s) ==
    LET q == req[s] IN
    /\ Finish(s, "issue", "looked")
    /\ AuditFree(s, q.user)
    /\ IssuedWith(q.project, q.key) = {}   \* ON CONFLICT DO NOTHING
    /\ \E t \in Tokens :
         /\ tokenStatus[t] = "absent"
         /\ tokenStatus' = [tokenStatus EXCEPT ![t] = "live"]
         /\ tokenProject' = [tokenProject EXCEPT ![t] = q.project]
         /\ tokenKey' = [tokenKey EXCEPT ![t] = q.key]
    /\ UNCHANGED <<blocked, projectVars, expired>>

CommitRevoke(s) ==
    /\ Finish(s, "revoke", "token")
    /\ AuditFree(s, req[s].user)
    /\ tokenStatus' = [tokenStatus EXCEPT ![req[s].token] = "revoked"]
    /\ UNCHANGED <<blocked, projectVars, tokenProject, tokenKey, expired>>

\* The time of last use is not kept: the request is admitted.
CommitAuth(s) ==
    /\ Finish(s, "auth", "ready")
    /\ UNCHANGED <<blocked, projectVars, tokenVars>>

CommitBlock(s) ==
    LET u == req[s].user IN
    /\ \/ Finish(s, "block", "user") /\ blocked' = blocked \cup {u}
       \/ Finish(s, "unblock", "user") /\ blocked' = blocked \ {u}
    /\ UNCHANGED <<projectVars, tokenVars>>

Commit(s) ==
    \/ CommitCreate(s) \/ CommitRestore(s) \/ CommitAssign(s)
    \/ CommitArchive(s) \/ CommitDelete(s) \/ CommitIssue(s)
    \/ CommitRevoke(s) \/ CommitAuth(s) \/ CommitBlock(s)

Abort(s) ==
    /\ req[s].stage # "idle"
    /\ req' = [req EXCEPT ![s] = Idle]
    /\ UNCHANGED <<blocked, projectVars, tokenVars>>

\* The CLI's createProject: two INSERTs that wait for nobody. The project has
\* no owner, its token no key and no expiry.
CreateProject ==
    /\ "createProject" \in Ops
    /\ \E p \in Projects, t \in Tokens :
         /\ status[p] = "absent" /\ tokenStatus[t] = "absent"
         /\ status' = [status EXCEPT ![p] = "active"]
         /\ tokenStatus' = [tokenStatus EXCEPT ![t] = "live"]
         /\ tokenProject' = [tokenProject EXCEPT ![t] = p]
    /\ UNCHANGED <<blocked, owner, createKey, ownerRows, tokenKey, expired, req>>

\* The clock passes expires_at of a token made by issue.
Expire ==
    /\ \E t \in Tokens :
         /\ TokenExists(t) /\ tokenKey[t] # None
         /\ expired' = expired \cup {t}
    /\ UNCHANGED <<blocked, projectVars, tokenStatus, tokenProject, tokenKey, req>>

---------------------------------------------------------------------------
Step(s) ==
    \/ Begin(s) \/ LockUser(s) \/ Recheck(s) \/ LockProject(s)
    \/ LockToken(s) \/ LockOwner(s) \/ Count(s) \/ Look(s) \/ Replay(s)
    \/ Commit(s) \/ Abort(s)

Next == (\E s \in Slots : Step(s)) \/ CreateProject \/ Expire

Spec == Init /\ [][Next]_vars

---------------------------------------------------------------------------
\* Properties.

\* Every variable has the shape the tables and requests give it, and the
\* foreign key of project_tokens holds, through cascades and races: a token
\* row has its project row.
TypeOK ==
    /\ blocked \subseteq Users
    /\ status \in [Projects -> {"absent", "active", "archived", "deleted"}]
    /\ owner \in [Projects -> Users \cup {None}]
    /\ createKey \in [Projects -> Keys \cup {None}]
    /\ ownerRows \subseteq Projects \X Users
    /\ tokenStatus \in [Tokens -> {"absent", "live", "revoked", "deleted"}]
    /\ tokenProject \in [Tokens -> Projects \cup {None}]
    /\ tokenKey \in [Tokens -> Keys \cup {None}]
    /\ \A t \in Tokens : TokenExists(t) =>
         tokenProject[t] \in Projects /\ Exists(tokenProject[t])
    /\ expired \subseteq Tokens
    /\ req \in [Slots -> [op : AllOps \cup {None}, stage : Stages,
                          user : Users \cup {None},
                          project : Projects \cup {None},
                          token : Tokens \cup {None}, key : Keys \cup {None}]]

\* However creations, restorations and assignments race, no user owns more
\* active projects than the limit (enforceLimit counts under the owner's lock).
ActiveWithinLimit ==
    ProjectLimit # 0 =>
        \A u \in Users : Cardinality(ActiveOf(u)) <= ProjectLimit

\* When authenticateProject admits a request, after three lookups in turn, all
\* that they found still holds: the token is not revoked, its project is active
\* and no owner of it is blocked, whatever committed in between.
AdmittedIsEntitled ==
    \A s \in Slots : req[s].op = "auth" /\ req[s].stage = "ready" =>
        /\ tokenStatus[req[s].token] = "live"
        /\ tokenProject[req[s].token] = req[s].project
        /\ status[req[s].project] = "active"
        /\ owner[req[s].project] \notin blocked

\* The two records of ownership agree: a project with owner_user_id has that
\* user's owner membership and no other, even when two assignments race; an
\* ownerless or deleted one has none.
OwnershipAgrees ==
    \A p \in Projects :
        {r \in ownerRows : r[1] = p} =
            IF owner[p] = None THEN {} ELSE {<<p, owner[p]>>}

\* A creation that found its key unused still finds it unused when it writes:
\* of two requests with one key the later replays the earlier one's result
\* and never runs into the unique constraint.
KeyStillUnused ==
    \A s \in Slots :
        /\ req[s].op = "create" /\ req[s].stage = "counted" =>
             CreatedWith(req[s].user, req[s].key) = {}
        /\ req[s].op = "issue" /\ req[s].stage = "looked" =>
             IssuedWith(req[s].project, req[s].key) = {}

---------------------------------------------------------------------------
\* Deadlock: who waits for whom.

\* The user row that the next statement of s needs.
NeedsUser(s, u) ==
    LET q == req[s] IN
    \/ q.op \in UserFirst /\ q.stage = "begun" /\ q.user = u
    \/ q.op = "auth" /\ q.stage = "token" /\ owner[q.project] = u
    \/ /\ \/ q.op \in {"archive", "opArchive", "delete"} /\ q.stage = "project"
          \/ q.op = "issue" /\ q.stage = "looked"
          \/ q.op = "revoke" /\ q.stage = "token"
       /\ owner[q.project] = u

\* The project row: the SELECT waits for every row its WHERE clause finds.
NeedsProject(s, p) ==
    LET q == req[s] IN
    /\ q.op \notin {"create", "block", "unblock"}
    /\ q.stage = BeforeProject(q.op) /\ q.project = p /\ Exists(p)
    /\ q.op \notin {"assign", "auth", "opArchive"} => owner[p] = q.user

NeedsToken(s, t) ==
    /\ req[s].op \in {"revoke", "auth"} /\ req[s].stage = "project"
    /\ req[s].token = t
    /\ TokenExists(t) /\ tokenProject[t] = req[s].project

WaitsFor(s, r) ==
    /\ r # s
    /\ \/ \E u \in Users : NeedsUser(s, u) /\ HoldsUser(r, u)
       \/ \E p \in Projects : NeedsProject(s, p) /\ HoldsProject(r, p)
       \/ \E t \in Tokens : NeedsToken(s, t) /\ HoldsToken(r, t)

\* Requests each of which waits for one of them.
Deadlocked(C) == C # {} /\ \A s \in C : \E r \in C : WaitsFor(s, r)

\* Requests that wait for each other in a circle include a restore. Everything
\* but restore and assignOwner locks the project before the user; assignOwner
\* locks the user first, and its second look at owner_user_id is what keeps it
\* out of a circle.
NoDeadlock ==
    \A C \in SUBSET Slots :
        Deadlocked(C) => \E s \in C : req[s].op = "restore"

\* "Concurrent token maintenance and tool calls follow project -> project-token
\* locking without deadlock" (docs/superpowers/specs/
\* 2026-08-30-agentmesh-alpha-design.md): no issue, revoke or authentication is
\* among requests that wait for each other.
TokenWorkWithoutDeadlock ==
    \A C \in SUBSET Slots :
        Deadlocked(C) => \A s \in C : req[s].op \notin {"issue", "revoke", "auth"}
=============================================================================
