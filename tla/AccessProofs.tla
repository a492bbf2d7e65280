---------------------------- MODULE AccessProofs ----------------------------
(***************************************************************************)
(* Proofs about Access.tla for any number of users, projects, tokens and   *)
(* concurrent requests and any project limit.                              *)
(***************************************************************************)
EXTENDS Access, FiniteSetTheorems, TLAPS

\* Which stages a request goes through, and what it names.
Shape(s) ==
    LET q == req[s] IN
    /\ q.stage # "idle" => q.op \in AllOps \ {"createProject"}
    /\ q.stage # "idle" /\ q.op \in UserFirst => q.user \in Users
    /\ q.stage # "idle" /\ q.op \in {"create", "issue"} => q.key \in Keys
    /\ q.op \in {"create", "block", "unblock"} => q.project = None
    /\ q.stage # "idle" /\ q.op \notin {"create", "block", "unblock"}
         => q.project \in Projects
    /\ q.stage # "idle" /\ q.op \in {"revoke", "auth"} => q.token \in Tokens
    /\ q.stage = "counted" => q.op \in {"create", "restore", "assign"}
    /\ q.stage = "looked" => q.op = "issue"
    /\ q.stage = "token" => q.op \in {"revoke", "auth"}
    /\ q.stage = "ready" => q.op = "auth"
    /\ q.op \in {"create", "block", "unblock"} => q.stage # "project"

\* A row is locked by at most one request.
Mutex ==
    \A s, r \in Slots : s # r =>
        /\ \A u \in Users : ~(HoldsUser(s, u) /\ HoldsUser(r, u))
        /\ \A p \in Projects : ~(HoldsProject(s, p) /\ HoldsProject(r, p))
        /\ \A t \in Tokens : ~(HoldsToken(s, t) /\ HoldsToken(r, t))

\* What a request has found in the rows it has locked.
ProjectFacts(s) ==
    LET q == req[s] IN
    q.project \in Projects /\ HoldsProject(s, q.project) =>
        /\ Exists(q.project)
        /\ q.op = "assign" => owner[q.project] = None
        /\ q.op \notin {"assign", "auth", "opArchive"} => owner[q.project] = q.user
        /\ q.op \in {"archive", "opArchive", "issue", "auth"} =>
             status[q.project] = "active"
        /\ q.op = "restore" => status[q.project] = "archived"

TokenFacts(s) ==
    LET q == req[s] IN
    q.stage \in {"token", "ready"} =>
        tokenStatus[q.token] = "live" /\ tokenProject[q.token] = q.project

OwnerFacts(s) ==
    LET q == req[s] IN
    q.op = "auth" /\ q.stage = "ready" =>
        q.user = owner[q.project] /\ q.user \notin blocked

\* A request that will activate a project of a user has room for it.
CountFacts(s) ==
    LET q == req[s] IN
    q.stage = "counted" =>
        \/ BelowLimit(q.user)
        \/ q.op = "assign" /\ status[q.project] = "archived"

\* The slot's part of KeyStillUnused.
KeyFacts(s) ==
    /\ req[s].op = "create" /\ req[s].stage = "counted" =>
         CreatedWith(req[s].user, req[s].key) = {}
    /\ req[s].op = "issue" /\ req[s].stage = "looked" =>
         IssuedWith(req[s].project, req[s].key) = {}

\* Rows not there yet or any more, and projects without owner, are blank.
Blank ==
    /\ \A p \in Projects : ~Exists(p) => owner[p] = None
    /\ \A p \in Projects : owner[p] = None => createKey[p] = None

SlotFacts(s) == /\ Shape(s) /\ ProjectFacts(s) /\ TokenFacts(s)
                /\ OwnerFacts(s) /\ CountFacts(s) /\ KeyFacts(s)

\* The inductive invariant.
IInv ==
    /\ TypeOK
    /\ Mutex
    /\ \A s \in Slots : SlotFacts(s)
    /\ Blank
    /\ ActiveWithinLimit
    /\ OwnershipAgrees

Txn == [op : AllOps \cup {None}, stage : Stages, user : Users \cup {None},
        project : Projects \cup {None}, token : Tokens \cup {None},
        key : Keys \cup {None}]

---------------------------------------------------------------------------
\* An idle slot has the type of a request, holds no lock and owes no fact.
LEMMA IdleFacts == Idle \in Txn /\ Idle.stage = "idle" /\ Idle.project = None
  BY DEF Idle, Request, Txn, Stages

\* The initial state satisfies the inductive invariant.
LEMMA InitInv == Init => IInv
  <1> SUFFICES ASSUME Init PROVE IInv
    OBVIOUS
  <1> USE AccessAssumption, IdleFacts DEF Init
  <1>1. TypeOK
    BY DEF TypeOK, TokenExists, Txn
  <1>2. Mutex
    BY DEF Mutex, HoldsUser, HoldsProject, HoldsToken
  <1>3. ASSUME NEW s \in Slots PROVE SlotFacts(s)
    <2>1. req[s].stage = "idle" /\ req[s].project = None
      OBVIOUS
    <2> QED
      BY <2>1 DEF SlotFacts, Shape, ProjectFacts, HoldsProject, TokenFacts,
                  OwnerFacts, CountFacts, KeyFacts
  <1>4. Blank /\ OwnershipAgrees
    BY DEF Blank, OwnershipAgrees, Exists
  <1>5. ActiveWithinLimit
    <2>1. \A u \in Users : ActiveOf(u) = {}
      BY DEF ActiveOf
    <2> QED
      BY <2>1, FS_EmptySet DEF ActiveWithinLimit
  <1> QED
    BY <1>1, <1>2, <1>3, <1>4, <1>5 DEF IInv

---------------------------------------------------------------------------
\* Steps that change nothing but one request.

Tables == <<blocked, projectVars, tokenVars>>

\* Such a step keeps the invariant when the request's own facts hold after it
\* and it has taken no lock that another request holds.
LEMMA RequestStep ==
  ASSUME IInv, NEW s \in Slots, NEW q \in Txn, req' = [req EXCEPT ![s] = q],
         UNCHANGED Tables, SlotFacts(s)',
         \A r \in Slots \ {s} :
            /\ \A u \in Users : ~(HoldsUser(s, u)' /\ HoldsUser(r, u))
            /\ \A p \in Projects : ~(HoldsProject(s, p)' /\ HoldsProject(r, p))
            /\ \A t \in Tokens : ~(HoldsToken(s, t)' /\ HoldsToken(r, t))
  PROVE  IInv'
  <1> USE DEF Tables, projectVars, tokenVars
  <1>0. req \in [Slots -> Txn]
    BY DEF IInv, TypeOK, Txn
  <1>1. \A r \in Slots \ {s} : req'[r] = req[r]
    BY <1>0
  <1>2. TypeOK'
    BY <1>0 DEF IInv, TypeOK, Txn, TokenExists, Exists
  <1>3. Mutex'
    <2>1. \A r \in Slots \ {s} :
            /\ \A u \in Users : HoldsUser(r, u)' <=> HoldsUser(r, u)
            /\ \A p \in Projects : HoldsProject(r, p)' <=> HoldsProject(r, p)
            /\ \A t \in Tokens : HoldsToken(r, t)' <=> HoldsToken(r, t)
      BY <1>1 DEF HoldsUser, HoldsProject, HoldsToken
    <2> QED
      BY <2>1 DEF IInv, Mutex
  <1>4. ASSUME NEW r \in Slots PROVE SlotFacts(r)'
    <2>1. CASE r = s
      BY <2>1
    <2>2. CASE r # s
      <3>1. req'[r] = req[r] /\ SlotFacts(r)
        BY <1>1, <2>2 DEF IInv
      <3>2. Shape(r)' /\ TokenFacts(r)' /\ OwnerFacts(r)'
        BY <3>1 DEF SlotFacts, Shape, TokenFacts, OwnerFacts
      <3>3. ProjectFacts(r)'
        BY <3>1 DEF SlotFacts, ProjectFacts, HoldsProject, Exists
      <3>4. CountFacts(r)' /\ KeyFacts(r)'
        BY <3>1 DEF SlotFacts, CountFacts, BelowLimit, ActiveOf, KeyFacts,
                    CreatedWith, IssuedWith, Exists, TokenExists
      <3> QED
        BY <3>2, <3>3, <3>4 DEF SlotFacts
    <2> QED
      BY <2>1, <2>2
  <1>5. Blank' /\ OwnershipAgrees' /\ ActiveWithinLimit'
    BY DEF IInv, Blank, OwnershipAgrees, ActiveWithinLimit, ActiveOf, Exists
  <1> QED
    BY <1>2, <1>3, <1>4, <1>5 DEF IInv

\* A request that ends without a write.
LEMMA IdleStep ==
  ASSUME IInv, NEW s \in Slots, req' = [req EXCEPT ![s] = Idle], UNCHANGED Tables
  PROVE  IInv'
  <1>1. req'[s].stage = "idle" /\ req'[s].project = None
    BY IdleFacts DEF IInv, TypeOK
  <1>2. SlotFacts(s)'
    BY <1>1, AccessAssumption DEF SlotFacts, Shape, ProjectFacts, HoldsProject, TokenFacts,
                OwnerFacts, CountFacts, KeyFacts
  <1>3. \A r \in Slots \ {s} :
            /\ \A u \in Users : ~HoldsUser(s, u)'
            /\ \A p \in Projects : ~HoldsProject(s, p)'
            /\ \A t \in Tokens : ~HoldsToken(s, t)'
    BY <1>1 DEF HoldsUser, HoldsProject, HoldsToken
  <1> QED
    BY <1>2, <1>3, IdleFacts, RequestStep

\* A request that moves on to its next stage keeps what it names.
LEMMA AdvanceStep ==
  ASSUME IInv, NEW s \in Slots, NEW from \in Stages, NEW to \in Stages,
         Advance(s, from, to)
  PROVE  /\ [req[s] EXCEPT !.stage = to] \in Txn
         /\ req' = [req EXCEPT ![s] = [req[s] EXCEPT !.stage = to]]
         /\ req'[s] = [req[s] EXCEPT !.stage = to]
         /\ req[s] \in Txn /\ req[s].stage = from
         /\ UNCHANGED Tables
  <1>1. req \in [Slots -> Txn]
    BY DEF IInv, TypeOK, Txn
  <1> QED
    BY <1>1 DEF Advance, Txn, Tables

\* A new request holds no lock yet.
LEMMA BeginInv == ASSUME IInv, NEW s \in Slots, Begin(s) PROVE IInv'
  <1>1. PICK q \in Requests \cup Preflighted : req' = [req EXCEPT ![s] = q]
    BY DEF Begin
  <1>2. /\ q \in Txn /\ q.stage = "begun" /\ q.op \in AllOps \ {"createProject"}
        /\ q.op \in UserFirst => q.user \in Users
        /\ q.op \in {"create", "issue"} => q.key \in Keys
        /\ q.op \in {"create", "block", "unblock"} => q.project = None
        /\ q.op \notin {"create", "block", "unblock"} => q.project \in Projects
        /\ q.op \in {"revoke", "auth"} => q.token \in Tokens
    <2>1. CASE q \in Requests
      BY <2>1 DEF Requests, CreateRequests, LifecycleRequests, DeleteRequests,
                  ConnectionRequests, OperatorRequests, Request, Txn, Stages, AllOps,
                  UserFirst, Known, KnownTokens
    <2>2. CASE q \in Preflighted
      BY <2>2 DEF Preflighted, Request, Txn, Stages, AllOps, UserFirst, Known,
                  KnownTokens, IInv, TypeOK
    <2> QED
      BY <2>1, <2>2
  <1>3. req'[s] = q
    BY <1>1 DEF IInv, TypeOK
  <1>4. SlotFacts(s)'
    BY <1>2, <1>3, AccessAssumption
       DEF SlotFacts, Shape, ProjectFacts, HoldsProject, TokenFacts, OwnerFacts,
           CountFacts, KeyFacts
  <1>5. /\ \A u \in Users : ~HoldsUser(s, u)'
        /\ \A p \in Projects : ~HoldsProject(s, p)'
        /\ \A t \in Tokens : ~HoldsToken(s, t)'
    BY <1>2, <1>3 DEF HoldsUser, HoldsProject, HoldsToken
  <1> QED
    BY <1>1, <1>2, <1>4, <1>5, RequestStep DEF Begin, Tables

\* The user row is locked by nobody else.
LEMMA LockUserInv == ASSUME IInv, NEW s \in Slots, LockUser(s) PROVE IInv'
  <1> DEFINE q == [req[s] EXCEPT !.stage = "user"]
  <1>1. /\ q \in Txn /\ req' = [req EXCEPT ![s] = q] /\ req'[s] = q
        /\ req[s] \in Txn /\ req[s].stage = "begun" /\ UNCHANGED Tables
    BY AdvanceStep DEF LockUser, Stages
  <1>2. SlotFacts(s)
    BY DEF IInv
  <1>3. SlotFacts(s)'
    BY <1>1, <1>2 DEF LockUser, Txn, SlotFacts, Shape, ProjectFacts, HoldsProject,
                      TokenFacts, OwnerFacts, CountFacts, KeyFacts, UserFirst
  <1>4. \A r \in Slots \ {s}, u \in Users : ~(HoldsUser(s, u)' /\ HoldsUser(r, u))
    BY <1>1 DEF LockUser, UserFree, HoldsUser, Txn
  <1>5. /\ \A p \in Projects : ~HoldsProject(s, p)'
        /\ \A t \in Tokens : ~HoldsToken(s, t)'
    BY <1>1 DEF HoldsProject, HoldsToken, Txn
  <1> HIDE DEF q
  <1> QED
    BY <1>1, <1>3, <1>4, <1>5, RequestStep

\* assignOwner's second look takes no lock.
LEMMA RecheckInv == ASSUME IInv, NEW s \in Slots, Recheck(s) PROVE IInv'
  <1> DEFINE q == [req[s] EXCEPT !.stage = "rechecked"]
  <1>1. /\ q \in Txn /\ req' = [req EXCEPT ![s] = q] /\ req'[s] = q
        /\ req[s] \in Txn /\ req[s].stage = "user" /\ UNCHANGED Tables
    BY AdvanceStep DEF Recheck, Stages
  <1>2. SlotFacts(s)
    BY DEF IInv
  <1>3. SlotFacts(s)'
    BY <1>1, <1>2 DEF Recheck, Txn, SlotFacts, Shape, ProjectFacts, HoldsProject,
                      TokenFacts, OwnerFacts, CountFacts, KeyFacts, UserFirst
  <1>4. \A u \in Users : HoldsUser(s, u)' => HoldsUser(s, u)
    BY <1>1 DEF Recheck, HoldsUser, Txn, UserFirst
  <1>5. /\ \A p \in Projects : ~HoldsProject(s, p)'
        /\ \A t \in Tokens : ~HoldsToken(s, t)'
    BY <1>1 DEF HoldsProject, HoldsToken, Txn
  <1>6. \A r \in Slots \ {s}, u \in Users : ~(HoldsUser(s, u) /\ HoldsUser(r, u))
    BY DEF IInv, Mutex
  <1> HIDE DEF q
  <1> QED
    BY <1>1, <1>3, <1>4, <1>5, <1>6, RequestStep

\* The project row is locked by nobody else and is as ProjectOk found it.
LEMMA LockProjectInv == ASSUME IInv, NEW s \in Slots, LockProject(s) PROVE IInv'
  <1> DEFINE q == [req[s] EXCEPT !.stage = "project"]
  <1>0. BeforeProject(req[s].op) \in {"begun", "user", "rechecked"}
    BY DEF BeforeProject
  <1>1. /\ q \in Txn /\ req' = [req EXCEPT ![s] = q] /\ req'[s] = q
        /\ req[s] \in Txn /\ req[s].stage = BeforeProject(req[s].op)
        /\ UNCHANGED Tables
    BY <1>0, AdvanceStep DEF LockProject, Stages
  <1>2. SlotFacts(s) /\ req[s].stage \notin {"idle", "token", "ready", "counted", "looked"}
    BY <1>0, <1>1 DEF IInv
  <1>3. SlotFacts(s)'
    <2>1. Shape(s)'
      BY <1>1, <1>2 DEF LockProject, Txn, SlotFacts, Shape
    <2>2. ProjectFacts(s)'
      BY <1>1 DEF LockProject, ProjectOk, Assignable, Txn, ProjectFacts, HoldsProject,
                  Exists, Tables, projectVars
    <2> QED
      BY <1>1, <2>1, <2>2 DEF Txn, SlotFacts, TokenFacts, OwnerFacts, CountFacts, KeyFacts
  <1>4. \A r \in Slots \ {s}, p \in Projects :
           ~(HoldsProject(s, p)' /\ HoldsProject(r, p))
    BY <1>1 DEF LockProject, ProjectFree, HoldsProject, Txn
  <1>5. \A u \in Users : HoldsUser(s, u)' => HoldsUser(s, u)
    BY <1>1, <1>2 DEF HoldsUser, Txn, LockProject, BeforeProject, UserFirst
  <1>6. \A t \in Tokens : ~HoldsToken(s, t)'
    BY <1>1 DEF HoldsToken, Txn
  <1>7. \A r \in Slots \ {s}, u \in Users : ~(HoldsUser(s, u) /\ HoldsUser(r, u))
    BY DEF IInv, Mutex
  <1> HIDE DEF q
  <1> QED
    BY <1>1, <1>3, <1>4, <1>5, <1>6, <1>7, RequestStep

\* The token row is locked by nobody else and is as TokenOk found it.
LEMMA LockTokenInv == ASSUME IInv, NEW s \in Slots, LockToken(s) PROVE IInv'
  <1> DEFINE q == [req[s] EXCEPT !.stage = "token"]
  <1>1. /\ q \in Txn /\ req' = [req EXCEPT ![s] = q] /\ req'[s] = q
        /\ req[s] \in Txn /\ req[s].stage = "project" /\ UNCHANGED Tables
    BY AdvanceStep DEF LockToken, Stages
  <1>2. SlotFacts(s)
    BY DEF IInv
  <1>3. SlotFacts(s)'
    <2>1. Shape(s)'
      BY <1>1, <1>2 DEF LockToken, Txn, SlotFacts, Shape
    <2>2. ProjectFacts(s)'
      BY <1>1, <1>2 DEF LockToken, Txn, SlotFacts, ProjectFacts, HoldsProject,
                        Exists, Tables, projectVars
    <2>3. TokenFacts(s)'
      BY <1>1 DEF LockToken, TokenOk, Txn, TokenFacts, Tables, tokenVars
    <2> QED
      BY <1>1, <2>1, <2>2, <2>3 DEF Txn, SlotFacts, OwnerFacts, CountFacts, KeyFacts
  <1>4. \A r \in Slots \ {s}, t \in Tokens : ~(HoldsToken(s, t)' /\ HoldsToken(r, t))
    BY <1>1 DEF LockToken, TokenFree, HoldsToken, Txn
  <1>5. /\ \A u \in Users : HoldsUser(s, u)' => HoldsUser(s, u)
        /\ \A p \in Projects : HoldsProject(s, p)' => HoldsProject(s, p)
    BY <1>1 DEF HoldsUser, HoldsProject, Txn, LockToken, UserFirst
  <1>6. \A r \in Slots \ {s} :
           /\ \A u \in Users : ~(HoldsUser(s, u) /\ HoldsUser(r, u))
           /\ \A p \in Projects : ~(HoldsProject(s, p) /\ HoldsProject(r, p))
    BY DEF IInv, Mutex
  <1> HIDE DEF q
  <1> QED
    BY <1>1, <1>3, <1>4, <1>5, <1>6, RequestStep

\* The project's owner is locked by nobody else and is not blocked.
LEMMA LockOwnerInv == ASSUME IInv, NEW s \in Slots, LockOwner(s) PROVE IInv'
  <1> DEFINE u == owner[req[s].project]
             q == [req[s] EXCEPT !.stage = "ready", !.user = u]
  <1>1. req \in [Slots -> Txn] /\ req[s] \in Txn
    BY DEF IInv, TypeOK, Txn
  <1>2. SlotFacts(s) /\ req[s].op = "auth" /\ req[s].stage = "token"
    BY DEF IInv, LockOwner
  <1>3. req[s].project \in Projects /\ u \in Users \cup {None}
    BY <1>2 DEF SlotFacts, Shape, IInv, TypeOK
  <1>4. q \in Txn /\ req' = [req EXCEPT ![s] = q] /\ req'[s] = q /\ UNCHANGED Tables
    BY <1>1, <1>3 DEF LockOwner, Txn, Stages, Tables
  <1>5. SlotFacts(s)'
    <2>1. Shape(s)'
      BY <1>1, <1>2, <1>4 DEF Txn, SlotFacts, Shape, UserFirst
    <2>2. ProjectFacts(s)' /\ TokenFacts(s)'
      BY <1>1, <1>2, <1>4 DEF Txn, SlotFacts, ProjectFacts, HoldsProject, TokenFacts,
                              Exists, Tables, projectVars, tokenVars
    <2>3. u \notin blocked
      BY <1>3, AccessAssumption DEF LockOwner, IInv, TypeOK
    <2>4. OwnerFacts(s)'
      BY <1>1, <1>2, <1>4, <2>3 DEF Txn, OwnerFacts, Tables, projectVars
    <2> QED
      BY <1>1, <1>2, <1>4, <2>1, <2>2, <2>4 DEF Txn, SlotFacts, CountFacts, KeyFacts
  <1>6. \A r \in Slots \ {s}, x \in Users : ~(HoldsUser(s, x)' /\ HoldsUser(r, x))
    BY <1>1, <1>2, <1>4, AccessAssumption DEF LockOwner, UserFree, HoldsUser, Txn
  <1>7. /\ \A p \in Projects : HoldsProject(s, p)' => HoldsProject(s, p)
        /\ \A t \in Tokens : HoldsToken(s, t)' => HoldsToken(s, t)
    BY <1>1, <1>2, <1>4 DEF HoldsProject, HoldsToken, Txn
  <1>8. \A r \in Slots \ {s} :
           /\ \A t \in Tokens : ~(HoldsToken(s, t) /\ HoldsToken(r, t))
           /\ \A p \in Projects : ~(HoldsProject(s, p) /\ HoldsProject(r, p))
    BY DEF IInv, Mutex
  <1> HIDE DEF q, u
  <1> QED
    BY <1>4, <1>5, <1>6, <1>7, <1>8, RequestStep

\* Count and Look: the request keeps its locks and has one more fact.
LEMMA KeepLocks ==
  ASSUME IInv, NEW s \in Slots, NEW from \in {"user", "project"},
         NEW to \in {"counted", "looked"}, Advance(s, from, to), SlotFacts(s)',
         req[s].op \in {"create", "restore", "assign", "issue"},
         req[s].op = "create" \/ from = "project"
  PROVE  IInv'
  <1> DEFINE q == [req[s] EXCEPT !.stage = to]
  <1>1. /\ q \in Txn /\ req' = [req EXCEPT ![s] = q] /\ req'[s] = q
        /\ req[s] \in Txn /\ req[s].stage = from /\ UNCHANGED Tables
    BY AdvanceStep DEF Stages
  <1>2. SlotFacts(s)
    BY DEF IInv
  <1>3. /\ \A u \in Users : HoldsUser(s, u)' => HoldsUser(s, u)
        /\ \A t \in Tokens : HoldsToken(s, t)' => HoldsToken(s, t)
    BY <1>1 DEF HoldsUser, HoldsToken, Txn, UserFirst
  <1>4. \A p \in Projects : HoldsProject(s, p)' => HoldsProject(s, p)
    BY <1>1, <1>2, AccessAssumption DEF HoldsProject, Txn, SlotFacts, Shape
  <1>5. \A r \in Slots \ {s} :
           /\ \A u \in Users : ~(HoldsUser(s, u) /\ HoldsUser(r, u))
           /\ \A t \in Tokens : ~(HoldsToken(s, t) /\ HoldsToken(r, t))
           /\ \A p \in Projects : ~(HoldsProject(s, p) /\ HoldsProject(r, p))
    BY DEF IInv, Mutex
  <1> HIDE DEF q
  <1> QED
    BY <1>1, <1>3, <1>4, <1>5, RequestStep

\* enforceLimit finds room for one more project.
LEMMA CountInv == ASSUME IInv, NEW s \in Slots, Count(s) PROVE IInv'
  <1>0. SlotFacts(s)
    BY DEF IInv
  <1>1. PICK from \in {"user", "project"} :
          /\ Advance(s, from, "counted")
          /\ req[s].op \in {"create", "restore", "assign"}
          /\ req[s].op = "create" \/ from = "project"
          /\ req[s].op = "create" => CreatedWith(req[s].user, req[s].key) = {}
          /\ \/ BelowLimit(req[s].user)
             \/ req[s].op = "assign" /\ status[req[s].project] # "active"
    BY DEF Count
  <1>2. /\ req'[s] = [req[s] EXCEPT !.stage = "counted"]
        /\ req[s] \in Txn /\ req[s].stage = from /\ UNCHANGED Tables
    BY <1>1, AdvanceStep DEF Stages
  <1>3. Shape(s)'
    BY <1>0, <1>1, <1>2 DEF SlotFacts, Shape, Txn
  <1>4. ProjectFacts(s)'
    BY <1>0, <1>1, <1>2, AccessAssumption
       DEF SlotFacts, Shape, ProjectFacts, HoldsProject, Txn, Exists, Tables, projectVars
  <1>5. CountFacts(s)'
    <2>1. CASE BelowLimit(req[s].user)
      BY <1>2, <2>1 DEF CountFacts, Txn, BelowLimit, ActiveOf, Tables, projectVars
    <2>2. CASE req[s].op = "assign" /\ status[req[s].project] # "active"
      <3>1. Exists(req[s].project)
        BY <1>0, <1>1, <1>2, <2>2 DEF SlotFacts, Shape, ProjectFacts, HoldsProject
      <3> QED
        BY <1>2, <2>2, <3>1 DEF CountFacts, Txn, Exists, Tables, projectVars
    <2> QED
      BY <1>1, <2>1, <2>2
  <1>6. TokenFacts(s)' /\ OwnerFacts(s)' /\ KeyFacts(s)'
    BY <1>1, <1>2 DEF TokenFacts, OwnerFacts, KeyFacts, Txn, CreatedWith, Exists,
                      Tables, projectVars
  <1> QED
    BY <1>1, <1>3, <1>4, <1>5, <1>6, KeepLocks DEF SlotFacts

\* The key of a new connection is unused.
LEMMA LookInv == ASSUME IInv, NEW s \in Slots, Look(s) PROVE IInv'
  <1>0. SlotFacts(s)
    BY DEF IInv
  <1>1. /\ Advance(s, "project", "looked") /\ req[s].op = "issue"
        /\ IssuedWith(req[s].project, req[s].key) = {}
    BY DEF Look
  <1>2. /\ req'[s] = [req[s] EXCEPT !.stage = "looked"]
        /\ req[s] \in Txn /\ req[s].stage = "project" /\ UNCHANGED Tables
    BY <1>1, AdvanceStep DEF Stages
  <1>3. Shape(s)' /\ ProjectFacts(s)'
    BY <1>0, <1>1, <1>2 DEF SlotFacts, Shape, ProjectFacts, HoldsProject, Txn, Exists,
                            Tables, projectVars
  <1>4. TokenFacts(s)' /\ OwnerFacts(s)' /\ CountFacts(s)' /\ KeyFacts(s)'
    BY <1>1, <1>2 DEF TokenFacts, OwnerFacts, CountFacts, KeyFacts, Txn, IssuedWith,
                      TokenExists, Tables, tokenVars
  <1> QED
    BY <1>1, <1>3, <1>4, KeepLocks DEF SlotFacts

\* A replay or a failure ends a request without a write.
LEMMA EndInv == ASSUME IInv, NEW s \in Slots, Replay(s) \/ Abort(s) PROVE IInv'
  BY IdleStep DEF Replay, Abort, Tables

---------------------------------------------------------------------------
\* Commits.

\* The lock held on each kind of row keeps a request's facts.
LEMMA FactsKept ==
  ASSUME IInv, TypeOK', NEW r \in Slots, req'[r] = req[r],
         \A p \in Projects : HoldsProject(r, p) /\ Exists(p) =>
            /\ status'[p] = status[p] /\ owner'[p] = owner[p]
            /\ \A k \in Keys : IssuedWith(p, k)' \subseteq IssuedWith(p, k),
         \A t \in Tokens : HoldsToken(r, t) /\ TokenExists(t) =>
            tokenStatus'[t] = tokenStatus[t] /\ tokenProject'[t] = tokenProject[t],
         \A u \in Users : HoldsUser(r, u) =>
            /\ ActiveOf(u)' \subseteq ActiveOf(u)
            /\ u \in blocked' => u \in blocked
            /\ \A k \in Keys : CreatedWith(u, k)' \subseteq CreatedWith(u, k)
  PROVE  SlotFacts(r)'
  <1>1. SlotFacts(r) /\ req[r] \in Txn
    BY DEF IInv, TypeOK, Txn
  <1>2. Shape(r)'
    BY <1>1 DEF SlotFacts, Shape
  <1>3. ProjectFacts(r)'
    BY <1>1 DEF SlotFacts, ProjectFacts, HoldsProject, Exists
  <1>4. TokenFacts(r)'
    <2>1. SUFFICES ASSUME req[r].stage \in {"token", "ready"} PROVE TokenFacts(r)'
      BY DEF TokenFacts
    <2>2. req[r].token \in Tokens /\ HoldsToken(r, req[r].token)
      BY <1>1, <2>1 DEF SlotFacts, Shape, HoldsToken
    <2>3. TokenExists(req[r].token)
      BY <1>1, <2>1 DEF SlotFacts, TokenFacts, TokenExists
    <2> QED
      BY <1>1, <2>2, <2>3 DEF SlotFacts, TokenFacts
  <1>5. OwnerFacts(r)'
    <2>1. SUFFICES ASSUME req[r].op = "auth", req[r].stage = "ready" PROVE OwnerFacts(r)'
      BY DEF OwnerFacts
    <2>2. req[r].project \in Projects /\ HoldsProject(r, req[r].project)
      BY <1>1, <2>1 DEF SlotFacts, Shape, HoldsProject
    <2>3. Exists(req[r].project)
      BY <1>1, <2>2 DEF SlotFacts, ProjectFacts
    <2>4. req[r].user = owner[req[r].project] /\ req[r].user \notin blocked
      BY <1>1, <2>1 DEF SlotFacts, OwnerFacts
    <2>5. req[r].user \notin blocked'
      <3>1. CASE req[r].user \in Users
        BY <2>1, <2>4, <3>1 DEF HoldsUser
      <3>2. CASE req[r].user \notin Users
        BY <3>2 DEF TypeOK
      <3> QED
        BY <3>1, <3>2
    <2> QED
      BY <2>2, <2>3, <2>4, <2>5 DEF OwnerFacts
  <1>6. CountFacts(r)'
    <2>1. SUFFICES ASSUME req[r].stage = "counted" PROVE CountFacts(r)'
      BY DEF CountFacts
    <2>2. /\ req[r].op \in {"create", "restore", "assign"} /\ req[r].user \in Users
          /\ HoldsUser(r, req[r].user)
      BY <1>1, <2>1 DEF SlotFacts, Shape, HoldsUser, UserFirst
    <2>3. CASE BelowLimit(req[r].user)
      <3>1. ActiveOf(req[r].user)' \subseteq ActiveOf(req[r].user)
        BY <2>2
      <3>2. IsFiniteSet(ActiveOf(req[r].user))
        BY AccessAssumption, FS_Subset DEF ActiveOf
      <3>3. Cardinality(ActiveOf(req[r].user)') <= Cardinality(ActiveOf(req[r].user))
            /\ Cardinality(ActiveOf(req[r].user)') \in Nat
            /\ Cardinality(ActiveOf(req[r].user)) \in Nat
        BY <3>1, <3>2, FS_Subset, FS_CardinalityType
      <3>4. BelowLimit(req[r].user)'
        BY <2>3, <3>3, AccessAssumption DEF BelowLimit
      <3> QED
        BY <3>4 DEF CountFacts
    <2>4. CASE req[r].op = "assign" /\ status[req[r].project] = "archived"
      <3>1. req[r].project \in Projects /\ HoldsProject(r, req[r].project)
        BY <1>1, <2>1, <2>4 DEF SlotFacts, Shape, HoldsProject
      <3> QED
        BY <2>4, <3>1 DEF CountFacts, Exists
    <2> QED
      BY <1>1, <2>1, <2>3, <2>4 DEF SlotFacts, CountFacts
  <1>7. KeyFacts(r)'
    <2>1. ASSUME req[r].op = "create", req[r].stage = "counted"
          PROVE CreatedWith(req[r].user, req[r].key)' = {}
      <3>1. /\ req[r].user \in Users /\ req[r].key \in Keys
            /\ HoldsUser(r, req[r].user)
        BY <1>1, <2>1 DEF SlotFacts, Shape, HoldsUser, UserFirst
      <3> QED
        BY <1>1, <2>1, <3>1 DEF SlotFacts, KeyFacts
    <2>2. ASSUME req[r].op = "issue", req[r].stage = "looked"
          PROVE IssuedWith(req[r].project, req[r].key)' = {}
      <3>1. /\ req[r].project \in Projects /\ req[r].key \in Keys
            /\ HoldsProject(r, req[r].project)
        BY <1>1, <2>2 DEF SlotFacts, Shape, HoldsProject
      <3>2. Exists(req[r].project)
        BY <1>1, <3>1 DEF SlotFacts, ProjectFacts
      <3> QED
        BY <1>1, <2>2, <3>1, <3>2 DEF SlotFacts, KeyFacts
    <2> QED
      BY <2>1, <2>2 DEF KeyFacts
  <1> QED
    BY <1>2, <1>3, <1>4, <1>5, <1>6, <1>7 DEF SlotFacts

\* After a commit its slot is idle and its locks are gone.
LEMMA CommitStep ==
  ASSUME IInv, NEW s \in Slots, req' = [req EXCEPT ![s] = Idle], TypeOK', Blank',
         OwnershipAgrees', ActiveWithinLimit',
         \A r \in Slots \ {s} : SlotFacts(r)'
  PROVE  IInv'
  <1>0. req \in [Slots -> Txn]
    BY DEF IInv, TypeOK, Txn
  <1>1. \A r \in Slots \ {s} : req'[r] = req[r]
    BY <1>0
  <1>2. req'[s].stage = "idle" /\ req'[s].project = None
    BY <1>0, IdleFacts
  <1>3. SlotFacts(s)'
    BY <1>2, AccessAssumption DEF SlotFacts, Shape, ProjectFacts, HoldsProject,
                TokenFacts, OwnerFacts, CountFacts, KeyFacts
  <1>4. Mutex'
    BY <1>1, <1>2 DEF IInv, Mutex, HoldsUser, HoldsProject, HoldsToken
  <1> QED
    BY <1>3, <1>4 DEF IInv

\* One more project fits where there is room.
LEMMA RoomForOne ==
  ASSUME NEW S \in SUBSET Projects, NEW p, NEW T \in SUBSET (S \cup {p}),
         Cardinality(S) < ProjectLimit
  PROVE  Cardinality(T) <= ProjectLimit
  <1>1. IsFiniteSet(S) /\ Cardinality(S) \in Nat
    BY AccessAssumption, FS_Subset, FS_CardinalityType
  <1>2. IsFiniteSet(S \cup {p}) /\ Cardinality(S \cup {p}) <= Cardinality(S) + 1
        /\ Cardinality(S \cup {p}) \in Nat
    BY <1>1, FS_AddElement, FS_CardinalityType
  <1>3. Cardinality(T) <= Cardinality(S \cup {p}) /\ Cardinality(T) \in Nat
    BY <1>2, FS_Subset, FS_CardinalityType
  <1> QED
    BY <1>1, <1>2, <1>3, AccessAssumption

\* A subset respects the limit as well.
LEMMA NoMore ==
  ASSUME NEW S \in SUBSET Projects, NEW T \in SUBSET S
  PROVE  Cardinality(S) <= ProjectLimit => Cardinality(T) <= ProjectLimit
  <1>1. IsFiniteSet(S) /\ Cardinality(S) \in Nat
    BY AccessAssumption, FS_Subset, FS_CardinalityType
  <1>2. Cardinality(T) <= Cardinality(S) /\ Cardinality(T) \in Nat
    BY <1>1, FS_Subset, FS_CardinalityType
  <1> QED
    BY <1>1, <1>2, AccessAssumption

\* The limit holds after a step that activates projects of nobody, or one
\* project of a user who has room for it.
LEMMA LimitKept ==
  ASSUME IInv, NEW v, NEW p,
         \A u \in Users \ {v} : ActiveOf(u)' \subseteq ActiveOf(u),
         ActiveOf(v)' \subseteq ActiveOf(v) \cup {p},
         BelowLimit(v) \/ ActiveOf(v)' \subseteq ActiveOf(v)
  PROVE  ActiveWithinLimit'
  <1>1. SUFFICES ASSUME ProjectLimit # 0, NEW u \in Users
                 PROVE Cardinality(ActiveOf(u)') <= ProjectLimit
    BY DEF ActiveWithinLimit
  <1>2. ActiveOf(u) \subseteq Projects
    BY DEF ActiveOf
  <1>3. CASE ActiveOf(u)' \subseteq ActiveOf(u)
    BY <1>1, <1>2, <1>3, NoMore DEF IInv, ActiveWithinLimit
  <1>4. CASE u = v /\ BelowLimit(v)
    BY <1>1, <1>2, <1>4, RoomForOne DEF BelowLimit
  <1> QED
    BY <1>3, <1>4

\* create: one more active project of a user who has room for it.
LEMMA CommitCreateInv == ASSUME IInv, NEW s \in Slots, CommitCreate(s) PROVE IInv'
  <1> DEFINE q == req[s]
  <1>1. PICK p \in Projects :
          /\ status[p] = "absent"
          /\ status' = [status EXCEPT ![p] = "active"]
          /\ owner' = [owner EXCEPT ![p] = q.user]
          /\ createKey' = [createKey EXCEPT ![p] = q.key]
          /\ ownerRows' = ownerRows \cup {<<p, q.user>>}
    BY DEF CommitCreate
  <1>2. /\ q.op = "create" /\ q.stage = "counted"
        /\ req' = [req EXCEPT ![s] = Idle] /\ UNCHANGED <<blocked, tokenVars>>
    BY DEF CommitCreate, Finish
  <1>3. SlotFacts(s) /\ TypeOK /\ Blank /\ Mutex
    BY DEF IInv
  <1>4. q.user \in Users /\ q.key \in Keys /\ BelowLimit(q.user) /\ HoldsUser(s, q.user)
    BY <1>2, <1>3 DEF SlotFacts, Shape, CountFacts, UserFirst, HoldsUser
  <1>5. ~Exists(p) /\ owner[p] = None
    BY <1>1, <1>3 DEF Exists, Blank
  <1>v. PICK v \in Users : v = q.user
    BY <1>4
  <1>6. TypeOK'
    <2>1. req' \in [Slots -> Txn]
      BY <1>2, <1>3, IdleFacts DEF TypeOK, Txn
    <2> QED
      BY <1>1, <1>2, <1>3, <1>4, <1>5, <2>1 DEF TypeOK, TokenExists, Exists, tokenVars, Txn
  <1>7. Blank' /\ OwnershipAgrees'
    <2>1. \A x \in Projects : {r \in ownerRows' : r[1] = x} =
             {r \in ownerRows : r[1] = x} \cup (IF x = p THEN {<<p, q.user>>} ELSE {})
      BY <1>1
    <2>2. OwnershipAgrees'
      BY <1>1, <1>3, <1>4, <1>5, <2>1, AccessAssumption DEF IInv, OwnershipAgrees, TypeOK
    <2> QED
      BY <1>1, <1>3, <1>4, <2>2, AccessAssumption DEF Blank, Exists, TypeOK
  <1>8. /\ \A u \in Users \ {v} : ActiveOf(u)' \subseteq ActiveOf(u)
        /\ ActiveOf(v)' \subseteq ActiveOf(v) \cup {p}
    BY <1>v, <1>1, <1>3 DEF ActiveOf, TypeOK
  <1>9. ActiveWithinLimit'
    BY <1>v, <1>4, <1>8, LimitKept
  <1>10. ASSUME NEW r \in Slots \ {s} PROVE SlotFacts(r)'
    <2>1. req'[r] = req[r]
      BY <1>2, <1>3 DEF TypeOK
    <2>2. ~HoldsUser(r, v)
      BY <1>v, <1>3, <1>4 DEF Mutex
    <2>3. \A u \in Users \ {v}, k \in Keys : CreatedWith(u, k)' \subseteq CreatedWith(u, k)
      BY <1>v, <1>1, <1>3 DEF CreatedWith, Exists, TypeOK
    <2>4. \A x \in Projects : Exists(x) => status'[x] = status[x] /\ owner'[x] = owner[x]
      BY <1>1, <1>3, <1>5 DEF TypeOK
    <2>5. \A x \in Projects, k \in Keys : IssuedWith(x, k)' = IssuedWith(x, k)
      BY <1>2 DEF IssuedWith, TokenExists, tokenVars
    <2>6. blocked' = blocked /\ tokenStatus' = tokenStatus /\ tokenProject' = tokenProject
      BY <1>2 DEF tokenVars
    <2> HIDE DEF q
    <2> QED
      BY <1>6, <1>8, <2>1, <2>2, <2>3, <2>4, <2>5, <2>6, FactsKept
  <1> QED
    BY <1>2, <1>6, <1>7, <1>9, <1>10, CommitStep

\* restore: an archived project becomes active.
LEMMA CommitRestoreInv == ASSUME IInv, NEW s \in Slots, CommitRestore(s) PROVE IInv'
  <1> DEFINE q == req[s]
  <1>1. /\ q.op = "restore" /\ q.stage = "counted"
        /\ req' = [req EXCEPT ![s] = Idle]
        /\ status' = [status EXCEPT ![q.project] = "active"]
        /\ UNCHANGED <<blocked, owner, createKey, ownerRows, tokenVars>>
    BY DEF CommitRestore, Finish
  <1>2. SlotFacts(s) /\ TypeOK /\ Blank /\ Mutex
    BY DEF IInv
  <1>3. /\ q.user \in Users /\ q.project \in Projects /\ BelowLimit(q.user)
        /\ HoldsUser(s, q.user) /\ HoldsProject(s, q.project)
    BY <1>1, <1>2 DEF SlotFacts, Shape, CountFacts, UserFirst, HoldsUser, HoldsProject
  <1>4. Exists(q.project) /\ owner[q.project] = q.user
    BY <1>1, <1>2, <1>3 DEF SlotFacts, ProjectFacts
  <1>5. \A x \in Projects : Exists(x)' <=> Exists(x)
    BY <1>1, <1>2, <1>3, <1>4 DEF Exists, TypeOK
  <1>v. PICK v \in Users : v = q.user
    BY <1>3
  <1>6. TypeOK'
    <2>1. req' \in [Slots -> Txn]
      BY <1>1, <1>2, IdleFacts DEF TypeOK, Txn
    <2> QED
      BY <1>1, <1>2, <1>5, <2>1 DEF TypeOK, TokenExists, tokenVars, Txn
  <1>7. Blank' /\ OwnershipAgrees'
    BY <1>1, <1>2, <1>5 DEF Blank, IInv, OwnershipAgrees
  <1>8. /\ \A u \in Users \ {v} : ActiveOf(u)' \subseteq ActiveOf(u)
        /\ ActiveOf(v)' \subseteq ActiveOf(v) \cup {q.project}
    BY <1>v, <1>1, <1>2, <1>4 DEF ActiveOf, TypeOK
  <1>9. ActiveWithinLimit'
    BY <1>v, <1>3, <1>8, LimitKept
  <1>10. ASSUME NEW r \in Slots \ {s} PROVE SlotFacts(r)'
    <2>1. req'[r] = req[r]
      BY <1>1, <1>2 DEF TypeOK
    <2>2. ~HoldsUser(r, v) /\ ~HoldsProject(r, q.project)
      BY <1>v, <1>2, <1>3 DEF Mutex
    <2>3. \A u \in Users, k \in Keys : CreatedWith(u, k)' \subseteq CreatedWith(u, k)
      BY <1>v, <1>1, <1>5 DEF CreatedWith
    <2>4. \A x \in Projects \ {q.project} : status'[x] = status[x] /\ owner'[x] = owner[x]
      BY <1>1, <1>2 DEF TypeOK
    <2>5. \A x \in Projects, k \in Keys : IssuedWith(x, k)' = IssuedWith(x, k)
      BY <1>1 DEF IssuedWith, TokenExists, tokenVars
    <2>6. blocked' = blocked /\ tokenStatus' = tokenStatus /\ tokenProject' = tokenProject
      BY <1>1 DEF tokenVars
    <2> HIDE DEF q
    <2> QED
      BY <1>6, <1>8, <2>1, <2>2, <2>3, <2>4, <2>5, <2>6, FactsKept
  <1> QED
    BY <1>1, <1>6, <1>7, <1>9, <1>10, CommitStep

\* assignOwner: an ownerless project gets an owner and his membership.
LEMMA CommitAssignInv == ASSUME IInv, NEW s \in Slots, CommitAssign(s) PROVE IInv'
  <1> DEFINE q == req[s]
             p == q.project
  <1>1. /\ q.op = "assign" /\ q.stage = "counted"
        /\ req' = [req EXCEPT ![s] = Idle]
        /\ owner' = [owner EXCEPT ![p] = q.user]
        /\ ownerRows' = ownerRows \cup {<<p, q.user>>}
        /\ UNCHANGED <<blocked, status, createKey, tokenVars>>
    BY DEF CommitAssign, Finish
  <1>2. SlotFacts(s) /\ TypeOK /\ Blank /\ Mutex
    BY DEF IInv
  <1>3. /\ q.user \in Users /\ p \in Projects
        /\ HoldsUser(s, q.user) /\ HoldsProject(s, p)
        /\ BelowLimit(q.user) \/ status[p] = "archived"
    BY <1>1, <1>2 DEF SlotFacts, Shape, CountFacts, UserFirst, HoldsUser, HoldsProject
  <1>4. Exists(p) /\ owner[p] = None /\ createKey[p] = None
    BY <1>1, <1>2, <1>3 DEF SlotFacts, ProjectFacts, Blank
  <1>5. \A x \in Projects : Exists(x)' <=> Exists(x)
    BY <1>1 DEF Exists
  <1>v. PICK v \in Users : v = q.user
    BY <1>3
  <1>6. TypeOK'
    <2>1. req' \in [Slots -> Txn]
      BY <1>1, <1>2, IdleFacts DEF TypeOK, Txn
    <2> QED
      BY <1>1, <1>2, <1>3, <1>5, <2>1 DEF TypeOK, TokenExists, tokenVars, Txn
  <1>7. Blank' /\ OwnershipAgrees'
    <2>1. \A x \in Projects : {r \in ownerRows' : r[1] = x} =
             {r \in ownerRows : r[1] = x} \cup (IF x = p THEN {<<p, q.user>>} ELSE {})
      BY <1>1
    <2>2. OwnershipAgrees'
      BY <1>1, <1>2, <1>3, <1>4, <2>1, AccessAssumption DEF IInv, OwnershipAgrees, TypeOK
    <2> QED
      BY <1>1, <1>2, <1>3, <1>4, <1>5, <2>2, AccessAssumption DEF Blank, TypeOK
  <1>8. /\ \A u \in Users \ {v} : ActiveOf(u)' \subseteq ActiveOf(u)
        /\ ActiveOf(v)' \subseteq ActiveOf(v) \cup {p}
        /\ BelowLimit(v) \/ ActiveOf(v)' \subseteq ActiveOf(v)
    BY <1>v, <1>1, <1>2, <1>3 DEF ActiveOf, TypeOK
  <1>9. ActiveWithinLimit'
    BY <1>v, <1>3, <1>8, LimitKept
  <1>10. ASSUME NEW r \in Slots \ {s} PROVE SlotFacts(r)'
    <2>1. req'[r] = req[r]
      BY <1>1, <1>2 DEF TypeOK
    <2>2. ~HoldsUser(r, v) /\ ~HoldsProject(r, p)
      BY <1>v, <1>2, <1>3 DEF Mutex
    <2>3. \A u \in Users, k \in Keys : CreatedWith(u, k)' \subseteq CreatedWith(u, k)
      BY <1>v, <1>1, <1>2, <1>4, <1>5, AccessAssumption DEF CreatedWith, TypeOK
    <2>4. \A x \in Projects \ {p} : status'[x] = status[x] /\ owner'[x] = owner[x]
      BY <1>1, <1>2 DEF TypeOK
    <2>5. \A x \in Projects, k \in Keys : IssuedWith(x, k)' = IssuedWith(x, k)
      BY <1>1 DEF IssuedWith, TokenExists, tokenVars
    <2>6. blocked' = blocked /\ tokenStatus' = tokenStatus /\ tokenProject' = tokenProject
      BY <1>1 DEF tokenVars
    <2> HIDE DEF q, p
    <2> QED
      BY <1>6, <1>8, <2>1, <2>2, <2>3, <2>4, <2>5, <2>6, FactsKept
  <1> QED
    BY <1>1, <1>6, <1>7, <1>9, <1>10, CommitStep

\* archive by the owner or an operator.
LEMMA CommitArchiveInv == ASSUME IInv, NEW s \in Slots, CommitArchive(s) PROVE IInv'
  <1> DEFINE p == req[s].project
  <1>1. /\ req[s].op \in {"archive", "opArchive"} /\ req[s].stage = "project"
        /\ req' = [req EXCEPT ![s] = Idle]
        /\ status' = [status EXCEPT ![p] = "archived"]
        /\ UNCHANGED <<blocked, owner, createKey, ownerRows, tokenVars>>
    BY DEF CommitArchive, Finish
  <1>2. SlotFacts(s) /\ TypeOK /\ Blank /\ Mutex
    BY DEF IInv
  <1>3. p \in Projects /\ HoldsProject(s, p) /\ Exists(p)
    BY <1>1, <1>2 DEF SlotFacts, Shape, HoldsProject, ProjectFacts
  <1>5. \A x \in Projects : Exists(x)' <=> Exists(x)
    BY <1>1, <1>2, <1>3 DEF Exists, TypeOK
  <1>6. TypeOK'
    <2>1. req' \in [Slots -> Txn]
      BY <1>1, <1>2, IdleFacts DEF TypeOK, Txn
    <2> QED
      BY <1>1, <1>2, <1>5, <2>1 DEF TypeOK, TokenExists, tokenVars, Txn
  <1>7. Blank' /\ OwnershipAgrees'
    BY <1>1, <1>2, <1>5 DEF Blank, IInv, OwnershipAgrees
  <1>8. \A u \in Users \cup {None} : ActiveOf(u)' \subseteq ActiveOf(u)
    BY <1>1, <1>2, <1>3 DEF ActiveOf, TypeOK
  <1>9. ActiveWithinLimit'
    BY <1>8, LimitKept
  <1>10. ASSUME NEW r \in Slots \ {s} PROVE SlotFacts(r)'
    <2>1. req'[r] = req[r]
      BY <1>1, <1>2 DEF TypeOK
    <2>2. ~HoldsProject(r, p)
      BY <1>2, <1>3 DEF Mutex
    <2>3. \A u \in Users, k \in Keys : CreatedWith(u, k)' \subseteq CreatedWith(u, k)
      BY <1>1, <1>5 DEF CreatedWith
    <2>4. \A x \in Projects \ {p} : status'[x] = status[x] /\ owner'[x] = owner[x]
      BY <1>1, <1>2 DEF TypeOK
    <2>5. \A x \in Projects, k \in Keys : IssuedWith(x, k)' = IssuedWith(x, k)
      BY <1>1 DEF IssuedWith, TokenExists, tokenVars
    <2>6. blocked' = blocked /\ tokenStatus' = tokenStatus /\ tokenProject' = tokenProject
      BY <1>1 DEF tokenVars
    <2> HIDE DEF p
    <2> QED
      BY <1>6, <1>8, <2>1, <2>2, <2>3, <2>4, <2>5, <2>6, FactsKept
  <1> QED
    BY <1>1, <1>6, <1>7, <1>9, <1>10, CommitStep

\* delete, with the tokens and memberships of the project.
LEMMA CommitDeleteInv == ASSUME IInv, NEW s \in Slots, CommitDelete(s) PROVE IInv'
  <1> DEFINE p == req[s].project
  <1>1. /\ req[s].op = "delete" /\ req[s].stage = "project"
        /\ req' = [req EXCEPT ![s] = Idle]
        /\ status' = [status EXCEPT ![p] = "deleted"]
        /\ owner' = [owner EXCEPT ![p] = None]
        /\ createKey' = [createKey EXCEPT ![p] = None]
        /\ ownerRows' = {r \in ownerRows : r[1] # p}
        /\ tokenStatus' = [t \in Tokens |-> IF tokenProject[t] = p THEN "deleted"
                                            ELSE tokenStatus[t]]
        /\ UNCHANGED <<blocked, tokenProject, tokenKey, expired>>
    BY DEF CommitDelete, Finish, Cascaded
  <1>2. SlotFacts(s) /\ TypeOK /\ Blank /\ Mutex
    BY DEF IInv
  <1>3. p \in Projects /\ HoldsProject(s, p) /\ Exists(p)
    BY <1>1, <1>2 DEF SlotFacts, Shape, HoldsProject, ProjectFacts
  <1>5. \A x \in Projects : Exists(x)' <=> Exists(x) /\ x # p
    BY <1>1, <1>2, <1>3 DEF Exists, TypeOK
  <1>6. TypeOK'
    <2>1. req' \in [Slots -> Txn]
      BY <1>1, <1>2, IdleFacts DEF TypeOK, Txn
    <2>2. tokenStatus' \in [Tokens -> {"absent", "live", "revoked", "deleted"}]
      BY <1>1, <1>2 DEF TypeOK
    <2>3. \A t \in Tokens : TokenExists(t)' => TokenExists(t) /\ tokenProject[t] # p
      BY <1>1 DEF TokenExists
    <2>4. /\ status' \in [Projects -> {"absent", "active", "archived", "deleted"}]
          /\ owner' \in [Projects -> Users \cup {None}]
          /\ createKey' \in [Projects -> Keys \cup {None}]
          /\ ownerRows' \subseteq Projects \X Users
      BY <1>1, <1>2 DEF TypeOK
    <2> QED
      BY <1>1, <1>2, <1>5, <2>1, <2>2, <2>3, <2>4 DEF TypeOK, Txn
  <1>7. Blank' /\ OwnershipAgrees'
    <2>1. \A x \in Projects : {r \in ownerRows' : r[1] = x} =
             IF x = p THEN {} ELSE {r \in ownerRows : r[1] = x}
      BY <1>1
    <2>2. OwnershipAgrees'
      BY <1>1, <1>2, <1>3, <2>1 DEF IInv, OwnershipAgrees, TypeOK
    <2> QED
      BY <1>1, <1>2, <1>3, <1>5, <2>2 DEF Blank, TypeOK
  <1>8. \A u \in Users \cup {None} : ActiveOf(u)' \subseteq ActiveOf(u)
    BY <1>1, <1>2, <1>3 DEF ActiveOf, TypeOK
  <1>9. ActiveWithinLimit'
    BY <1>8, LimitKept
  <1>10. ASSUME NEW r \in Slots \ {s} PROVE SlotFacts(r)'
    <2>1. req'[r] = req[r]
      BY <1>1, <1>2 DEF TypeOK
    <2>2. ~HoldsProject(r, p)
      BY <1>2, <1>3 DEF Mutex
    <2>3. \A u \in Users, k \in Keys : CreatedWith(u, k)' \subseteq CreatedWith(u, k)
      BY <1>1, <1>2, <1>5, AccessAssumption DEF CreatedWith, TypeOK
    <2>4. \A x \in Projects \ {p} : status'[x] = status[x] /\ owner'[x] = owner[x]
      BY <1>1, <1>2 DEF TypeOK
    <2>5. \A x \in Projects, k \in Keys : IssuedWith(x, k)' \subseteq IssuedWith(x, k)
      BY <1>1 DEF IssuedWith, TokenExists
    <2>6. \A t \in Tokens : HoldsToken(r, t) /\ TokenExists(t) =>
             tokenStatus'[t] = tokenStatus[t] /\ tokenProject'[t] = tokenProject[t]
      <3>1. SUFFICES ASSUME NEW t \in Tokens, HoldsToken(r, t) PROVE tokenProject[t] # p
        BY <1>1
      <3>2. /\ SlotFacts(r) /\ req[r].token = t /\ req[r].stage \in {"token", "ready"}
        BY <3>1 DEF IInv, HoldsToken
      <3>3. tokenProject[t] = req[r].project /\ HoldsProject(r, tokenProject[t])
        BY <3>2 DEF SlotFacts, TokenFacts, HoldsProject
      <3> QED
        BY <2>2, <3>3
    <2>7. blocked' = blocked
      BY <1>1
    <2> HIDE DEF p
    <2> QED
      BY <1>6, <1>8, <2>1, <2>2, <2>3, <2>4, <2>5, <2>6, <2>7, FactsKept
  <1> QED
    BY <1>1, <1>6, <1>7, <1>9, <1>10, CommitStep

\* issue: one more token of a project that is locked.
LEMMA CommitIssueInv == ASSUME IInv, NEW s \in Slots, CommitIssue(s) PROVE IInv'
  <1> DEFINE q == req[s]
  <1>1. PICK t \in Tokens :
          /\ tokenStatus[t] = "absent"
          /\ tokenStatus' = [tokenStatus EXCEPT ![t] = "live"]
          /\ tokenProject' = [tokenProject EXCEPT ![t] = q.project]
          /\ tokenKey' = [tokenKey EXCEPT ![t] = q.key]
    BY DEF CommitIssue
  <1>2. /\ q.op = "issue" /\ q.stage = "looked"
        /\ req' = [req EXCEPT ![s] = Idle] /\ UNCHANGED <<blocked, projectVars, expired>>
    BY DEF CommitIssue, Finish
  <1>3. SlotFacts(s) /\ TypeOK /\ Blank /\ Mutex
    BY DEF IInv
  <1>4. /\ q.project \in Projects /\ q.key \in Keys /\ HoldsProject(s, q.project)
        /\ Exists(q.project)
    BY <1>2, <1>3 DEF SlotFacts, Shape, HoldsProject, ProjectFacts
  <1>5. /\ status' = status /\ owner' = owner /\ createKey' = createKey
        /\ ownerRows' = ownerRows /\ blocked' = blocked
    BY <1>2 DEF projectVars
  <1>6. TypeOK'
    <2>1. req' \in [Slots -> Txn]
      BY <1>2, <1>3, IdleFacts DEF TypeOK, Txn
    <2>2. \A x \in Tokens : TokenExists(x)' => x = t \/ (TokenExists(x) /\ x # t)
      BY <1>1, <1>3 DEF TokenExists, TypeOK
    <2>3. /\ tokenStatus' \in [Tokens -> {"absent", "live", "revoked", "deleted"}]
          /\ tokenProject' \in [Tokens -> Projects \cup {None}]
          /\ tokenKey' \in [Tokens -> Keys \cup {None}]
      BY <1>1, <1>3, <1>4 DEF TypeOK
    <2>4. ASSUME NEW x \in Tokens, TokenExists(x)'
          PROVE tokenProject'[x] \in Projects /\ Exists(tokenProject'[x])
      <3>1. CASE x = t
        BY <1>1, <1>3, <1>4, <3>1 DEF TypeOK
      <3>2. CASE x # t
        BY <1>1, <1>3, <2>2, <2>4, <3>2 DEF TypeOK
      <3> QED
        BY <3>1, <3>2
    <2> HIDE DEF q
    <2> QED
      BY <1>2, <1>3, <1>5, <2>1, <2>3, <2>4 DEF TypeOK, Exists, Txn
  <1>7. Blank' /\ OwnershipAgrees' /\ ActiveWithinLimit'
    BY <1>3, <1>5 DEF IInv, Blank, OwnershipAgrees, Exists, ActiveWithinLimit, ActiveOf
  <1>p. PICK p \in Projects : p = q.project
    BY <1>4
  <1>8. ASSUME NEW r \in Slots \ {s} PROVE SlotFacts(r)'
    <2>1. req'[r] = req[r]
      BY <1>2, <1>3 DEF TypeOK
    <2>2. ~HoldsProject(r, p)
      BY <1>p, <1>3, <1>4 DEF Mutex
    <2>3. \A x \in Projects \ {p}, k \in Keys : IssuedWith(x, k)' \subseteq IssuedWith(x, k)
      <3>1. SUFFICES ASSUME NEW x \in Projects \ {p}, NEW k \in Keys,
                            NEW y \in IssuedWith(x, k)'
                     PROVE y \in IssuedWith(x, k)
        OBVIOUS
      <3>2. y \in Tokens /\ tokenProject'[y] = x
        BY <3>1 DEF IssuedWith
      <3>3. y # t
        BY <1>p, <1>1, <1>3, <3>1, <3>2 DEF TypeOK
      <3> QED
        BY <1>1, <1>3, <3>1, <3>3 DEF IssuedWith, TokenExists, TypeOK
    <2>4. \A x \in Tokens : TokenExists(x) =>
             tokenStatus'[x] = tokenStatus[x] /\ tokenProject'[x] = tokenProject[x]
      BY <1>1, <1>3 DEF TokenExists, TypeOK
    <2>5. \A u \in Users : ActiveOf(u)' = ActiveOf(u)
      BY <1>5 DEF ActiveOf
    <2>6. \A u \in Users, k \in Keys : CreatedWith(u, k)' = CreatedWith(u, k)
      BY <1>5 DEF CreatedWith, Exists
    <2> HIDE DEF q
    <2> QED
      BY <1>5, <1>6, <2>1, <2>2, <2>3, <2>4, <2>5, <2>6, FactsKept
  <1> QED
    BY <1>2, <1>6, <1>7, <1>8, CommitStep

\* A step that leaves the projects alone keeps what is said of them alone.
LEMMA ProjectsKept ==
  ASSUME IInv, UNCHANGED projectVars
  PROVE  /\ Blank' /\ OwnershipAgrees' /\ ActiveWithinLimit'
         /\ \A u \in Users : ActiveOf(u)' = ActiveOf(u)
         /\ \A u \in Users, k \in Keys : CreatedWith(u, k)' = CreatedWith(u, k)
         /\ \A x \in Projects : status'[x] = status[x] /\ owner'[x] = owner[x]
  BY DEF IInv, projectVars, Blank, OwnershipAgrees, Exists, ActiveWithinLimit,
         ActiveOf, CreatedWith

\* revoke: the token is locked.
LEMMA CommitRevokeInv == ASSUME IInv, NEW s \in Slots, CommitRevoke(s) PROVE IInv'
  <1> DEFINE t == req[s].token
  <1>1. /\ req[s].op = "revoke" /\ req[s].stage = "token"
        /\ req' = [req EXCEPT ![s] = Idle]
        /\ tokenStatus' = [tokenStatus EXCEPT ![t] = "revoked"]
        /\ UNCHANGED <<blocked, projectVars, tokenProject, tokenKey, expired>>
    BY DEF CommitRevoke, Finish
  <1>2. SlotFacts(s) /\ TypeOK /\ Mutex
    BY DEF IInv
  <1>3. t \in Tokens /\ HoldsToken(s, t) /\ TokenExists(t)
    BY <1>1, <1>2 DEF SlotFacts, Shape, HoldsToken, TokenFacts, TokenExists
  <1>4. \A x \in Tokens : TokenExists(x)' => TokenExists(x)
    BY <1>1, <1>2, <1>3 DEF TokenExists, TypeOK
  <1>5. TypeOK'
    <2>1. req' \in [Slots -> Txn]
      BY <1>1, <1>2, IdleFacts DEF TypeOK, Txn
    <2> QED
      BY <1>1, <1>2, <1>3, <1>4, <2>1 DEF TypeOK, projectVars, Exists, Txn
  <1>6. ASSUME NEW r \in Slots \ {s} PROVE SlotFacts(r)'
    <2>1. req'[r] = req[r] /\ ~HoldsToken(r, t)
      BY <1>1, <1>2, <1>3 DEF TypeOK, Mutex
    <2>2. \A x \in Projects, k \in Keys : IssuedWith(x, k)' \subseteq IssuedWith(x, k)
      BY <1>1, <1>4 DEF IssuedWith
    <2>3. \A x \in Tokens \ {t} :
             tokenStatus'[x] = tokenStatus[x] /\ tokenProject'[x] = tokenProject[x]
      BY <1>1, <1>2 DEF TypeOK
    <2> HIDE DEF t
    <2> QED
      BY <1>1, <1>5, <2>1, <2>2, <2>3, ProjectsKept, FactsKept
  <1> QED
    BY <1>1, <1>5, <1>6, ProjectsKept, CommitStep

\* authenticateProject changes no row that matters here.
LEMMA CommitAuthInv == ASSUME IInv, NEW s \in Slots, CommitAuth(s) PROVE IInv'
  BY IdleStep DEF CommitAuth, Finish, Tables

\* blockUser and unblockUser: the user is locked.
LEMMA CommitBlockInv == ASSUME IInv, NEW s \in Slots, CommitBlock(s) PROVE IInv'
  <1>1. /\ req[s].op \in {"block", "unblock"} /\ req[s].stage = "user"
        /\ req' = [req EXCEPT ![s] = Idle]
        /\ blocked' \subseteq blocked \cup {req[s].user}
        /\ UNCHANGED <<projectVars, tokenVars>>
    BY DEF CommitBlock, Finish
  <1>2. SlotFacts(s) /\ TypeOK /\ Mutex
    BY DEF IInv
  <1>3. PICK v \in Users : v = req[s].user /\ HoldsUser(s, v)
    BY <1>1, <1>2 DEF SlotFacts, Shape, HoldsUser, UserFirst
  <1>4. TypeOK'
    <2>1. req' \in [Slots -> Txn]
      BY <1>1, <1>2, IdleFacts DEF TypeOK, Txn
    <2> QED
      BY <1>1, <1>2, <1>3, <2>1 DEF TypeOK, projectVars, tokenVars, Exists, TokenExists, Txn
  <1>5. ASSUME NEW r \in Slots \ {s} PROVE SlotFacts(r)'
    <2>1. req'[r] = req[r] /\ ~HoldsUser(r, v)
      BY <1>1, <1>2, <1>3 DEF TypeOK, Mutex
    <2>2. \A u \in Users \ {v} : u \in blocked' => u \in blocked
      BY <1>1, <1>3
    <2>3. \A x \in Projects, k \in Keys : IssuedWith(x, k)' = IssuedWith(x, k)
      BY <1>1 DEF IssuedWith, TokenExists, tokenVars
    <2>4. tokenStatus' = tokenStatus /\ tokenProject' = tokenProject
      BY <1>1 DEF tokenVars
    <2> QED
      BY <1>1, <1>4, <2>1, <2>2, <2>3, <2>4, ProjectsKept, FactsKept
  <1> QED
    BY <1>1, <1>4, <1>5, ProjectsKept, CommitStep

\* A step outside the requests keeps their locks.
LEMMA OutsideStep ==
  ASSUME IInv, UNCHANGED req, TypeOK', Blank', OwnershipAgrees', ActiveWithinLimit',
         \A r \in Slots : SlotFacts(r)'
  PROVE  IInv'
  BY DEF IInv, Mutex, HoldsUser, HoldsProject, HoldsToken

\* The CLI's createProject: rows nobody has looked at.
LEMMA CreateProjectInv == ASSUME IInv, CreateProject PROVE IInv'
  <1>1. PICK p \in Projects, t \in Tokens :
          /\ status[p] = "absent" /\ tokenStatus[t] = "absent"
          /\ status' = [status EXCEPT ![p] = "active"]
          /\ tokenStatus' = [tokenStatus EXCEPT ![t] = "live"]
          /\ tokenProject' = [tokenProject EXCEPT ![t] = p]
    BY DEF CreateProject
  <1>2. UNCHANGED <<blocked, owner, createKey, ownerRows, tokenKey, expired, req>>
    BY DEF CreateProject
  <1>3. TypeOK /\ Blank
    BY DEF IInv
  <1>4. ~Exists(p) /\ owner[p] = None
    BY <1>1, <1>3 DEF Exists, Blank
  <1>5. /\ \A x \in Projects : Exists(x)' <=> (Exists(x) \/ x = p)
        /\ \A x \in Tokens : TokenExists(x)' <=> (TokenExists(x) \/ x = t)
        /\ \A x \in Projects \ {p} : status'[x] = status[x]
        /\ \A x \in Tokens \ {t} :
             tokenStatus'[x] = tokenStatus[x] /\ tokenProject'[x] = tokenProject[x]
    BY <1>1, <1>3 DEF Exists, TokenExists, TypeOK
  <1>6. TypeOK'
    <2>1. /\ status' \in [Projects -> {"absent", "active", "archived", "deleted"}]
          /\ tokenStatus' \in [Tokens -> {"absent", "live", "revoked", "deleted"}]
          /\ tokenProject' \in [Tokens -> Projects \cup {None}]
      BY <1>1, <1>3 DEF TypeOK
    <2>2. ASSUME NEW x \in Tokens, TokenExists(x)'
          PROVE (tokenProject[x] \in Projects /\ Exists(tokenProject[x]))'
      <3>1. CASE x = t
        <4>1. tokenProject'[x] = p
          BY <1>1, <1>3, <3>1 DEF TypeOK
        <4> QED
          BY <1>1, <1>3, <4>1 DEF TypeOK, Exists
      <3>2. CASE x # t
        <4>1. TokenExists(x) /\ tokenProject'[x] = tokenProject[x]
          BY <1>5, <2>2, <3>2
        <4>2. tokenProject[x] \in Projects /\ Exists(tokenProject[x])
          BY <1>3, <4>1 DEF TypeOK
        <4> QED
          BY <1>4, <1>5, <4>1, <4>2 DEF Exists
      <3> QED
        BY <3>1, <3>2
    <2> QED
      BY <1>2, <1>3, <2>1, <2>2 DEF TypeOK
  <1>7. Blank' /\ OwnershipAgrees'
    BY <1>2, <1>3, <1>4, <1>5 DEF Blank, IInv, OwnershipAgrees
  <1>8. \A u \in Users : ActiveOf(u)' \subseteq ActiveOf(u)
    BY <1>2, <1>4, <1>5, AccessAssumption DEF ActiveOf
  <1>9. ActiveWithinLimit'
    <2>1. SUFFICES ASSUME ProjectLimit # 0, NEW u \in Users
                   PROVE Cardinality(ActiveOf(u)') <= ProjectLimit
      BY DEF ActiveWithinLimit
    <2>2. ActiveOf(u) \subseteq Projects
      BY DEF ActiveOf
    <2> QED
      BY <1>8, <2>1, <2>2, NoMore DEF IInv, ActiveWithinLimit
  <1>10. ASSUME NEW r \in Slots PROVE SlotFacts(r)'
    <2>1. \A x \in Projects : Exists(x) =>
             /\ status'[x] = status[x] /\ owner'[x] = owner[x]
             /\ \A k \in Keys : IssuedWith(x, k)' \subseteq IssuedWith(x, k)
      <3>1. ASSUME NEW x \in Projects, Exists(x), NEW k \in Keys,
                   NEW y \in IssuedWith(x, k)'
            PROVE y \in IssuedWith(x, k)
        <4>1. y \in Tokens /\ tokenProject'[y] = x /\ TokenExists(y)' /\ tokenKey[y] = k
          BY <1>2, <3>1 DEF IssuedWith
        <4>2. y # t
          BY <1>1, <1>3, <1>4, <3>1, <4>1 DEF TypeOK
        <4> QED
          BY <1>5, <4>1, <4>2 DEF IssuedWith
      <3> QED
        BY <1>2, <1>4, <1>5, <3>1
    <2>2. \A x \in Tokens : TokenExists(x) =>
             tokenStatus'[x] = tokenStatus[x] /\ tokenProject'[x] = tokenProject[x]
      BY <1>1, <1>5 DEF TokenExists
    <2>3. \A u \in Users, k \in Keys : CreatedWith(u, k)' \subseteq CreatedWith(u, k)
      BY <1>2, <1>4, <1>5, AccessAssumption DEF CreatedWith
    <2> QED
      BY <1>2, <1>6, <1>8, <2>1, <2>2, <2>3, FactsKept
  <1> QED
    BY <1>2, <1>6, <1>7, <1>9, <1>10, OutsideStep

\* The clock changes no row.
LEMMA ExpireInv == ASSUME IInv, Expire PROVE IInv'
  <1>1. UNCHANGED <<blocked, projectVars, tokenStatus, tokenProject, tokenKey, req>>
        /\ expired' \subseteq Tokens
    BY DEF Expire, IInv, TypeOK
  <1>2. TypeOK'
    BY <1>1 DEF IInv, TypeOK, projectVars, TokenExists, Exists
  <1>3. \A x \in Projects, k \in Keys : IssuedWith(x, k)' = IssuedWith(x, k)
    BY <1>1 DEF IssuedWith, TokenExists
  <1>4. \A r \in Slots : SlotFacts(r)'
    BY <1>1, <1>2, <1>3, ProjectsKept, FactsKept
  <1> QED
    BY <1>1, <1>2, <1>4, ProjectsKept, OutsideStep

---------------------------------------------------------------------------
\* Every step keeps the inductive invariant.
LEMMA StepInv == IInv /\ [Next]_vars => IInv'
  <1> SUFFICES ASSUME IInv, [Next]_vars PROVE IInv'
    OBVIOUS
  <1>1. CASE UNCHANGED vars
    <2>1. TypeOK'
      BY <1>1 DEF IInv, TypeOK, vars, projectVars, tokenVars, TokenExists, Exists
    <2>2. \A x \in Projects, k \in Keys : IssuedWith(x, k)' = IssuedWith(x, k)
      BY <1>1 DEF IssuedWith, TokenExists, vars, tokenVars
    <2>3. UNCHANGED projectVars /\ UNCHANGED <<blocked, tokenStatus, tokenProject, req>>
      BY <1>1 DEF vars, tokenVars
    <2>4. \A r \in Slots : SlotFacts(r)'
      BY <2>1, <2>2, <2>3, ProjectsKept, FactsKept
    <2> QED
      BY <2>1, <2>3, <2>4, ProjectsKept, OutsideStep
  <1>2. ASSUME NEW s \in Slots, Step(s) PROVE IInv'
    <2>1. CASE Begin(s)
      BY <2>1, BeginInv
    <2>2. CASE LockUser(s)
      BY <2>2, LockUserInv
    <2>3. CASE Recheck(s)
      BY <2>3, RecheckInv
    <2>4. CASE LockProject(s)
      BY <2>4, LockProjectInv
    <2>5. CASE LockToken(s)
      BY <2>5, LockTokenInv
    <2>6. CASE LockOwner(s)
      BY <2>6, LockOwnerInv
    <2>7. CASE Count(s)
      BY <2>7, CountInv
    <2>8. CASE Look(s)
      BY <2>8, LookInv
    <2>9. CASE Replay(s) \/ Abort(s)
      BY <2>9, EndInv
    <2>10. CASE Commit(s)
      BY <2>10, CommitCreateInv, CommitRestoreInv, CommitAssignInv, CommitArchiveInv,
         CommitDeleteInv, CommitIssueInv, CommitRevokeInv, CommitAuthInv, CommitBlockInv
         DEF Commit
    <2> QED
      BY <1>2, <2>1, <2>2, <2>3, <2>4, <2>5, <2>6, <2>7, <2>8, <2>9, <2>10 DEF Step
  <1>3. CASE CreateProject
    BY <1>3, CreateProjectInv
  <1>4. CASE Expire
    BY <1>4, ExpireInv
  <1> QED
    BY <1>1, <1>2, <1>3, <1>4 DEF Next

\* The inductive invariant holds in every reachable state.
THEOREM Invariant == Spec => []IInv
  BY InitInv, StepInv, PTL DEF Spec

\* Every reachable state has the types of TypeOK, and every token row its
\* project row.
THEOREM TypeCorrect == Spec => []TypeOK
  <1>1. IInv => TypeOK
    BY DEF IInv
  <1> QED
    BY <1>1, Invariant, PTL

\* For any limit and any number of concurrent creations, restorations and
\* assignments nobody owns more active projects than the limit.
THEOREM LimitRespected == Spec => []ActiveWithinLimit
  <1>1. IInv => ActiveWithinLimit
    BY DEF IInv
  <1> QED
    BY <1>1, Invariant, PTL

\* authenticateProject admits nobody on the strength of a row that a
\* concurrent revocation, archiving, deletion or block has changed meanwhile.
THEOREM AdmissionSound == Spec => []AdmittedIsEntitled
  <1>1. IInv => AdmittedIsEntitled
    <2> SUFFICES ASSUME IInv, NEW s \in Slots, req[s].op = "auth", req[s].stage = "ready"
                 PROVE /\ tokenStatus[req[s].token] = "live"
                       /\ tokenProject[req[s].token] = req[s].project
                       /\ status[req[s].project] = "active"
                       /\ owner[req[s].project] \notin blocked
      BY DEF AdmittedIsEntitled
    <2>1. SlotFacts(s)
      BY DEF IInv
    <2>2. req[s].project \in Projects /\ HoldsProject(s, req[s].project)
      BY <2>1 DEF SlotFacts, Shape, HoldsProject
    <2> QED
      BY <2>1, <2>2 DEF SlotFacts, TokenFacts, OwnerFacts, ProjectFacts
  <1> QED
    BY <1>1, Invariant, PTL

\* projects.owner_user_id and the owner memberships agree, whatever races.
THEOREM OwnershipConsistent == Spec => []OwnershipAgrees
  <1>1. IInv => OwnershipAgrees
    BY DEF IInv
  <1> QED
    BY <1>1, Invariant, PTL

\* A creation never runs into the unique constraint on its idempotency key.
THEOREM KeysReplay == Spec => []KeyStillUnused
  <1>1. IInv => KeyStillUnused
    BY DEF IInv, SlotFacts, KeyFacts, KeyStillUnused
  <1> QED
    BY <1>1, Invariant, PTL

---------------------------------------------------------------------------
\* Deadlocks.

\* assignOwner s, which saw the project without an owner, waits for it (or soon
\* will), and by now the project belongs to the user whom assignOwner r has locked.
Handed(s, r) ==
    /\ req[s].op = "assign" /\ req[s].stage = "rechecked"
    /\ req[r].op = "assign" /\ req[r].stage \in {"user", "rechecked"}
    /\ owner[req[s].project] = req[r].user

\* No circle of such assignments, and no endless chain.
NoChain ==
    \A C \in SUBSET Slots : C # {} => \E s \in C : \A r \in C : ~Handed(s, r)

\* A step of a request that is handed to nobody afterwards, and hands no other
\* request to anybody, forms no chain.
LEMMA ChainStep ==
  ASSUME NoChain, NEW s,
         \A r \in Slots : ~Handed(s, r)',
         \A x, r \in Slots \ {s} : Handed(x, r)' => Handed(x, r)
  PROVE  NoChain'
  <1> SUFFICES ASSUME NEW C \in SUBSET Slots, C # {}
               PROVE  \E x \in C : \A r \in C : ~Handed(x, r)'
    BY DEF NoChain
  <1>1. CASE s \in C
    BY <1>1
  <1>2. CASE s \notin C
    <2>1. PICK x \in C : \A r \in C : ~Handed(x, r)
      BY DEF NoChain
    <2> QED
      BY <1>2, <2>1
  <1> QED
    BY <1>1, <1>2

\* A project gets an owner only from a request that has locked that user; who
\* waits to do so later locks the user later, and looks at the project again.
LEMMA NoChainStep == IInv /\ NoChain /\ [Next]_vars => NoChain'
  <1> SUFFICES ASSUME IInv, NoChain, [Next]_vars PROVE NoChain'
    OBVIOUS
  <1>0. req \in [Slots -> Txn] /\ owner \in [Projects -> Users \cup {None}]
    BY DEF IInv, TypeOK, Txn
  <1>1. CASE UNCHANGED <<owner, req>>
    BY <1>1 DEF NoChain, Handed
  <1>2. ASSUME NEW s \in Slots, Step(s) PROVE NoChain'
    <2>1. PICK q : req' = [req EXCEPT ![s] = q]
      BY <1>2 DEF Step, Begin, LockUser, Recheck, LockProject, LockToken, LockOwner, Count,
                  Look, Replay, Commit, CommitCreate, CommitRestore, CommitAssign,
                  CommitArchive, CommitDelete, CommitIssue, CommitRevoke, CommitAuth,
                  CommitBlock, Abort, Advance, Finish
    <2>2. req'[s] = q /\ \A r \in Slots \ {s} : req'[r] = req[r]
      BY <1>0, <2>1
    <2>3. \A r \in Slots : ~Handed(s, r)'
      <3> SUFFICES ASSUME NEW r \in Slots, Handed(s, r)' PROVE FALSE
        OBVIOUS
      <3>1. q.op = "assign" /\ q.stage = "rechecked"
        BY <2>2 DEF Handed
      <3>2. Recheck(s)
        <4>1. CASE Begin(s)
          <5>1. PICK b \in Requests \cup Preflighted : req' = [req EXCEPT ![s] = b]
            BY <4>1 DEF Begin
          <5>2. b.stage = "begun"
            BY DEF Requests, CreateRequests, LifecycleRequests, DeleteRequests,
                   ConnectionRequests, OperatorRequests, Request, Preflighted
          <5> QED
            BY <1>0, <2>2, <3>1, <5>1, <5>2
        <4>2. CASE LockUser(s) \/ LockProject(s) \/ LockToken(s) \/ LockOwner(s) \/ Count(s)
                     \/ Look(s)
          <5>1. \A from, to : Advance(s, from, to) => q.stage = to
            BY <1>0, <2>2 DEF Advance, Txn
          <5>2. LockUser(s) \/ LockProject(s) \/ LockToken(s) => q.stage \in {"user", "project", "token"}
            BY <5>1 DEF LockUser, LockProject, LockToken
          <5>3. LockOwner(s) => q.stage = "ready"
            BY <1>0, <2>2 DEF LockOwner, Txn
          <5>4. Count(s) \/ Look(s) => q.stage \in {"counted", "looked"}
            BY <5>1 DEF Count, Look
          <5> QED
            BY <3>1, <4>2, <5>2, <5>3, <5>4
        <4>3. CASE Replay(s) \/ Commit(s) \/ Abort(s)
          <5>1. req' = [req EXCEPT ![s] = Idle]
            BY <4>3 DEF Replay, Commit, CommitCreate, CommitRestore, CommitAssign,
                  CommitArchive, CommitDelete, CommitIssue, CommitRevoke, CommitAuth,
                  CommitBlock, Abort, Finish
          <5> QED
            BY <1>0, <2>2, <3>1, <5>1, IdleFacts
        <4> QED
          BY <1>2, <4>1, <4>2, <4>3 DEF Step
      <3>3. /\ req'[s].project = req[s].project /\ owner' = owner
            /\ owner[req[s].project] = None
        BY <1>0, <3>2 DEF Recheck, Advance, StillOwnerless, Txn, projectVars
      <3>4. Shape(r)'
        BY <1>2, StepInv DEF IInv, SlotFacts, Next
      <3>5. req'[r].user \in Users
        BY <3>4 DEF Handed, Shape, UserFirst
      <3> QED
        BY <3>3, <3>5, AccessAssumption DEF Handed
    <2>4. ASSUME NEW x \in Slots \ {s}, NEW r \in Slots \ {s}, Handed(x, r)'
          PROVE  Handed(x, r)
      <3>0. Shape(x) /\ Shape(r) /\ Shape(s)
        BY DEF IInv, SlotFacts
      <3>1. /\ req[x].op = "assign" /\ req[x].stage = "rechecked"
            /\ req[r].op = "assign" /\ req[r].stage \in {"user", "rechecked"}
            /\ owner'[req[x].project] = req[r].user
            /\ req[x].project \in Projects /\ req[r].user \in Users
            /\ HoldsUser(r, req[r].user)
        BY <2>2, <2>4, <3>0 DEF Handed, Shape, HoldsUser, UserFirst
      <3>2. \/ owner'[req[x].project] \in {owner[req[x].project], None}
            \/ /\ owner'[req[x].project] = req[s].user
               /\ req[s].op \in {"create", "assign"} /\ req[s].stage = "counted"
        <4>1. CASE CommitCreate(s) \/ CommitAssign(s)
          BY <1>0, <3>1, <4>1 DEF CommitCreate, CommitAssign, Finish
        <4>2. CASE CommitDelete(s)
          BY <1>0, <3>1, <4>2 DEF CommitDelete
        <4>3. CASE UNCHANGED owner
          BY <4>3
        <4> QED
          BY <1>2, <4>1, <4>2, <4>3
             DEF Step, Begin, LockUser, Recheck, LockProject, LockToken, LockOwner, Count,
                 Look, Replay, Commit, CommitRestore, CommitArchive, CommitIssue,
                 CommitRevoke, CommitAuth, CommitBlock, Abort, Advance, projectVars
      <3>3. ~(req[s].user = req[r].user /\ req[s].op \in {"create", "assign"}
                /\ req[s].stage = "counted")
        BY <3>1 DEF IInv, Mutex, HoldsUser, UserFirst
      <3> QED
        BY <3>1, <3>2, <3>3, AccessAssumption DEF Handed
    <2> QED
      BY <2>3, <2>4, ChainStep
  <1>3. CASE CreateProject \/ Expire
    BY <1>1, <1>3 DEF CreateProject, Expire, projectVars
  <1> QED
    BY <1>1, <1>2, <1>3 DEF Next, vars, projectVars

\* A request that is waited for by one, and itself waits for another.
LEMMA Waiter ==
  ASSUME IInv, NEW s \in Slots, NEW r \in Slots, NEW t \in Slots,
         WaitsFor(s, r), WaitsFor(r, t), req[r].op # "restore"
  PROVE  \/ /\ req[r].op = "assign" /\ req[r].stage = "rechecked"
            /\ \E u \in Users : NeedsUser(s, u) /\ HoldsUser(r, u)
         \/ /\ req[r].project \in Projects /\ HoldsProject(r, req[r].project)
            /\ \E u \in Users : owner[req[r].project] = u /\ HoldsUser(t, u)
            /\ req[r].op # "assign"
            /\ ~\E u \in Users : HoldsUser(r, u)
  <1>0. Shape(r) /\ Shape(s) /\ Shape(t) /\ r # t
    BY DEF IInv, SlotFacts, WaitsFor
  <1>1. CASE \E u \in Users : NeedsUser(s, u) /\ HoldsUser(r, u)
    <2>1. req[r].stage \notin {"idle", "begun"} /\ (req[r].op \in UserFirst \/
            (req[r].op = "auth" /\ req[r].stage = "ready"))
      BY <1>1 DEF HoldsUser
    <2>2. \A u \in Users : ~NeedsUser(r, u)
      BY <1>0, <2>1 DEF NeedsUser, UserFirst
    <2>3. \A v \in Tokens : ~NeedsToken(r, v)
      BY <1>0, <2>1 DEF NeedsToken, UserFirst
    <2>4. PICK p \in Projects : NeedsProject(r, p)
      BY <2>2, <2>3 DEF WaitsFor
    <2>5. req[r].op = "assign" /\ req[r].stage = "rechecked"
      BY <2>1, <2>4 DEF NeedsProject, BeforeProject, UserFirst
    <2> QED
      BY <1>1, <2>5
  <1>2. CASE \/ \E p \in Projects : NeedsProject(s, p) /\ HoldsProject(r, p)
             \/ \E v \in Tokens : NeedsToken(s, v) /\ HoldsToken(r, v)
    <2>1. req[r].stage \in {"project", "looked", "token", "counted", "ready"}
      BY <1>2 DEF HoldsProject, HoldsToken
    <2>2. req[r].op \notin {"create", "block", "unblock"} =>
            req[r].project \in Projects /\ HoldsProject(r, req[r].project)
      BY <1>0, <2>1 DEF Shape, HoldsProject
    <2>3. \A p \in Projects : ~NeedsProject(r, p)
      BY <2>1 DEF NeedsProject, BeforeProject
    <2>4. ASSUME NEW v \in Tokens, NeedsToken(r, v), HoldsToken(t, v) PROVE FALSE
      <3>1. /\ req[t].stage \in {"token", "ready"} /\ req[t].op \in {"revoke", "auth"}
            /\ req[t].project \in Projects /\ tokenProject[v] = req[t].project
        BY <1>0, <2>4 DEF HoldsToken, Shape, IInv, SlotFacts, TokenFacts
      <3>2. tokenProject[v] = req[r].project /\ req[r].op \in {"revoke", "auth"}
        BY <2>4 DEF NeedsToken
      <3>3. HoldsProject(t, req[t].project) /\ HoldsProject(r, req[t].project)
        BY <2>2, <3>1, <3>2 DEF HoldsProject
      <3> QED
        BY <1>0, <3>1, <3>3 DEF IInv, Mutex
    <2>5. PICK u \in Users : NeedsUser(r, u) /\ HoldsUser(t, u)
      BY <2>3, <2>4 DEF WaitsFor
    <2>6. /\ req[r].op \in {"auth", "archive", "opArchive", "delete", "issue", "revoke"}
          /\ req[r].stage # "ready" /\ owner[req[r].project] = u
      BY <2>1, <2>5 DEF NeedsUser
    <2>7. ~\E x \in Users : HoldsUser(r, x)
      BY <2>6 DEF HoldsUser, UserFirst
    <2> QED
      BY <2>2, <2>5, <2>6, <2>7
  <1> QED
    BY <1>1, <1>2 DEF WaitsFor

\* Requests that wait for each other without a restore contain assignments that
\* are handed to each other.
LEMMA DeadlockChains == IInv /\ NoChain => NoDeadlock
  <1> SUFFICES ASSUME IInv, NoChain, NEW C \in SUBSET Slots, Deadlocked(C),
                      \A s \in C : req[s].op # "restore"
               PROVE  FALSE
    BY DEF NoDeadlock
  <1> DEFINE D == {s \in C : req[s].op = "assign" /\ req[s].stage = "rechecked"}
  <1>1. \A s \in C : \E r \in C : WaitsFor(s, r)
    BY DEF Deadlocked
  <1>2. ASSUME NEW r \in C, NEW t \in C, WaitsFor(r, t), NEW u \in Users, HoldsUser(t, u)
        PROVE  t \in D /\ req[t].user = u
    <2>1. PICK v \in C : WaitsFor(t, v)
      BY <1>1
    <2>2. req[t].op = "assign" /\ req[t].stage = "rechecked"
      BY <1>2, <2>1, Waiter
    <2> QED
      BY <1>2, <2>2 DEF HoldsUser
  <1>3. D # {}
    <2>1. PICK s \in C : TRUE
      BY DEF Deadlocked
    <2>2. PICK r \in C : WaitsFor(s, r)
      BY <1>1
    <2>3. PICK t \in C : WaitsFor(r, t)
      BY <1>1
    <2> QED
      BY <1>2, <2>2, <2>3, Waiter
  <1>4. ASSUME NEW s \in D PROVE \E r \in D : Handed(s, r)
    <2>1. PICK r \in C : WaitsFor(s, r)
      BY <1>1
    <2>2. PICK t \in C : WaitsFor(r, t)
      BY <1>1
    <2>3. PICK p \in Projects : NeedsProject(s, p) /\ HoldsProject(r, p)
      <3>1. \A u \in Users : ~NeedsUser(s, u)
        BY DEF NeedsUser, UserFirst
      <3>2. \A v \in Tokens : ~NeedsToken(s, v)
        BY DEF NeedsToken
      <3> QED
        BY <2>1, <3>1, <3>2 DEF WaitsFor
    <2>4. req[s].project = p /\ req[r].project = p
      BY <2>3 DEF NeedsProject, HoldsProject
    <2>5. req[r].stage # "rechecked"
      BY <2>3 DEF HoldsProject
    <2>6. PICK u \in Users : owner[p] = u /\ HoldsUser(t, u)
      BY <2>1, <2>2, <2>4, <2>5, Waiter
    <2>7. t \in D /\ req[t].user = u
      BY <1>2, <2>2, <2>6
    <2> QED
      BY <2>4, <2>6, <2>7 DEF Handed
  <1>5. D \in SUBSET Slots
    OBVIOUS
  <1> HIDE DEF D
  <1> QED
    BY <1>3, <1>4, <1>5 DEF NoChain

\* Whatever requests of whatever number of users and operators meet, those that
\* wait for each other in a circle include a restore: only restore needs the
\* project row while it holds its owner's row.
THEOREM DeadlocksNeedRestore == Spec => []NoDeadlock
  <1>1. Init => NoChain
    <2>1. Init => \A s, r \in Slots : ~Handed(s, r)
      BY IdleFacts DEF Init, Handed
    <2> QED
      BY <2>1 DEF NoChain
  <1>2. IInv /\ NoChain /\ [Next]_vars => NoChain'
    BY NoChainStep
  <1>3. IInv /\ NoChain => NoDeadlock
    BY DeadlockChains
  <1> QED
    BY <1>1, <1>2, <1>3, Invariant, PTL DEF Spec
=============================================================================
