------------------------------ MODULE Presence ------------------------------
(***************************************************************************)
(* Agents and their progress in one project: registerAgent, the touch of   *)
(* syncAgent and the derived presence in agents/service.ts, recordProgress *)
(* in pulse/service.ts and resolveBlocker in pulse/resolution-service.ts,  *)
(* as READ COMMITTED transactions whose statements interleave.             *)
(*                                                                         *)
(* - Agents' calls read the clock before they open a transaction, the      *)
(*   owner's resolveBlocker reads it when it has its locks.                *)
(* - An UPDATE locks the agent row to the end of the transaction.  Rows    *)
(*   that name the project (agents, reports, activity events) share-lock   *)
(*   the project row; resolveBlocker locks it exclusively, and then the    *)
(*   report and its agent.  These two orders can meet in a deadlock, of    *)
(*   which PostgreSQL aborts one party.                                    *)
(* - Abort stands for a refusal (REGISTRATION_CONFLICT,                    *)
(*   BLOCKER_STATE_CONFLICT), a failed statement, that deadlock, a crash.  *)
(* - Messages and acknowledgements of a poll are the subject of Mailbox.   *)
(***************************************************************************)
EXTENDS Naturals, FiniteSets

CONSTANTS
    Sessions,      \* session_instance_id, of which the digest is kept
    Profiles,      \* name, client and capabilities
    AgentIds, ReportIds,
    Slots,         \* requests open at the same time
    None,
    OnlineFor,     \* 5 minutes
    OfflineAfter,  \* 30 minutes
    CallLife,      \* bound: no request stays open longer
    MaxTime        \* bound: the clock stops there

ASSUME PresenceAssumption ==
    /\ None \notin Sessions \cup Profiles \cup AgentIds \cup ReportIds
    /\ CallLife \in Nat /\ OnlineFor \in Nat /\ OfflineAfter \in Nat
    /\ CallLife < OnlineFor /\ OnlineFor < OfflineAfter
    /\ MaxTime \in Nat

VARIABLES
    now,      \* the wall clock
    agent,    \* the agents rows
    report,   \* the agent_progress_reports rows
    req,      \* the request in each slot
    contact,  \* per agent the latest clock reading of a call that committed
    granted   \* <<session, profile, agent>> of every registration replied to

rows == <<agent, report, contact, granted>>
vars == <<now, rows, req>>

NoAgent == [session |-> None, profile |-> None, seen |-> 0]

NoReport == [agent |-> None, state |-> None, at |-> 0, resolved |-> FALSE, resolvedAt |-> 0]

Idle == [op |-> None, stage |-> "idle", at |-> 0, session |-> None,
         profile |-> None, agent |-> None, report |-> None, state |-> None]

Registered == {a \in AgentIds : agent[a] # NoAgent}

Reported == {r \in ReportIds : report[r] # NoReport}

Init ==
    /\ now = 0
    /\ agent = [a \in AgentIds |-> NoAgent]
    /\ report = [r \in ReportIds |-> NoReport]
    /\ req = [s \in Slots |-> Idle]
    /\ contact = [a \in AgentIds |-> 0]
    /\ granted = {}

\* presenceAt and deriveAgentPresence.
StatusAt(seen, t) ==
    CASE t <= seen + OnlineFor -> "online"
      [] t > seen + OnlineFor /\ t <= seen + OfflineAfter -> "idle"
      [] t > seen + OfflineAfter -> "offline"

---------------------------------------------------------------------------
\* Requests begin.

Begins(s, q) ==
    /\ req[s].stage = "idle"
    /\ req' = [req EXCEPT ![s] = q]
    /\ UNCHANGED <<now, rows>>

\* const now = clock()
Register(s, x, p) ==
    Begins(s, [Idle EXCEPT !.op = "register", !.stage = "begun", !.at = now,
                           !.session = x, !.profile = p])

\* authenticateAgent needs no more than the row; agents are not removed here.
Sync(s, a) ==
    Begins(s, [Idle EXCEPT !.op = "sync", !.stage = "known", !.at = now, !.agent = a])

Progress(s, a, state) ==
    Begins(s, [Idle EXCEPT !.op = "progress", !.stage = "known", !.at = now,
                           !.agent = a, !.state = state])

\* Others than the owner end with PROJECT_NOT_FOUND.
Resolve(s, r) ==
    Begins(s, [Idle EXCEPT !.op = "resolve", !.stage = "begun", !.report = r])

---------------------------------------------------------------------------
\* Locks.

HoldsSession(s, x) ==
    req[s].op = "register" /\ req[s].session = x /\ req[s].stage \in {"inserted", "created"}

HoldsAgent(s, a) == req[s].agent = a /\ req[s].stage \in {"touched", "journalled", "locked"}

SharesProject(s) == req[s].stage \in {"created", "journalled"}

HoldsProject(s) == req[s].stage \in {"project", "locked"}

\* Mutant: no unique constraint, nobody waits for an insert.
SessionUnguarded(s, x) == TRUE

SessionFree(s, x) == \A t \in Slots \ {s} : ~HoldsSession(t, x)

AgentFree(s, a) == \A t \in Slots \ {s} : ~HoldsAgent(t, a)

ProjectShareable(s) == \A t \in Slots \ {s} : ~HoldsProject(t)

ProjectFree(s) == ProjectShareable(s) /\ \A t \in Slots \ {s} : ~SharesProject(t)

Goes(s, q) ==
    /\ req' = [req EXCEPT ![s] = q]
    /\ UNCHANGED <<now, rows>>

---------------------------------------------------------------------------
\* Statements of the agents' calls.

FreshAgents == AgentIds \ (Registered \cup {req[t].agent : t \in Slots})

\* INSERT ... ON CONFLICT DO NOTHING, and the SELECT of the row in its way.
Insert(s) ==
    LET q == req[s]
        same == {a \in Registered : agent[a].session = q.session}
    IN  /\ q.op = "register" /\ q.stage = "begun"
        /\ SessionFree(s, q.session)
        /\ \/ /\ same = {}
              /\ \E a \in FreshAgents : Goes(s, [q EXCEPT !.stage = "inserted", !.agent = a])
           \/ \E a \in same :
                /\ agent[a].profile = q.profile
                /\ Goes(s, [q EXCEPT !.stage = "known", !.agent = a])

\* UPDATE agents SET last_seen_at
Touch(s) ==
    /\ req[s].stage = "known"
    /\ AgentFree(s, req[s].agent)
    /\ Goes(s, [req[s] EXCEPT !.stage = "touched"])

\* The first row that names the project: the new agent, the report, the event.
Share(s) ==
    /\ req[s].stage \in {"inserted", "touched"}
    /\ ProjectShareable(s)
    /\ Goes(s, [req[s] EXCEPT
                  !.stage = IF req[s].stage = "inserted" THEN "created" ELSE "journalled"])

\* Mutant: a registration that finds its agent leaves last_seen_at alone.
SeenUnlessFound(q) == IF q.op = "register" THEN agent[q.agent].seen ELSE q.at

\* What last_seen_at becomes: the call's clock reading, be it older or newer.
Seen(q) == q.at

\* An empty poll writes no event and therefore needs no share of the project.
Committable(q) == q.stage = "journalled" \/ (q.op = "sync" /\ q.stage = "touched")

CommitCreated(s) ==
    LET q == req[s] IN
    /\ q.stage = "created"
    /\ agent' = [agent EXCEPT ![q.agent] =
                   [session |-> q.session, profile |-> q.profile, seen |-> q.at]]
    /\ contact' = [contact EXCEPT ![q.agent] = q.at]
    /\ granted' = granted \cup {<<q.session, q.profile, q.agent>>}
    /\ req' = [req EXCEPT ![s] = Idle]
    /\ UNCHANGED <<now, report>>

CommitKnown(s) ==
    LET q == req[s] IN
    /\ Committable(q)
    /\ agent' = [agent EXCEPT ![q.agent].seen = Seen(q)]
    /\ contact' = [contact EXCEPT ![q.agent] = IF @ < q.at THEN q.at ELSE @]
    /\ IF q.op = "progress"
       THEN \E r \in ReportIds \ Reported :
              report' = [report EXCEPT ![r] = [NoReport EXCEPT
                           !.agent = q.agent, !.state = q.state, !.at = q.at]]
       ELSE report' = report
    /\ granted' = IF q.op = "register"
                  THEN granted \cup {<<q.session, q.profile, q.agent>>}
                  ELSE granted
    /\ req' = [req EXCEPT ![s] = Idle]
    /\ UNCHANGED now

---------------------------------------------------------------------------
\* resolveBlocker.

LockProject(s) ==
    /\ req[s].op = "resolve" /\ req[s].stage = "begun"
    /\ ProjectFree(s)
    /\ Goes(s, [req[s] EXCEPT !.stage = "project", !.agent = report[req[s].report].agent])

\* Else BLOCKER_STATE_CONFLICT.
Resolvable(r, t) ==
    /\ report[r].state = "blocked"
    /\ ~report[r].resolved
    /\ StatusAt(agent[report[r].agent].seen, t) = "offline"

\* Mutant: the join locks the report only.
AgentUnlocked(s) == TRUE

\* FOR UPDATE over the join waits for the agent row as well.
JoinFree(s) == AgentFree(s, req[s].agent)

\* The locked rows are judged by a clock read afterwards.
LockReport(s) ==
    /\ req[s].stage = "project"
    /\ JoinFree(s)
    /\ Resolvable(req[s].report, now)
    /\ Goes(s, [req[s] EXCEPT !.stage = "locked", !.at = now])

CommitResolved(s) ==
    LET q == req[s] IN
    /\ q.stage = "locked"
    /\ report' = [report EXCEPT ![q.report].resolved = TRUE, ![q.report].resolvedAt = q.at]
    /\ req' = [req EXCEPT ![s] = Idle]
    /\ UNCHANGED <<now, agent, contact, granted>>

---------------------------------------------------------------------------
Abort(s) == req[s].stage # "idle" /\ Goes(s, Idle)

\* A request that read the clock is over, in one way or the other, CallLife later.
Tick ==
    /\ now < MaxTime
    /\ \A s \in Slots : req[s].stage # "idle" /\ req[s].op # "resolve" =>
         now < req[s].at + CallLife
    /\ now' = now + 1
    /\ UNCHANGED <<rows, req>>

Step(s) ==
    \/ \E x \in Sessions, p \in Profiles : Register(s, x, p)
    \/ \E a \in Registered : Sync(s, a)
    \/ \E a \in Registered, state \in {"blocked", "working"} : Progress(s, a, state)
    \/ \E r \in Reported : Resolve(s, r)
    \/ Insert(s) \/ Touch(s) \/ Share(s) \/ CommitCreated(s) \/ CommitKnown(s)
    \/ LockProject(s) \/ LockReport(s) \/ CommitResolved(s)
    \/ Abort(s)

Next == (\E s \in Slots : Step(s)) \/ Tick

Spec == Init /\ [][Next]_vars

---------------------------------------------------------------------------
\* Properties.

Stages == {"idle", "begun", "known", "inserted", "created", "touched",
           "journalled", "project", "locked"}

\* Every variable has the shape the tables and requests give it; reports belong
\* to registered agents and only blockers are ever resolved.
TypeOK ==
    /\ now \in 0 .. MaxTime
    /\ agent \in [AgentIds -> [session : Sessions \cup {None},
                               profile : Profiles \cup {None}, seen : 0 .. MaxTime]]
    /\ report \in [ReportIds ->
         [agent : AgentIds \cup {None}, state : {"blocked", "working", None},
          at : 0 .. MaxTime, resolved : BOOLEAN, resolvedAt : 0 .. MaxTime]]
    /\ \A r \in Reported :
         report[r].agent \in Registered /\ (report[r].resolved => report[r].state = "blocked")
    /\ req \in [Slots ->
         [op : {"register", "sync", "progress", "resolve", None}, stage : Stages,
          at : 0 .. MaxTime, session : Sessions \cup {None},
          profile : Profiles \cup {None}, agent : AgentIds \cup {None},
          report : ReportIds \cup {None}, state : {"blocked", "working", None}]]
    /\ contact \in [AgentIds -> 0 .. MaxTime]
    /\ granted \subseteq Sessions \X Profiles \X AgentIds

\* However registrations of one session race and are repeated, all that succeed
\* are given one and the same agent, with the profile each of them asked for.
SessionsAgree ==
    \A g \in granted :
        /\ agent[g[3]].session = g[1] /\ agent[g[3]].profile = g[2]
        /\ \A a \in Registered : agent[a].session = g[1] => a = g[3]

\* Overlapping calls may move last_seen_at back, but by no more than the life of
\* a call: an agent heard of in the last five minutes, less that, is online, one
\* heard of in the last thirty, less that, is not offline, and none is shown in
\* a better state than its last call gives it.
PresenceHonest ==
    \A a \in Registered :
        /\ now + CallLife <= contact[a] + OnlineFor => StatusAt(agent[a].seen, now) = "online"
        /\ now + CallLife <= contact[a] + OfflineAfter => StatusAt(agent[a].seen, now) # "offline"
        /\ agent[a].seen <= contact[a]

\* All that ever happens to a report is one resolution, of two owners' windows the
\* first one's, and only of a blocker whose agent has not been heard of for thirty
\* minutes, less the life of a call, whatever the agent does meanwhile: an active
\* agent owns its blocker.
ResolvedWasOffline ==
    [][\A r \in Reported : report'[r] # report[r] =>
         /\ report[r].state = "blocked" /\ ~report[r].resolved
         /\ report'[r] = [report[r] EXCEPT !.resolved = TRUE,
                                           !.resolvedAt = report'[r].resolvedAt]
         /\ report'[r].resolvedAt + CallLife > contact[report[r].agent] + OfflineAfter]_vars
=============================================================================
