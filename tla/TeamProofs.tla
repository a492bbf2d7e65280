----------------------------- MODULE TeamProofs ------------------------------
(***************************************************************************)
(* Proofs about what the agents of one project share: Presence.tla, for    *)
(* any number of agents, sessions, reports, concurrent requests and ticks  *)
(* of the clock, and Blackboard.tla, for any number of keys, agents,       *)
(* written values and versions.                                            *)
(*                                                                         *)
(* The two parts share nothing.                                            *)
(***************************************************************************)
EXTENDS Presence, Blackboard, TLAPS

---------------------------------------------------------------------------
\* Part 1: agents, their progress and their presence.

AgentRow == [session : Sessions \cup {None}, profile : Profiles \cup {None}, seen : 0 .. MaxTime]

ReportRow == [agent : AgentIds \cup {None}, state : {"blocked", "working", None},
              at : 0 .. MaxTime, resolved : BOOLEAN, resolvedAt : 0 .. MaxTime]

Request == [op : {"register", "sync", "progress", "resolve", None}, stage : Stages,
            at : 0 .. MaxTime, session : Sessions \cup {None},
            profile : Profiles \cup {None}, agent : AgentIds \cup {None},
            report : ReportIds \cup {None}, state : {"blocked", "working", None}]

New == {"inserted", "created"}

\* What a request names, and what it has found in the rows it has locked.
SlotFacts(s) ==
    LET q == req[s] IN
    /\ q.at <= now
    /\ q.stage # "idle" /\ q.op # "resolve" => now <= q.at + CallLife
    /\ q.stage # "idle" => q.op \in {"register", "sync", "progress", "resolve"}
    /\ q.stage # "idle" /\ q.op = "register" => q.session \in Sessions /\ q.profile \in Profiles
    /\ q.stage \in New =>
         /\ q.op = "register" /\ q.agent \in AgentIds /\ q.agent \notin Registered
         /\ \A a \in Registered : agent[a].session # q.session
    /\ q.stage \in {"known", "touched", "journalled"} =>
         /\ q.op \in {"register", "sync", "progress"} /\ q.agent \in Registered
         /\ q.op = "register" =>
              agent[q.agent].session = q.session /\ agent[q.agent].profile = q.profile
         /\ q.op = "progress" => q.state \in {"blocked", "working"}
    /\ q.stage # "idle" /\ q.op = "resolve" => q.report \in Reported
    /\ q.stage \in {"project", "locked"} =>
         q.op = "resolve" /\ q.agent = report[q.report].agent
    /\ q.stage = "locked" =>
         /\ report[q.report].state = "blocked" /\ ~report[q.report].resolved
         /\ agent[q.agent].seen + OfflineAfter < q.at

\* Sessions, agents and the project are locked by one request, but for the shares
\* of the project; new agents are told apart.
Locks ==
    /\ \A s, t \in Slots, x \in Sessions : s # t => ~(HoldsSession(s, x) /\ HoldsSession(t, x))
    /\ \A s, t \in Slots, a \in AgentIds : s # t => ~(HoldsAgent(s, a) /\ HoldsAgent(t, a))
    /\ \A s, t \in Slots : s # t => ~(HoldsProject(s) /\ (HoldsProject(t) \/ SharesProject(t)))
    /\ \A s, t \in Slots :
         s # t /\ req[s].stage \in New /\ req[t].stage \in New => req[s].agent # req[t].agent

\* The rows by themselves: one agent per session, and a call's life between what
\* was last heard of an agent and what its row says.
RowFacts ==
    /\ \A a \in Registered :
         /\ agent[a].session \in Sessions
         /\ agent[a].seen <= contact[a] /\ contact[a] <= now
         /\ contact[a] <= agent[a].seen + CallLife
    /\ \A a, b \in Registered : agent[a].session = agent[b].session => a = b
    /\ SessionsAgree

\* The inductive invariant.
IInv ==
    /\ TypeOK
    /\ RowFacts
    /\ \A s \in Slots : SlotFacts(s)
    /\ Locks

---------------------------------------------------------------------------
\* Empty slots and absent rows have their types.
LEMMA IdleFacts ==
  /\ Idle \in Request /\ Idle.stage = "idle" /\ Idle.at = 0
  /\ NoAgent \in AgentRow /\ NoAgent.session = None
  /\ NoReport \in ReportRow /\ NoReport.agent = None
  /\ None \notin Sessions /\ None \notin AgentIds /\ None \notin ReportIds
  /\ 0 \in 0 .. MaxTime /\ CallLife \in Nat /\ OnlineFor \in Nat /\ OfflineAfter \in Nat
  /\ MaxTime \in Nat
  BY PresenceAssumption DEF Idle, NoAgent, NoReport, Request, AgentRow, ReportRow, Stages

\* The types of the rows and requests, in short.
LEMMA Types ==
  ASSUME TypeOK
  PROVE  /\ now \in 0 .. MaxTime /\ now \in Nat
         /\ agent \in [AgentIds -> AgentRow] /\ report \in [ReportIds -> ReportRow]
         /\ req \in [Slots -> Request] /\ contact \in [AgentIds -> 0 .. MaxTime]
         /\ granted \subseteq Sessions \X Profiles \X AgentIds
         /\ Registered \subseteq AgentIds /\ Reported \subseteq ReportIds
  BY PresenceAssumption DEF TypeOK, AgentRow, ReportRow, Request, Registered, Reported

\* Nobody is registered, nothing is open: the inductive invariant holds.
LEMMA InitInv == Init => IInv
  <1> SUFFICES ASSUME Init PROVE IInv
    OBVIOUS
  <1>1. Registered = {} /\ Reported = {}
    BY DEF Init, Registered, Reported
  <1>2. TypeOK
    <2>1. /\ agent \in [AgentIds -> AgentRow] /\ report \in [ReportIds -> ReportRow]
          /\ req \in [Slots -> Request] /\ contact \in [AgentIds -> 0 .. MaxTime]
      BY IdleFacts DEF Init
    <2> QED
      BY <1>1, <2>1, IdleFacts DEF Init, TypeOK, AgentRow, ReportRow, Request
  <1>3. RowFacts
    BY <1>1 DEF Init, RowFacts, SessionsAgree
  <1>4. \A s \in Slots : req[s] = Idle
    BY DEF Init
  <1>5. ASSUME NEW s \in Slots PROVE SlotFacts(s)
    BY <1>4, IdleFacts DEF Init, SlotFacts, New
  <1>6. Locks
    BY <1>4, IdleFacts DEF Locks, HoldsSession, HoldsAgent, HoldsProject, SharesProject, New
  <1> QED
    BY <1>2, <1>3, <1>5, <1>6 DEF IInv

---------------------------------------------------------------------------
\* A step leaves what another request has found out as it is.
Undisturbed(t) ==
    /\ req[t].stage \in New =>
         /\ req[t].agent \notin Registered'
         /\ \A a \in Registered' : agent'[a].session # req[t].session
    /\ req[t].stage = "locked" =>
         /\ report'[req[t].report].state = report[req[t].report].state
         /\ report'[req[t].report].resolved = report[req[t].report].resolved
         /\ agent'[req[t].agent].seen = agent[req[t].agent].seen

\* The locks a request takes are free.
Free(s, q) ==
    /\ q.stage \in New =>
         /\ SessionFree(s, q.session)
         /\ \A t \in Slots \ {s} : req[t].stage \in New => req[t].agent # q.agent
    /\ q.stage \in {"touched", "journalled", "locked"} => AgentFree(s, q.agent)
    /\ q.stage \in {"created", "journalled"} => ProjectShareable(s)
    /\ q.stage \in {"project", "locked"} => ProjectFree(s)

\* A request that steps without disturbing the others, and locks what is free,
\* keeps what all requests know, and the locks exclusive.
LEMMA SlotStep ==
  ASSUME IInv, NEW s \in Slots, NEW q \in Request, req' = [req EXCEPT ![s] = q], now' = now,
         \A a \in Registered :
           /\ a \in Registered' /\ agent'[a].session = agent[a].session
           /\ agent'[a].profile = agent[a].profile,
         \A r \in Reported : r \in Reported' /\ report'[r].agent = report[r].agent,
         \A t \in Slots \ {s} : Undisturbed(t),
         SlotFacts(s)', Free(s, q)
  PROVE  (\A t \in Slots : SlotFacts(t)') /\ Locks'
  <1>1. req'[s] = q /\ \A t \in Slots \ {s} : req'[t] = req[t]
    BY Types DEF IInv
  <1>2. ASSUME NEW t \in Slots \ {s} PROVE SlotFacts(t)'
    <2>1. SlotFacts(t) /\ Undisturbed(t) /\ req'[t] = req[t]
      BY <1>1 DEF IInv
    <2> QED
      BY <2>1 DEF SlotFacts, Undisturbed, New
  <1>3. ASSUME NEW t \in Slots \ {s}
        PROVE  /\ \A x \in Sessions : ~(HoldsSession(s, x)' /\ HoldsSession(t, x)')
               /\ \A a \in AgentIds : ~(HoldsAgent(s, a)' /\ HoldsAgent(t, a)')
               /\ ~(HoldsProject(s)' /\ (HoldsProject(t)' \/ SharesProject(t)'))
               /\ ~(HoldsProject(t)' /\ SharesProject(s)')
               /\ req'[s].stage \in New /\ req'[t].stage \in New => req'[s].agent # req'[t].agent
    BY <1>1 DEF Free, HoldsSession, HoldsAgent, HoldsProject, SharesProject, SessionFree,
                AgentFree, ProjectFree, ProjectShareable, New
  <1>4. ASSUME NEW t \in Slots \ {s}, NEW v \in Slots \ {s}, t # v
        PROVE  /\ \A x \in Sessions : ~(HoldsSession(v, x)' /\ HoldsSession(t, x)')
               /\ \A a \in AgentIds : ~(HoldsAgent(v, a)' /\ HoldsAgent(t, a)')
               /\ ~(HoldsProject(v)' /\ (HoldsProject(t)' \/ SharesProject(t)'))
               /\ req'[v].stage \in New /\ req'[t].stage \in New => req'[v].agent # req'[t].agent
    BY <1>1, <1>4 DEF IInv, Locks, HoldsSession, HoldsAgent, HoldsProject, SharesProject
  <1>5. Locks'
    BY <1>3, <1>4 DEF Locks
  <1> QED
    BY <1>1, <1>2, <1>5

\* A step of one request that changes no row.
LEMMA RequestStep ==
  ASSUME IInv, NEW s \in Slots, NEW q \in Request, req' = [req EXCEPT ![s] = q],
         UNCHANGED <<now, rows>>, SlotFacts(s)', Free(s, q)
  PROVE  IInv'
  <1>1. /\ now' = now /\ agent' = agent /\ report' = report /\ contact' = contact
        /\ granted' = granted /\ Registered' = Registered /\ Reported' = Reported
    BY DEF rows, Registered, Reported
  <1>2. \A t \in Slots \ {s} : Undisturbed(t)
    <2>1. \A t \in Slots : SlotFacts(t)
      BY DEF IInv
    <2> QED
      BY <1>1, <2>1 DEF Undisturbed, SlotFacts
  <1>3. (\A t \in Slots : SlotFacts(t)') /\ Locks'
    BY <1>1, <1>2, SlotStep
  <1>4. RowFacts'
    BY <1>1 DEF IInv, RowFacts, SessionsAgree
  <1>5. TypeOK'
    <2>1. req' \in [Slots -> Request]
      BY Types DEF IInv
    <2> QED
      BY <1>1, <2>1 DEF IInv, TypeOK, Request
  <1> QED
    BY <1>3, <1>4, <1>5 DEF IInv

---------------------------------------------------------------------------
\* A new request has read the clock, or names a report.
LEMMA ArriveInv ==
  ASSUME IInv, NEW s \in Slots,
         \/ \E x \in Sessions, p \in Profiles : Register(s, x, p)
         \/ \E a \in Registered : Sync(s, a)
         \/ \E a \in Registered, state \in {"blocked", "working"} : Progress(s, a, state)
         \/ \E r \in Reported : Resolve(s, r)
  PROVE  IInv'
  <1>1. PICK q \in Request :
          /\ Begins(s, q)
          /\ \/ /\ q.op = "register" /\ q.stage = "begun" /\ q.at = now
                /\ q.session \in Sessions /\ q.profile \in Profiles
             \/ /\ q.op \in {"sync", "progress"} /\ q.stage = "known" /\ q.at = now
                /\ q.agent \in Registered
                /\ q.op = "progress" => q.state \in {"blocked", "working"}
             \/ /\ q.op = "resolve" /\ q.stage = "begun" /\ q.at = 0
                /\ q.report \in Reported
    <2>0. now \in 0 .. MaxTime /\ Registered \subseteq AgentIds /\ Reported \subseteq ReportIds
      BY Types DEF IInv
    <2>1. CASE \E x \in Sessions, p \in Profiles : Register(s, x, p)
      <3>1. PICK x \in Sessions, p \in Profiles : Register(s, x, p)
        BY <2>1
      <3> DEFINE q == [Idle EXCEPT !.op = "register", !.stage = "begun", !.at = now,
                                   !.session = x, !.profile = p]
      <3>2. q \in Request
        BY <2>0, IdleFacts DEF Request, Stages
      <3>3. q.op = "register" /\ q.stage = "begun" /\ q.at = now /\ q.session = x /\ q.profile = p
        BY DEF Idle
      <3>4. Begins(s, q)
        BY <3>1 DEF Register
      <3> HIDE DEF q
      <3> QED
        BY <3>2, <3>3, <3>4
    <2>2. CASE \E a \in Registered : Sync(s, a)
      <3>1. PICK a \in Registered : Sync(s, a)
        BY <2>2
      <3> DEFINE q == [Idle EXCEPT !.op = "sync", !.stage = "known", !.at = now, !.agent = a]
      <3>2. q \in Request
        BY <2>0, IdleFacts DEF Request, Stages
      <3>3. q.op = "sync" /\ q.stage = "known" /\ q.at = now /\ q.agent = a
        BY DEF Idle
      <3>4. Begins(s, q)
        BY <3>1 DEF Sync
      <3> HIDE DEF q
      <3> QED
        BY <3>2, <3>3, <3>4
    <2>3. CASE \E a \in Registered, state \in {"blocked", "working"} : Progress(s, a, state)
      <3>1. PICK a \in Registered, state \in {"blocked", "working"} : Progress(s, a, state)
        BY <2>3
      <3> DEFINE q == [Idle EXCEPT !.op = "progress", !.stage = "known", !.at = now,
                                   !.agent = a, !.state = state]
      <3>2. q \in Request
        BY <2>0, IdleFacts DEF Request, Stages
      <3>3. q.op = "progress" /\ q.stage = "known" /\ q.at = now /\ q.agent = a /\ q.state = state
        BY DEF Idle
      <3>4. Begins(s, q)
        BY <3>1 DEF Progress
      <3> HIDE DEF q
      <3> QED
        BY <3>2, <3>3, <3>4
    <2>4. CASE \E r \in Reported : Resolve(s, r)
      <3>1. PICK r \in Reported : Resolve(s, r)
        BY <2>4
      <3> DEFINE q == [Idle EXCEPT !.op = "resolve", !.stage = "begun", !.report = r]
      <3>2. q \in Request
        BY <2>0, IdleFacts DEF Request, Stages
      <3>3. q.op = "resolve" /\ q.stage = "begun" /\ q.at = 0 /\ q.report = r
        BY DEF Idle
      <3>4. Begins(s, q)
        BY <3>1 DEF Resolve
      <3> HIDE DEF q
      <3> QED
        BY <3>2, <3>3, <3>4
    <2> QED
      BY <2>1, <2>2, <2>3, <2>4
  <1>2. /\ req' = [req EXCEPT ![s] = q] /\ req'[s] = q /\ UNCHANGED <<now, rows>>
        /\ Registered' = Registered /\ Reported' = Reported
    BY <1>1, Types DEF IInv, Begins, rows, Registered, Reported
  <1>3. SlotFacts(s)'
    BY <1>1, <1>2, Types, IdleFacts DEF IInv, SlotFacts, New
  <1>4. Free(s, q)
    BY <1>1 DEF Free, New
  <1> QED
    BY <1>2, <1>3, <1>4, RequestStep

\* What a statement that only moves a request on leaves as it is.
LEMMA GoesFacts ==
  ASSUME IInv, NEW s \in Slots, NEW q \in Request, Goes(s, q)
  PROVE  /\ req' = [req EXCEPT ![s] = q] /\ req'[s] = q /\ UNCHANGED <<now, rows>>
         /\ now' = now /\ agent' = agent /\ report' = report
         /\ Registered' = Registered /\ Reported' = Reported
         /\ req[s] \in Request /\ SlotFacts(s)
  BY Types DEF IInv, Goes, rows, Registered, Reported

\* The insert waits for other registrations of the session; then the agent is new,
\* or the one the session already has.
LEMMA InsertInv == ASSUME IInv, NEW s \in Slots, Insert(s) PROVE IInv'
  <1> DEFINE same == {a \in Registered : agent[a].session = req[s].session}
  <1>0. /\ req[s] \in Request /\ SlotFacts(s) /\ req[s].op = "register"
        /\ req[s].stage = "begun" /\ SessionFree(s, req[s].session)
    BY Types DEF IInv, Insert
  <1>1. CASE same = {} /\ \E a \in FreshAgents :
               Goes(s, [req[s] EXCEPT !.stage = "inserted", !.agent = a])
    <2>1. PICK a \in FreshAgents : Goes(s, [req[s] EXCEPT !.stage = "inserted", !.agent = a])
      BY <1>1
    <2> DEFINE q == [req[s] EXCEPT !.stage = "inserted", !.agent = a]
    <2>2. /\ a \in AgentIds /\ a \notin Registered /\ \A t \in Slots : req[t].agent # a
          /\ \A b \in Registered : agent[b].session # req[s].session
      BY <1>1 DEF FreshAgents
    <2>3. q \in Request /\ q.stage = "inserted" /\ q.agent = a /\ q.op = "register"
          /\ q.session = req[s].session /\ q.profile = req[s].profile /\ q.at = req[s].at
      BY <1>0, <2>2 DEF Request, Stages
    <2> HIDE DEF q, same
    <2>4. SlotFacts(s)'
      <3>1. Goes(s, q)
        BY <2>1 DEF q
      <3> QED
        BY <1>0, <2>2, <2>3, <3>1, GoesFacts DEF SlotFacts, New
    <2>5. Free(s, q)
      BY <1>0, <2>2, <2>3 DEF Free, New
    <2> QED
      BY <2>1, <2>3, <2>4, <2>5, GoesFacts, RequestStep DEF q
  <1>2. CASE \E a \in same : /\ agent[a].profile = req[s].profile
                            /\ Goes(s, [req[s] EXCEPT !.stage = "known", !.agent = a])
    <2>1. PICK a \in same : /\ agent[a].profile = req[s].profile
                            /\ Goes(s, [req[s] EXCEPT !.stage = "known", !.agent = a])
      BY <1>2
    <2> DEFINE q == [req[s] EXCEPT !.stage = "known", !.agent = a]
    <2>2. a \in Registered /\ a \in AgentIds /\ agent[a].session = req[s].session
      BY Types DEF IInv
    <2>3. q \in Request /\ q.stage = "known" /\ q.agent = a /\ q.op = "register"
          /\ q.session = req[s].session /\ q.profile = req[s].profile /\ q.at = req[s].at
      BY <1>0, <2>2 DEF Request, Stages
    <2> HIDE DEF q, same
    <2>4. SlotFacts(s)'
      <3>1. Goes(s, q)
        BY <2>1 DEF q
      <3> QED
        BY <1>0, <2>1, <2>2, <2>3, <3>1, GoesFacts DEF SlotFacts, New
    <2>5. Free(s, q)
      BY <2>3 DEF Free, New
    <2> QED
      BY <2>1, <2>3, <2>4, <2>5, GoesFacts, RequestStep DEF q
  <1> QED
    BY <1>1, <1>2 DEF Insert

\* The touch waits for the agent row.
LEMMA TouchInv == ASSUME IInv, NEW s \in Slots, Touch(s) PROVE IInv'
  <1> DEFINE q == [req[s] EXCEPT !.stage = "touched"]
  <1>1. req[s] \in Request
    BY Types DEF IInv
  <1>2. /\ q \in Request /\ q.stage = "touched" /\ q.op = req[s].op /\ q.at = req[s].at
        /\ q.session = req[s].session /\ q.profile = req[s].profile
        /\ q.agent = req[s].agent /\ q.state = req[s].state /\ q.report = req[s].report
    BY <1>1 DEF Request, Stages
  <1>3. Goes(s, q) /\ req[s].stage = "known" /\ AgentFree(s, req[s].agent)
    BY DEF Touch
  <1> HIDE DEF q
  <1>4. SlotFacts(s)'
    BY <1>2, <1>3, GoesFacts DEF SlotFacts, New
  <1>5. Free(s, q)
    BY <1>2, <1>3 DEF Free, New
  <1> QED
    BY <1>2, <1>3, <1>4, <1>5, GoesFacts, RequestStep

\* The share of the project; what the request held it goes on holding.
LEMMA ShareInv == ASSUME IInv, NEW s \in Slots, Share(s) PROVE IInv'
  <1> DEFINE to == IF req[s].stage = "inserted" THEN "created" ELSE "journalled"
             q == [req[s] EXCEPT !.stage = to]
  <1>1. req[s] \in Request /\ SlotFacts(s)
    BY Types DEF IInv
  <1>2. /\ q \in Request /\ q.stage = to /\ q.op = req[s].op /\ q.at = req[s].at
        /\ q.session = req[s].session /\ q.profile = req[s].profile
        /\ q.agent = req[s].agent /\ q.state = req[s].state /\ q.report = req[s].report
    BY <1>1 DEF Request, Stages
  <1>3. Goes(s, q) /\ req[s].stage \in {"inserted", "touched"} /\ ProjectShareable(s)
    BY DEF Share
  <1> HIDE DEF q
  <1>4. SlotFacts(s)'
    BY <1>2, <1>3, GoesFacts DEF SlotFacts, New
  <1>5. Free(s, q)
    <2>1. CASE req[s].stage = "inserted"
      <3>1. HoldsSession(s, req[s].session) /\ req[s].session \in Sessions
        BY <1>1, <2>1 DEF SlotFacts, New, HoldsSession
      <3> QED
        BY <1>2, <1>3, <2>1, <3>1 DEF IInv, Locks, Free, SessionFree, New
    <2>2. CASE req[s].stage = "touched"
      <3>1. HoldsAgent(s, req[s].agent) /\ req[s].agent \in AgentIds
        BY <1>1, <2>2, Types DEF IInv, SlotFacts, HoldsAgent
      <3> QED
        BY <1>2, <1>3, <2>2, <3>1 DEF IInv, Locks, Free, AgentFree, New
    <2> QED
      BY <1>3, <2>1, <2>2
  <1> QED
    BY <1>2, <1>3, <1>4, <1>5, GoesFacts, RequestStep

\* resolveBlocker's lock of the project.
LEMMA LockProjectInv == ASSUME IInv, NEW s \in Slots, LockProject(s) PROVE IInv'
  <1> DEFINE r == req[s].report
             q == [req[s] EXCEPT !.stage = "project", !.agent = report[r].agent]
  <1>1. /\ req[s] \in Request /\ SlotFacts(s) /\ req[s].op = "resolve"
        /\ req[s].stage = "begun" /\ ProjectFree(s) /\ Goes(s, q)
    BY Types DEF IInv, LockProject
  <1>2. r \in Reported /\ report[r].agent \in AgentIds \cup {None}
    BY <1>1, Types DEF IInv, SlotFacts, ReportRow
  <1>3. /\ q \in Request /\ q.stage = "project" /\ q.op = req[s].op /\ q.at = req[s].at
        /\ q.agent = report[r].agent /\ q.report = r
    BY <1>1, <1>2 DEF Request, Stages
  <1> HIDE DEF q
  <1>4. SlotFacts(s)'
    BY <1>1, <1>2, <1>3, GoesFacts DEF SlotFacts, New
  <1>5. Free(s, q)
    BY <1>1, <1>3 DEF Free, New
  <1> QED
    BY <1>1, <1>3, <1>4, <1>5, GoesFacts, RequestStep

\* When it has the report and its agent, it reads the clock and judges.
LEMMA LockReportInv == ASSUME IInv, NEW s \in Slots, LockReport(s) PROVE IInv'
  <1> DEFINE q == [req[s] EXCEPT !.stage = "locked", !.at = now]
  <1>1. /\ req[s] \in Request /\ SlotFacts(s) /\ req[s].stage = "project"
        /\ AgentFree(s, req[s].agent) /\ Resolvable(req[s].report, now) /\ Goes(s, q)
    BY Types DEF IInv, LockReport, JoinFree
  <1>2. /\ q \in Request /\ q.stage = "locked" /\ q.op = req[s].op /\ q.at = now
        /\ q.agent = req[s].agent /\ q.report = req[s].report
    BY <1>1, Types DEF IInv, Request, Stages
  <1>3. /\ req[s].op = "resolve" /\ req[s].report \in Reported
        /\ req[s].agent = report[req[s].report].agent
        /\ report[req[s].report].agent \in Registered
    BY <1>1 DEF SlotFacts, IInv, TypeOK
  <1>4. agent[req[s].agent].seen + OfflineAfter < now
    <2>1. agent[req[s].agent].seen \in Nat /\ now \in Nat
      BY <1>3, Types, IdleFacts DEF IInv, AgentRow
    <2>2. StatusAt(agent[req[s].agent].seen, now) = "offline"
      BY <1>1, <1>3 DEF Resolvable
    <2>3. \A n \in Nat : StatusAt(n, now) = "offline" => n + OfflineAfter < now
      BY <2>1, PresenceAssumption DEF StatusAt
    <2> QED
      BY <2>1, <2>2, <2>3
  <1> HIDE DEF q
  <1>5. SlotFacts(s)'
    <2>1. req'[s] = q /\ now' = now /\ agent' = agent /\ report' = report /\ Reported' = Reported
      BY <1>1, <1>2, GoesFacts
    <2>2. report[q.report].state = "blocked" /\ ~report[q.report].resolved
      BY <1>1, <1>2 DEF Resolvable
    <2>3. now \in Nat
      BY Types DEF IInv
    <2> QED
      BY <1>2, <1>3, <1>4, <2>1, <2>2, <2>3 DEF SlotFacts, New
  <1>6. Free(s, q)
    <2>1. HoldsProject(s)
      BY <1>1 DEF HoldsProject
    <2> QED
      BY <1>1, <1>2, <2>1 DEF IInv, Locks, Free, New, ProjectFree, ProjectShareable
  <1> QED
    BY <1>1, <1>2, <1>5, <1>6, GoesFacts, RequestStep

\* A request that ends without a commit.
LEMMA AbortInv == ASSUME IInv, NEW s \in Slots, Abort(s) PROVE IInv'
  <1>1. Goes(s, Idle) /\ Idle \in Request
    BY IdleFacts DEF Abort
  <1>2. SlotFacts(s)'
    BY <1>1, IdleFacts, Types, GoesFacts DEF IInv, SlotFacts, New
  <1>3. Free(s, Idle)
    BY IdleFacts DEF Free, New
  <1> QED
    BY <1>1, <1>2, <1>3, GoesFacts, RequestStep

---------------------------------------------------------------------------
\* What an open request finds locked or new is not what another one writes.
LEMMA Apart ==
  ASSUME IInv, NEW s \in Slots, NEW t \in Slots \ {s}
  PROVE  /\ SlotFacts(s) /\ SlotFacts(t) /\ req[s] \in Request /\ req[t] \in Request
         /\ req[t].stage = "locked" =>
              /\ req[t].report \in Reported /\ req[t].agent \in Registered
              /\ ~HoldsProject(s) /\ ~SharesProject(s)
              /\ HoldsAgent(s, req[s].agent) => req[t].agent # req[s].agent
         /\ req[s].stage \in New /\ req[t].stage \in New =>
              /\ req[t].agent # req[s].agent
              /\ req[s].session # req[t].session
  <1>1. SlotFacts(s) /\ SlotFacts(t) /\ req[s] \in Request /\ req[t] \in Request /\ Locks
    BY Types DEF IInv
  <1>2. ASSUME req[t].stage = "locked"
        PROVE  /\ req[t].report \in Reported /\ req[t].agent \in Registered
               /\ ~HoldsProject(s) /\ ~SharesProject(s)
               /\ HoldsAgent(s, req[s].agent) => req[t].agent # req[s].agent
    <2>1. req[t].report \in Reported /\ req[t].agent \in Registered
      BY <1>1, <1>2 DEF SlotFacts, IInv, TypeOK
    <2>2. HoldsProject(t) /\ HoldsAgent(t, req[t].agent) /\ req[t].agent \in AgentIds
      BY <1>2, <2>1, Types DEF IInv, HoldsProject, HoldsAgent
    <2> QED
      BY <1>1, <2>1, <2>2 DEF Locks
  <1>3. ASSUME req[s].stage \in New, req[t].stage \in New
        PROVE  req[t].agent # req[s].agent /\ req[s].session # req[t].session
    <2>1. HoldsSession(s, req[s].session) /\ HoldsSession(t, req[t].session)
      BY <1>1, <1>3 DEF SlotFacts, New, HoldsSession
    <2>2. req[s].session \in Sessions
      BY <1>1, <1>3 DEF SlotFacts, New
    <2> QED
      BY <1>1, <1>3, <2>1, <2>2 DEF Locks
  <1> QED
    BY <1>1, <1>2, <1>3

\* An idle slot knows nothing and holds nothing.
LEMMA IdleSlot ==
  ASSUME IInv, NEW s \in Slots, req' = [req EXCEPT ![s] = Idle], now' = now
  PROVE  SlotFacts(s)' /\ Free(s, Idle) /\ Idle \in Request /\ req' \in [Slots -> Request]
  BY IdleFacts, Types DEF IInv, SlotFacts, Free, New

\* The commit of a registration that made its agent.
LEMMA CommitCreatedInv == ASSUME IInv, NEW s \in Slots, CommitCreated(s) PROVE IInv'
  <1> DEFINE q == req[s]
             row == [session |-> q.session, profile |-> q.profile, seen |-> q.at]
  <1>1. /\ q \in Request /\ SlotFacts(s) /\ q.stage = "created"
        /\ q.agent \in AgentIds /\ q.agent \notin Registered
        /\ q.session \in Sessions /\ q.profile \in Profiles
        /\ q.at \in 0 .. MaxTime /\ q.at \in Nat /\ q.at <= now
        /\ \A a \in Registered : agent[a].session # q.session
    BY Types DEF IInv, CommitCreated, SlotFacts, New, Request
  <1>2. /\ agent' = [agent EXCEPT ![q.agent] = row] /\ now' = now /\ report' = report
        /\ contact' = [contact EXCEPT ![q.agent] = q.at]
        /\ granted' = granted \cup {<<q.session, q.profile, q.agent>>}
        /\ req' = [req EXCEPT ![s] = Idle]
    BY DEF CommitCreated
  <1>3. row \in AgentRow /\ row # NoAgent /\ row.session = q.session
        /\ row.profile = q.profile /\ row.seen = q.at
    BY <1>1, IdleFacts DEF AgentRow, NoAgent
  <1> HIDE DEF row
  <1>4. /\ agent' \in [AgentIds -> AgentRow] /\ agent'[q.agent] = row
        /\ \A a \in AgentIds : a # q.agent => agent'[a] = agent[a]
        /\ contact' \in [AgentIds -> 0 .. MaxTime] /\ contact'[q.agent] = q.at
        /\ \A a \in AgentIds : a # q.agent => contact'[a] = contact[a]
    BY <1>1, <1>2, <1>3, Types DEF IInv
  <1>5. Registered' = Registered \cup {q.agent} /\ Reported' = Reported
    BY <1>1, <1>2, <1>3, <1>4 DEF Registered, Reported
  <1>6. ASSUME NEW t \in Slots \ {s} PROVE Undisturbed(t)
    <2>1. /\ req[t].stage = "locked" => req[t].agent \in Registered
          /\ req[t].stage \in New => req[t].agent # q.agent /\ req[t].session # q.session
      BY <1>1, Apart DEF New
    <2>2. req[t].stage \in New =>
            /\ req[t].agent \notin Registered
            /\ \A a \in Registered : agent[a].session # req[t].session
      BY Apart DEF SlotFacts
    <2>3. Registered \subseteq AgentIds
      BY Types DEF IInv
    <2> QED
      BY <1>1, <1>2, <1>3, <1>4, <1>5, <2>1, <2>2, <2>3 DEF Undisturbed
  <1>7. (\A t \in Slots : SlotFacts(t)') /\ Locks'
    <2>1. \A a \in Registered :
            /\ a \in Registered' /\ agent'[a].session = agent[a].session
            /\ agent'[a].profile = agent[a].profile
      BY <1>1, <1>4, <1>5, Types DEF IInv
    <2> QED
      BY <1>2, <1>5, <1>6, <2>1, IdleSlot, SlotStep
  <1>8. RowFacts'
    <2>1. \A a \in Registered' :
            /\ agent'[a].session \in Sessions
            /\ agent'[a].seen <= contact'[a] /\ contact'[a] <= now'
            /\ contact'[a] <= agent'[a].seen + CallLife
      <3>1. q.at <= q.at + CallLife
        BY <1>1, IdleFacts
      <3> QED
        BY <1>1, <1>2, <1>3, <1>4, <1>5, <3>1, Types DEF IInv, RowFacts
    <2>2. \A a, b \in Registered' : agent'[a].session = agent'[b].session => a = b
      BY <1>1, <1>3, <1>4, <1>5, Types DEF IInv, RowFacts
    <2>3. SessionsAgree'
      <3>1. ASSUME NEW g \in granted
            PROVE  /\ g[3] \in AgentIds /\ g[3] # q.agent /\ g[1] # q.session
                   /\ agent[g[3]].session = g[1] /\ agent[g[3]].profile = g[2]
                   /\ \A a \in Registered : agent[a].session = g[1] => a = g[3]
        <4>1. /\ g[3] \in AgentIds /\ g[1] \in Sessions
              /\ agent[g[3]].session = g[1] /\ agent[g[3]].profile = g[2]
              /\ \A a \in Registered : agent[a].session = g[1] => a = g[3]
          BY Types DEF IInv, RowFacts, SessionsAgree
        <4>2. g[3] \in Registered
          BY <4>1, IdleFacts DEF Registered
        <4> QED
          BY <1>1, <4>1, <4>2
      <3>2. ASSUME NEW g \in granted'
            PROVE  /\ agent'[g[3]].session = g[1] /\ agent'[g[3]].profile = g[2]
                   /\ \A a \in Registered' : agent'[a].session = g[1] => a = g[3]
        <4>1. CASE g \in granted
          BY <1>3, <1>4, <1>5, <3>1, <4>1, Types DEF IInv
        <4>2. CASE g = <<q.session, q.profile, q.agent>>
          BY <1>1, <1>3, <1>4, <1>5, <4>2, Types DEF IInv
        <4> QED
          BY <1>2, <4>1, <4>2
      <3> QED
        BY <3>2 DEF SessionsAgree
    <2> QED
      BY <2>1, <2>2, <2>3 DEF RowFacts
  <1>9. TypeOK'
    <2>1. granted' \subseteq Sessions \X Profiles \X AgentIds
      BY <1>1, <1>2, Types DEF IInv
    <2>2. req' \in [Slots -> Request]
      BY <1>2, IdleSlot
    <2> QED
      BY <1>2, <1>4, <1>5, <2>1, <2>2 DEF IInv, TypeOK, AgentRow, Request
  <1> QED
    BY <1>7, <1>8, <1>9 DEF IInv

\* The commit of a call whose agent was there: last_seen_at moves to the call's
\* clock reading, which is at most a call's life old.
LEMMA CommitKnownInv == ASSUME IInv, NEW s \in Slots, CommitKnown(s) PROVE IInv'
  <1> DEFINE q == req[s]
             a == q.agent
             row == [agent[a] EXCEPT !.seen = q.at]
             late == IF contact[a] < q.at THEN q.at ELSE contact[a]
             new(r) == [NoReport EXCEPT !.agent = a, !.state = q.state, !.at = q.at]
  <1>1. /\ q \in Request /\ SlotFacts(s) /\ q.stage \in {"touched", "journalled"}
        /\ q.op \in {"register", "sync", "progress"}
        /\ a \in Registered /\ a \in AgentIds /\ HoldsAgent(s, a)
        /\ q.at \in 0 .. MaxTime /\ q.at \in Nat /\ q.at <= now /\ now <= q.at + CallLife
        /\ q.op = "progress" => q.state \in {"blocked", "working"}
        /\ q.op = "register" => /\ agent[a].session = q.session /\ agent[a].profile = q.profile
                                /\ q.session \in Sessions /\ q.profile \in Profiles
    BY Types DEF IInv, CommitKnown, Committable, SlotFacts, HoldsAgent, Request
  <1>2. /\ agent' = [agent EXCEPT ![a] = row] /\ now' = now
        /\ contact' = [contact EXCEPT ![a] = late]
        /\ IF q.op = "progress"
           THEN \E r \in ReportIds \ Reported : report' = [report EXCEPT ![r] = new(r)]
           ELSE report' = report
        /\ granted' = IF q.op = "register"
                      THEN granted \cup {<<q.session, q.profile, a>>} ELSE granted
        /\ req' = [req EXCEPT ![s] = Idle]
    BY <1>1, Types DEF IInv, CommitKnown, Seen
  <1>3. /\ agent[a] \in AgentRow /\ row \in AgentRow /\ row.session = agent[a].session
        /\ row.profile = agent[a].profile /\ row.seen = q.at
        /\ agent[a].session \in Sessions /\ row # NoAgent
    <2>1. agent[a].session \in Sessions /\ agent[a] \in AgentRow
      BY <1>1, Types DEF IInv, RowFacts
    <2> QED
      BY <1>1, <2>1, IdleFacts DEF AgentRow
  <1>4. /\ late \in 0 .. MaxTime /\ late <= now /\ q.at <= late /\ late <= q.at + CallLife
    BY <1>1, Types, IdleFacts DEF IInv, RowFacts
  <1>5. ASSUME q.op = "progress", NEW r \in ReportIds
        PROVE  /\ new(r) \in ReportRow /\ new(r) # NoReport /\ new(r).agent = a
               /\ ~new(r).resolved
    BY <1>1, <1>5, IdleFacts DEF NoReport, ReportRow
  <1> HIDE DEF row, late, new
  <1>6. /\ agent' \in [AgentIds -> AgentRow] /\ agent'[a] = row
        /\ \A b \in AgentIds : b # a => agent'[b] = agent[b]
        /\ contact' \in [AgentIds -> 0 .. MaxTime] /\ contact'[a] = late
        /\ \A b \in AgentIds : b # a => contact'[b] = contact[b]
        /\ \A b \in AgentIds : /\ agent'[b].session = agent[b].session
                               /\ agent'[b].profile = agent[b].profile
    BY <1>1, <1>2, <1>3, <1>4, Types DEF IInv
  <1>7. Registered' = Registered
    BY <1>1, <1>3, <1>6 DEF Registered
  <1>8. /\ report' \in [ReportIds -> ReportRow]
        /\ \A r \in Reported : r \in Reported' /\ report'[r] = report[r]
        /\ \A r \in Reported' \ Reported : report'[r].agent = a /\ ~report'[r].resolved
    <2>1. CASE q.op = "progress"
      <3>1. PICK r \in ReportIds \ Reported : report' = [report EXCEPT ![r] = new(r)]
        BY <1>2, <2>1
      <3>2. /\ report' \in [ReportIds -> ReportRow] /\ report'[r] = new(r)
            /\ \A x \in ReportIds : x # r => report'[x] = report[x]
        BY <1>5, <2>1, <3>1, Types DEF IInv
      <3> QED
        BY <1>5, <2>1, <3>2 DEF Reported
    <2>2. CASE q.op # "progress"
      <3>1. report' = report
        BY <1>2, <2>2
      <3> QED
        BY <3>1, Types DEF IInv, Reported
    <2> QED
      BY <2>1, <2>2
  <1>9. ASSUME NEW t \in Slots \ {s} PROVE Undisturbed(t)
    <2>1. /\ req[t].stage = "locked" => /\ req[t].report \in Reported
                                        /\ req[t].agent \in AgentIds /\ req[t].agent # a
          /\ SlotFacts(t)
      BY <1>1, Apart, Types DEF IInv
    <2>2. req[t].stage \in New =>
            /\ req[t].agent \notin Registered
            /\ \A b \in Registered : agent[b].session # req[t].session
      BY <2>1 DEF SlotFacts
    <2> QED
      BY <1>6, <1>7, <1>8, <2>1, <2>2, Types DEF IInv, Undisturbed
  <1>10. (\A t \in Slots : SlotFacts(t)') /\ Locks'
    BY <1>2, <1>6, <1>7, <1>8, <1>9, IdleSlot, SlotStep, Types DEF IInv
  <1>11. RowFacts'
    <2>1. \A b \in Registered' :
            /\ agent'[b].session \in Sessions
            /\ agent'[b].seen <= contact'[b] /\ contact'[b] <= now'
            /\ contact'[b] <= agent'[b].seen + CallLife
      BY <1>1, <1>2, <1>3, <1>4, <1>6, <1>7, Types DEF IInv, RowFacts
    <2>2. \A b, c \in Registered' : agent'[b].session = agent'[c].session => b = c
      BY <1>6, <1>7, Types DEF IInv, RowFacts
    <2>3. SessionsAgree'
      <3>1. ASSUME NEW g \in granted'
            PROVE  /\ agent'[g[3]].session = g[1] /\ agent'[g[3]].profile = g[2]
                   /\ \A b \in Registered' : agent'[b].session = g[1] => b = g[3]
        <4>1. CASE g \in granted
          BY <1>6, <1>7, <4>1, Types DEF IInv, RowFacts, SessionsAgree
        <4>2. CASE q.op = "register" /\ g = <<q.session, q.profile, a>>
          BY <1>1, <1>6, <1>7, <4>2, Types DEF IInv, RowFacts
        <4> QED
          BY <1>2, <3>1, <4>1, <4>2
      <3> QED
        BY <3>1 DEF SessionsAgree
    <2> QED
      BY <2>1, <2>2, <2>3 DEF RowFacts
  <1>12. TypeOK'
    <2>1. granted' \subseteq Sessions \X Profiles \X AgentIds
      BY <1>1, <1>2, Types DEF IInv
    <2>2. req' \in [Slots -> Request]
      BY <1>2, IdleSlot
    <2>3. \A r \in Reported' : /\ report'[r].agent \in Registered'
                               /\ report'[r].resolved => report'[r].state = "blocked"
      BY <1>1, <1>7, <1>8 DEF IInv, TypeOK
    <2> QED
      BY <1>2, <1>6, <1>8, <2>1, <2>2, <2>3 DEF IInv, TypeOK, AgentRow, ReportRow, Request
  <1> QED
    BY <1>10, <1>11, <1>12 DEF IInv

\* The commit of a resolution, which nobody else can have locked as well.
LEMMA CommitResolvedInv == ASSUME IInv, NEW s \in Slots, CommitResolved(s) PROVE IInv'
  <1> DEFINE q == req[s]
             row == [report[q.report] EXCEPT !.resolved = TRUE, !.resolvedAt = q.at]
  <1>1. /\ q \in Request /\ SlotFacts(s) /\ q.stage = "locked" /\ q.op = "resolve"
        /\ q.report \in Reported /\ q.report \in ReportIds /\ q.at \in 0 .. MaxTime
        /\ report[q.report] \in ReportRow /\ report[q.report].state = "blocked"
        /\ report[q.report].agent \in Registered
    BY Types DEF IInv, CommitResolved, SlotFacts, Request, TypeOK
  <1>2. /\ report' = [report EXCEPT ![q.report] = row] /\ now' = now /\ agent' = agent
        /\ contact' = contact /\ granted' = granted /\ req' = [req EXCEPT ![s] = Idle]
        /\ Registered' = Registered
    BY <1>1, Types DEF IInv, CommitResolved, Registered
  <1>3. /\ row \in ReportRow /\ row.agent = report[q.report].agent
        /\ row.state = "blocked" /\ row # NoReport
    BY <1>1 DEF ReportRow, NoReport
  <1> HIDE DEF row
  <1>4. /\ report' \in [ReportIds -> ReportRow] /\ report'[q.report] = row
        /\ \A r \in ReportIds : r # q.report => report'[r] = report[r]
        /\ Reported' = Reported
    BY <1>1, <1>2, <1>3, Types DEF IInv, Reported
  <1>5. \A r \in Reported : r \in Reported' /\ report'[r].agent = report[r].agent
    BY <1>1, <1>3, <1>4, Types DEF IInv
  <1>6. ASSUME NEW t \in Slots \ {s} PROVE Undisturbed(t)
    <2>1. HoldsProject(s) /\ SlotFacts(t)
      BY <1>1, Apart DEF HoldsProject
    <2>2. req[t].stage # "locked"
      BY <2>1, Apart
    <2> QED
      BY <1>2, <2>1, <2>2 DEF Undisturbed, SlotFacts
  <1>7. (\A t \in Slots : SlotFacts(t)') /\ Locks'
    BY <1>2, <1>5, <1>6, IdleSlot, SlotStep
  <1>8. RowFacts'
    BY <1>2 DEF IInv, RowFacts, SessionsAgree
  <1>9. TypeOK'
    <2>1. req' \in [Slots -> Request]
      BY <1>2, IdleSlot
    <2>2. \A r \in Reported' : /\ report'[r].agent \in Registered'
                               /\ report'[r].resolved => report'[r].state = "blocked"
      BY <1>1, <1>2, <1>3, <1>4, Types DEF IInv, TypeOK
    <2> QED
      BY <1>2, <1>4, <2>1, <2>2 DEF IInv, TypeOK, ReportRow, Request
  <1> QED
    BY <1>7, <1>8, <1>9 DEF IInv

\* The clock waits for the calls that have lived CallLife.
LEMMA TickInv == ASSUME IInv, Tick PROVE IInv'
  <1>1. /\ now' = now + 1 /\ now < MaxTime /\ now \in Nat /\ now' \in 0 .. MaxTime
        /\ agent' = agent /\ report' = report /\ contact' = contact /\ granted' = granted
        /\ req' = req /\ Registered' = Registered /\ Reported' = Reported
    BY Types, IdleFacts DEF IInv, Tick, rows, Registered, Reported
  <1>2. ASSUME NEW s \in Slots PROVE SlotFacts(s)'
    <2>1. req[s].at \in Nat /\ SlotFacts(s)
      BY Types DEF IInv, Request
    <2>2. req[s].stage # "idle" /\ req[s].op # "resolve" => now' <= req[s].at + CallLife
      BY <1>1, <2>1, IdleFacts DEF Tick
    <2>3. req[s].at <= now'
      BY <1>1, <2>1 DEF SlotFacts
    <2> QED
      BY <1>1, <2>1, <2>2, <2>3 DEF SlotFacts
  <1>3. Locks'
    BY <1>1 DEF IInv, Locks, HoldsSession, HoldsAgent, HoldsProject, SharesProject
  <1>4. RowFacts'
    <2>1. \A a \in Registered : contact[a] <= now'
      BY <1>1, Types DEF IInv, RowFacts
    <2> QED
      BY <1>1, <2>1 DEF IInv, RowFacts, SessionsAgree
  <1>5. TypeOK'
    BY <1>1 DEF IInv, TypeOK
  <1> QED
    BY <1>2, <1>3, <1>4, <1>5 DEF IInv

---------------------------------------------------------------------------
\* Every step preserves the inductive invariant.
LEMMA StepInv == IInv /\ [Next]_vars => IInv'
  <1> SUFFICES ASSUME IInv, [Next]_vars PROVE IInv'
    OBVIOUS
  <1>1. CASE UNCHANGED vars
    <2>1. UNCHANGED <<now, agent, report, contact, granted, req>>
      BY <1>1 DEF vars, rows
    <2>2. Registered' = Registered /\ Reported' = Reported
      BY <2>1 DEF Registered, Reported
    <2>3. TypeOK' /\ RowFacts'
      BY <2>1, <2>2 DEF IInv, TypeOK, RowFacts, SessionsAgree
    <2>4. \A s \in Slots : SlotFacts(s)'
      BY <2>1, <2>2 DEF IInv, SlotFacts
    <2>5. Locks'
      BY <2>1 DEF IInv, Locks, HoldsSession, HoldsAgent, HoldsProject, SharesProject
    <2> QED
      BY <2>3, <2>4, <2>5 DEF IInv
  <1>2. CASE Tick
    BY <1>2, TickInv
  <1>3. ASSUME NEW s \in Slots, Step(s) PROVE IInv'
    BY <1>3, ArriveInv, InsertInv, TouchInv, ShareInv, CommitCreatedInv, CommitKnownInv,
       LockProjectInv, LockReportInv, CommitResolvedInv, AbortInv DEF Step
  <1> QED
    BY <1>1, <1>2, <1>3 DEF Next

\* The inductive invariant holds in every reachable state.
LEMMA Invariant == Spec => []IInv
  <1>1. Init => IInv
    BY InitInv
  <1>2. IInv /\ [Next]_vars => IInv'
    BY StepInv
  <1> QED
    BY <1>1, <1>2, PTL DEF Spec

---------------------------------------------------------------------------
\* The rows and requests keep their shape: reports belong to registered agents
\* and only blockers are ever resolved.
THEOREM TypeCorrect == Spec => []TypeOK
  <1>1. IInv => TypeOK
    BY DEF IInv
  <1> QED
    BY <1>1, Invariant, PTL

\* However many registrations of one session race and are repeated, those that
\* succeed are all given the same agent, with the profile each asked for.
THEOREM OneAgentPerSession == Spec => []SessionsAgree
  <1>1. IInv => SessionsAgree
    BY DEF IInv, RowFacts
  <1> QED
    BY <1>1, Invariant, PTL

\* Whatever calls overlap, and whichever order they commit in, the presence that
\* is derived from last_seen_at is off by no more than the life of a call.
THEOREM PresenceSound == Spec => []PresenceHonest
  <1>1. IInv => PresenceHonest
    <2> SUFFICES ASSUME IInv, NEW a \in Registered
                 PROVE  /\ now + CallLife <= contact[a] + OnlineFor
                             => StatusAt(agent[a].seen, now) = "online"
                        /\ now + CallLife <= contact[a] + OfflineAfter
                             => StatusAt(agent[a].seen, now) # "offline"
                        /\ agent[a].seen <= contact[a]
      BY DEF PresenceHonest
    <2> DEFINE n == agent[a].seen
               c == contact[a]
    <2>1. n \in Nat /\ c \in Nat /\ now \in Nat /\ n <= c /\ c <= n + CallLife
      BY Types DEF IInv, RowFacts, AgentRow
    <2> HIDE DEF n, c
    <2>2. now + CallLife <= c + OnlineFor => StatusAt(n, now) = "online"
      <3>1. now + CallLife <= c + OnlineFor => now <= n + OnlineFor
        BY <2>1, PresenceAssumption
      <3> QED
        BY <2>1, <3>1, PresenceAssumption DEF StatusAt
    <2>3. now + CallLife <= c + OfflineAfter => StatusAt(n, now) # "offline"
      <3>1. now + CallLife <= c + OfflineAfter => now <= n + OfflineAfter
        BY <2>1, PresenceAssumption
      <3> QED
        BY <2>1, <3>1, PresenceAssumption DEF StatusAt
    <2> QED
      BY <2>1, <2>2, <2>3 DEF n, c
  <1> QED
    BY <1>1, Invariant, PTL

\* Of all that race for a report, agents that wake up included, one owner resolves
\* it, once, and only if it blocks an agent not heard of for thirty minutes.
THEOREM ResolutionsOffline == Spec => ResolvedWasOffline
  <1> DEFINE Resolution(r) ==
        /\ report[r].state = "blocked" /\ ~report[r].resolved
        /\ report'[r] = [report[r] EXCEPT !.resolved = TRUE,
                                          !.resolvedAt = report'[r].resolvedAt]
        /\ report'[r].resolvedAt + CallLife > contact[report[r].agent] + OfflineAfter
  <1>1. ASSUME IInv, [Next]_vars, NEW r \in Reported, report'[r] # report[r]
        PROVE  Resolution(r)
    <2>1. r \in ReportIds /\ report \in [ReportIds -> ReportRow]
      BY <1>1, Types DEF IInv
    <2>2. PICK s \in Slots : CommitKnown(s) \/ CommitResolved(s)
      BY <1>1 DEF Next, Step, vars, rows, Register, Sync, Progress, Resolve, Begins, Insert,
                  Touch, Share, CommitCreated, LockProject, LockReport, Abort, Goes, Tick
    <2>3. ~CommitKnown(s)
      BY <1>1, <2>1 DEF CommitKnown
    <2> DEFINE q == req[s]
    <2>4. /\ q.stage = "locked" /\ q \in Request
          /\ report' = [report EXCEPT ![q.report].resolved = TRUE,
                                      ![q.report].resolvedAt = q.at]
      BY <1>1, <2>2, <2>3, Types DEF IInv, CommitResolved
    <2>5. r = q.report
      BY <1>1, <2>1, <2>4
    <2>6. SlotFacts(s)
      BY <1>1 DEF IInv
    <2>7. /\ report[r].state = "blocked" /\ ~report[r].resolved
          /\ q.agent = report[r].agent
          /\ agent[q.agent].seen + OfflineAfter < q.at
      BY <2>4, <2>5, <2>6 DEF SlotFacts
    <2>8. /\ report'[r] = [report[r] EXCEPT !.resolved = TRUE, !.resolvedAt = q.at]
          /\ report'[r].resolvedAt = q.at
      BY <2>1, <2>4, <2>5 DEF ReportRow
    <2>9. q.at + CallLife > contact[q.agent] + OfflineAfter
      <3>1. q.agent \in Registered /\ q.agent \in AgentIds
        BY <1>1, <2>7, Types DEF IInv, TypeOK
      <3>2. /\ contact[q.agent] <= agent[q.agent].seen + CallLife
            /\ contact[q.agent] \in Nat /\ agent[q.agent].seen \in Nat /\ q.at \in Nat
        BY <1>1, <2>4, <3>1, Types DEF IInv, RowFacts, AgentRow, Request
      <3> QED
        BY <2>7, <3>2, IdleFacts
    <2> QED
      BY <2>7, <2>8, <2>9
  <1>2. IInv /\ [Next]_vars => [\A r \in Reported : report'[r] # report[r] => Resolution(r)]_vars
    BY <1>1
  <1> QED
    BY <1>2, Invariant, PTL DEF Spec, ResolvedWasOffline

---------------------------------------------------------------------------
\* Part 2: the facts of the project.

WriteCall ==
    [op : {"none", "set", "cas", "delete"}, stage : {"idle", "begun", "written"},
     key : Keys \cup {Nothing}, base : Row, next : Row]

Told(k, row) == <<k, row.version, row.write>> \in journal

\* What an open call names, and what it has found in the row it holds.
CallFacts(a) ==
    LET q == calls[a] IN
    /\ q.stage = "idle" => q = NoCall
    /\ q.stage # "idle" => q.key \in Keys /\ q.op \in {"set", "cas", "delete"}
    /\ q.stage # "idle" /\ q.op # "delete" => q.next.write \in Writes
    /\ q.stage # "idle" /\ q.op = "delete" => q.next = NoRow
    /\ q.stage # "idle" /\ q.op = "cas" => Told(q.key, q.base) /\ q.base.version > 0
    /\ q.stage = "written" =>
         /\ q.op # "delete" => q.next.version = fact[q.key].version + 1
         /\ q.op = "cas" => fact[q.key].version = q.base.version
         /\ q.op = "delete" => fact[q.key].version > 0

\* A key is locked by one call.
Mutex == \A a, b \in Agents, k \in Keys : a # b => ~(HoldsKey(a, k) /\ HoldsKey(b, k))

\* A version names one value, of a fact that was never deleted.
OneValue ==
    \A e, f \in journal : e[1] = f[1] /\ e[2] = f[2] /\ ~EverDeleted(e[1]) => e = f

\* The journal tells of the row that is there and of all that was shown, and of no
\* version above the row's, of a fact that was never deleted.
JournalFacts ==
    /\ \A k \in Keys : fact[k].version > 0 => Told(k, fact[k])
    /\ \A a \in Agents, k \in Keys : shown[a][k].version > 0 => Told(k, shown[a][k])
    /\ \A e \in journal : ~EverDeleted(e[1]) => e[2] <= fact[e[1]].version

\* The inductive invariant.
BoardInv ==
    /\ BoardTypeOK
    /\ \A a \in Agents : CallFacts(a)
    /\ Mutex
    /\ OneValue
    /\ JournalFacts

---------------------------------------------------------------------------
\* A key without a row, and an agent without a call, have their types.
LEMMA NoRowFacts ==
    /\ NoRow \in Row /\ NoRow.version = 0
    /\ NoCall \in WriteCall /\ NoCall.stage = "idle"
  BY BlackboardAssumption DEF NoRow, Row, NoCall, WriteCall

\* The initial state satisfies the inductive invariant.
LEMMA BoardInitInv == ASSUME BoardInit PROVE BoardInv
  <1>1. BoardTypeOK
    BY NoRowFacts DEF BoardInit, BoardTypeOK, WriteCall
  <1>2. \A a \in Agents : CallFacts(a)
    BY NoRowFacts DEF BoardInit, CallFacts
  <1>3. Mutex
    BY NoRowFacts DEF BoardInit, Mutex, HoldsKey
  <1>4. OneValue /\ JournalFacts
    BY NoRowFacts DEF BoardInit, OneValue, JournalFacts
  <1> QED
    BY <1>1, <1>2, <1>3, <1>4 DEF BoardInv

---------------------------------------------------------------------------
\* A step that changes nothing but one call keeps the invariant when the call's
\* own facts hold after it and it has taken no lock of another.
LEMMA CallStep ==
  ASSUME BoardInv, NEW a \in Agents, NEW q \in WriteCall,
         calls' = [calls EXCEPT ![a] = q],
         UNCHANGED <<fact, shown, journal>>, CallFacts(a)',
         q.stage = "written" => KeyFree(a, q.key)
  PROVE  BoardInv'
  <1>0. calls \in [Agents -> WriteCall]
    BY DEF BoardInv, BoardTypeOK, WriteCall
  <1>1. calls'[a] = q /\ \A b \in Agents \ {a} : calls'[b] = calls[b]
    BY <1>0
  <1>2. BoardTypeOK'
    BY <1>0 DEF BoardInv, BoardTypeOK, WriteCall
  <1>3. ASSUME NEW b \in Agents PROVE CallFacts(b)'
    <2>1. CASE b = a
      BY <2>1
    <2>2. CASE b # a
      BY <1>1, <2>2 DEF BoardInv, CallFacts, Told
    <2> QED
      BY <2>1, <2>2
  <1>4. Mutex'
    BY <1>1 DEF BoardInv, Mutex, HoldsKey, KeyFree
  <1>5. OneValue' /\ JournalFacts'
    BY DEF BoardInv, OneValue, JournalFacts, EverDeleted, Told
  <1> QED
    BY <1>2, <1>3, <1>4, <1>5 DEF BoardInv

\* A read shows the row that is there.
LEMMA GetInv ==
  ASSUME BoardInv, NEW a \in Agents, NEW k \in Keys, GetFact(a, k)
  PROVE  BoardInv'
  <1> USE DEF GetFact
  <1>0. \A b \in Agents, l \in Keys :
          \/ shown'[b][l] \in {shown[b][l], NoRow}
          \/ shown'[b][l] = fact[l] /\ fact[l].version > 0
    BY DEF BoardInv, BoardTypeOK, Visible
  <1>1. shown' \in [Agents -> [Keys -> Row]]
    BY NoRowFacts DEF BoardInv, BoardTypeOK
  <1>2. \A b \in Agents, l \in Keys : shown'[b][l].version > 0 => Told(l, shown[b][l])'
    BY <1>0, NoRowFacts DEF BoardInv, JournalFacts, Told
  <1>3. BoardTypeOK'
    BY <1>1 DEF BoardInv, BoardTypeOK
  <1>4. JournalFacts'
    BY <1>2 DEF BoardInv, JournalFacts, Told, EverDeleted
  <1>5. (\A b \in Agents : CallFacts(b)') /\ Mutex' /\ OneValue'
    BY DEF BoardInv, CallFacts, Told, Mutex, HoldsKey, OneValue, EverDeleted
  <1> QED
    BY <1>3, <1>4, <1>5 DEF BoardInv

\* A new call holds no lock yet; its expected row was shown to its caller.
LEMMA BeginInv ==
  ASSUME BoardInv, NEW a \in Agents, NEW k \in Keys, Begin(a, k)
  PROVE  BoardInv'
  <1>1. PICK op \in {"set", "cas", "delete"}, w \in Fresh, life \in {"lasting", "temporary"} :
          /\ op = "cas" => shown[a][k].version > 0
          /\ calls' = [calls EXCEPT ![a] =
               [op |-> op, stage |-> "begun", key |-> k,
                base |-> IF op = "cas" THEN shown[a][k] ELSE NoRow,
                next |-> IF op = "delete" THEN NoRow
                         ELSE [version |-> 0, write |-> w, life |-> life]]]
    BY DEF Begin
  <1> DEFINE base == IF op = "cas" THEN shown[a][k] ELSE NoRow
             next == IF op = "delete" THEN NoRow
                     ELSE [version |-> 0, write |-> w, life |-> life]
             q == [op |-> op, stage |-> "begun", key |-> k, base |-> base, next |-> next]
  <1>2. w \in Writes
    BY DEF Fresh
  <1>3. base \in Row /\ next \in Row
    <2>1. shown[a][k] \in Row
      BY DEF BoardInv, BoardTypeOK
    <2>2. [version |-> 0, write |-> w, life |-> life] \in Row
      BY <1>2, BlackboardAssumption DEF Row
    <2> QED
      BY <2>1, <2>2, NoRowFacts
  <1>4. q \in WriteCall
    BY <1>3 DEF WriteCall
  <1>5. calls' = [calls EXCEPT ![a] = q] /\ calls'[a] = q
    BY <1>1 DEF BoardInv, BoardTypeOK
  <1>6. op = "cas" => Told(k, base) /\ base.version > 0
    BY <1>1 DEF BoardInv, JournalFacts
  <1>7. /\ op # "delete" => next.write \in Writes
        /\ op = "delete" => next = NoRow
    BY <1>2
  <1>8. CallFacts(a)'
    <2> HIDE DEF base, next
    <2> QED
      BY <1>5, <1>6, <1>7 DEF CallFacts, Told, Begin
  <1> QED
    BY <1>4, <1>5, <1>8, CallStep DEF Begin

\* The statement waits for the row, and finds what it then says of it.
LEMMA WriteInv == ASSUME BoardInv, NEW a \in Agents, Write(a) PROVE BoardInv'
  <1> DEFINE v == IF calls[a].op = "delete" THEN 0 ELSE Bump(calls[a])
             q == [calls[a] EXCEPT !.stage = "written", !.next.version = v]
  <1>0. calls[a] \in WriteCall /\ calls[a].key \in Keys /\ calls[a].stage = "begun"
    BY DEF BoardInv, BoardTypeOK, CallFacts, WriteCall, Write
  <1>1. v \in 0 .. MaxVersion
    <2>1. fact[calls[a].key].version \in Nat
      BY <1>0 DEF BoardInv, BoardTypeOK, Row
    <2> QED
      BY <2>1, BlackboardAssumption DEF Write, Bump
  <1>2. q \in WriteCall
    <2>1. [calls[a].next EXCEPT !.version = v] \in Row
      BY <1>0, <1>1 DEF WriteCall, Row
    <2> QED
      BY <1>0, <2>1 DEF WriteCall
  <1>3. calls' = [calls EXCEPT ![a] = q] /\ calls'[a] = q
    BY DEF BoardInv, BoardTypeOK, Write
  <1>4. /\ q.op = calls[a].op /\ q.key = calls[a].key /\ q.base = calls[a].base /\ q.stage = "written"
        /\ q.next.write = calls[a].next.write /\ q.next.version = v
        /\ calls[a].next = NoRow /\ calls[a].op = "delete" => q.next = NoRow
    BY <1>0 DEF WriteCall, Row, NoRow
  <1>5. CallFacts(a)'
    <2>1. CallFacts(a)
      BY DEF BoardInv
    <2> HIDE DEF q
    <2> QED
      BY <1>0, <1>3, <1>4, <2>1 DEF CallFacts, Told, Write, Matches, Bump
  <1>6. KeyFree(a, q.key)
    BY <1>4 DEF Write
  <1> HIDE DEF q
  <1> QED
    BY <1>2, <1>3, <1>5, <1>6, CallStep DEF Write

\* A call that ends without a write.
LEMMA AbortCallInv == ASSUME BoardInv, NEW a \in Agents, AbortCall(a) PROVE BoardInv'
  <1>1. calls'[a] = NoCall
    BY DEF BoardInv, BoardTypeOK, AbortCall
  <1>2. CallFacts(a)'
    BY <1>1, NoRowFacts DEF CallFacts
  <1> QED
    BY <1>2, NoRowFacts, CallStep DEF AbortCall

\* The commit publishes the row: the version is new, or the fact is deleted.
LEMMA CommitInv == ASSUME BoardInv, NEW a \in Agents, Commit(a) PROVE BoardInv'
  <1> SUFFICES ASSUME NEW q, q = calls[a], NEW k, k = q.key PROVE BoardInv'
    OBVIOUS
  <1> DEFINE event == IF q.op = "delete" THEN <<k, fact[k].version, Nothing>>
                      ELSE <<k, q.next.version, q.next.write>>
  <1>0. /\ q \in WriteCall /\ k \in Keys /\ q.op \in {"set", "cas", "delete"} /\ q.next \in Row
        /\ q.op = "delete" => q.next = NoRow /\ fact[k].version > 0
        /\ q.op # "delete" => q.next.version = fact[k].version + 1 /\ q.next.write \in Writes
    BY DEF BoardInv, BoardTypeOK, CallFacts, WriteCall, Commit
  <1>1. /\ fact' = [fact EXCEPT ![k] = q.next]
        /\ journal' = journal \cup {event}
        /\ shown' \in {shown, [shown EXCEPT ![a][k] = q.next]}
        /\ calls' = [calls EXCEPT ![a] = NoCall]
    BY DEF Commit, Journalled
  <1>2. fact[k].version \in 0 .. MaxVersion /\ q.next.version \in 0 .. MaxVersion
    BY <1>0 DEF BoardInv, BoardTypeOK, Row
  <1>3. fact'[k] = q.next /\ \A l \in Keys \ {k} : fact'[l] = fact[l]
    BY <1>0, <1>1 DEF BoardInv, BoardTypeOK
  <1>4. event \in Keys \X (1 .. MaxVersion) \X (Writes \cup {Nothing})
    <2>1. CASE q.op = "delete"
      <3>1. fact[k].version \in 1 .. MaxVersion
        BY <1>0, <1>2, <2>1
      <3> QED
        BY <1>0, <2>1, <3>1
    <2>2. CASE q.op # "delete"
      <3>1. q.next.version \in 1 .. MaxVersion
        BY <1>0, <1>2, <2>2
      <3> QED
        BY <1>0, <2>2, <3>1
    <2> HIDE DEF event
    <2> QED
      BY <2>1, <2>2
  <1>5. BoardTypeOK'
    <2>1. calls' \in [Agents -> WriteCall]
      BY <1>1, NoRowFacts DEF BoardInv, BoardTypeOK, WriteCall
    <2>2. fact' \in [Keys -> Row]
      BY <1>0, <1>1 DEF BoardInv, BoardTypeOK
    <2>3. shown \in [Agents -> [Keys -> Row]]
      BY DEF BoardInv, BoardTypeOK
    <2>4. [shown EXCEPT ![a][k] = q.next] \in [Agents -> [Keys -> Row]]
      BY <1>0, <2>3
    <2>5. shown' \in [Agents -> [Keys -> Row]]
      BY <1>1, <2>3, <2>4
    <2> QED
      BY <1>1, <1>4, <2>1, <2>2, <2>5 DEF BoardInv, BoardTypeOK, WriteCall
  <1>6. q.next.version > 0 => q.op # "delete" /\ event = <<k, q.next.version, q.next.write>>
    BY <1>0, NoRowFacts
  <1>7. q.op = "delete" => EverDeleted(k)'
    <2>1. event[1] = k /\ (q.op = "delete" => event[3] = Nothing)
      OBVIOUS
    <2> QED
      BY <1>1, <2>1 DEF EverDeleted
  <1>8. \A l \in Keys : EverDeleted(l) => EverDeleted(l)'
    BY <1>1 DEF EverDeleted
  <1>9. \A e \in journal : e[1] \in Keys /\ e[2] \in Nat
    BY DEF BoardInv, BoardTypeOK
  <1> HIDE DEF event
  <1>10. JournalFacts'
    <2>1. \A l \in Keys : fact'[l].version > 0 => Told(l, fact[l])'
      BY <1>1, <1>3, <1>6 DEF BoardInv, JournalFacts, Told
    <2>2. \A b \in Agents, l \in Keys : shown'[b][l].version > 0 => Told(l, shown[b][l])'
      <3>1. \A b \in Agents, l \in Keys :
              shown'[b][l] = shown[b][l] \/ (l = k /\ shown'[b][l] = q.next)
        <4>1. shown \in [Agents -> [Keys -> Row]]
          BY DEF BoardInv, BoardTypeOK
        <4>2. shown' = shown \/ shown' = [shown EXCEPT ![a][k] = q.next]
          BY <1>1
        <4> QED
          BY <1>0, <4>1, <4>2
      <3>2. Told(k, q.next)' \/ ~(q.next.version > 0)
        BY <1>1, <1>6 DEF Told
      <3> QED
        BY <1>1, <3>1, <3>2 DEF BoardInv, JournalFacts, Told
    <2>3. ASSUME NEW e \in journal', ~EverDeleted(e[1])' PROVE e[2] <= fact'[e[1]].version
      <3>1. CASE e = event
        <4>1. q.op # "delete" /\ e[1] = k /\ e[2] = q.next.version
          BY <1>7, <2>3, <3>1 DEF event
        <4> QED
          BY <1>2, <1>3, <4>1
      <3>2. CASE e \in journal /\ e[1] # k
        BY <1>3, <1>8, <1>9, <2>3, <3>2 DEF BoardInv, JournalFacts
      <3>3. CASE e \in journal /\ e[1] = k
        <4>1. q.op # "delete" /\ e[2] <= fact[k].version
          BY <1>0, <1>7, <1>8, <2>3, <3>3 DEF BoardInv, JournalFacts
        <4> QED
          BY <1>0, <1>2, <1>3, <1>9, <3>3, <4>1
      <3> QED
        BY <1>1, <3>1, <3>2, <3>3
    <2> QED
      BY <2>1, <2>2, <2>3 DEF JournalFacts
  <1>11. OneValue'
    <2>1. ASSUME NEW e \in journal, e[1] = event[1], e[2] = event[2], ~EverDeleted(e[1])'
          PROVE  FALSE
      <3>1. event[1] = k
        BY DEF event
      <3>2. q.op # "delete" /\ ~EverDeleted(k)
        BY <1>0, <1>7, <1>8, <2>1, <3>1
      <3>3. event[2] = fact[k].version + 1
        BY <1>0, <3>2 DEF event
      <3>4. e[2] <= fact[k].version
        BY <2>1, <3>1, <3>2 DEF BoardInv, JournalFacts
      <3> QED
        BY <1>2, <1>9, <2>1, <3>3, <3>4
    <2>2. ASSUME NEW e \in journal', NEW f \in journal', e[1] = f[1], e[2] = f[2],
                 ~EverDeleted(e[1])'
          PROVE  e = f
      <3>1. CASE e \in journal /\ f \in journal
        <4>1. ~EverDeleted(e[1])
          BY <1>8, <1>9, <2>2, <3>1
        <4> QED
          BY <2>2, <3>1, <4>1 DEF BoardInv, OneValue
      <3>2. CASE e = event /\ f # event
        BY <1>1, <2>1, <2>2, <3>2
      <3>3. CASE e # event /\ f = event
        BY <1>1, <2>1, <2>2, <3>3
      <3> QED
        BY <1>1, <3>1, <3>2, <3>3
    <2> QED
      BY <2>2 DEF OneValue
  <1>12. ASSUME NEW b \in Agents PROVE CallFacts(b)'
    <2>1. CASE b = a
      BY <1>1, <2>1, NoRowFacts DEF BoardInv, BoardTypeOK, CallFacts
    <2>2. CASE b # a
      <3>1. calls'[b] = calls[b] /\ CallFacts(b)
        BY <1>1, <2>2 DEF BoardInv, BoardTypeOK
      <3>2. calls[b].stage = "written" => fact'[calls[b].key] = fact[calls[b].key]
        <4>1. calls[b].stage = "written" => calls[b].key \in Keys /\ calls[b].key # k
          BY <1>0, <2>2, <3>1 DEF BoardInv, Mutex, HoldsKey, Commit, CallFacts
        <4> QED
          BY <1>3, <4>1
      <3> QED
        BY <1>1, <3>1, <3>2 DEF CallFacts, Told
    <2> QED
      BY <2>1, <2>2
  <1>13. Mutex'
    <2>1. \A b \in Agents, l \in Keys : HoldsKey(b, l)' => HoldsKey(b, l)
      BY <1>1, NoRowFacts DEF BoardInv, BoardTypeOK, HoldsKey
    <2> QED
      BY <2>1 DEF BoardInv, Mutex
  <1> QED
    BY <1>5, <1>10, <1>11, <1>12, <1>13 DEF BoardInv

\* A fact that expires keeps its version and its value.
LEMMA ExpireInv == ASSUME BoardInv, NEW k \in Keys, Expire(k) PROVE BoardInv'
  <1>0. fact \in [Keys -> Row]
    BY DEF BoardInv, BoardTypeOK
  <1>1. \A l \in Keys : /\ fact'[l] \in Row
                        /\ fact'[l].version = fact[l].version /\ fact'[l].write = fact[l].write
    BY <1>0 DEF Expire, Row
  <1>2. fact' \in [Keys -> Row]
    BY <1>0, <1>1 DEF Expire
  <1>3. BoardTypeOK'
    BY <1>2 DEF BoardInv, BoardTypeOK, Expire
  <1>4. ASSUME NEW a \in Agents PROVE CallFacts(a)'
    BY <1>1 DEF BoardInv, CallFacts, Told, Expire
  <1>5. Mutex'
    BY DEF BoardInv, Mutex, HoldsKey, Expire
  <1>6. OneValue'
    BY DEF BoardInv, OneValue, EverDeleted, Expire
  <1>7. \A e \in journal : e[1] \in Keys
    BY DEF BoardInv, BoardTypeOK
  <1>8. JournalFacts'
    BY <1>1, <1>7 DEF BoardInv, JournalFacts, EverDeleted, Told, Expire
  <1> QED
    BY <1>3, <1>4, <1>5, <1>6, <1>8 DEF BoardInv

\* Every step keeps the inductive invariant.
LEMMA BoardStepInv == ASSUME BoardInv, [BoardNext]_boardVars PROVE BoardInv'
  <1>1. CASE UNCHANGED boardVars
    BY <1>1 DEF boardVars, BoardInv, BoardTypeOK, CallFacts, Told, Mutex, HoldsKey,
                OneValue, EverDeleted, JournalFacts
  <1>2. ASSUME NEW a \in Agents, NEW k \in Keys, GetFact(a, k) \/ Begin(a, k)
        PROVE  BoardInv'
    BY <1>2, GetInv, BeginInv
  <1>3. ASSUME NEW a \in Agents, Write(a) \/ Commit(a) \/ AbortCall(a) PROVE BoardInv'
    BY <1>3, WriteInv, CommitInv, AbortCallInv
  <1>4. ASSUME NEW k \in Keys, Expire(k) PROVE BoardInv'
    BY <1>4, ExpireInv
  <1> QED
    BY <1>1, <1>2, <1>3, <1>4 DEF BoardNext

\* The inductive invariant holds in every reachable state.
LEMMA BoardInvariant == BoardSpec => []BoardInv
  <1>1. BoardInit => BoardInv
    BY BoardInitInv
  <1>2. BoardInv /\ [BoardNext]_boardVars => BoardInv'
    BY BoardStepInv
  <1> QED
    BY <1>1, <1>2, PTL DEF BoardSpec

---------------------------------------------------------------------------
\* Every reachable state has the types of BoardTypeOK (the columns of
\* blackboard_entries, and what a call may carry).
THEOREM BoardTypeCorrect == BoardSpec => []BoardTypeOK
  <1>1. BoardInv => BoardTypeOK
    BY DEF BoardInv
  <1> QED
    BY <1>1, BoardInvariant, PTL

\* However many agents race, a version of a fact that was never deleted names one
\* value for good, and the journal tells of the row that is there (setFact).
THEOREM VersionsNameValues == BoardSpec => []VersionNamesOneValue
  <1>1. BoardInv => VersionNamesOneValue
    BY DEF BoardInv, OneValue, JournalFacts, Told, VersionNamesOneValue
  <1> QED
    BY <1>1, BoardInvariant, PTL

\* For any number of racing writers, a conditional write that goes through replaces
\* the value its caller was shown (setFact with expected_version).
THEOREM NothingOverwrittenUnseen == BoardSpec => []NoStaleOverwrite
  <1>1. ASSUME BoardInv, NEW a \in Agents, calls[a].stage = "written", calls[a].op = "cas",
               ~EverDeleted(calls[a].key)
        PROVE  fact[calls[a].key].write = calls[a].base.write
    <2> DEFINE k == calls[a].key
    <2>1. /\ k \in Keys /\ Told(k, calls[a].base)
          /\ fact[k].version = calls[a].base.version /\ fact[k].version > 0
      BY <1>1 DEF BoardInv, CallFacts
    <2>2. Told(k, fact[k])
      BY <1>1, <2>1 DEF BoardInv, JournalFacts
    <2>3. <<k, fact[k].version, fact[k].write>> = <<k, fact[k].version, calls[a].base.write>>
      BY <1>1, <2>1, <2>2 DEF BoardInv, OneValue, Told
    <2> QED
      BY <2>3
  <1>2. BoardInv => NoStaleOverwrite
    BY <1>1 DEF NoStaleOverwrite
  <1> QED
    BY <1>2, BoardInvariant, PTL

---------------------------------------------------------------------------
\* Refinement.

Wishes == [a \in Agents |-> Wish(calls[a])]

\* No row and no call are no fact and no wish.
LEMMA NoneFacts == Store!NoFact = NoRow /\ Store!NoWish = Wish(NoCall)
  BY DEF Store!NoFact, Store!NoWish, NoRow, NoCall, Wish

\* A step of one call changes the wish of its agent.
LEMMA WishesFollow ==
  ASSUME BoardInv, NEW a \in Agents, NEW q, calls' = [calls EXCEPT ![a] = q]
  PROVE  Wishes' = [Wishes EXCEPT ![a] = Wish(q)]
  <1>1. calls'[a] = q /\ \A b \in Agents \ {a} : calls'[b] = calls[b]
    BY DEF BoardInv, BoardTypeOK
  <1>2. \A b \in Agents : Wish(calls[b])' = IF b = a THEN Wish(q) ELSE Wish(calls[b])
    BY <1>1 DEF Wish
  <1> QED
    BY <1>2, Zenon DEF Wishes

\* An agent without a call has no wish.
LEMMA IdleWishes ==
  ASSUME BoardInv, NEW a \in Agents, calls[a].stage = "idle"
  PROVE  Wishes[a] = Store!NoWish
  BY NoneFacts DEF BoardInv, CallFacts, Wishes

\* A read is a look at the store.
LEMMA GetLooks ==
  ASSUME BoardInv, NEW a \in Agents, NEW k \in Keys, GetFact(a, k)
  PROVE  Store!Look(a, k)
  <1>1. Wishes[a] = Store!NoWish
    BY IdleWishes DEF GetFact
  <1>2. Wishes' = Wishes
    BY DEF GetFact, Wishes, Wish
  <1> QED
    BY <1>1, <1>2, NoneFacts DEF GetFact, Visible, Store!Look, Wishes

\* A call that begins asks for its mutation.
LEMMA BeginAsks ==
  ASSUME BoardInv, NEW a \in Agents, NEW k \in Keys, Begin(a, k)
  PROVE  Store!Ask(a, k)
  <1>1. Wishes[a] = Store!NoWish
    BY IdleWishes DEF Begin
  <1>2. PICK op \in {"set", "cas", "delete"}, w \in Fresh, life \in {"lasting", "temporary"} :
          /\ op = "cas" => shown[a][k].version > 0
          /\ calls' = [calls EXCEPT ![a] =
               [op |-> op, stage |-> "begun", key |-> k,
                base |-> IF op = "cas" THEN shown[a][k] ELSE NoRow,
                next |-> IF op = "delete" THEN NoRow
                         ELSE [version |-> 0, write |-> w, life |-> life]]]
    BY DEF Begin
  <1> DEFINE q == [op |-> op, stage |-> "begun", key |-> k,
                   base |-> IF op = "cas" THEN shown[a][k] ELSE NoRow,
                   next |-> IF op = "delete" THEN NoRow
                            ELSE [version |-> 0, write |-> w, life |-> life]]
  <1>3. Wishes' = [Wishes EXCEPT ![a] = Wish(q)]
    BY <1>2, WishesFollow
  <1>4. w \in Writes
    BY DEF Fresh
  <1>5. CASE op = "set"
    <2>1. Wish(q) = [op |-> "set", key |-> k, version |-> 0, write |-> w, life |-> life]
      BY <1>5 DEF Wish, NoRow
    <2>2. Store!WishSet(a, k)
      BY <1>3, <1>4, <2>1 DEF Store!WishSet, Wishes
    <2> QED
      BY <1>1, <2>2 DEF Store!Ask, Begin, Wishes
  <1>6. CASE op = "cas"
    <2>1. Wish(q) = [op |-> "cas", key |-> k, version |-> shown[a][k].version,
                     write |-> w, life |-> life]
      BY <1>6 DEF Wish
    <2>2. Store!WishCas(a, k)
      BY <1>2, <1>3, <1>4, <1>6, <2>1 DEF Store!WishCas, Wishes
    <2> QED
      BY <1>1, <2>2 DEF Store!Ask, Begin, Wishes
  <1>7. CASE op = "delete"
    <2>1. Wish(q) = [op |-> "delete", key |-> k, version |-> 0, write |-> Nothing,
                     life |-> "lasting"]
      BY <1>7 DEF Wish, NoRow
    <2>2. Store!WishDelete(a, k)
      BY <1>3, <2>1 DEF Store!WishDelete, Wishes
    <2> QED
      BY <1>1, <2>2 DEF Store!Ask, Begin, Wishes
  <1> QED
    BY <1>5, <1>6, <1>7

\* A statement that has its row has not changed the store yet.
LEMMA WriteStutters ==
  ASSUME BoardInv, NEW a \in Agents, Write(a)
  PROVE  UNCHANGED <<fact, shown, Wishes, journal>>
  <1> DEFINE v == IF calls[a].op = "delete" THEN 0 ELSE Bump(calls[a])
             q == [calls[a] EXCEPT !.stage = "written", !.next.version = v]
  <1>1. calls[a] \in WriteCall
    BY DEF BoardInv, BoardTypeOK, WriteCall
  <1>2. Wish(q) = Wish(calls[a])
    BY <1>1 DEF Wish, WriteCall, Row
  <1>3. calls' = [calls EXCEPT ![a] = q]
    BY DEF Write
  <1> HIDE DEF q
  <1>4. Wishes' = [Wishes EXCEPT ![a] = Wishes[a]]
    BY <1>2, <1>3, WishesFollow DEF Wishes
  <1> QED
    BY <1>4 DEF Write, Wishes

\* A commit grants what was asked for, on the row that is there.
LEMMA CommitGrants ==
  ASSUME BoardInv, NEW a \in Agents, Commit(a)
  PROVE  Store!Grant(a)
  <1> DEFINE q == calls[a]
             k == q.key
             old == fact[k]
             new == IF q.op = "delete" THEN Store!NoFact
                    ELSE [version |-> old.version + 1, write |-> q.next.write,
                          life |-> q.next.life]
  <1>1. /\ q \in WriteCall /\ q.next \in Row /\ q.op \in {"set", "cas", "delete"}
        /\ q.op = "delete" => q.next = NoRow /\ old.version > 0
        /\ q.op # "delete" => q.next.version = old.version + 1
        /\ q.op = "cas" => old.version = q.base.version
    BY DEF BoardInv, BoardTypeOK, CallFacts, WriteCall, Commit
  <1>2. q.next = new
    BY <1>1, NoneFacts DEF Row
  <1>3. Wishes[a] = Wish(q) /\ Wish(q) # Store!NoWish
    BY <1>1 DEF Wishes, Wish, Store!NoWish
  <1>4. Wishes' = [Wishes EXCEPT ![a] = Store!NoWish]
    BY WishesFollow, NoneFacts DEF Commit
  <1>5. Journalled(q) =
          {<<k, IF q.op = "delete" THEN old.version ELSE new.version, new.write>>}
    BY <1>1, <1>2, NoneFacts DEF Journalled, NoRow
  <1>6. /\ fact' = [fact EXCEPT ![k] = new]
        /\ journal' = journal \cup
             {<<k, IF q.op = "delete" THEN old.version ELSE new.version, new.write>>}
        /\ shown' \in {shown, [shown EXCEPT ![a][k] = new]}
    BY <1>2, <1>5 DEF Commit
  <1>7. /\ Wish(q).op = q.op /\ Wish(q).key = k /\ Wish(q).version = q.base.version
        /\ Wish(q).write = q.next.write /\ Wish(q).life = q.next.life
    BY DEF Wish
  <1> QED
    BY <1>1, <1>3, <1>4, <1>6, <1>7 DEF Store!Grant, Wishes

\* A call that ends without a write is refused.
LEMMA AbortRefuses ==
  ASSUME BoardInv, NEW a \in Agents, AbortCall(a)
  PROVE  Store!Refuse(a)
  <1>1. Wishes' = [Wishes EXCEPT ![a] = Store!NoWish]
    BY WishesFollow, NoneFacts DEF AbortCall
  <1> QED
    BY <1>1 DEF AbortCall, Store!Refuse, Wishes

\* The blackboard implements FactStore: its initial state maps to the store's, and
\* every step to a step of the store or to none.  So the calls of racing agents
\* are atomic, whatever the order of their statements and commits.
THEOREM StoreRefinement == BoardSpec => ImplementsFactStore
  <1>1. BoardInit => Store!StoreInit
    <2> SUFFICES ASSUME BoardInit PROVE Store!StoreInit
      OBVIOUS
    <2>1. Wishes = [a \in Agents |-> Store!NoWish]
      BY NoneFacts DEF BoardInit, Wishes
    <2> QED
      BY <2>1, NoneFacts DEF BoardInit, Store!StoreInit, Wishes
  <1>2. BoardInv /\ [BoardNext]_boardVars => [Store!StoreNext]_(Store!storeVars)
    <2> SUFFICES ASSUME BoardInv, [BoardNext]_boardVars
                 PROVE  Store!StoreNext \/ UNCHANGED Store!storeVars
      OBVIOUS
    <2>1. ASSUME NEW a \in Agents, NEW k \in Keys, GetFact(a, k) \/ Begin(a, k)
          PROVE  Store!StoreNext
      BY <2>1, GetLooks, BeginAsks DEF Store!StoreNext
    <2>2. ASSUME NEW a \in Agents, Commit(a) \/ AbortCall(a)
          PROVE  Store!StoreNext
      BY <2>2, CommitGrants, AbortRefuses DEF Store!StoreNext
    <2>3. ASSUME NEW a \in Agents, Write(a)
          PROVE  UNCHANGED Store!storeVars
      BY <2>3, WriteStutters DEF Store!storeVars, Wishes
    <2>4. ASSUME NEW k \in Keys, Expire(k)
          PROVE  Store!StoreNext
      <3>1. Store!Age(k)
        BY <2>4 DEF Expire, Store!Age, Wish
      <3> QED
        BY <3>1 DEF Store!StoreNext
    <2>5. CASE UNCHANGED boardVars
      BY <2>5 DEF boardVars, Store!storeVars, Wish
    <2> QED
      BY <2>1, <2>2, <2>3, <2>4, <2>5 DEF BoardNext
  <1> QED
    BY <1>1, <1>2, BoardInitInv, BoardStepInv, PTL
       DEF BoardSpec, ImplementsFactStore, Store!StoreSpec
=============================================================================
