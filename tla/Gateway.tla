------------------------------- MODULE Gateway ------------------------------
(***************************************************************************)
(* One AgentMesh process as its clients meet it: the routes of http.ts,    *)
(* control/routes.ts, control/operator-routes.ts and web-auth/routes.ts    *)
(* with their guards (web-auth/middleware.ts, rate-limits.ts), the tools   *)
(* of mcp/server.ts, the readiness probe, start-up and shutdown            *)
(* (server.ts).                                                            *)
(*                                                                         *)
(* - A request is a chain of awaits: authenticate, each rate limit, the    *)
(*   handler's work, the journal, the answer.  Other requests run between  *)
(*   any two of them.                                                      *)
(* - Work is one transaction of a service; what the services do is the     *)
(*   subject of the other modules.  Revoke stands for every reason why a   *)
(*   credential ends: revocation, archiving, deletion, blocking, logout    *)
(*   and expiry.                                                           *)
(* - A request may be refused at any place where a guard or a handler      *)
(*   looks at it; what it looks at there is left out.                      *)
(* - The counters are @fastify/rate-limit's fixed windows, one table per   *)
(*   group.  Its cache of 5000 identities is taken as large enough.        *)
(***************************************************************************)
EXTENDS Naturals, FiniteSets, Sequences

CONSTANTS
    Slots, None,
    Tokens,          \* connection tokens of one project
    Sessions,        \* web sessions, all of one user
    User,
    Sources,         \* network addresses
    Routes,          \* the routes of this instance
    Limit, Window,   \* per group of limits
    MaxTime,         \* bound: the clock stops there
    MaxCalls,        \* bound: requests after start-up
    MaxTurns         \* bound: how often the database goes away or comes back

Tools == {"register", "sync", "send", "report_progress", "set_fact", "get_facts", "list_agents"}
Public == {"oauth_start", "invite_capture", "oauth_callback"}
\* "read" is every GET with a session, the owner's and the operator's: both count as
\* owner-read, and requireOperator's 403 is a RefuseStranger.
Reads == {"read", "bootstrap"}
Mutations == {"mutate", "connect", "redeem", "logout"}

AllRoutes == Tools \cup Public \cup Reads \cup Mutations \cup {"operate", "ready"}
Groups == {"mcp", "oauth-start", "oauth-callback", "invite-capture", "invite-redeem",
           "owner-read", "owner-mutation", "connection-create"}
Replies == {"ok", "failed", "internal", "refused", "limited", "ready", "unavailable"}

ASSUME GatewayAssumption ==
    /\ Routes \subseteq AllRoutes
    /\ None \notin Tokens \cup Sessions \cup Sources \cup {User}
    /\ None \notin Replies /\ None \notin {0, 1}
    /\ Sources \cap (Tokens \cup Sessions) = {}
    /\ Limit \in [Groups -> Nat \ {0}] /\ Window \in [Groups -> Nat \ {0}]
    /\ MaxTime \in Nat /\ MaxCalls \in Nat /\ MaxTurns \in Nat

VARIABLES
    now,      \* the clock
    alive,    \* credentials that are usable
    csrf,     \* number of the secret each session has now
    count,    \* the fixed window of each group and identity that was counted
    passed,   \* history: the requests a limit let through
    calls,    \* number of requests so far
    call,     \* the request in each slot
    database, \* whether it answers with the newest migration, and how often that changed
    flight,   \* the readiness check under way
    process   \* start-up, shutdown and the exit code

limits == <<count, passed>>
vars == <<now, alive, csrf, limits, calls, call, database, flight, process>>

Credentials == Tokens \cup Sessions
Identities == Credentials \cup Sources \cup {User, None}

Free == [nth |-> 0, route |-> None, who |-> None, secret |-> 0, ended |-> FALSE, stage |-> "idle",
         seen |-> 0, limits |-> <<>>, counted |-> FALSE, done |-> FALSE,
         reply |-> None, tell |-> 0, told |-> 0, wasUp |-> FALSE]

NoFlight == [on |-> FALSE, value |-> None, wasUp |-> FALSE]

Init ==
    /\ now = 0
    /\ alive = Credentials /\ csrf = [x \in Sessions |-> 0]
    /\ count = << >> /\ passed = {}
    /\ calls = 0 /\ call = [s \in Slots |-> Free]
    /\ database = [up |-> TRUE, turns |-> 0]
    /\ flight = NoFlight
    /\ process = [phase |-> "starting", signals |-> {}, closing |-> 0, failed |-> FALSE,
                  ends |-> 0, exit |-> None]

---------------------------------------------------------------------------
\* Routes: who may call them, and which limits they ask in which order.

CredentialsOf(r) ==
    IF r \in Tools THEN Tokens
    ELSE IF r \in Public THEN Sources
    ELSE IF r = "ready" THEN {None} ELSE Sessions

NeedsCsrf(r) == r \in Mutations \cup {"operate"}

LimitsOf(r) ==
    CASE r \in Tools                      -> <<"mcp">>
      [] r = "oauth_start"                -> <<"oauth-start">>
      [] r = "oauth_callback"             -> <<"oauth-callback">>
      [] r = "invite_capture"             -> <<"invite-capture">>
      [] r \in Reads                      -> <<"owner-read">>
      [] r = "redeem"                     -> <<"invite-redeem">>
      [] r = "connect"                    -> <<"owner-mutation", "connection-create">>
      [] r \in {"mutate", "logout", "operate"} -> <<"owner-mutation">>
      [] r = "ready"                      -> <<>>

\* Mutant: connections are counted per session.
IdentityOfSession(g, c) == c.who

\* byIp, bySession, byUser and byConnection.
Identity(g, c) == IF g = "connection-create" THEN User ELSE c.who

---------------------------------------------------------------------------
\* A request comes in.

Listening == process.phase = "listening" /\ process.closing = 0 /\ process.ends = 0

\* It comes too late: its credential has ended, or its CSRF secret was replaced.
Late(r, who, n) == (who \in Credentials \ alive) \/ (NeedsCsrf(r) /\ n # csrf[who])

\* Everything of the request is known; the public routes need no authentication.
Arrive(s, r, who) ==
    /\ Listening /\ calls < MaxCalls
    /\ call[s].stage = "idle" /\ r \in Routes \ {"ready"} /\ who \in CredentialsOf(r)
    /\ \E n \in IF NeedsCsrf(r) THEN 0 .. csrf[who] ELSE {0} :
         call' = [call EXCEPT ![s] = [Free EXCEPT
           !.nth = calls, !.route = r, !.who = who, !.secret = n, !.limits = LimitsOf(r),
           !.ended = Late(r, who, n),
           !.stage = IF r \in Public THEN "limit" ELSE "authenticate"]]
    /\ calls' = calls + 1
    /\ UNCHANGED <<now, alive, csrf, limits, database, flight, process>>

Answers(s, c, reply) == call' = [call EXCEPT ![s] = [c EXCEPT !.stage = "answered", !.reply = reply]]

Refused(s, stage) ==
    /\ call[s].stage = stage
    /\ Answers(s, call[s], "refused")
    /\ UNCHANGED <<now, alive, csrf, limits, calls, database, flight, process>>

\* Its headers are too large, or its host or origin is not one of ours.
RefuseAtDoor(s) ==
    Refused(s, IF call[s].route \in Public /\ ~call[s].counted THEN "limit" ELSE "authenticate")

\* No credential, no usable one, or the database cannot tell; no CSRF secret.
RefuseStranger(s) == Refused(s, "authenticate")

RefuseForgery(s) == Refused(s, "csrf")

\* The source cannot be told, or the counters' store fails.
RefuseUncounted(s) == call[s].limits # <<>> /\ Refused(s, "limit")

\* Path, query, body, cookies or idempotency key are unusable.
RefuseInput(s) == call[s].route \notin Public /\ Refused(s, "work")

\* So are the query and the cookies of a login or an invitation.
RefusePublicInput(s) == call[s].route \in Public /\ Refused(s, "work")

\* Mutant: the row is read, but revoked_at and the rest are not looked at.
MayEnterUnchecked(c) == TRUE

MayEnter(c) == c.who \in alive

\* authenticateProject, or sessionService.authenticate with the digest of the
\* CSRF secret the session has now.
Authenticate(s) ==
    LET c == call[s] IN
    /\ c.stage = "authenticate"
    /\ MayEnter(c)
    /\ call' = [call EXCEPT ![s].stage = IF NeedsCsrf(c.route) THEN "csrf" ELSE "limit",
                            ![s].seen = IF c.who \in Sessions THEN csrf[c.who] ELSE 0]
    /\ UNCHANGED <<now, alive, csrf, limits, calls, database, flight, process>>

\* verifyCsrf against the digest authenticate returned.
VerifyCsrf(s) ==
    /\ call[s].stage = "csrf"
    /\ call[s].secret = call[s].seen
    /\ call' = [call EXCEPT ![s].stage = "limit"]
    /\ UNCHANGED <<now, alive, csrf, limits, calls, database, flight, process>>

---------------------------------------------------------------------------
\* Limits.

\* The window of a key after one more request.
Counted(key) ==
    IF key \notin DOMAIN count \/ now >= count[key].since + Window[key[1]]
    THEN [n |-> 1, since |-> now]
    ELSE [count[key] EXCEPT !.n = IF @ <= Limit[key[1]] THEN @ + 1 ELSE @]

\* One guard of the chain; the request goes on, or is answered 429.
Guard(s) ==
    LET c == call[s]
        g == Head(c.limits)
        key == <<g, Identity(g, c)>>
        w == Counted(key)
    IN  /\ c.stage = "limit" /\ c.limits # <<>>
        /\ count' = [k \in DOMAIN count \cup {key} |-> IF k = key THEN w ELSE count[k]]
        /\ IF w.n > Limit[g]
           THEN /\ Answers(s, [c EXCEPT !.counted = TRUE], "limited")
                /\ passed' = passed
           ELSE /\ call' = [call EXCEPT ![s].limits = Tail(c.limits), ![s].counted = TRUE]
                /\ passed' = passed \cup {[group |-> g, who |-> c.who, at |-> now, nth |-> c.nth]}
        /\ UNCHANGED <<now, alive, csrf, calls, database, flight, process>>

Passed(s) ==
    /\ call[s].stage = "limit" /\ call[s].limits = <<>>
    /\ call' = [call EXCEPT ![s].stage = "work"]
    /\ UNCHANGED <<now, alive, csrf, limits, calls, database, flight, process>>
---------------------------------------------------------------------------
\* The handlers' work.

AtWork(s, routes) == call[s].stage = "work" /\ call[s].route \in routes

Committed(c) == [c EXCEPT !.done = TRUE]

\* One service call and its answer, or its failure.
Settles(s, routes) ==
    /\ AtWork(s, routes)
    /\ Answers(s, Committed(call[s]), "ok") \/ Answers(s, call[s], "failed")
    /\ UNCHANGED <<now, alive, csrf, limits, calls, database, flight, process>>

HandleRead(s) == Settles(s, {"read"})

HandleMutation(s) == Settles(s, {"mutate"})

IssueConnection(s) == Settles(s, {"connect"})

HandleOperator(s) == Settles(s, {"operate"})

\* The start and the callback of a login, and the capture of an invitation.
HandlePublic(s) == Settles(s, Public)

\* The invitation's cookie is cleared, whatever comes of the redemption.
Redeem(s) == Settles(s, {"redeem"})

\* GET /api/v1/session: rotateCsrf asks again for a usable session.
Bootstrap(s) ==
    LET c == call[s] IN
    /\ AtWork(s, {"bootstrap"})
    /\ IF c.who \in alive
       THEN csrf' = [csrf EXCEPT ![c.who] = @ + 1] /\ Answers(s, Committed(c), "ok")
       ELSE csrf' = csrf /\ Answers(s, c, "refused")
    /\ UNCHANGED <<now, alive, limits, calls, database, flight, process>>

\* DELETE /api/v1/session
Logout(s) ==
    /\ AtWork(s, {"logout"})
    /\ \/ alive' = alive \ {call[s].who} /\ Answers(s, Committed(call[s]), "ok")
       \/ alive' = alive /\ Answers(s, call[s], "failed")
    /\ UNCHANGED <<now, csrf, limits, calls, database, flight, process>>

\* Tools whose service journals its refusals itself.
TellsItself(tool) == tool \in {"register", "sync", "send"}

\* Mutant: agentmesh_send does not say that its service journals.
RecordedSyncOnly(tool) == tool \in {"register", "sync"}

\* domainFailureRecordedByService
RecordedByService(tool) == tool \in {"register", "sync", "send"}

One(b) == IF b THEN 1 ELSE 0

\* Rows a domain failure leaves in the journal: the service's, then runTool's.
Tellers(tool) == One(TellsItself(tool)) + One(~RecordedByService(tool))

\* runTool: the service commits, refuses (AgentMeshError, rolled back) or fails,
\* possibly without knowing whether its commit was carried out.
RunTool(s) ==
    LET c == call[s] IN
    /\ AtWork(s, Tools)
    /\ \/ Answers(s, Committed(c), "ok")
       \/ call' = [call EXCEPT ![s] = [c EXCEPT !.stage = "tell", !.tell = Tellers(c.route),
                                                 !.reply = "failed"]]
       \/ \E b \in BOOLEAN : call' = [call EXCEPT ![s] =
            [c EXCEPT !.stage = "tell", !.tell = 1, !.reply = "internal", !.done = b]]
    /\ UNCHANGED <<now, alive, csrf, limits, calls, database, flight, process>>

\* recordBestEffort: one row, or one line in the log when that fails.
Tell(s) ==
    LET c == call[s] IN
    /\ c.stage = "tell" /\ c.tell > 0
    /\ call' = [call EXCEPT ![s].tell = @ - 1, ![s].told = @ + 1]
    /\ UNCHANGED <<now, alive, csrf, limits, calls, database, flight, process>>

Told(s) ==
    /\ call[s].stage = "tell" /\ call[s].tell = 0
    /\ Answers(s, call[s], call[s].reply)
    /\ UNCHANGED <<now, alive, csrf, limits, calls, database, flight, process>>

Leave(s) ==
    /\ call[s].stage = "answered"
    /\ call' = [call EXCEPT ![s] = Free]
    /\ UNCHANGED <<now, alive, csrf, limits, calls, database, flight, process>>

Revoke(x) ==
    /\ x \in alive
    /\ alive' = alive \ {x}
    /\ UNCHANGED <<now, csrf, limits, calls, call, database, flight, process>>

Tick ==
    /\ now < MaxTime
    /\ now' = now + 1
    /\ UNCHANGED <<alive, csrf, limits, calls, call, database, flight, process>>

---------------------------------------------------------------------------
\* Readiness.

\* The database goes away, comes back, or is migrated by a newer release.
Turn ==
    /\ database.turns < MaxTurns
    /\ database' = [up |-> ~database.up, turns |-> database.turns + 1]
    /\ flight' = IF flight.on /\ database'.up THEN [flight EXCEPT !.wasUp = TRUE] ELSE flight
    /\ call' = [s \in Slots |-> IF call[s].stage = "waiting" /\ database'.up
                               THEN [call[s] EXCEPT !.wasUp = TRUE] ELSE call[s]]
    /\ UNCHANGED <<now, alive, csrf, limits, calls, process>>

\* GET /ready: singleFlight starts a check or joins the one under way.
AskReady(s) ==
    LET begun == IF flight.on THEN flight
                 ELSE [on |-> TRUE, value |-> None, wasUp |-> database.up]
        fresh == [Free EXCEPT !.route = "ready",
                    !.wasUp = IF begun.value = None THEN begun.wasUp ELSE database.up]
    IN  /\ Listening /\ "ready" \in Routes /\ calls < MaxCalls
        /\ call[s].stage = "idle"
        /\ calls' = calls + 1
        /\ flight' = begun
        /\ IF begun.value = None
           THEN call' = [call EXCEPT ![s] = [fresh EXCEPT !.stage = "waiting"]]
           ELSE Answers(s, fresh, begun.value)
        /\ UNCHANGED <<now, alive, csrf, limits, database, process>>

\* Mutant: a finished check stays the active one.
AfterKept(v) == [flight EXCEPT !.value = v]

After(v) == NoFlight

\* The check ends: it read the newest migration, or timed out, or failed; all
\* requests that wait for it are answered.
Check ==
    /\ flight.on /\ flight.value = None
    /\ \E v \in {"ready", "unavailable"} :
         /\ v = "ready" => database.up
         /\ call' = [s \in Slots |->
              IF call[s].stage = "waiting"
              THEN [call[s] EXCEPT !.stage = "answered", !.reply = v] ELSE call[s]]
         /\ flight' = After(v)
    /\ UNCHANGED <<now, alive, csrf, limits, calls, database, process>>

\* bounded: the request does not wait for the check any longer.
TimeOut(s) ==
    /\ call[s].stage = "waiting"
    /\ Answers(s, call[s], "unavailable")
    /\ UNCHANGED <<now, alive, csrf, limits, calls, database, flight, process>>

---------------------------------------------------------------------------
\* Start-up and shutdown.

services == <<now, alive, csrf, limits, calls, call, database, flight>>

\* startServer: migrations, the application, listen.
StartServer ==
    /\ process.phase = "starting"
    /\ \/ process' = [process EXCEPT !.phase = "listening"]
       \/ process' = [process EXCEPT !.phase = "ended", !.ends = 1, !.exit = 1, !.failed = TRUE]
    /\ UNCHANGED services

\* Mutant: close does not remember that it was called.
ClosesAgain == TRUE

FirstClose == process.closing = 0 /\ process.ends = 0

\* SIGINT or SIGTERM, each once: shutdown.
Signal(sig) ==
    /\ process.phase = "listening" /\ sig \notin process.signals
    /\ process' = IF FirstClose
                  THEN [process EXCEPT !.signals = @ \cup {sig}, !.closing = @ + 1]
                  ELSE [process EXCEPT !.signals = @ \cup {sig}, !.exit = 0]
    /\ UNCHANGED services

\* app.close waits for the requests in progress; it fails when an onClose hook
\* does, and the pool ends in either case, once a check gave its connection back.
\* A pool that is ended again refuses.
Close ==
    /\ process.closing > 0
    /\ \A s \in Slots : call[s].stage = "idle"
    /\ ~flight.on
    /\ \E failed \in BOOLEAN :
         process' = [process EXCEPT !.closing = @ - 1, !.ends = @ + 1,
                       !.failed = IF failed THEN TRUE ELSE @,
                       !.exit = IF failed \/ process.ends > 0 THEN 1 ELSE 0]
    /\ UNCHANGED services

\* Nothing keeps the process alive any longer.
Exit ==
    /\ process.phase = "listening" /\ process.closing = 0 /\ process.ends > 0
    /\ process' = [process EXCEPT !.phase = "ended"]
    /\ UNCHANGED services

Next ==
    \/ \E s \in Slots :
         \/ \E r \in Routes : \E who \in CredentialsOf(r) : Arrive(s, r, who)
         \/ RefuseAtDoor(s) \/ RefuseStranger(s) \/ RefuseForgery(s) \/ RefuseUncounted(s)
         \/ RefuseInput(s) \/ RefusePublicInput(s)
         \/ Authenticate(s) \/ VerifyCsrf(s) \/ Guard(s) \/ Passed(s)
         \/ HandleRead(s) \/ HandleMutation(s) \/ IssueConnection(s)
         \/ HandleOperator(s) \/ HandlePublic(s) \/ Redeem(s)
         \/ Bootstrap(s) \/ Logout(s)
         \/ RunTool(s) \/ Tell(s) \/ Told(s) \/ Leave(s)
         \/ AskReady(s) \/ TimeOut(s)
    \/ \E x \in Credentials : Revoke(x)
    \/ Tick \/ Turn \/ Check
    \/ StartServer \/ Close \/ Exit
    \/ \E sig \in {"SIGINT", "SIGTERM"} : Signal(sig)

Spec == Init /\ [][Next]_vars

---------------------------------------------------------------------------
\* Properties.

Counts == 0 .. MaxCalls

Call == [nth : Counts, route : Routes \cup {None}, who : Identities, secret : Nat, ended : BOOLEAN,
         stage : {"idle", "authenticate", "csrf", "limit", "work", "tell", "waiting", "answered"},
         seen : Nat, limits : Seq(Groups), counted : BOOLEAN, done : BOOLEAN,
         reply : Replies \cup {None},
         tell : 0 .. 2, told : 0 .. 2, wasUp : BOOLEAN]

\* Every variable has its shape.
TypeOK ==
    /\ now \in 0 .. MaxTime
    /\ alive \subseteq Credentials
    /\ csrf \in [Sessions -> Nat]
    /\ DOMAIN count \subseteq Groups \X Identities
    /\ \A k \in DOMAIN count : count[k] \in [n : 1 .. Limit[k[1]] + 1, since : 0 .. MaxTime]
    /\ passed \subseteq [group : Groups, who : Identities, at : 0 .. MaxTime, nth : Counts]
    /\ calls \in Counts
    /\ call \in [Slots -> Call]
    /\ database \in [up : BOOLEAN, turns : 0 .. MaxTurns]
    /\ flight \in [on : BOOLEAN, value : {None, "ready", "unavailable"}, wasUp : BOOLEAN]
    /\ process \in [phase : {"starting", "listening", "ended"},
                    signals : SUBSET {"SIGINT", "SIGTERM"}, closing : 0 .. 2,
                    failed : BOOLEAN, ends : 0 .. 2, exit : {None, 0, 1}]

\* Connections are limited per user, all else per source, session or connection.
SameSubject(p, q) ==
    p.group = q.group /\ (p.group = "connection-create" \/ p.who = q.who)

\* However requests are timed, and whatever sessions a user makes them from, less
\* than two limits' worth passes within the length of a window: all but the
\* first request of one window, and those of the window that follows.
LimitHolds ==
    \A p \in passed :
        Cardinality({q \in passed : SameSubject(p, q)
                        /\ p.at <= q.at /\ q.at < p.at + Window[p.group]}) < 2 * Limit[p.group]

\* A request that came after its connection or session had ended, or with a CSRF
\* secret that had been replaced, has no effect, reads nothing and uses up no
\* one's limit.  One that was already under way may still be carried out.
ShutOut == \A s \in Slots : call[s].ended => ~call[s].counted /\ ~call[s].done

\* A tool call that was answered with an error left exactly one row about it in
\* the journal (or one line in the log); a call that was refused changed nothing.
FailuresToldOnce ==
    \A s \in Slots :
        LET c == call[s] IN
        c.stage = "answered" /\ c.route \in Tools =>
            /\ c.reply \in {"failed", "internal"} => c.told = 1
            /\ c.reply \notin {"failed", "internal"} => c.told = 0
            /\ c.reply \in {"failed", "refused", "limited"} => ~c.done

\* A process that says it is ready had a usable database at some moment of the
\* check that the request waited for, however many requests share the check.
ReadyIsFresh == \A s \in Slots : call[s].reply = "ready" => call[s].wasUp

\* Signals may repeat: the pool ends once, with no request or check left, and the
\* exit code tells a failure only when there was one.
CleanExit ==
    /\ process.ends <= 1
    /\ process.ends > 0 => ~flight.on /\ \A s \in Slots : call[s].stage = "idle"
    /\ process.exit = 1 => process.failed
=============================================================================
