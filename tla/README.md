# A TLA+ verification of AgentMesh

AgentMesh lets coding agents of one project exchange messages, share facts and
report progress. Agents talk to an MCP server over HTTP with a project token;
people manage projects, invitations and connections in a web client with a
GitHub login; operators have a dashboard and a control API of their own. All
state is in one PostgreSQL database that every request reaches through a
READ COMMITTED transaction. What can go wrong is therefore mostly a matter of
*which statements of which transactions interleave*, of rows that were read
without a lock, of clocks that were read before a lock was granted, and of
replies that never arrive. That is what the modules here describe.

Paths below are relative to the repository; `tla/` holds nothing but modules,
TLC configurations, `PROJECT.json` (components, runs, mutants, the map from
definitions to source lines, findings, hazards, theorems) and this file.

## 1. Inventory

| component | state | operations | what makes it correct | module |
|---|---|---|---|---|
| mailbox: `messages/service.ts`, `agents/service.ts` (poll), `activity/service.ts` | `messages`, `activity_events` | `agentmesh_send`, `agentmesh_sync` | a retried send stores one message; a message is handed out until its recipient, having had it, acknowledges it, and never after; none is skipped | `Mailbox`, abstract `Inbox` |
| project access: `control/project-service.ts`, `control/connection-service.ts`, `control/operator-service.ts`, `projects/service.ts` | `users.blocked_at`, `projects`, `project_tokens`, owner rows of `project_memberships` | create, archive, restore, delete, issue, revoke, block, unblock, operator archive, assign owner, authenticate, CLI createProject | the active-project limit holds under races; only live tokens of active projects of unblocked owners are admitted; both records of ownership agree; no circular waits | `Access` |
| viewer invitations: `control/membership-service.ts` | `project_invitations`, `project_memberships` | create, redeem, revoke, remove viewer, delete project | a link admits one person, nobody once revoked; viewers have redeemed a link; the owner stays | `Membership`, abstract `Guestlist` |
| web sessions and login: `web-auth/*` | `web_sessions`, `oauth_attempts`, `users`, `auth_identities` | authenticate (touch), bootstrap (CSRF), logout, login callback (consume, upsert, issue or rotate), block | a blocked user has no session; a session has one successor; an attempt is spent once; no life beyond the absolute expiry; signing in again costs no time | `WebSession` |
| blackboard: `blackboard/service.ts` | `blackboard_entries` | set, compare-and-set, get, delete, TTL | a version names one value; no stale conditional write; a mutation is atomic | `Blackboard`, abstract `FactStore` |
| agents and progress: `agents/service.ts`, `pulse/*` | `agents`, `agent_progress_reports` | register, poll's touch, report, resolve blocker | one session is one agent; presence is honest; only an offline agent's blocker is resolved, once | `Presence` |
| operator dashboard: `admin/ui/browser.ts`, `admin/query-service.ts` | the page's tables, cursors, timer, generation | boot, select, switch, load, poll, show pending, visibility | no gap and no repetition in the tables, acknowledgements shown, polling never stops | `Dashboard` |
| HTTP admission, rate limits, process life: `http.ts`, `control/routes.ts`, `control/operator-routes.ts`, `web-auth/routes.ts`, `web-auth/middleware.ts`, `rate-limits.ts`, `server.ts` | requests under way, limit counters, the readiness check, start and shutdown | every API route, readiness, signals | no limit is passed; nobody gets in with an ended credential; readiness is fresh; the exit is clean | `Gateway` |
| MCP server: `mcp/server.ts` | none of its own | the seven tools | a failed call is journalled once and has changed nothing | `Gateway` |
| activity lists: `web/src/activity`, `control/read-service.ts` | rows, cursor, timer, reads under way | first load, poll, load more, switch, hide, leave; the service's queries | nothing is read that was never readable; polling goes on; the list catches up | `ActivityList` |
| web client pages: `web/src/app`, `auth`, `api`, `projects`, `connections`, `settings`, `pulse`, `invitations`, `ops` | session gate, route, the mounted page, requests under way | moves, loads, retries, forms, confirmations, logout | a page shows its route's subject; every wait ends | `Workspace` |
| observer role, cryptography and GitHub client, configuration, CLI, migrations, static assets | see section 8 | | | not modelled |

How they interact:

- An agent's tool call is *two* transactions: `authenticateProject` (Access)
  and the tool's own (Mailbox, Blackboard, Presence). They share no lock.
- Everything that stores something for a project also writes
  `activity_events` in the same transaction. That row names the project, and so
  share-locks it; this is how tool calls meet `deleteProject`, `restore` and
  `resolveBlocker`, which lock the project exclusively.
- The dashboard and the read services only read; the dashboard's cursor is the
  `sequence` of activity events and messages, which is drawn from a database
  sequence *before* the transaction commits, so rows become visible out of
  order.
- `blockUser` reaches into Access (owner check) and into WebSession (it revokes
  the sessions).
- The routes (Gateway) put the guards in front of the services: a request
  authenticates, passes its limits and works in separate transactions with
  awaits between them, so that what the first one found out may be over when the
  last one runs. The services' transactions are single steps there.
- The web client (Workspace, ActivityList) knows what the answers told it, in
  the order they arrive. A page is a React component that is mounted for a route;
  what outlives it is its requests.
- Deleting a project removes tokens, invitations, memberships, agents, messages
  and facts by `ON DELETE CASCADE`.

Hard behaviours, each at its line, are the `hazards` of `PROJECT.json`:
interleaved statements, lock orders, a retry that overlaps the original, a
lost reply, a clock read before a lock, out-of-order visibility, cascades
under open transactions, answers that arrive in another order than they were
asked for.

## 2. How a transaction is modelled

The six database modules (Mailbox, Access, Membership, WebSession, Blackboard,
Presence) share a convention.

- A request runs in a *slot*; the set of slots is a constant, so requests race
  each other by occupying several. One step is one SQL statement, or one
  locking statement; a request's `stage` says how far it is.
- Row locks are not variables. Which row a request holds follows from its
  operation and its stage (`HoldsProject(s, p)`), and a statement that needs a
  row has the guard that nobody else holds it (`ProjectFree(s, p)`). Lock modes
  (`FOR UPDATE`, the `KEY SHARE` of a foreign key) are told apart where the code
  depends on it.
- What a transaction wrote becomes visible in the step that commits it. Where
  its own earlier writes matter to a later statement (a poll that acknowledges
  and then reads), they are kept in the slot.
- A statement looks at the rows as they are when it runs, and a blocked
  `SELECT ... FOR UPDATE` looks again after the wait: READ COMMITTED.
- `Abort` can end a request at any stage: a refusal, a failed statement, a lost
  connection, a killed process, the victim of a deadlock. A crash is nothing
  else here, since all state is in the database.
- A reply can get lost after the commit where the client's knowledge matters
  (Mailbox); the client then repeats the request.
- Where the code compares times, `now` is a variable that advances by one at
  any moment up to `MaxTime`, and a request stores the reading at the place
  where the code takes it (`at`), usually before it waits for anything.

The process and the web client are single threads: one step is what runs between
two awaits, and other callbacks run between any two steps (Gateway, Dashboard,
ActivityList, Workspace).

Some variables have no counterpart in the code and are history: `received` and
`replies` in Mailbox (what clients have been told), `joined` in Membership,
`contact` and `granted` in Presence, `journal` in Blackboard (it is the
activity journal), `late`, `tardy`, `crossed` and `raced` in Dashboard, `passed`, `told`,
`ended` and `wasUp` in Gateway, `allowed` in ActivityList.

## 3. The modules and the code

`PROJECT.json` maps every definition to its lines; this is the overview.

**Mailbox.** `SendBegin, SendInsert, SendConflict, SendCommit, SendAbort` are
`sendMessage`: draw `sequence` and `INSERT ... ON CONFLICT DO NOTHING` (which
waits for an open insert of the same key), then either the sent event or the
look at the existing row, whose recipient and text must be those of the request.
`SyncBegin, SyncAcknowledge, SyncTouch, SyncRead, SyncCommit, SyncAbort` are
`syncAgent` in poll mode: acknowledge (waits for locked rows, then looks again
at `acknowledged_at IS NULL`), touch the agent row (the lock that serialises two
polls of one agent), read a page of `limit + 1` rows, journal and commit.
`Inbox` says the same with no transactions: post a letter once per sender and
key, exchange acknowledgements of received letters for a page of open ones.

**Access.** Each of the twelve operations is a path through `Begin, LockUser,
Recheck, LockProject, LockToken, LockOwner, Count, Look, Commit...`; `auth` is
`authenticateProject`, whose lookup without lock is in `Begin` (the rows to lock
are chosen from what was there) and whose decision is in `CommitAuth`.
`CreateProject` is the CLI's. `WaitsFor` is PostgreSQL's waits-for graph,
derived from the next statement of each request.

**Membership.** `RedeemLock, RedeemCheck, RedeemInsert, RedeemCommit` are
`redeem`; the owner's requests lock the project and then write. `Guestlist` is
the abstract single-use guest list.

**WebSession.** A request is a chain of transactions (`Continue`): a callback
consumes the attempt, talks to GitHub, upserts the identity, and then issues or
rotates a session. `Enter` reads the clock, `LockSession` and `LockUser` are the
joined `FOR UPDATE`, the remaining actions are the decisions and writes.

**Blackboard.** `Write` is the upsert or conditional update of `setFact`, or the
`DELETE`; `Commit` publishes it and journals. `Expire` passes the TTL: an
expired fact is not shown, but its row goes on counting versions. `FactStore` says
the same without locks: an agent wishes for a mutation, and at one moment it happens
to the row that is there, or not at all.

**Presence.** `Register, Insert, Touch, Share, CommitCreated, CommitKnown` are
`registerAgent`, the touch of `syncAgent` and `recordProgress`; `Resolve,
LockProject, LockReport, CommitResolved` are `resolveBlocker`. `StatusAt` is
`presence()`.

**Dashboard.** The page script is one thread; every `await` is a point where
other callbacks run. `Switch` is a change of project, tab or filter (a new
generation), `SelectProject, ReadRows, Loaded` are a load, `Poll, FetchEvents,
FetchMessages, Fetched` a poll, `GiveUp` is every failure path, `ShowPending`
the New activity button, `VisibilityChange` the listener. `DrawEvent`, `CommitEvent`,
`DrawMessage` and `CommitMessage` are the server's: an event and a message get their
sequence number when they are inserted and can be read when their transaction has
committed, in any order (`late` and `tardy` are those that came in below a number that
could already be read).

**Gateway.** A request arrives at a route (`Arrive`) and takes the steps of its
handler: `Authenticate` (the project token, or the session), `VerifyCsrf` for
mutations, one `Guard` per limit of its route (`LimitsOf`), then the work
(`HandleRead, HandleMutation, IssueConnection, HandleOperator, HandlePublic,
Redeem, Bootstrap, Logout`, or `RunTool` for a tool; the route `read` stands for the GETs of
owners and of operators, which pass the same limit), the journal (`Tell`) and
the answer (`Told, Leave`). The `Refuse` actions are the 4xx answers, each at
the place where the code can give it. `RecordedByService` says which failures
the services journal themselves; `runTool` tells the others. `AskReady, Check,
TimeOut` are the readiness probe with its single flight (`After` is its end) and
bound; `StartServer, Signal, Close, Exit` are `server.ts`. `Revoke` is every
reason why a credential ends, `Turn` the database.

**ActivityList.** `useProjectList` keeps the rows of the last accepted answer;
`Switch` is a new project in the route, which supersedes the first load of the old
one, `Active` whether a first load still counts, `Applied` what an answer does to
the rows. `Schedule, Fire, ChangeVisibility, LeavePage` are `useVisiblePolling`.
`ReadProject, ReadRows, CheckExists, ReadOne` are the statements of the read
services in the order each read issues them, `CanRead` their scope predicate.

**Workspace.** `Visit` is every link; it leaves the reads of the page behind and
keeps its mutations. `Mounted` is what a page asks when it appears, `Answer` an
answer and what the page does with it: `Accepted` decides whether it still may
(the generation counters and `active` flags), `Succeeded`, `Failed` and `Settled`
what it does. Each form and confirmation has its own action. `NameConfirmed` is
the server's check of a deletion. `Elsewhere` is another tab: it replaces the CSRF
secret or ends the session.

## 4. The runs

| run | instance | what it shows |
|---|---|---|
| `mailbox` | 2 agents, 2 keys, 2 texts, 2 sends and 2 polls at once, 2 sequence numbers, page of 1 or 2 | `OneMessagePerKey`, `RepliesHonest`, `AckedWasReceived`, `PageIsOpen`, `JournalExact`, `NothingSkipped`; every step is a step of `Inbox` (`ImplementsInbox`) |
| `mailbox_live` | 2 sends, 1 poll at a time, page of 1 | `EventuallyReceived` |
| `access` | 2 users, 2 projects, 2 keys, 1 token, any two of twelve operations, limit 1 | `ActiveWithinLimit`, `OwnershipAgrees`, `AdmittedIsEntitled`, `KeyStillUnused`, `NoDeadlock` (no circular wait without a restore) |
| `access_deadlock` | 1 user, 1 project, 1 token | violation: see section 5 |
| `membership` | owner and 2 others, 2 invitations, 3 requests | `SpentOnce`, `MembersLegitimate`, `ImplementsGuestlist` |
| `session` | 2 users, 3 sessions, 3 attempts, 2 requests; logins and blocks with the clock at rest, one session with the clock running to its absolute expiry, or a reauthentication beside a call that touches the session, with a shorter clock | `SessionsLegitimate`, `OneSuccessor`, `AttemptSpentOnce`, `LifeIsBounded`, `SuccessorLivesOn` |
| `blackboard` | 1 key, 3 agents, 4 writes | `VersionNamesOneValue`, `NoStaleOverwrite`; every step is a step of `FactStore` (`ImplementsFactStore`) |
| `presence` | 1 session, 2 profiles, 2 agent ids, 1 report, 3 requests, 5 ticks | `SessionsAgree`, `PresenceHonest`, `ResolvedWasOffline` |
| `dashboard` | 2 loads or polls in flight, 3 events, 3 messages, four of them together, 2 switches, page of 1 | `RowsWhole`, `AcksShown`, `KeepsPolling` |
| `gateway` | eleven routes, 2 requests at once, 1 connection, 2 sessions of a user, limits of 2 in windows of 1 and 2 ticks | `LimitHolds`, `ShutOut`, `FailuresToldOnce`, `ReadyIsFresh`, `CleanExit` |
| `lists` | 2 projects of up to 2 rows, page of 1, 1 poll and 2 other reads under way, 1 change or failure from outside | `ReadWasAllowed`, `PollingGoesOn`, `CatchesUp` |
| `workspace` | 2 subjects, nine pages in five neighbourhoods, up to 3 requests under way, 1 change from another tab | `ShownIsRoute`, `WaitsEnd` |

Each module has one type invariant, `TypeOK` (`BoardTypeOK`, `ListTypeOK`), which also
carries what the schema promises between columns (a token's project exists, a
session's user has an identity). It is proved for every module. Where such a promise depends on a rollback
it is also part of a property that a run checks (`SessionsLegitimate`).

### Why the bounds are enough for the question

Races here are between two requests, or between two requests and a third that
removes what they work on; that is where the number of slots comes from. Two
keys are what it takes to tell "one message per key" from "one message"; two
texts, a key reused with another body; a page of one with two messages makes
`has_more` true and a page full. A limit of one project with two projects and
two keys is the smallest at which two counts can both see room. Three sessions are an
original and two successors. The four writes of the blackboard let a third
writer come between a read and a conditional write, and another write follow.
`OnlineFor`, `OfflineAfter` and `CallLife` of Presence keep the order of the
real durations (5 minutes, 30 minutes, and a call's few milliseconds). In the session
run `IdleLife < AbsoluteLife` and both are reached within `MaxTime`. A
dashboard page of one row makes every second event overflow a page, and three rows of a
kind are one that is committed between two others, after a load or poll has passed it. A
page of one does the same in an activity list, where a project with two rows then has a second page. Limits of
two requests with four requests and a clock of two ticks let a window fill up,
roll over and fill up again; two sessions of a user tell a limit per user from one
per session. Two subjects are what it takes to show the wrong one.

### Scopes

Four runs have a state constraint, `Scope`, in their MC module: the states whose
successors are looked at. `MCDashboard` bounds events and messages together. In the other three it is a disjunction of scenarios that do not need each
other, so that each gets larger bounds than their product would allow.
`MCWebSession` runs all logins and blocks of two users with the clock at rest,
everything that can happen to one session with the clock running, and a rotation beside
calls with the clock running. `MCGateway` runs
creations of connections against the clock (`LimitScope`), any two requests against
revocations and signals (`ServeScope`), and readiness against the database and
signals (`ReadyScope`). `MCWorkspace` lets the tab move among the pages of one
neighbourhood; a page meets the pages from which its requests can still be under
way, and those that share its requests, with at most one request left over from a page
that is gone. What needs two scenarios at once (a rate limit filled while the
database is down, say) is not examined. Each scenario starts in `Init`, and no
liveness property is checked under a constraint.

The bounds: `MaxSeq` (no more messages are sent), `MaxLimit` (page size),
`JournalCap` (journal counts saturate at "many"), `MaxVersion`, `MaxCsrf`,
`MaxTime`, `MaxEvent`, `MaxMessage`, `MaxGen`; `MaxCalls` (requests after start-up) and
`MaxTurns` (of the database) in Gateway; `MaxRow`, `MaxReads`, `MaxPolls` and `Changes`
(what happens from outside) in ActivityList; `MaxAsks` and `Trips` in Workspace. `CallLife` is more than a bound:
the code sets no statement timeout, so that a call is over within it is an
assumption, and what Presence shows about an agent holds up to the life of its
longest call.

Symmetry: slots, ids, keys and texts are interchangeable where no property
names one, and TLC is told so in the safety runs; `mailbox_live` and `lists` use none,
because symmetry is not sound for liveness. All runs check deadlock but two:
in `gateway` the process ends after a signal, and in `lists` a page that was left and
whose reads are answered may stop for good.

### Fairness

Two specifications assume any. `FairSpec` of Mailbox says for every agent: it keeps
polling, and acknowledges in every poll what it has received (that is how
`agentmesh_sync` is documented to be used); a statement of its polls that is
enabled again and again is executed at last (PostgreSQL grants locks in turn,
and no transaction waits for a client while it holds one); and not every reply is lost. It is *strong* fairness
because a failing statement or another transaction's lock disables a step for a
while. Nothing is assumed of senders, and nothing keeps single statements or
replies from failing. Without the assumption on replies the property is false,
as it is for the program.

`Fairness` of ActivityList is weak: a timer that is set fires, and the queries of a
read and its delivery to the browser happen at last, or the fetch fails (which
is a delivery to the page, too). It says nothing of the user, of agents, and of how
often reads fail; that failures end is the bound `Changes`. The visible page, the
project and the right to read it have to stay as they are from some moment on:
that is the premise of `CatchesUp`.

## 5. Where the code and its documents disagree, and what else was noticed

**A restore deadlocks with token work** (`access_deadlock`,
`TokenWorkWithoutDeadlock`). `restore` locks the owner's `users` row and then
the project (`src/control/project-service.ts:252`); `issue`, `revoke` and
`authenticateProject` lock the project and then need the user's row. The alpha
design (`docs/superpowers/specs/2026-08-30-agentmesh-alpha-design.md:706`)
says that "concurrent token maintenance and tool calls follow project ->
project-token locking without deadlock", the control plane's design
(`...2026-08-31-agentmesh-hosted-control-plane-design.md:154`) that lock
ordering is unchanged. PostgreSQL aborts one of the two. `NoDeadlock` shows
that restore is the only operation of Access with this flaw.

**A form that is sent again makes a second project.** `submit` draws a key for every
submission (`web/src/projects/project-create-dialog.tsx:73`, likewise
`projects-page.tsx:72`, and `connections-page.tsx:81` for tokens). When a request is
carried out and its answer is lost, the form reports a failure and keeps what was typed;
the next submission has a new key and makes another project. The control plane's design
(`...hosted-control-plane-design.md:212`) requires idempotency "so browser retries cannot
create duplicate resources or multiple unseen secrets". The services keep their half, a
key that comes again is replayed (`KeyStillUnused`), but no form of the web client ever
sends one again. The plan of the web client
(`docs/superpowers/plans/2026-08-31-agentmesh-web-product-implementation.md:341`) asks for
a UUID "once per submit attempt", which is what the code does: the two documents differ.
The divergence is in that one line, and no run is about it; Workspace leaves keys out.

The following came up while modelling; no document says otherwise, or only a
process or a tab by itself is concerned. The properties above are stated so that they
do not depend on them:

- *A queued request is refused although its session is alive.* `authenticate` reads
  the clock before it waits for the session row and refuses a row whose
  `last_seen_at` is later than the reading (`src/web-auth/session-service.ts:163`,
  `228`). If the request with the later reading locks first, the other is answered 401.
  That refusal is also why `SuccessorLivesOn` holds of a rotation whose clock was read
  before it waited.
- *The operator dashboard can repeat or lose rows* after a window is hidden or shown during
  a load: `visibilitychange` (`src/admin/ui/browser.ts:345`) starts a poll beside a
  load of the same generation. `RowsWhole` exempts such generations (`raced`) and
  shows that nothing else breaks the tables.
- *A second signal after a failed close* finds the server closed, returns at once
  and sets the exit code to 0 (`src/server.ts:71`, `92`). `CleanExit` only says that no
  failure is reported that was none.
- *The settings page acts on the route's project while it still shows the one before*
  (`web/src/settings/project-settings.tsx:65`, `79`): archive, restore and the
  invitation link. A deletion is safe, because the server compares the typed name with
  the project's (`NameConfirmed`).
- *A late `onIssued` adds a connection's row to another project's list*
  (`web/src/connections/connections-page.tsx:84`, `224`) until it is loaded again; its token is
  not shown there (`ShownIsRoute`).
- *Team Pulse's fetch is not guarded* (`web/src/pulse/team-pulse-page.tsx:62`): the
  pulse of the day asked for before can replace the newer one.
- *Polls and further pages of a list are not guarded either*
  (`web/src/activity/use-project-list.ts:63`, `74`): for a while a list can show
  another project's rows, or a page twice. And the error of a failed first load is
  not taken away by a poll that succeeds. `CatchesUp` says what remains true.
- *A second tab makes the first one's mutations fail*: `GET /api/v1/session`
  replaces the CSRF secret (`src/web-auth/routes.ts:440`).
- *A failed redemption clears the invitation cookie* (`src/web-auth/routes.ts:426`),
  while the page offers to try again.

## 6. What the exemptions in the properties mean

- `RowsWhole` and `AcksShown` leave out events committed below a number that was
  already visible (`late`): the page never fetches them by its cursor, a reload
  shows them. `RowsWhole` leaves out messages of the same kind (`tardy`): `sequence` is
  drawn by the INSERT (`src/messages/service.ts:66`), and the page asks for what comes
  after the largest number it has (`src/admin/ui/browser.ts:229`, `298`), so one that is
  committed below that number is shown only after the next load. No document promises
  that polling is complete. Mailbox, whose polls have no cursor, needs no such exemption
  (`NothingSkipped`).
- `AcksShown` leaves out a message fetched by the same poll as its
  acknowledgement (`crossed`): the poll applies acknowledgements before it adds
  the new rows, so the badge stays wrong until the next load.
- `VersionNamesOneValue` and `NoStaleOverwrite` leave out facts that were
  deleted: `deleteFact` removes the version with the row and the key starts again
  at 1. No MCP tool calls `deleteFact`.
- `PresenceHonest` and `ResolvedWasOffline` allow for `CallLife`: clocks are read
  before the locks, so overlapping calls can move `last_seen_at` back by the life
  of a call.
- `ShutOut` is about requests that came after the end of their credential
  (`ended`). One that was admitted before is still carried out: nothing looks at
  the credential again.
- `LimitHolds` allows less than two limits' worth in a window's length, not one:
  windows are fixed, and two of them can meet.
- `CatchesUp` leaves out a list whose first load failed (`page.error`, see section 5).
- `ShownIsRoute` names the guarded pages; the settings page is not among them.

Circular waits other than restore's exist and are modelled as aborts: redeem
against the owner's requests, a block against a login or request of the same
user, `resolveBlocker` against `recordProgress`. No document promises their
absence; PostgreSQL ends them, and the requests can be repeated.

## 7. What is proved

TLAPS checks eight modules of proofs, one for each of Mailbox, Access, Membership,
WebSession, Gateway and Dashboard, `TeamProofs` for Presence and Blackboard, and
`ClientProofs` for ActivityList and Workspace: for every number of users, projects,
agents, tokens, keys, messages, facts, sessions, reports and concurrent requests, for
every lifetime, page size, rate limit and window. The modules that are proved about
together have names of their own for what both have (`BoardInit`, `ListSpec`, ...). The
proofs are about the specifications as the
modules state them, without the scopes of section 4. The only assumptions are the
`ASSUME`s of the modules: `None` is none of the values, `JournalCap >= 2`,
`Projects` is finite (its subsets are counted), `ProjectLimit`, the lifetimes and
the other bounds are naturals, a call is shorter than the five minutes an
agent is online, these shorter than the thirty until it is offline; in Gateway, limits
and windows are positive and an address is not a token or a session; in Dashboard and
ActivityList, pages are not empty and a project can have a row; in Workspace,
every subject has a name. TLC evaluates them in every run.

- *Mailbox*: `TypeCorrect`, `SendIdempotent` (`OneMessagePerKey`), `SendRepliesHonest`
  (`RepliesHonest`), `NoMessageLost` (`AckedWasReceived`), `RepliesOpen` (`PageIsOpen`), `PollSkipsNothing`
  (`NothingSkipped`), `JournalCorrect` (`JournalExact`), and `Refinement`: Mailbox
  implements Inbox.
- *Access*: `TypeCorrect`, `LimitRespected` (`ActiveWithinLimit`),
  `AdmissionSound` (`AdmittedIsEntitled`), `OwnershipConsistent`
  (`OwnershipAgrees`), `KeysReplay` (`KeyStillUnused`), `DeadlocksNeedRestore`
  (`NoDeadlock`).
- *Membership*: `TypeCorrect`, `InvitationsSpentOnce` (`SpentOnce`),
  `OnlyTheInvited` (`MembersLegitimate`), and `Refinement`: Membership implements
  Guestlist.
- *Blackboard*: `BoardTypeCorrect`, `VersionsNameValues` (`VersionNamesOneValue`),
  `NothingOverwrittenUnseen` (`NoStaleOverwrite`), and `StoreRefinement`: Blackboard
  implements FactStore.
- *WebSession*: `TypeCorrect`, `BlockedHaveNoSession` (`SessionsLegitimate`),
  `RotationsExclusive` (`OneSuccessor`), `AttemptsSpentOnce`
  (`AttemptSpentOnce`), `LivesBounded` (`LifeIsBounded`), `SuccessorsLiveOn`
  (`SuccessorLivesOn`).
- *Presence*: `TypeCorrect`, `OneAgentPerSession` (`SessionsAgree`),
  `PresenceSound` (`PresenceHonest`), `ResolutionsOffline`
  (`ResolvedWasOffline`).
- *Gateway*: `TypeCorrect`, `LateShutOut` (`ShutOut`), `ToolFailuresToldOnce`
  (`FailuresToldOnce`), `ReadinessFresh` (`ReadyIsFresh`), `ShutdownClean`
  (`CleanExit`), `LimitsRespected` (`LimitHolds`).
- *Dashboard*: `TypeCorrect`, `TablesStayWhole` (`RowsWhole`), `AcksReachThePage`
  (`AcksShown`), `NeverAsleep` (`KeepsPolling`).
- *ActivityList*: `ListTypeCorrect`, `NothingReadUnallowed` (`ReadWasAllowed`),
  `ListsKeepPolling` (`PollingGoesOn`).
- *Workspace*: `TabTypeCorrect`, `PagesShowTheirRoute` (`ShownIsRoute`),
  `WaitsAreAnswered` (`WaitsEnd`).

### The database modules

The argument is the same in all six. None of the properties is inductive: that
a create at its last stage has room says nothing unless one knows that no other
request can have used the room since; that a conditional write has matched the
version says nothing of the value unless versions name values; that the row says
offline says nothing of the last call unless a call's clock reading is at most
`CallLife` old when it commits. `IInv` therefore adds, first, that a row is locked
by one request at most (`Mutex`, in Presence `Locks`, in Mailbox the last parts of
`SendInv`, `KeyInv` and `SyncInv`), and second, what each request has *found out* in rows it
still locks (`SlotFacts`: the project exists and is active, the owner is not
blocked, the count is below the limit, the key is unused; in Blackboard
`CallFacts`: the next version is one more than the row's, and the expected row is
in the journal; in WebSession the session is unrevoked and its user unblocked; in
Presence the agent of a locked report was last seen too long ago). A step of another
request cannot disturb such a fact without holding the same row, which `Mutex`
excludes; a commit then only uses its own facts. There is one lemma per action,
`StepInv` joins them, and each theorem follows with `PTL`. The cardinalities
of `LimitRespected` rest on `RoomForOne` and `NoMore` (adding one project to a
finite set that is smaller than the limit). The refinements map every commit to
one abstract step and everything else to a stutter (`CommitPosts`,
`CommitExchanges`; `RedeemJoins`, `OwnerSteps`; `CommitGrants`).

Three results need more than what one request has found out.

*A successor lives on* (`SuccessorsLiveOn`) has an invariant of its own beside `IInv`,
`LifeInv`. The rotation's clock may be older than the rows it finds, but a request that
holds its session and user has compared its reading with `last_seen_at` (`Found`),
which is never before `last_authenticated_at`; nobody else touches the session while it holds it, and
the successor gets a new life from that reading, as long as any touch could have given its
predecessor. The predecessor is revoked in the same transaction and never touched again,
while every touch of the successor moves its times forward.

*No deadlock without a restore* (`DeadlocksNeedRestore`). Suppose requests wait for
each other in a circle that has no restore in it. A member that holds a user's row
is an `assignOwner` which has looked at its project without a lock and now waits for
it; any other one holds its project, waits for the row of the project's owner and holds no
user's row itself (`Waiter`). So for each `assignOwner` *s* of the circle, somebody
holds its project and waits for the project's owner, whose row another `assignOwner`
*r* has locked: *s* saw a project without an owner that by now belongs to the user of
*r* (`Handed`). `NoChain` says that every set of requests has a member that is handed
to none of them, and a circle would be a set without one (`DeadlockChains`). It is
inductive because a request that looks at its project, or locks its user, is itself
handed to nobody at that moment, and because a project gets an owner only from a
request that holds that user's row, which no other `assignOwner` can have locked then
(`ChainStep`, `NoChainStep`).

*A poll skips nothing* (`PollSkipsNothing`). What is owed to a poll is what was open
when it began. Those messages stay stored and keep their recipient (`OwedInv`,
`RowsKept`); at the read, each one is acknowledged by now, or it is among the open
messages the statement sees, and then it is on the page or there were more than
`limit` of them, all of the page older (`PageTells`, by counting the messages
`Below` a number). Nothing in this depends on the order of commits.

### Gateway

`IInv` has a part for each component of the process, and there is one lemma per
action or group of similar ones.

- `CallInv` says of each request by itself whether its credential has ended
  (`Barred`: it is at `authenticate` or at `csrf` with something that will be found
  wrong there, or already refused), how many journal rows are written and still to be
  written about it (`Journaled`), and that one that waits for the readiness check has
  seen the database up if it is up now (`Fresh`). Other requests do not disturb
  this; the clock, revocations and new secrets do, and only in the direction of a
  refusal.
- `FlightInv` says the same of the shared readiness check. The single flight is
  given up before its waiters are answered, so that a probe which comes later
  cannot be told an old result.
- `ProcessInv` counts the closes under way together with those done: never more than
  one, and none before start-up is over.
- `LimitInv` says of each counter that the first request of its window passed, that
  with it at most the limit did, and that all earlier requests which are still within
  a window's length of this window's begin are fewer than the limit
  (`WindowInv`). The latter is because of the former: the first request of the
  earlier window passed at its begin, too far back to be counted together with
  anything in this one. `TwoLimits` adds the two. The counts are cardinalities of
  parts of the history `passed`, so `FiniteSetTheorems` is used throughout
  (`Parts`, `LaterOutside`).

### Dashboard

None of the three properties is inductive. A load that is under way says nothing of the
tables unless it is the only one of its generation; a poll may only append what it
fetched if that continues where the tables end.

- `OpsInv`, `PollsInv`: what is under way and still wanted belongs to the present
  owner, generation and tab; each owner of the timer has one poll under way at most,
  and the present one has one while it is marked active.
- `LoadsInv`: unless `raced`, a page that is shown is not being loaded and a page
  that is not has one load. That is the reason for the exemption in `RowsWhole`.
- `ReadsInv`: a place up to which events were read is zero or a committed event.
  Whatever is committed at or below it later is `late`, so the set of events that the
  tables must show below their cursor does not grow behind their back.
  Messages are read in the same way (`sent`, `tardy`).
- `NewsInv`: unless `raced`, a poll has all that there is between the page's cursor
  and its own place, and no acknowledgement it has yet to apply is below the cursor.

With these, an answer extends a table without a gap by the rows that follow, each of
them once (`Joins`, `Joined`), and a load starts a table from one page (`Newest`,
`Oldest` and the lemmas on largest numbers). `RowsWhole`, `AcksShown` and
`KeepsPolling` are conjuncts of `IInv` themselves.

### The web client

*ActivityList.* `ListInv` speaks of each read by itself (`ReadOK`). A read that has
rows, or the word that its project exists, was allowed at some moment since it was
asked. That is not inductive where a first statement lets an unscoped one follow, so a
read of the overview or the pulse that has got as far as its rows was allowed as well,
and whoever may read a project now has been allowed in every read of it that is under
way; that is what a grant has to keep, while a revocation takes nothing back. Polling
goes on because the poll that settles sets the timer again, looking at the page as it is
then.

*Workspace.* `IInv` is `Whole(tab)`, with the types of the server's records. `Whole` has, besides the types, three parts, each a relation between
the tab and the set of its requests (`Elems`), so that neither their number nor their
order matters:

- `Gated`: while the gate is not open the view is empty and nothing but the session's
  request is waited for; while it is loading there is such a request, and once it is
  open there is none.
- `Routed`: what is mounted was asked for by the page there is, and a load or an issue
  that still counts by its generation was asked for the subject of the route.
- `Waits`: whatever the tab waits for (a skeleton, a busy form, a list without rows)
  has a request under way that is mounted and still counts.

`Waits` is a conjunct for each kind of wait, and its proof looks at what an answer takes
away. The answered request counts until its answer is applied; whatever that does to the
view must end the wait it was for and begin others only with requests of their own. A
page that is left turns its mutations into orphans (`Orphaned`), which nobody waits
for. Which requests stay is a recursive function on the sequence (`Kept`); that it
exists for every length is shown by the least length for which it would not
(`KeptExists`), without induction. `WaitsEnd` and the other theorems follow from these in a few
lines.

Proving these changed the model twice. `Failed` and `Leads` were CASE expressions with
overlapping arms, of which TLA+ may choose any; the conditions are now disjoint. And a
failed creation in the dialog of the project shell ended the busy state of the settings page
behind it, which the code keeps apart. `WaitsEnd` became stronger on the way: on the
project list a busy page waits for a creation, elsewhere for a change of state or
a deletion, not for just any mutation.

### What is only model-checked

`EventuallyReceived` and `CatchesUp`: liveness under fairness is out of TLAPS' reach
here.

## 8. What is not modelled, and why

- **Static assets and presentation** (`admin/ui/page.ts`, `http-wire.ts`, the guide,
  the components in `web/src/components`): security headers and markup, no state.
- **Parsing and schemas** in front of every route: functions of one request. Their
  refusals are the `Refuse` actions of Gateway.
- **What the operator's GET routes list**: it changes nothing. Their admission is that of
  Gateway's route `read` (`control/operator-routes.ts:94`: `requireOperator`, then the
  owner-read limit).
- **The cache of `@fastify/rate-limit`** keeps 5000 identities; Gateway takes it as
  large enough.
- **Observer role**: one transaction of grants under an advisory lock.
- **Cryptography, cookies, GitHub client**: stateless; their results are inputs
  of Access and WebSession.
- **Configuration, CLI, migrations**: run once, before anything is concurrent.
- **Parts of the web client**: the list in the project switcher, the fields of forms,
  the theme, the guide. Workspace tells the subjects of pages apart, not their rows.
- **Reading operations** other than the lists (`getDailyPulse`, the audit log's readers)
  change nothing; what they show is modelled where a property is about it
  (presence, blockers, dashboard pages, overview and pulse as reads of ActivityList).
- **The cascade's lock order** of `deleteProject` is PostgreSQL's own; the
  deletion is one step at the commit, and whoever waits for a removed row finds
  it gone.
- **Data**: bodies, names, JSON values, digests and tokens are model values.

## 9. Plan

Order of the modules written so far: Mailbox (the system's purpose), Access (who
may use it), Membership, WebSession, Blackboard, Presence, Dashboard, and then what
stands in front of them: Gateway, ActivityList, Workspace. What is left:

1. Composition of Access with Mailbox, to state what a call admitted before a
   revocation may still do to messages (Gateway says that it may).
2. Waits-for graphs in Membership, Presence and WebSession like the one of Access.
3. The observer role, whose grants race a migration.

## 10. Running the checks

In `tla/`:

    tlc -workers 2 -config Mailbox.cfg MCMailbox
    tlapm MailboxProofs.tla

The passing runs take from half a minute to four minutes; the proofs of a module
from one to ten minutes, those of `ClientProofs` about half an hour on one core.
