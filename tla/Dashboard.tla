------------------------------ MODULE Dashboard -----------------------------
(***************************************************************************)
(* The operator's dashboard: the page script of admin/ui/browser.ts, which *)
(* polls the activity events and messages of a project, against the rows   *)
(* admin/query-service.ts and control/read-service.ts read for it.         *)
(*                                                                         *)
(* - Every await of the script is a point where its other callbacks run; a *)
(*   load or poll that waits for its answers is kept in ops.  The requests *)
(*   for the summary and the agents can only make it wait or fail.         *)
(* - A change of project, tab or filter is a Switch.  All begin a new      *)
(*   generation; with one project and one filter per tab, a Switch to the  *)
(*   same tab stands for the first and the last of them.                   *)
(* - The Agents tab has no cursor and is left out, and so are the drawer   *)
(*   and delays: a timer may fire at any time.                             *)
(* - Events and messages draw their sequence when they are inserted and    *)
(*   can be read once they are committed, so that one may appear below a   *)
(*   higher one: late events and tardy messages.  The event that tells of  *)
(*   a message's sending is one of the Other events.                       *)
(***************************************************************************)
EXTENDS Naturals, FiniteSets, FiniteSetsExt

CONSTANTS
    Ops,         \* loads and polls in flight at the same time
    None,
    PageSize,    \* 50 rows
    MaxEvent, MaxMessage,  \* bounds on what the project's agents do
    MaxGen       \* bound: the operator stops switching

ASSUME DashboardAssumption ==
    /\ PageSize \in Nat \ {0}
    /\ MaxEvent \in Nat /\ MaxMessage \in Nat /\ MaxGen \in Nat
    /\ Ops # {} /\ IsFiniteSet(Ops)
    /\ None \notin {"boot", "start", "poll"}

Tabs == {"activity", "messages"}
Events == 1 .. MaxEvent
Messages == 1 .. MaxMessage
Other == 0

VARIABLES
    drawn,     \* the sequence numbers 1 .. drawn are given to events
    kind,      \* per event the message whose acknowledgement it tells, or Other
    committed, \* the events that can be read
    late,      \* those that were committed after a higher one
    numbered,  \* the sequence numbers 1 .. numbered are given to messages
    sent,      \* the messages that can be read
    tardy,     \* those that were committed after a higher one
    page,      \* the script's state, see NewPage
    rows,      \* how often each event and message has a row
    pending,   \* how often each event waits behind the New activity button
    unacked,   \* messages with a row that says Unacknowledged
    cursor,    \* state.sequences
    ops,       \* loads and polls in flight
    raced,     \* history: a poll began while a load of this generation was open
    crossed    \* history: messages whose row came together with their ack event

server == <<drawn, kind, committed, late, numbered, sent, tardy>>
shown == <<rows, pending, unacked, cursor, crossed>>
vars == <<server, page, shown, ops, raced>>

NoRows == [event |-> [e \in Events |-> 0], message |-> [m \in Messages |-> 0]]

NewPage == [gen |-> 0, owner |-> 0, tab |-> "activity", known |-> FALSE,
            ready |-> FALSE, active |-> FALSE, timer |-> FALSE]

NoOp == [by |-> None, owner |-> 0, gen |-> 0, tab |-> None, stage |-> "idle",
         events |-> {}, messages |-> {}, unacked |-> {}, after |-> [event |-> 0, message |-> 0],
         todo |-> {}]

Zero == [event |-> 0, message |-> 0]

\* boot has asked for the projects.
Init ==
    /\ drawn = 0 /\ kind = [e \in Events |-> Other]
    /\ committed = {} /\ late = {}
    /\ numbered = 0 /\ sent = {} /\ tardy = {}
    /\ page = NewPage
    /\ rows = NoRows /\ pending = NoRows.event /\ unacked = {} /\ cursor = Zero
    /\ \E o \in Ops : ops = [p \in Ops |->
          IF p = o THEN [NoOp EXCEPT !.by = "boot", !.stage = "projects"] ELSE NoOp]
    /\ raced = FALSE /\ crossed = {}

---------------------------------------------------------------------------
\* The project's agents.

Drawn == 1 .. drawn

Numbered == 1 .. numbered

Acked == {kind[e] : e \in committed} \ {Other}

\* sendMessage's INSERT draws the next sequence number.
DrawMessage ==
    /\ numbered < MaxMessage
    /\ numbered' = numbered + 1
    /\ UNCHANGED <<drawn, kind, committed, late, sent, tardy, page, shown, ops, raced>>

\* Its transaction ends, in whatever order.
CommitMessage(m) ==
    /\ m \in Numbered \ sent
    /\ sent' = sent \cup {m}
    /\ tardy' = IF \E n \in sent : n > m THEN tardy \cup {m} ELSE tardy
    /\ UNCHANGED <<drawn, kind, committed, late, numbered, page, shown, ops, raced>>

\* A transaction draws the next sequence number for its event.
DrawEvent ==
    /\ drawn < MaxEvent
    /\ drawn' = drawn + 1
    /\ \E k \in {Other} \cup sent :
         /\ k # Other => \A e \in Drawn : kind[e] # k
         /\ kind' = [kind EXCEPT ![drawn'] = k]
    /\ UNCHANGED <<committed, late, numbered, sent, tardy, page, shown, ops, raced>>

CommitEvent(e) ==
    /\ e \in Drawn \ committed
    /\ committed' = committed \cup {e}
    /\ late' = IF \E d \in committed : d > e THEN late \cup {e} ELSE late
    /\ UNCHANGED <<drawn, kind, numbered, sent, tardy, page, shown, ops, raced>>

---------------------------------------------------------------------------
\* Reads.

Above(S, n) == {x \in S : x > n}

\* ORDER BY sequence DESC LIMIT, and ASC for after.
Newest(S) == {x \in S : Cardinality(Above(S, x)) < PageSize}
Oldest(S) == {x \in S : Cardinality({y \in S : y < x}) < PageSize}

---------------------------------------------------------------------------
\* Operations of the page end.

\* Mutant: a load begun by a switch does not arm the timer when it is over.
RearmsUnlessSwitched(q) ==
    \/ q.by = "boot" /\ q.owner = page.owner
    \/ q.by = "poll" /\ q.owner = page.owner /\ page.active

\* The finally blocks of boot, startContextLoad and poll.
Rearms(q) ==
    \/ q.by = "boot" /\ q.owner = page.owner
    \/ q.by = "start" /\ q.owner = page.owner /\ q.gen = page.gen
    \/ q.by = "poll" /\ q.owner = page.owner /\ page.active

Ends(o, p) ==
    /\ page' = IF Rearms(ops[o])
               THEN [p EXCEPT !.timer = TRUE,
                              !.active = IF ops[o].by = "poll" THEN FALSE ELSE @]
               ELSE p
    /\ ops' = [ops EXCEPT ![o] = NoOp]

\* Mutant: answers are not checked against the state they were asked in.
CurrentUnchecked(q) == TRUE

Current(q) == q.gen = page.gen

\* A request fails (disconnected), or the answer is no longer wanted.
GiveUp(o) ==
    /\ ops[o].stage # "idle"
    /\ Ends(o, page)
    /\ UNCHANGED <<server, shown, raced>>

---------------------------------------------------------------------------
\* Loads.

\* loadProjects: the first project is selected and loaded in a new generation
\* with the same poll owner.
SelectProject(o) ==
    /\ ops[o].stage = "projects" /\ Current(ops[o])
    /\ page' = [page EXCEPT !.known = TRUE, !.gen = @ + 1]
    /\ ops' = [ops EXCEPT ![o].stage = "load", ![o].gen = page.gen + 1, ![o].tab = page.tab]
    /\ UNCHANGED <<server, shown, raced>>

\* The server answers with the newest page of the tab.
ReadRows(o) ==
    /\ ops[o].stage = "load" /\ Current(ops[o])
    /\ ops' = [ops EXCEPT ![o] =
         IF ops[o].tab = "activity"
         THEN [@ EXCEPT !.stage = "loaded", !.events = Newest(committed)]
         ELSE [@ EXCEPT !.stage = "loaded", !.messages = Newest(sent),
                        !.unacked = Newest(sent) \ Acked]]
    /\ UNCHANGED <<server, page, shown, raced>>

Top(S) == IF S = {} THEN 0 ELSE Max(S)

\* Mutant: the messages tab does not ask for the events there are already.
CursorAtNewest(q) ==
    [event |-> IF q.tab = "activity" THEN Top(q.events) ELSE Top(committed),
     message |-> Top(q.messages)]

LoadedCursor(q) == [event |-> Top(q.events), message |-> Top(q.messages)]

Once(n, S) == [x \in 1 .. n |-> IF x \in S THEN 1 ELSE 0]

Loaded(o) ==
    LET q == ops[o] IN
    /\ q.stage = "loaded" /\ Current(q)
    /\ rows' = [event |-> Once(MaxEvent, q.events), message |-> Once(MaxMessage, q.messages)]
    /\ unacked' = q.unacked
    /\ cursor' = LoadedCursor(q)
    /\ pending' = NoRows.event
    /\ crossed' = {}
    /\ Ends(o, [page EXCEPT !.ready = TRUE])
    /\ UNCHANGED <<server, raced>>

---------------------------------------------------------------------------
\* Polls.

PollIdle == ~page.active

\* The timer fires.  The poll loads what is not loaded yet, or asks for news.
Poll(o) ==
    /\ page.timer /\ PollIdle
    /\ ops[o].stage = "idle"
    /\ page' = [page EXCEPT !.timer = FALSE, !.active = TRUE]
    /\ ops' = [ops EXCEPT ![o] =
         [NoOp EXCEPT !.by = "poll", !.owner = page.owner, !.gen = page.gen, !.tab = page.tab,
            !.stage = IF page.ready THEN "fetch" ELSE IF page.known THEN "load" ELSE "projects",
            !.after = cursor,
            !.todo = IF page.tab = "messages" THEN {"event", "message"} ELSE {"event"}]]
    /\ raced' = (raced \/ \E p \in Ops : ops[p].stage \in {"load", "loaded"} /\ Current(ops[p]))
    /\ UNCHANGED <<server, shown>>

\* The timer fires while this owner's poll is active.
PollSkipped ==
    /\ page.timer /\ page.active
    /\ page' = [page EXCEPT !.timer = FALSE]
    /\ UNCHANGED <<server, shown, ops, raced>>

\* One page of fetchIncremental and, when there is no more, the last.
FetchEvents(o) ==
    LET q == ops[o]
        news == Above(committed, q.after.event)
        got == Oldest(news)
    IN  /\ q.stage = "fetch" /\ "event" \in q.todo /\ Current(q)
        /\ ops' = [ops EXCEPT ![o] = [q EXCEPT
             !.events = @ \cup got,
             !.after.event = IF got = {} THEN @ ELSE Max(got),
             !.todo = IF got = news THEN @ \ {"event"} ELSE @]]
        /\ UNCHANGED <<server, page, shown, raced>>

\* Mutant: the page after the cursor is taken from the newest end.
FetchNewestMessages(o) ==
    LET q == ops[o]
        news == Above(sent, q.after.message)
        got == Newest(news)
    IN  /\ q.stage = "fetch" /\ "message" \in q.todo /\ Current(q)
        /\ ops' = [ops EXCEPT ![o] = [q EXCEPT
             !.messages = @ \cup got,
             !.unacked = @ \cup (got \ Acked),
             !.after.message = IF got = {} THEN @ ELSE Max(got),
             !.todo = IF got = news THEN @ \ {"message"} ELSE @]]
        /\ UNCHANGED <<server, page, shown, raced>>

FetchMessages(o) ==
    LET q == ops[o]
        news == Above(sent, q.after.message)
        got == Oldest(news)
    IN  /\ q.stage = "fetch" /\ "message" \in q.todo /\ Current(q)
        /\ ops' = [ops EXCEPT ![o] = [q EXCEPT
             !.messages = @ \cup got,
             !.unacked = @ \cup (got \ Acked),
             !.after.message = IF got = {} THEN @ ELSE Max(got),
             !.todo = IF got = news THEN @ \ {"message"} ELSE @]]
        /\ UNCHANGED <<server, page, shown, raced>>

More(count, S) ==
    [x \in DOMAIN count |-> IF x \in S /\ count[x] < 2 THEN count[x] + 1 ELSE count[x]]

\* applyAcknowledgements looks at the rows there are, before new ones are added.
AcksIn(q) == {kind[e] : e \in q.events} \ {Other}

\* updateRows: a page that is scrolled only points to new events.
UpdateRows(q) ==
    \/ /\ rows' = [event |-> More(rows.event, q.events),
                   message |-> More(rows.message, q.messages)]
       /\ pending' = pending
    \/ /\ q.events # {}
       /\ rows' = [rows EXCEPT !.message = More(@, q.messages)]
       /\ pending' = More(pending, q.events)

\* All answers are there.
Fetched(o) ==
    LET q == ops[o] IN
    /\ q.stage = "fetch" /\ q.todo = {} /\ Current(q)
    /\ unacked' = (unacked \ AcksIn(q)) \cup q.unacked
    /\ UpdateRows(q)
    /\ cursor' = q.after
    /\ crossed' = crossed \cup (AcksIn(q) \cap q.unacked)
    /\ Ends(o, page)
    /\ UNCHANGED <<server, raced>>

---------------------------------------------------------------------------
\* The operator.

\* resetContext: a change of project empties both tables, others the tab's own.
ResetContext(t, project) ==
    /\ rows' = CASE project -> NoRows
                 [] ~project /\ t = "activity" -> [rows EXCEPT !.event = NoRows.event]
                 [] ~project /\ t = "messages" -> [rows EXCEPT !.message = NoRows.message]
    /\ pending' = NoRows.event
    /\ unacked' = IF t = "messages" \/ project THEN {} ELSE unacked
    /\ cursor' = Zero

\* bumpGeneration: polls and the timer of the old owner count no more.  Without
\* a project the load that follows ends at once, and the timer is set again.
NewGeneration(t) ==
    [page EXCEPT !.gen = @ + 1, !.owner = @ + 1, !.tab = t, !.ready = FALSE,
                 !.active = FALSE, !.timer = ~page.known]

\* A click on a tab, another project, another filter; then the view is loaded.
Switch(o, t, project) ==
    /\ page.gen < MaxGen
    /\ ops[o].stage = "idle"
    /\ project => page.known /\ t = page.tab
    /\ ResetContext(t, project)
    /\ page' = NewGeneration(t)
    /\ ops' = IF page.known
              THEN [ops EXCEPT ![o] = [NoOp EXCEPT !.by = "start", !.owner = page.owner + 1,
                                        !.gen = page.gen + 1, !.tab = t, !.stage = "load"]]
              ELSE ops
    /\ raced' = FALSE
    /\ UNCHANGED <<server, crossed>>

\* The button New activity.
ShowPending ==
    /\ pending # NoRows.event
    /\ rows' = [rows EXCEPT !.event = [e \in Events |->
                  IF @[e] + pending[e] > 2 THEN 2 ELSE @[e] + pending[e]]]
    /\ pending' = NoRows.event
    /\ UNCHANGED <<server, page, unacked, cursor, crossed, ops, raced>>

\* The window is hidden or shown: schedulePoll.
VisibilityChange ==
    /\ page' = [page EXCEPT !.timer = TRUE]
    /\ UNCHANGED <<server, shown, ops, raced>>

Next ==
    \/ DrawMessage \/ \E m \in Messages : CommitMessage(m)
    \/ DrawEvent \/ \E e \in Events : CommitEvent(e)
    \/ \E o \in Ops :
         \/ SelectProject(o) \/ ReadRows(o) \/ Loaded(o)
         \/ Poll(o) \/ FetchEvents(o) \/ FetchMessages(o) \/ Fetched(o)
         \/ GiveUp(o)
         \/ \E t \in Tabs, project \in BOOLEAN : Switch(o, t, project)
    \/ PollSkipped \/ ShowPending \/ VisibilityChange

Spec == Init /\ [][Next]_vars

---------------------------------------------------------------------------
\* Properties.

\* Every variable has the shape the script and the tables give it, and one owner
\* has one poll in flight at a time.
TypeOK ==
    /\ drawn \in 0 .. MaxEvent /\ numbered \in 0 .. MaxMessage
    /\ kind \in [Events -> Messages \cup {Other}]
    /\ late \subseteq committed /\ committed \subseteq Drawn
    /\ tardy \subseteq sent /\ sent \subseteq Numbered
    /\ page \in [gen : 0 .. MaxGen + 1, owner : 0 .. MaxGen, tab : Tabs, known : BOOLEAN,
                 ready : BOOLEAN, active : BOOLEAN, timer : BOOLEAN]
    /\ rows \in [event : [Events -> 0 .. 2], message : [Messages -> 0 .. 2]]
    /\ pending \in [Events -> 0 .. 2]
    /\ unacked \subseteq Messages /\ crossed \subseteq Messages
    /\ cursor \in [event : 0 .. MaxEvent, message : 0 .. MaxMessage]
    /\ \A o, p \in Ops :
         ops[o].by = "poll" /\ ops[p].by = "poll" /\ ops[o].owner = ops[p].owner => o = p
    /\ raced \in BOOLEAN

\* Rows without a gap and without a repetition, from the oldest one shown to the
\* cursor, but for those that were committed below ones already there.
Whole(count, top, all) ==
    /\ \A x \in DOMAIN count : count[x] <= 1 /\ (count[x] > 0 => x <= top)
    /\ \A x \in all : x <= top /\ (\E y \in DOMAIN count : y < x /\ count[y] > 0) => count[x] > 0

TablesWhole ==
    /\ Whole([e \in Events |-> rows.event[e] + pending[e]], cursor.event, committed \ late)
    /\ page.tab = "messages" => Whole(rows.message, cursor.message, sent \ tardy)

\* Whatever fails, is switched or answered late, the tables on the page have no
\* row twice and no gap, but for the event or message that was committed below
\* one already there (the cursor may have passed it, and it is then shown only
\* after the next load), provided that no poll began during a load of the same
\* view (only a window hidden or shown during the load lets one begin).
RowsWhole == page.ready /\ ~raced => TablesWhole

\* A message shown as unacknowledged is unacknowledged or its event is still to
\* be fetched, but for an event that was fetched together with the message or
\* was committed late.
AcksShown ==
    page.ready /\ ~raced /\ page.tab = "messages" =>
        \A m \in unacked \ crossed : \A e \in committed \ late :
            kind[e] = m => e > cursor.event

\* The page never goes to sleep: a timer is set, or something is in flight that
\* sets it when it is over, however often the operator switches.
KeepsPolling == page.timer \/ \E o \in Ops : Rearms(ops[o])
=============================================================================
