---------------------------- MODULE ActivityList ----------------------------
(***************************************************************************)
(* One activity list of the web client (agents, messages or events of a    *)
(* project) over the read service it polls: web/src/activity and           *)
(* src/control/read-service.ts behind the handlers of control/routes.ts.   *)
(*                                                                         *)
(* - A row is its project and its place in that project's log; the rows    *)
(*   come newest first, Limit to a page.  An agent row's place is its      *)
(*   creation, a message's or an event's its sequence number.              *)
(* - Each query of a read is a step.  A read asks for the project first    *)
(*   (overview, pulse), after the rows when there are none (the lists), or *)
(*   never (one message); the first load's second request, for the project *)
(*   itself, is taken together with its rows.                              *)
(* - A lost answer, a refused one and a project that is not found are the  *)
(*   same failure to the page.  The delay of the poll timer, the banner    *)
(*   after a failed poll and the message dialog are left out.              *)
(* - The overview and Team Pulse are read by other pages of the same       *)
(*   project (module Workspace); here they, like an opened message, only   *)
(*   end in an answer.                                                     *)
(***************************************************************************)
EXTENDS Naturals, FiniteSets, Sequences, SequencesExt, FiniteSetsExt

CONSTANTS
    Projects, Nothing,
    Limit,       \* rows to a page
    MaxRow,      \* bound: rows of a project
    MaxReads,    \* bound: reads under way that are not polls
    MaxPolls,    \* bound: polls under way
    Changes      \* bound: new rows, failures, grants and revocations

ASSUME ActivityListAssumption ==
    /\ Nothing \notin Projects
    /\ Limit \in Nat \ {0} /\ MaxRow \in Nat \ {0} /\ Changes \in Nat
    /\ MaxReads \in Nat \ {0} /\ MaxPolls \in Nat \ {0}

VARIABLES
    log,        \* how many rows each project has
    readable,   \* the projects the tab's user owns or is a member of
    page,       \* the list page and its poll timer
    reads,      \* the reads under way, oldest first
    changes     \* new rows, failures, grants and revocations so far

listVars == <<log, readable, page, reads, changes>>

Row == [p : Projects, n : 1 .. MaxRow]

Lists == {"first", "poll", "more"}
Others == {"detail", "overview", "pulse"}
Kinds == Lists \cup Others

NewRead(kind, p, n) ==
    [kind |-> kind, p |-> p, n |-> n,
     stage |-> IF kind \in {"overview", "pulse"} THEN "project" ELSE "rows",
     rows |-> <<>>, cursor |-> Nothing, found |-> TRUE,
     latest |-> TRUE,           \* no first load was asked for after it
     allowed |-> p \in readable]   \* history: at some moment since it was asked

NewPage(p) ==
    [id |-> p, project |-> Nothing, rows |-> <<>>, cursor |-> Nothing, loading |-> TRUE,
     error |-> FALSE, mounted |-> TRUE, visible |-> TRUE, armed |-> TRUE]

ListInit ==
    /\ log = [p \in Projects |-> MaxRow - 1]
    /\ readable = Projects
    /\ page \in {NewPage(p) : p \in Projects}
    /\ reads = <<NewRead("first", page.id, Nothing)>>
    /\ changes = 0

CountOf(kinds) == Cardinality({i \in DOMAIN reads : reads[i].kind \in kinds})

Room == CountOf(Kinds \ {"poll"}) = 0

-----------------------------------------------------------------------------
(* The read service.                                                       *)

\* Mutant: the scope of a read is left out of its condition.
CanReadAny(p) == p \in Projects

\* scopePredicate: the owner or a member of the project.
CanRead(p) == p \in readable

\* The rows of p before place n, newest first, one more than a page.
Fetched(p, n) ==
    LET top == IF n = Nothing \/ n > log[p] THEN log[p] ELSE n - 1
    IN  [i \in 1 .. Min({top, Limit + 1}) |-> [p |-> p, n |-> top + 1 - i]]

PageOf(rows) == SubSeq(rows, 1, Min({Len(rows), Limit}))

CursorOf(rows) == IF Len(rows) > Limit THEN rows[Limit].n ELSE Nothing

\* The first query of getOverview; projectService.get before getDailyPulse.
ReadProject(i) ==
    /\ reads[i].stage = "project"
    /\ reads' = [reads EXCEPT ![i].stage = IF CanRead(reads[i].p) THEN "rows" ELSE "answered",
                             ![i].found = CanRead(reads[i].p)]
    /\ UNCHANGED <<log, readable, page, changes>>

\* The rows of a list; the first load reads its project beside them.
ReadRows(i) ==
    LET ask == reads[i]
        fetched == IF CanRead(ask.p) THEN Fetched(ask.p, ask.n) ELSE <<>>
    IN  /\ ask.kind \in Lists /\ ask.stage = "rows"
        /\ reads' = [reads EXCEPT ![i].rows = PageOf(fetched),
                                 ![i].cursor = CursorOf(fetched),
                                 ![i].stage = IF fetched = <<>> THEN "exists" ELSE "answered"]
        /\ UNCHANGED <<log, readable, page, changes>>

\* projectExists, asked only when there are no rows.
CheckExists(i) ==
    /\ reads[i].stage = "exists"
    /\ reads' = [reads EXCEPT ![i].stage = "answered", ![i].found = @ /\ CanRead(reads[i].p)]
    /\ UNCHANGED <<log, readable, page, changes>>

\* getMessage; the rest of getOverview; getDailyPulse, which is not scoped.
ReadOne(i) ==
    LET ask == reads[i]
        seen == CanRead(ask.p) \/ ask.kind = "pulse"
    IN  /\ ask.kind \notin Lists /\ ask.stage = "rows"
        /\ reads' = [reads EXCEPT
               ![i].stage = "answered",
               ![i].rows = IF ~seen THEN <<>>
                           ELSE IF ask.kind = "detail" THEN <<[p |-> ask.p, n |-> ask.n]>>
                           ELSE PageOf(Fetched(ask.p, Nothing)),
               ![i].found = ask.kind # "detail" \/ seen]
        /\ UNCHANGED <<log, readable, page, changes>>

-----------------------------------------------------------------------------
(* useVisiblePolling.                                                      *)

\* Mutant: the timer is set again without a look at the window.
ScheduleUnseen(v) == [v EXCEPT !.armed = v.mounted]

Schedule(v) == [v EXCEPT !.armed = v.mounted /\ v.visible]

Fire ==
    /\ page.armed /\ CountOf({"poll"}) < MaxPolls
    /\ page' = [page EXCEPT !.armed = FALSE]
    /\ reads' = Append(reads, NewRead("poll", page.id, Nothing))
    /\ UNCHANGED <<log, readable, changes>>

ChangeVisibility ==
    /\ page.mounted
    /\ page' = Schedule([page EXCEPT !.visible = ~@])
    /\ UNCHANGED <<log, readable, reads, changes>>

-----------------------------------------------------------------------------
(* useProjectList and the page on it.                                      *)

\* The cleanup of a first load clears its `active`.
Overtaken(as) ==
    [i \in DOMAIN as |-> [as[i] EXCEPT !.latest = @ /\ as[i].kind # "first"]]

Switch(p) ==
    /\ page.mounted /\ p # page.id
    /\ CountOf({"first", "more"}) < MaxReads /\ CountOf(Others) = 0
    /\ page' = [page EXCEPT !.id = p, !.loading = TRUE]
    /\ reads' = Append(Overtaken(reads), NewRead("first", p, Nothing))
    /\ UNCHANGED <<log, readable, changes>>

LeavePage ==
    /\ page.mounted
    /\ page' = [page EXCEPT !.mounted = FALSE, !.armed = FALSE]
    /\ reads' = Overtaken(reads)
    /\ UNCHANGED <<log, readable, changes>>

\* What ActivityFrame shows: a skeleton, "unavailable", or the list.
Listed == page.mounted /\ ~page.loading /\ page.project # Nothing /\ ~page.error

LoadMore ==
    /\ Listed /\ page.cursor # Nothing /\ Room
    /\ reads' = Append(reads, NewRead("more", page.id, page.cursor))
    /\ UNCHANGED <<log, readable, page, changes>>

\* Another page of the project asks for its overview or its pulse, or a row
\* is opened.
AskElsewhere(kind, n) ==
    /\ Listed /\ reads = <<>>
    /\ reads' = Append(reads, NewRead(kind, page.id, n))
    /\ UNCHANGED <<log, readable, page, changes>>

Applied(v, ask) ==
    [v EXCEPT !.rows = IF ask.kind = "more" THEN @ \o ask.rows ELSE ask.rows,
              !.cursor = ask.cursor]

\* Mutant: `active` is not looked at.
ActiveAlways(ask) == TRUE

\* The answer of the first load counts only while it is the latest.
Active(ask) == ask.latest

Succeeds(v, ask) ==
    CASE ask.kind = "first" ->
             IF Active(ask)
             THEN [Applied(v, ask) EXCEPT !.project = ask.p, !.error = FALSE, !.loading = FALSE]
             ELSE v
      [] ask.kind = "poll" -> Schedule(Applied(v, ask))
      [] ask.kind = "more" -> Applied(v, ask)
      [] OTHER -> v

Fails(v, ask) ==
    CASE ask.kind = "first" ->
             IF Active(ask) THEN [v EXCEPT !.error = TRUE, !.loading = FALSE] ELSE v
      [] ask.kind = "poll" -> Schedule(v)
      [] OTHER -> v

IsAnswered(ask) == ask.stage = "answered"

Deliver(i) ==
    /\ IsAnswered(reads[i])
    /\ reads' = RemoveAt(reads, i)
    /\ page' = IF ~page.mounted THEN page
               ELSE IF reads[i].found THEN Succeeds(page, reads[i]) ELSE Fails(page, reads[i])
    /\ UNCHANGED <<log, readable, changes>>

Lose(i) ==
    /\ changes < Changes
    /\ reads' = RemoveAt(reads, i)
    /\ page' = IF page.mounted THEN Fails(page, reads[i]) ELSE page
    /\ changes' = changes + 1
    /\ UNCHANGED <<log, readable>>

-----------------------------------------------------------------------------
(* Everyone else: agents add rows, memberships come and go.                *)

Grow(p) ==
    /\ changes < Changes /\ log[p] < MaxRow
    /\ log' = [log EXCEPT ![p] = @ + 1]
    /\ changes' = changes + 1
    /\ UNCHANGED <<readable, page, reads>>

SetReadable(ps) ==
    /\ changes < Changes /\ ps # readable
    /\ readable' = ps
    /\ changes' = changes + 1
    /\ reads' = [i \in DOMAIN reads |-> [reads[i] EXCEPT !.allowed = @ \/ reads[i].p \in ps]]
    /\ UNCHANGED <<log, page>>

Serve(i) == ReadProject(i) \/ ReadRows(i) \/ CheckExists(i) \/ ReadOne(i) \/ Deliver(i)

ListNext ==
    \/ Fire \/ ChangeVisibility \/ LeavePage \/ LoadMore
    \/ \E row \in Range(page.rows) : row.p = page.id /\ AskElsewhere("detail", row.n)
    \/ \E kind \in {"overview", "pulse"} : AskElsewhere(kind, Nothing)
    \/ \E p \in Projects : Switch(p) \/ Grow(p)
    \/ \E i \in DOMAIN reads : Serve(i) \/ Lose(i)
    \/ \E ps \in SUBSET Projects : SetReadable(ps)

\* The timer fires, the service answers each query, and the browser delivers
\* or fails every fetch.  People, agents and failures owe nothing.
Fairness ==
    /\ WF_listVars(Fire)
    /\ \A i \in 1 .. MaxReads + MaxPolls : WF_listVars(i \in DOMAIN reads /\ Serve(i))

ListSpec == ListInit /\ [][ListNext]_listVars /\ Fairness

-----------------------------------------------------------------------------
(* Properties.                                                             *)

ListTypeOK ==
    /\ log \in [Projects -> 0 .. MaxRow] /\ readable \subseteq Projects
    /\ page.id \in Projects /\ page.project \in Projects \cup {Nothing}
    /\ Range(page.rows) \subseteq Row
    /\ page.cursor \in 1 .. MaxRow \cup {Nothing}
    /\ changes \in 0 .. Changes
    /\ \A i \in DOMAIN reads :
           /\ reads[i].kind \in Kinds /\ reads[i].stage \in {"project", "rows", "exists", "answered"}
           /\ Range(reads[i].rows) \subseteq Row

\* Whatever order the queries of a read and the changes of memberships come
\* in, no row of a project and no word of its existence is in an answer unless
\* the reader could read that project at some moment since asking
\* (read-service scopePredicate, projectExists, getOverview; the pulse
\* handler's check before its unscoped read).
ReadWasAllowed ==
    \A i \in DOMAIN reads :
        LET ask == reads[i] IN
            (ask.rows # <<>> \/ (IsAnswered(ask) /\ ask.found)) => ask.allowed

\* The page that is left keeps no timer, and a page that is watched always has
\* a poll coming: its timer, or a poll whose settling sets the timer again
\* (useVisiblePolling `stopped`, `finally(schedule)`, `visibilitychange`).
PollingGoesOn ==
    LET polls == \E i \in DOMAIN reads : reads[i].kind = "poll"
    IN  IF page.mounted /\ page.visible THEN page.armed \/ polls ELSE ~page.armed

\* A list that stays watched, on a project that stays readable, ends up
\* naming that project and showing its newest row first, whatever was answered
\* late, lost or answered for another project before (useProjectList).  Only a
\* first load that failed is final: a poll does not take its error away.
Newest(p) == IF log[p] = 0 THEN page.rows = <<>>
             ELSE page.rows # <<>> /\ page.rows[1] = [p |-> p, n |-> log[p]]

Watched(p) == page.mounted /\ page.visible /\ page.id = p /\ p \in readable

CatchesUp ==
    \A p \in Projects :
        <>[]Watched(p) => <>[](page.error \/ (Listed /\ page.project = p /\ Newest(p)))
=============================================================================
