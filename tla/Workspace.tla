------------------------------ MODULE Workspace -----------------------------
(***************************************************************************)
(* One tab of the web client: the session gate, the route, the page that   *)
(* is mounted with the requests it has under way, and what an answer does  *)
(* to the page that is there when it comes (web/src/app, auth, api,        *)
(* projects, connections, settings, pulse, invitations, ops).              *)
(*                                                                         *)
(* - The server's part of a request and its answer are one step: what the  *)
(*   pages tell apart is which subject was asked for and when the answer   *)
(*   comes.  A lost answer is a failure whose effect took place.           *)
(* - A request is superseded, not counted: a generation that is counted up *)
(*   makes every older request not the latest.                             *)
(* - Leaving a page drops its reads, whose answers nothing looks at; its   *)
(*   mutations stay under way.                                             *)
(* - Subjects are projects, or users on the operator's pages.  The tab's   *)
(*   user owns the projects.  The lists' contents, the pages of the        *)
(*   activity lists (module ActivityList) and of the project switcher,     *)
(*   forms and texts are left out.                                         *)
(***************************************************************************)
EXTENDS Naturals, FiniteSets, Sequences

CONSTANTS
    Ids, None,
    Listing,     \* the subject of pages without an id
    Name,        \* the name of each subject
    Pages,       \* the pages of this instance
    MaxAsks,     \* bound: requests under way when the user does something
    Trips        \* bound: server-side changes from elsewhere

Bare == {"landing", "projects", "invite", "users"}
Detail == {"overview", "connections", "settings", "pulse", "user"}
Ops == {"users", "user"}

ASSUME WorkspaceAssumption ==
    /\ Pages \subseteq Bare \cup Detail /\ "landing" \in Pages
    /\ None \notin Ids /\ Listing \notin Ids \cup {None}
    /\ DOMAIN Name = Ids
    /\ MaxAsks \in Nat /\ Trips \in Nat

VARIABLES
    tab,      \* gate, token, route, view and the requests under way, oldest first
    server    \* the session, the operator's allowance, the projects, and trips so far

vars == <<tab, server>>

Subjects(p) == IF p \in Detail THEN Ids ELSE {Listing}

Area(p) == IF p = "landing" THEN "outside" ELSE IF p \in Ops THEN "ops" ELSE "app"

NewView(p) ==
    [data |-> None,             \* subject of the guarded part of the page
     rows |-> {},               \* subjects of the lists on the page
     failed |-> FALSE,
     loading |-> p = "pulse",
     busy |-> FALSE,            \* a lifecycle change is under way
     sub |-> FALSE,             \* so is a member, connection or blocker change
     open |-> None, typed |-> None,
     link |-> None,             \* project of the invitation link on the page
     secret |-> None,           \* project of the token on the page
     create |-> "closed"]       \* dialog for a new project

Request(kind, p, id, token) ==
    [kind |-> kind, page |-> p, id |-> id, typed |-> None, token |-> token,
     latest |-> TRUE, owner |-> "mounted", then |-> FALSE]

Mutating == {"state", "delete", "invite", "withdraw", "remove", "issue", "revoke", "resolve",
             "create", "redeem", "logout"}

\* What a page asks for when it is mounted, in the order of its effects.
FirstAsks(p, id, token) ==
    CASE p = "pulse"   -> <<Request("rows", p, id, token), Request("load", p, id, token)>>
      [] p = "invite"  -> <<Request("redeem", p, id, token)>>
      [] p = "landing" -> <<>>
      [] OTHER         -> <<Request("load", p, id, token)>>

\* The mutations among requests.
Kept(as) ==
    LET kept[n \in 0 .. Len(as)] ==
            IF n = 0 THEN <<>>
            ELSE IF as[n].kind \in Mutating THEN Append(kept[n - 1], as[n])
            ELSE kept[n - 1]
    IN  kept[Len(as)]

\* Requests after their page is gone: unmounted ("left") or unloaded ("gone").
Orphaned(as, how) ==
    LET kept == Kept(as)
    IN  [i \in 1 .. Len(kept) |-> [kept[i] EXCEPT !.owner = IF @ = "gone" THEN @ ELSE how]]

\* A SessionProvider is mounted, with its own ApiClient.
Provided(t, p, id, how) ==
    [page |-> p, id |-> id, token |-> None, view |-> NewView(p),
     gate |-> IF Area(p) = "outside" THEN "none" ELSE "loading",
     asks |-> Orphaned(t.asks, how) \o
              (IF Area(p) = "outside" THEN <<>> ELSE <<Request("session", p, id, None)>>)]

Init ==
    /\ \E p \in Pages : \E id \in Subjects(p) :
         tab = Provided([asks |-> <<>>], p, id, "gone")
    /\ \E operator \in BOOLEAN : \E there \in SUBSET Ids :
         server = [session |-> TRUE, operator |-> operator, trips |-> 0,
                   projects |-> [i \in Ids |-> IF i \in there THEN "active" ELSE "absent"]]

---------------------------------------------------------------------------
\* Routing.

Mounted(t, p, id) ==
    [t EXCEPT !.page = p, !.id = id, !.view = NewView(p),
              !.asks = Orphaned(t.asks, "left") \o FirstAsks(p, id, t.token)]

\* The cleanup of a load effect: older loads are not the latest any more.
Superseded(as, kinds) ==
    [i \in 1 .. Len(as) |->
        IF as[i].kind \in kinds /\ as[i].owner = "mounted"
        THEN [as[i] EXCEPT !.latest = FALSE] ELSE as[i]]

Replaced(t, kinds, new) == Superseded(t.asks, kinds) \o new

\* Mutant: a new route leaves the operator's busy flag as it was.
SettledBusyKept(v) == [NewView("user") EXCEPT !.busy = v.busy]

\* The operator's detail pages start over for a new subject.
Settled(v) == NewView("user")

\* Another id in the route of a page that stays mounted.
Switched(t, id) ==
    LET p == t.page
        v == t.view
        load == Request("load", p, id, t.token)
        rows == Request("rows", p, id, t.token)
        moved == [t EXCEPT !.id = id]
    IN  CASE p = "overview" ->
               [moved EXCEPT !.view = [NewView(p) EXCEPT !.create = v.create],
                             !.asks = Replaced(t, {"load"}, <<load>>)]
          [] p = "connections" ->       \* ConnectionCreator is unmounted too
               [moved EXCEPT !.view = [NewView(p) EXCEPT !.create = v.create],
                             !.asks = Replaced(t, {"load", "issue", "revoke"}, <<load>>)]
          [] p = "user" ->
               [moved EXCEPT !.view = Settled(v),
                             !.asks = Replaced(t, {"load", "state"}, <<load>>)]
          [] p = "settings" ->          \* shows what it showed
               [moved EXCEPT !.asks = Replaced(t, {"load"},
                    IF v.data = None THEN <<load>> ELSE <<rows, load>>)]
          [] p = "pulse" ->
               [moved EXCEPT !.view = [v EXCEPT !.data = None, !.failed = FALSE, !.loading = TRUE],
                             !.asks = Replaced(t, {"load"}, <<rows, load>>)]

\* navigate or a link
Go(t, p, id) ==
    IF Area(p) # Area(t.page) THEN Provided(t, p, id, "left")
    ELSE IF t.gate # "open" THEN [t EXCEPT !.page = p, !.id = id, !.view = NewView(p)]
    ELSE IF p # t.page THEN Mounted(t, p, id)
    ELSE IF id # t.id THEN Switched(t, id)
    ELSE t

\* window.location.assign
Assign(t, p, id) == Provided(t, p, id, "gone")

Idle == Len(tab.asks) <= MaxAsks

Visit(p, id) ==
    /\ Idle /\ <<p, id>> # <<tab.page, tab.id>>
    /\ tab' = Go(tab, p, id)
    /\ UNCHANGED server

Reload ==
    /\ Idle
    /\ tab' = Assign(tab, tab.page, tab.id)
    /\ UNCHANGED server

\* The button of the gate when the service could not be reached.
RefreshSession ==
    /\ tab.gate = "unavailable"
    /\ tab' = [tab EXCEPT !.gate = "loading",
                          !.asks = Append(@, Request("session", tab.page, tab.id, None))]
    /\ UNCHANGED server

\* Continue with GitHub leaves the application and comes back.
Login ==
    /\ tab.gate = "anonymous"
    /\ tab' = Assign(tab, tab.page, tab.id)
    /\ server' = [server EXCEPT !.session = TRUE]

---------------------------------------------------------------------------
\* The user on a page.

On(p) == tab.gate = "open" /\ tab.page = p

Sees(p) == On(p) /\ tab.view.data # None

\* The shell with its account menu and the dialog for a new project.
InShell ==
    /\ tab.gate = "open" /\ tab.page \in {"overview", "connections", "settings", "pulse"}
    /\ tab.page = "settings" => tab.view.data # None

\* A new view and a request of this page, made with the token of this tab: without
\* one, mutate fails by itself.
Asks(view, kind, id, kinds) ==
    /\ Idle
    /\ tab' = [tab EXCEPT !.view = view,
                 !.asks = Append(Superseded(@, kinds),
                     [Request(kind, tab.page, id, tab.token) EXCEPT
                         !.typed = IF kind = "delete" THEN view.typed ELSE None])]
    /\ UNCHANGED server

Shows(view) == tab' = [tab EXCEPT !.view = view] /\ UNCHANGED server

\* "Try again" of a page that could not be loaded.
Retry ==
    /\ On(tab.page) /\ tab.page \in {"overview", "connections", "user", "projects", "users"}
    /\ tab.view.failed /\ tab.view.data = None
    /\ Asks([tab.view EXCEPT !.failed = FALSE], "load", tab.id, {"load"})

OpenDialog ==
    LET v == tab.view IN
    /\ v.open = None
    /\ \E d \in {"state", "delete", "creator", "blocker"} :
         /\ CASE d = "state"   -> Sees("settings") \/ (Sees("user") /\ ~v.busy)
              [] d = "delete"  -> Sees("settings")
              [] d = "creator" -> Sees("connections")
              [] d = "blocker" -> Sees("pulse") /\ v.rows # {} /\ ~v.failed
         /\ Shows([v EXCEPT !.open = d])

\* Closing the creator forgets its result and that a request is under way.
CloseDialog ==
    LET v == tab.view IN
    /\ v.open # None
    /\ v.open = "blocker" => ~v.sub
    /\ Shows(IF v.open = "creator" THEN [v EXCEPT !.open = None, !.sub = FALSE, !.secret = None]
             ELSE [v EXCEPT !.open = None, !.typed = None])

TypeName ==
    /\ tab.view.open = "delete" /\ Sees("settings")
    /\ Shows([tab.view EXCEPT !.typed = Name[tab.view.data]])

\* Block or unblock, of the user that is shown.
ChangeUser ==
    /\ Sees("user") /\ tab.view.open = "state" /\ ~tab.view.busy
    /\ Asks([tab.view EXCEPT !.open = None, !.busy = TRUE], "state", tab.view.data, {"state"})

\* Archive, after its dialog, or restore, of the project in the route.
ChangeProject ==
    /\ Sees("settings") /\ tab.view.open \in {"state", None} /\ ~tab.view.busy
    /\ Asks([tab.view EXCEPT !.busy = TRUE], "state", tab.id, {})

\* The button is enabled by the name that is shown; the project is the route's.
DeleteProject ==
    /\ Sees("settings") /\ tab.view.open = "delete" /\ ~tab.view.busy
    /\ tab.view.typed = Name[tab.view.data]
    /\ Asks([tab.view EXCEPT !.busy = TRUE], "delete", tab.id, {})

CreateInvitation ==
    /\ Sees("settings") /\ ~tab.view.sub
    /\ Asks([tab.view EXCEPT !.sub = TRUE], "invite", tab.id, {})

RevokeInvitation ==
    /\ Sees("settings") /\ tab.view.rows # {} /\ ~tab.view.sub
    /\ Asks([tab.view EXCEPT !.sub = TRUE], "withdraw", tab.id, {})

RemoveViewer ==
    /\ Sees("settings") /\ tab.view.rows # {} /\ ~tab.view.sub
    /\ Asks([tab.view EXCEPT !.sub = TRUE], "remove", tab.id, {})

IssueConnection ==
    /\ Sees("connections") /\ tab.view.open = "creator"
    /\ tab.view.secret = None /\ ~tab.view.sub
    /\ Asks([tab.view EXCEPT !.sub = TRUE], "issue", tab.id, {})

\* In the list, or (then) in the creator, which starts over.
RevokeConnection ==
    /\ Sees("connections") /\ tab.view.rows # {}
    /\ \/ Asks(tab.view, "revoke", tab.id, {})
       \/ /\ Idle /\ tab.view.secret # None
          /\ tab' = [tab EXCEPT !.asks = Append(@,
                [Request("revoke", tab.page, tab.id, tab.token) EXCEPT !.then = TRUE])]
          /\ UNCHANGED server

\* Another day, or a refresh.
FetchPulse ==
    /\ On("pulse")
    /\ Asks([tab.view EXCEPT !.loading = TRUE, !.failed = FALSE], "rows", tab.id, {})

ResolveBlocker ==
    /\ On("pulse") /\ tab.view.open = "blocker" /\ ~tab.view.sub
    /\ Asks([tab.view EXCEPT !.sub = TRUE], "resolve", tab.id, {})

MoreUsers ==
    /\ Sees("users") /\ ~tab.view.loading
    /\ Asks([tab.view EXCEPT !.loading = TRUE, !.failed = FALSE], "more", tab.id, {})

\* The dialog of the shell, or the form of the page without projects.
OpenCreate ==
    /\ InShell /\ tab.view.create = "closed"
    /\ Shows([tab.view EXCEPT !.create = "open"])

CloseCreate ==
    /\ tab.view.create = "open"
    /\ Shows([tab.view EXCEPT !.create = "closed"])

CreateProject ==
    \/ /\ tab.view.create = "open"
       /\ Asks([tab.view EXCEPT !.create = "busy"], "create", tab.id, {})
    \/ /\ Sees("projects") /\ ~tab.view.busy
       /\ Asks([tab.view EXCEPT !.busy = TRUE], "create", tab.id, {})

RedeemAgain ==
    /\ On("invite") /\ tab.view.failed
    /\ Asks([tab.view EXCEPT !.failed = FALSE], "redeem", tab.id, {})

Logout ==
    /\ InShell \/ On("projects")
    /\ Asks(tab.view, "logout", tab.id, {})

---------------------------------------------------------------------------
\* The server.

\* deleteProject: confirm_name is the project's name.
NameConfirmed(a) == a.typed = Name[a.id]

There == {i \in Ids : server.projects[i] \in {"active", "archived"}}

Admits(a) ==
    /\ server.session
    /\ a.page \in Ops /\ a.kind # "session" => server.operator
    /\ a.kind \in Mutating => a.token = "fresh"
    /\ a.page \in Detail \ Ops /\ a.kind \notin {"create", "logout", "session"} => a.id \in There
    /\ a.kind = "delete" => NameConfirmed(a)

\* What an admitted request changes; id is the project a creation makes.
Effect(a, id) ==
    CASE a.kind = "delete" -> [server EXCEPT !.projects[a.id] = "deleted"]
      [] a.kind = "create" -> [server EXCEPT !.projects[id] = "active"]
      [] a.kind = "logout" -> [server EXCEPT !.session = FALSE]
      [] a.kind = "state" /\ a.page = "settings" ->
            [server EXCEPT !.projects[a.id] = IF @ = "active" THEN "archived" ELSE "active"]
      [] OTHER -> server

\* The subject an answer is about.
Result(a) ==
    CASE a.kind = "create" -> {i \in Ids : server.projects[i] = "absent"}
      [] a.kind = "redeem" -> There
      [] a.kind = "load" /\ a.page = "projects" /\ There # {} -> There
      [] OTHER -> {a.id}

---------------------------------------------------------------------------
\* Answers.

\* Mutant: a late load is shown.
AcceptedLate(a) == TRUE

\* The load generation, or the closure's active flag; lists are not guarded.
Accepted(a) == a.latest \/ a.page \in Bare

Shown(t, view) == [t EXCEPT !.view = view]

\* The view after an answer that succeeds.
Succeeded(t, a, id) ==
    LET v == t.view IN
    CASE a.kind = "load" ->
           IF ~Accepted(a) THEN t
           ELSE IF a.page = "projects" /\ id # Listing THEN Go(t, "overview", id)
           ELSE [t EXCEPT !.view = [v EXCEPT !.data = id,
                              !.rows = IF a.page = "connections" THEN {id} ELSE @],
                          !.asks = IF a.page = "settings" /\ v.data = None
                                   THEN Append(@, Request("rows", t.page, t.id, t.token)) ELSE @]
      [] a.kind = "rows" ->
           LET ends == a.then /\ a.latest IN
           Shown(t, [v EXCEPT !.rows = {id}, !.loading = FALSE, !.sub = @ /\ ~ends,
                       !.open = IF ends /\ a.page = "pulse" THEN None ELSE @])
      [] a.kind = "more" -> Shown(t, [v EXCEPT !.loading = FALSE])
      [] a.kind = "state" /\ a.page = "user" ->
           Shown(t, IF a.latest THEN [v EXCEPT !.busy = FALSE] ELSE v)
      [] a.kind = "state" /\ a.page = "settings" ->
           Shown(t, [v EXCEPT !.data = id, !.open = IF @ = "state" THEN None ELSE @, !.busy = FALSE])
      [] a.kind = "invite" -> Shown(t, [v EXCEPT !.link = id, !.sub = FALSE])
      [] a.kind \in {"withdraw", "remove"} ->
           [t EXCEPT !.view.link = IF a.kind = "withdraw" THEN None ELSE @,
                     !.asks = Append(@, [Request("rows", a.page, a.id, t.token) EXCEPT !.then = TRUE])]
      [] a.kind = "issue" ->     \* the list is the page's, the secret the creator's
           Shown(t, IF a.latest THEN [v EXCEPT !.rows = @ \cup {id}, !.secret = id, !.sub = FALSE]
                    ELSE [v EXCEPT !.rows = @ \cup {id}])
      [] a.kind = "revoke" ->
           Shown(t, IF a.then /\ a.latest THEN [v EXCEPT !.secret = None, !.sub = FALSE] ELSE v)
      [] a.kind = "resolve" ->
           [t EXCEPT !.view.loading = TRUE, !.view.failed = FALSE,
                     !.asks = Append(@, [Request("rows", a.page, a.id, t.token) EXCEPT
                                           !.then = TRUE, !.latest = a.latest])]
      [] OTHER -> t

\* The view after one that fails.
Failed(t, a) ==
    LET v == t.view IN
    CASE a.kind = "load" ->
           IF Accepted(a) /\ a.page # "pulse" THEN Shown(t, [v EXCEPT !.failed = TRUE]) ELSE t
      [] a.kind = "rows" /\ a.page = "pulse" ->     \* the radar is unmounted
           [t EXCEPT !.view = [v EXCEPT !.failed = TRUE, !.loading = FALSE, !.sub = FALSE, !.open = None],
                     !.asks = Superseded(@, {"resolve", "rows"})]
      [] a.kind = "rows" /\ a.page = "settings" -> Shown(t, [v EXCEPT !.sub = @ /\ ~a.then])
      [] a.kind = "more" -> Shown(t, [v EXCEPT !.failed = TRUE, !.loading = FALSE])
      [] a.kind = "state" /\ a.page = "user" ->
           Shown(t, IF a.latest THEN [v EXCEPT !.busy = FALSE] ELSE v)
      [] a.kind = "delete" \/ (a.kind = "state" /\ a.page = "settings") ->
           Shown(t, [v EXCEPT !.busy = FALSE])
      [] a.kind \in {"issue", "invite", "withdraw", "remove", "resolve"} ->
           Shown(t, IF a.latest THEN [v EXCEPT !.sub = FALSE] ELSE v)
      [] a.kind = "create" ->
           Shown(t, [v EXCEPT !.busy = @ /\ a.page # "projects",
                              !.create = IF @ = "busy" THEN "open" ELSE @])
      [] a.kind = "redeem" -> Shown(t, [v EXCEPT !.failed = TRUE])
      [] OTHER -> t

\* Where an answer takes the tab, whichever page it shows by then.
Leads(t, a, id, ok) ==
    IF a.owner = "gone" THEN t
    ELSE IF a.kind = "create" /\ ok THEN
           Go(IF a.owner = "mounted" THEN Shown(t, [t.view EXCEPT !.create = "closed"]) ELSE t, "overview", id)
    ELSE IF a.kind = "redeem" /\ ok THEN Go(t, "overview", id)
    ELSE IF a.kind = "delete" /\ ok THEN Assign(t, "projects", Listing)
    ELSE IF a.kind = "logout" THEN Assign(t, "landing", Listing)
    ELSE IF a.owner = "left" THEN t
    ELSE IF ok THEN Succeeded(t, a, id) ELSE Failed(t, a)

\* A 401 makes the client forget its token.
Forgets(t, a) ==
    [t EXCEPT !.token = IF ~server.session /\ a.owner # "gone" /\ Area(a.page) = Area(t.page)
                        THEN None ELSE @]

Without(t, i) ==
    [t EXCEPT !.asks = [j \in 1 .. Len(t.asks) - 1 |-> t.asks[IF j < i THEN j ELSE j + 1]]]

\* A new CSRF secret: what is under way with the old one is refused.
Staled(as) == [i \in 1 .. Len(as) |-> [as[i] EXCEPT !.token = IF @ = "fresh" THEN "stale" ELSE @]]

\* An answer arrives, as a success or as a failure, possibly of something done.
Answer(i) ==
    LET a == tab.asks[i]
        rest == Without(tab, i)
    IN  /\ a.kind # "session"
        /\ \/ /\ Admits(a)
              /\ \E id \in Result(a) :
                   /\ server' = Effect(a, id)
                   /\ \/ tab' = Leads(rest, a, id, TRUE)
                      \/ a.kind \in Mutating /\ tab' = Leads(rest, a, id, FALSE)
           \/ /\ tab' = Leads(Forgets(rest, a), a, a.id, FALSE)
              /\ UNCHANGED server
           \/ \* RECENT_AUTH_REQUIRED: a new login, then the settings again
              /\ a.kind = "delete" /\ a.owner # "gone" /\ Admits(a)
              /\ tab' = Assign(rest, "settings", a.id)
              /\ UNCHANGED server

\* loadSession: the page is mounted, or the gate says why not.
AnswerSession(i) ==
    LET a == tab.asks[i]
        t == [Without(tab, i) EXCEPT !.asks = IF server.session THEN Staled(@) ELSE @]
        open == [t EXCEPT !.gate = "open", !.token = "fresh"]
    IN  /\ a.kind = "session"
        /\ tab' \in
             IF server.session
             THEN {[t EXCEPT !.gate = "unavailable"],
                   IF t.page \in Ops /\ ~server.operator
                   THEN [t EXCEPT !.gate = "denied", !.token = "fresh"]
                   ELSE Mounted(open, t.page, t.id)}
             ELSE {[t EXCEPT !.gate = "anonymous"], [t EXCEPT !.gate = "unavailable"]}
        /\ UNCHANGED server

\* Elsewhere: another tab asks for the session, which replaces the CSRF secret,
\* or the session ends.
Elsewhere ==
    /\ server.trips < Trips
    /\ \/ /\ server.session /\ tab.token = "fresh"
          /\ tab' = [tab EXCEPT !.token = "stale", !.asks = Staled(@)]
          /\ server' = [server EXCEPT !.trips = @ + 1]
       \/ /\ server.session
          /\ server' = [server EXCEPT !.session = FALSE, !.trips = @ + 1]
          /\ tab' = tab

Next ==
    \/ \E p \in Pages : \E id \in Subjects(p) : Visit(p, id)
    \/ Reload \/ RefreshSession \/ Login
    \/ Retry \/ OpenDialog \/ CloseDialog \/ TypeName
    \/ ChangeUser \/ ChangeProject \/ DeleteProject
    \/ CreateInvitation \/ RevokeInvitation \/ RemoveViewer
    \/ IssueConnection \/ RevokeConnection
    \/ FetchPulse \/ ResolveBlocker \/ MoreUsers
    \/ OpenCreate \/ CloseCreate \/ CreateProject
    \/ RedeemAgain \/ Logout
    \/ \E i \in 1 .. Len(tab.asks) : Answer(i) \/ AnswerSession(i)
    \/ Elsewhere

Spec == Init /\ [][Next]_vars

---------------------------------------------------------------------------
\* Properties.

\* Every variable has its shape.
TypeOK ==
    LET Some == Ids \cup {Listing, None} IN
    /\ tab.page \in Bare \cup Detail /\ tab.id \in Subjects(tab.page)
    /\ tab.gate \in {"none", "loading", "anonymous", "unavailable", "denied", "open"}
    /\ tab.token \in {None, "fresh", "stale"}
    /\ tab.view \in [data : Some, rows : SUBSET (Some \ {None}), failed : BOOLEAN, loading : BOOLEAN,
                     busy : BOOLEAN, sub : BOOLEAN, open : {None, "state", "delete", "creator", "blocker"},
                     typed : {None} \cup {Name[i] : i \in Ids}, link : Some, secret : Some,
                     create : {"closed", "open", "busy"}]
    /\ \A i \in 1 .. Len(tab.asks) :
         LET a == tab.asks[i] IN
         /\ a.page \in Bare \cup Detail /\ a.id \in Subjects(a.page)
         /\ a.owner = "mounted" \/ (a.owner \in {"left", "gone"} /\ a.kind \in Mutating)
         /\ a.kind \in Mutating \cup {"session", "load", "rows", "more"}
         /\ a.token \in {None, "fresh", "stale"}
    /\ server \in [session : BOOLEAN, operator : BOOLEAN, trips : 0 .. Trips,
                   projects : [Ids -> {"absent", "active", "archived", "deleted"}]]
    /\ tab.gate # "open" => tab.view = NewView(tab.page)

\* However the user moves between subjects and whenever answers arrive, the
\* overview, the connections, Team Pulse's project and the operator's detail
\* pages show the subject of the route, and a token is only on the page of the
\* project it belongs to.
ShownIsRoute ==
    tab.page \in {"overview", "connections", "pulse", "user"} =>
        tab.view.data \in {None, tab.id} /\ tab.view.secret \in {None, tab.id}

UnderWay(kinds) ==
    \E i \in 1 .. Len(tab.asks) : tab.asks[i].kind \in kinds /\ tab.asks[i].owner = "mounted"

\* Whatever the tab waits for, a request is under way whose answer ends the wait,
\* whether it succeeds or fails: no page stays empty, no button disabled, and no
\* dialog closed to the user, for good.
WaitsEnd ==
    LET v == tab.view
        Awaited(kinds) == \E i \in 1 .. Len(tab.asks) :
            tab.asks[i].kind \in kinds /\ tab.asks[i].owner = "mounted"
                /\ (tab.asks[i].latest \/ tab.page \in Bare)
    IN  /\ tab.gate = "loading" => UnderWay({"session"})
        /\ tab.gate = "open" =>
             /\ tab.page \notin {"pulse", "invite"} /\ v.data = None /\ ~v.failed => Awaited({"load"})
             /\ tab.page = "invite" /\ ~v.failed => UnderWay({"redeem"})
             /\ v.loading => UnderWay({"rows", "more"})
             /\ v.busy => IF tab.page = "projects" THEN Awaited({"create"})
                          ELSE Awaited({"state", "delete"})
             /\ v.sub => \/ Awaited({"issue", "invite", "withdraw", "remove", "resolve"})
                         \/ \E i \in 1 .. Len(tab.asks) :
                              tab.asks[i].kind = "rows" /\ tab.asks[i].then /\ tab.asks[i].latest
             /\ v.create = "busy" => UnderWay({"create"})
=============================================================================
