--------------------------- MODULE GatewayProofs ----------------------------
(***************************************************************************)
(* Proofs about Gateway.tla for any number of concurrent requests, routes, *)
(* connections and sessions, any limits and windows: the type invariant    *)
(* and the safety invariants.                                              *)
(***************************************************************************)
EXTENDS Gateway, FiniteSetTheorems, TLAPS

\* A request whose credential has ended is on its way to a refusal: the session
\* or connection is not usable, or the CSRF secret is not the one that
\* authenticate returns.
Barred(c) ==
    c.ended =>
        /\ c.stage \in {"authenticate", "csrf", "answered"} /\ ~c.counted /\ ~c.done
        /\ c.stage = "authenticate" =>
             \/ c.who \in Credentials \ alive
             \/ NeedsCsrf(c.route) /\ c.who \in Sessions /\ c.secret < csrf[c.who]
        /\ c.stage = "csrf" => c.secret < c.seen

\* Rows of the journal, written and still to be written, of a tool call.
Journaled(c) ==
    /\ c.stage \notin {"tell", "answered"} => c.tell = 0 /\ c.told = 0 /\ ~c.done
    /\ c.stage = "tell" =>
         /\ c.route \in Tools /\ c.tell + c.told = 1
         /\ c.reply \in {"failed", "internal"} /\ (c.reply = "failed" => ~c.done)
    /\ c.stage = "answered" /\ c.route \in Tools =>
         /\ c.reply \in {"failed", "internal"} => c.told = 1
         /\ c.reply \notin {"failed", "internal"} => c.told = 0
         /\ c.reply \in {"failed", "refused", "limited"} => ~c.done

\* A request that waits for the readiness check saw the database up if it is up.
Fresh(c) ==
    /\ c.stage = "waiting" /\ database.up => c.wasUp
    /\ c.reply = "ready" => c.wasUp

CallOK(c) == c \in Call /\ Barred(c) /\ Journaled(c) /\ Fresh(c)

CallInv == \A s \in Slots : CallOK(call[s])

FlightInv == flight.value = None /\ (flight.on /\ database.up => flight.wasUp)

Quiet == ~flight.on /\ \A s \in Slots : call[s].stage = "idle"

\* The pool is closed once, after start-up, when nothing is under way.
ProcessInv ==
    /\ process.closing + process.ends <= 1
    /\ process.phase = "starting" => process.closing = 0 /\ process.ends = 0
    /\ process.phase = "starting" \/ process.ends > 0 => Quiet
    /\ process.exit = 1 => process.failed

\* The key under which a request was counted.
KeyOf(p) == <<p.group, IF p.group = "connection-create" THEN User ELSE p.who>>

At(P, k) == {p \in P : KeyOf(p) = k}

From(P, a) == {q \in P : a <= q.at}

Within(P, a, b) == {q \in P : a <= q.at /\ q.at < b}

\* What one key's counter says about the requests P that passed by it, with limit
\* l, window length w, n requests counted since the window began, at time t: the
\* first of the window passed, and with it at most l; hence at most l - 1 of an
\* earlier window are near enough to count together with this one's.
WindowInv(P, l, w, n, since, t) ==
    /\ IsFiniteSet(P) /\ since \in Nat /\ since <= t
    /\ \A q \in P : q.at \in Nat /\ q.at <= t /\ q.at < since + w
    /\ \E q \in P : q.at = since
    /\ Cardinality(From(P, since)) <= n /\ Cardinality(From(P, since)) <= l
    /\ \A p \in P : p.at < since /\ since < p.at + w =>
         Cardinality(Within(P, p.at, since)) < l
    /\ \A p \in P : Cardinality(Within(P, p.at, p.at + w)) < 2 * l

LimitInv ==
    /\ IsFiniteSet(passed)
    /\ \A p \in passed : KeyOf(p) \in DOMAIN count
    /\ \A k \in DOMAIN count :
         WindowInv(At(passed, k), Limit[k[1]], Window[k[1]], count[k].n, count[k].since, now)

\* The inductive invariant.
IInv == TypeOK /\ CallInv /\ FlightInv /\ ProcessInv /\ LimitInv

---------------------------------------------------------------------------
\* One key's counter.

\* Parts of a finite set of passed requests are finite, the larger part has more.
LEMMA Parts ==
  ASSUME NEW P, IsFiniteSet(P), NEW S \in SUBSET P, NEW T \in SUBSET S
  PROVE  /\ IsFiniteSet(S) /\ IsFiniteSet(T) /\ Cardinality(S) \in Nat
         /\ Cardinality(T) \in Nat /\ Cardinality(T) <= Cardinality(S)
  <1>1. IsFiniteSet(S)
    BY FS_Subset
  <1>2. IsFiniteSet(T) /\ Cardinality(T) <= Cardinality(S)
    BY <1>1, FS_Subset
  <1> QED
    BY <1>1, <1>2, FS_CardinalityType

\* Near a request whose window reaches into the counted one, less than two
\* limits' worth passed: less than one before that window began, one in it.
LEMMA TwoLimits ==
  ASSUME NEW P, NEW l \in Nat \ {0}, NEW w \in Nat, NEW since \in Nat, IsFiniteSet(P),
         \A q \in P : q.at \in Nat, Cardinality(From(P, since)) <= l,
         NEW p \in P, since < p.at + w,
         p.at < since => Cardinality(Within(P, p.at, since)) < l
  PROVE  Cardinality(Within(P, p.at, p.at + w)) < 2 * l
  <1> DEFINE N == Within(P, p.at, p.at + w)
             A == Within(P, p.at, since)
             B == From(P, since)
  <1>1. A \in SUBSET P /\ B \in SUBSET P /\ N \in SUBSET P
    BY DEF Within, From
  <1>2. /\ IsFiniteSet(A) /\ IsFiniteSet(B) /\ IsFiniteSet(N) /\ IsFiniteSet(A \cap B)
        /\ Cardinality(A) \in Nat /\ Cardinality(B) \in Nat /\ Cardinality(N) \in Nat
        /\ Cardinality(A \cap B) \in Nat
    BY <1>1, FS_Subset, FS_Intersection, FS_CardinalityType
  <1>3. CASE p.at < since
    <2>1. /\ IsFiniteSet(A \cup B)
          /\ Cardinality(A \cup B) = Cardinality(A) + Cardinality(B) - Cardinality(A \cap B)
      BY <1>2, FS_Union
    <2>2. N \in SUBSET (A \cup B)
      BY DEF Within, From
    <2>3. Cardinality(N) <= Cardinality(A \cup B)
      BY <2>1, <2>2, FS_Subset
    <2>4. Cardinality(A \cup B) \in Nat
      BY <2>1, FS_CardinalityType
    <2> QED
      BY <1>2, <1>3, <2>1, <2>3, <2>4
  <1>4. CASE ~(p.at < since)
    <2>1. N \in SUBSET B
      BY <1>4 DEF Within, From
    <2>2. Cardinality(N) <= Cardinality(B)
      BY <1>2, <2>1, FS_Subset
    <2> QED
      BY <1>2, <2>2
  <1> QED
    BY <1>3, <1>4

\* One more request does not change what passed before it.
LEMMA LaterOutside ==
  ASSUME NEW P, NEW e, NEW a, NEW b \in Nat, e.at \in Nat, b <= e.at
  PROVE  Within(P \cup {e}, a, b) = Within(P, a, b)
  BY DEF Within

\* The first request of a new window.
LEMMA WindowOpens ==
  ASSUME NEW P, NEW l \in Nat \ {0}, NEW w \in Nat \ {0}, NEW t \in Nat, NEW e, e.at = t,
         P = {} \/ \E n, since \in Nat : WindowInv(P, l, w, n, since, t) /\ since + w <= t
  PROVE  WindowInv(P \cup {e}, l, w, 1, t, t)
  <1> DEFINE Q == P \cup {e}
  <1>1. IsFiniteSet(P) /\ \A q \in P : q.at \in Nat /\ q.at < t
    BY FS_EmptySet DEF WindowInv
  <1>2. IsFiniteSet(Q)
    BY <1>1, FS_AddElement
  <1>3. \A q \in Q : q.at \in Nat /\ q.at <= t /\ q.at < t + w
    BY <1>1
  <1>4. Cardinality(From(Q, t)) = 1
    <2>1. From(Q, t) = {e}
      BY <1>1 DEF From
    <2> QED
      BY <2>1, FS_Singleton
  <1>5. \A p \in Q : p.at < t /\ t < p.at + w => Cardinality(Within(Q, p.at, t)) < l
    <2> SUFFICES ASSUME NEW p \in Q, p.at < t, t < p.at + w
                 PROVE  Cardinality(Within(Q, p.at, t)) < l
      OBVIOUS
    <2>1. p \in P
      OBVIOUS
    <2>2. PICK n \in Nat, since \in Nat : WindowInv(P, l, w, n, since, t) /\ since + w <= t
      BY <2>1
    <2>3. PICK f \in P : f.at = since
      BY <2>2 DEF WindowInv
    <2>4. Cardinality(From(P, since)) <= l /\ From(P, since) \in SUBSET P /\ f \in From(P, since)
      BY <2>2, <2>3 DEF WindowInv, From
    <2>5. IsFiniteSet(From(P, since)) /\ Cardinality(From(P, since)) \in Nat
      BY <1>1, <2>4, Parts
    <2>6. /\ IsFiniteSet(From(P, since) \ {f})
          /\ Cardinality(From(P, since) \ {f}) = Cardinality(From(P, since)) - 1
      BY <2>4, <2>5, FS_RemoveElement
    <2>7. since < p.at
      BY <1>1, <2>1, <2>2
    <2>8. Within(Q, p.at, t) \in SUBSET (From(P, since) \ {f})
      <3>1. ASSUME NEW q \in Within(Q, p.at, t) PROVE q \in From(P, since) /\ q # f
        <4>1. q \in P /\ since < q.at
          BY <1>1, <2>1, <2>7 DEF Within
        <4> QED
          BY <1>1, <2>3, <4>1 DEF From
      <3> QED
        BY <3>1
    <2>9. Cardinality(Within(Q, p.at, t)) <= Cardinality(From(P, since) \ {f})
      BY <2>6, <2>8, FS_Subset
    <2>10. Cardinality(Within(Q, p.at, t)) \in Nat
      BY <2>6, <2>8, FS_Subset, FS_CardinalityType
    <2> QED
      BY <2>4, <2>5, <2>6, <2>9, <2>10
  <1>6. \A p \in Q : Cardinality(Within(Q, p.at, p.at + w)) < 2 * l
    <2> SUFFICES ASSUME NEW p \in Q PROVE Cardinality(Within(Q, p.at, p.at + w)) < 2 * l
      OBVIOUS
    <2>1. CASE t < p.at + w
      <3> HIDE DEF Q
      <3> QED
        BY <1>2, <1>3, <1>4, <1>5, <2>1, TwoLimits
    <2>2. CASE p.at + w <= t
      <3>1. p \in P
        BY <2>2
      <3>2. Within(Q, p.at, p.at + w) = Within(P, p.at, p.at + w)
        BY <1>1, <2>2, <3>1, LaterOutside
      <3> QED
        BY <3>1, <3>2 DEF WindowInv
    <2> QED
      BY <1>3, <2>1, <2>2
  <1>7. \E q \in Q : q.at = t
    OBVIOUS
  <1> HIDE DEF Q
  <1>8. WindowInv(Q, l, w, 1, t, t)
    BY <1>2, <1>3, <1>4, <1>5, <1>6, <1>7 DEF WindowInv
  <1> QED
    BY <1>8 DEF Q

\* One more request in the same window.
LEMMA WindowGrows ==
  ASSUME NEW P, NEW l \in Nat \ {0}, NEW w \in Nat \ {0}, NEW t \in Nat, NEW e, e.at = t,
         NEW n \in Nat, NEW since \in Nat, WindowInv(P, l, w, n, since, t),
         t < since + w, n + 1 <= l
  PROVE  WindowInv(P \cup {e}, l, w, n + 1, since, t)
  <1> DEFINE Q == P \cup {e}
  <1>1. IsFiniteSet(P) /\ \A q \in P : q.at \in Nat /\ q.at <= t /\ q.at < since + w
    BY DEF WindowInv
  <1>2. IsFiniteSet(Q)
    BY <1>1, FS_AddElement
  <1>3. \A q \in Q : q.at \in Nat /\ q.at <= t /\ q.at < since + w
    BY <1>1
  <1>4. since <= t /\ \E q \in Q : q.at = since
    BY DEF WindowInv
  <1>5. Cardinality(From(Q, since)) <= n + 1
    <2>1. From(Q, since) = From(P, since) \cup {e}
      BY <1>4 DEF From
    <2>2. From(P, since) \in SUBSET P /\ Cardinality(From(P, since)) <= n
      BY DEF WindowInv, From
    <2>3. IsFiniteSet(From(P, since)) /\ Cardinality(From(P, since)) \in Nat
      BY <1>1, <2>2, Parts
    <2>4. Cardinality(From(P, since) \cup {e}) \in {Cardinality(From(P, since)),
                                                    Cardinality(From(P, since)) + 1}
      BY <2>3, FS_AddElement
    <2> QED
      BY <2>1, <2>2, <2>3, <2>4
  <1>6. Cardinality(From(Q, since)) \in Nat
    <2>1. From(Q, since) \in SUBSET Q
      BY DEF From
    <2> QED
      BY <1>2, <2>1, Parts
  <1>7. \A p \in Q : p.at < since /\ since < p.at + w => Cardinality(Within(Q, p.at, since)) < l
    <2> SUFFICES ASSUME NEW p \in Q, p.at < since, since < p.at + w
                 PROVE  Cardinality(Within(Q, p.at, since)) < l
      OBVIOUS
    <2>1. p \in P
      BY <1>4
    <2>2. e.at \in Nat /\ since <= e.at
      BY <1>4
    <2>3. Within(Q, p.at, since) = Within(P, p.at, since)
      BY <2>2, LaterOutside
    <2> QED
      BY <2>1, <2>3 DEF WindowInv
  <1>8. \A p \in Q : Cardinality(Within(Q, p.at, p.at + w)) < 2 * l
    <2> SUFFICES ASSUME NEW p \in Q PROVE Cardinality(Within(Q, p.at, p.at + w)) < 2 * l
      OBVIOUS
    <2>1. CASE since < p.at + w
      <3> HIDE DEF Q
      <3>1. Cardinality(From(Q, since)) <= l
        BY <1>5, <1>6
      <3> QED
        BY <1>2, <1>3, <1>7, <2>1, <3>1, TwoLimits
    <2>2. CASE p.at + w <= since
      <3>1. p \in P
        BY <1>4, <2>2
      <3>2. Within(Q, p.at, p.at + w) = Within(P, p.at, p.at + w)
        BY <1>1, <1>4, <2>2, <3>1, LaterOutside
      <3> QED
        BY <3>1, <3>2 DEF WindowInv
    <2> QED
      BY <1>3, <2>1, <2>2
  <1> HIDE DEF Q
  <1>9. WindowInv(Q, l, w, n + 1, since, t)
    BY <1>2, <1>3, <1>4, <1>5, <1>6, <1>7, <1>8 DEF WindowInv
  <1> QED
    BY <1>9 DEF Q

\* Time passes, and requests are counted that do not pass.
LEMMA WindowWaits ==
  ASSUME NEW P, NEW l, NEW w, NEW n \in Nat, NEW since \in Nat, NEW t \in Nat,
         NEW m \in Nat, NEW u \in Nat, WindowInv(P, l, w, n, since, t), n <= m, t <= u
  PROVE  WindowInv(P, l, w, m, since, u)
  <1>1. Cardinality(From(P, since)) \in Nat
    <2>1. From(P, since) \in SUBSET P /\ IsFiniteSet(P)
      BY DEF From, WindowInv
    <2> QED
      BY <2>1, Parts
  <1> QED
    BY <1>1 DEF WindowInv

---------------------------------------------------------------------------
\* Steps.

Asked == {"authenticate", "csrf", "limit", "work"}

\* The steps of one request.
RequestStep(s) ==
    \/ \E r \in Routes : \E who \in CredentialsOf(r) : Arrive(s, r, who)
    \/ \E stage \in Asked : Refused(s, stage)
    \/ Authenticate(s) \/ VerifyCsrf(s) \/ Guard(s) \/ Passed(s)
    \/ \E routes \in SUBSET (AllRoutes \ Tools) : Settles(s, routes)
    \/ Bootstrap(s) \/ Logout(s) \/ RunTool(s) \/ Tell(s) \/ Told(s) \/ Leave(s)
    \/ AskReady(s) \/ TimeOut(s)

\* The steps of the world around and of the process.
WorldStep == (\E x \in Credentials : Revoke(x)) \/ Tick \/ Turn \/ Check

ProcessStep ==
    StartServer \/ Close \/ Exit \/ \E sig \in {"SIGINT", "SIGTERM"} : Signal(sig)

\* Which actions a step of the specification may be.
LEMMA NextCases == ASSUME Next PROVE (\E s \in Slots : RequestStep(s)) \/ WorldStep \/ ProcessStep
  <1>1. ASSUME NEW s \in Slots,
               RefuseAtDoor(s) \/ RefuseStranger(s) \/ RefuseForgery(s) \/ RefuseUncounted(s)
               \/ RefuseInput(s) \/ RefusePublicInput(s)
        PROVE  RequestStep(s)
    <2>1. \E stage \in Asked : Refused(s, stage)
      BY <1>1 DEF RefuseAtDoor, RefuseStranger, RefuseForgery, RefuseUncounted, RefuseInput,
                  RefusePublicInput, Asked
    <2> QED
      BY <2>1 DEF RequestStep
  <1>2. ASSUME NEW s \in Slots,
               HandleRead(s) \/ HandleMutation(s) \/ IssueConnection(s)
               \/ HandleOperator(s) \/ HandlePublic(s) \/ Redeem(s)
        PROVE  RequestStep(s)
    <2>1. \A routes \in {{"read"}, {"mutate"}, {"connect"}, {"operate"}, Public, {"redeem"}} :
            routes \in SUBSET (AllRoutes \ Tools)
      BY DEF AllRoutes, Tools, Public, Reads, Mutations
    <2>2. \E routes \in SUBSET (AllRoutes \ Tools) : Settles(s, routes)
      BY <1>2, <2>1 DEF HandleRead, HandleMutation, IssueConnection, HandleOperator,
                        HandlePublic, Redeem
    <2> QED
      BY <2>2 DEF RequestStep
  <1> QED
    BY <1>1, <1>2 DEF Next, RequestStep, WorldStep, ProcessStep

\* A step of one request leaves the others, the clock, the database and the
\* process alone; credentials only end, and CSRF secrets only get newer.
LEMMA RequestFrame ==
  ASSUME IInv, NEW s \in Slots, RequestStep(s)
  PROVE  /\ call' = [t \in Slots |-> call'[t]]
         /\ \A t \in Slots : t # s => call'[t] = call[t]
         /\ UNCHANGED <<now, database, process>>
         /\ alive' \subseteq alive
         /\ csrf' \in [Sessions -> Nat] /\ \A x \in Sessions : csrf[x] <= csrf'[x]
         /\ calls' \in Counts
         /\ Listening \/ call[s].stage # "idle"
         /\ Guard(s) \/ UNCHANGED limits
         /\ AskReady(s) \/ UNCHANGED flight
  <1>0. TypeOK
    BY DEF IInv
  <1>1. /\ call' = [t \in Slots |-> call'[t]] /\ \A t \in Slots : t # s => call'[t] = call[t]
    <2>1. CASE \E c : call' = [call EXCEPT ![s] = c]
      BY <1>0, <2>1 DEF TypeOK
    <2>2. CASE \E r \in Routes : \E who \in CredentialsOf(r) : Arrive(s, r, who)
      BY <2>1, <2>2 DEF Arrive
    <2>3. CASE \/ \E stage \in Asked : Refused(s, stage)
               \/ \E routes \in SUBSET (AllRoutes \ Tools) : Settles(s, routes)
               \/ Bootstrap(s) \/ Logout(s) \/ Told(s) \/ Leave(s) \/ TimeOut(s)
      BY <2>1, <2>3 DEF Refused, Settles, Bootstrap, Logout, Told, Leave, TimeOut, Answers
    <2>4. CASE RunTool(s)
      BY <2>1, <2>4 DEF RunTool, Answers
    <2>5. CASE AskReady(s)
      BY <2>1, <2>5 DEF AskReady, Answers
    <2>6. CASE Guard(s)
      BY <1>0, <2>6 DEF Guard, Answers, TypeOK
    <2>7. CASE Authenticate(s) \/ VerifyCsrf(s) \/ Passed(s) \/ Tell(s)
      BY <1>0, <2>7 DEF Authenticate, VerifyCsrf, Passed, Tell, TypeOK
    <2> QED
      BY <2>2, <2>3, <2>4, <2>5, <2>6, <2>7 DEF RequestStep
  <1>2. UNCHANGED <<now, database, process>>
    BY DEF RequestStep, Arrive, Refused, Authenticate, VerifyCsrf, Guard, Passed,
           Settles, Bootstrap, Logout, RunTool, Tell, Told, Leave, AskReady, TimeOut
  <1>3. alive' \subseteq alive
    BY DEF RequestStep, Arrive, Refused, Authenticate, VerifyCsrf, Guard, Passed,
           Settles, Bootstrap, Logout, RunTool, Tell, Told, Leave, AskReady, TimeOut
  <1>4. csrf' \in [Sessions -> Nat] /\ \A x \in Sessions : csrf[x] <= csrf'[x]
    <2>1. CASE Bootstrap(s)
      BY <1>0, <2>1 DEF TypeOK, Bootstrap
    <2>2. CASE UNCHANGED csrf
      BY <1>0, <2>2 DEF TypeOK
    <2> QED
      BY <2>1, <2>2 DEF RequestStep, Arrive, Refused, Authenticate, VerifyCsrf, Guard, Passed,
           Settles, Logout, RunTool, Tell, Told, Leave, AskReady, TimeOut
  <1>5. calls' \in Counts
    <2>1. CASE calls < MaxCalls /\ calls' = calls + 1
      BY <1>0, <2>1, GatewayAssumption DEF TypeOK, Counts
    <2>2. CASE UNCHANGED calls
      BY <1>0, <2>2 DEF TypeOK
    <2> QED
      BY <2>1, <2>2 DEF RequestStep, Arrive, Refused, Authenticate, VerifyCsrf, Guard, Passed,
           Settles, Bootstrap, Logout, RunTool, Tell, Told, Leave, AskReady, TimeOut
  <1>6. Listening \/ call[s].stage # "idle"
    BY DEF RequestStep, Arrive, Refused, Authenticate, VerifyCsrf, Guard, Passed,
           Settles, Bootstrap, Logout, RunTool, Tell, Told, Leave, AskReady, TimeOut, AtWork, Asked
  <1>7. Guard(s) \/ UNCHANGED limits
    BY DEF RequestStep, Arrive, Refused, Authenticate, VerifyCsrf, Passed,
           Settles, Bootstrap, Logout, RunTool, Tell, Told, Leave, AskReady, TimeOut
  <1>8. AskReady(s) \/ UNCHANGED flight
    BY DEF RequestStep, Arrive, Refused, Authenticate, VerifyCsrf, Guard, Passed,
           Settles, Bootstrap, Logout, RunTool, Tell, Told, Leave, TimeOut
  <1> QED
    BY <1>1, <1>2, <1>3, <1>4, <1>5, <1>6, <1>7, <1>8

---------------------------------------------------------------------------
\* Requests.

\* The empty slot, and what a request may hold.
LEMMA FreeFacts ==
    /\ Free \in Call /\ Free.stage = "idle" /\ Free.reply = None /\ ~Free.ended
    /\ ~Free.counted /\ ~Free.done /\ Free.tell = 0 /\ Free.told = 0 /\ ~Free.wasUp
  <1>1. <<>> \in Seq(Groups)
    OBVIOUS
  <1> QED
    BY <1>1, GatewayAssumption DEF Free, Call, Counts, Identities

\* The request after each of its steps, with what the steps say about it.
LEMMA ArriveOK ==
  ASSUME IInv, NEW s \in Slots, NEW r \in Routes, NEW who \in CredentialsOf(r), Arrive(s, r, who)
  PROVE  CallOK(call[s])'
  <1>0. TypeOK
    BY DEF IInv
  <1>1. Late(r, who, 0) \in BOOLEAN /\ r \in AllRoutes \ {"ready"} /\ calls \in Counts
    BY <1>0, GatewayAssumption DEF Late, Arrive, TypeOK
  <1>2. PICK n \in IF NeedsCsrf(r) THEN 0 .. csrf[who] ELSE {0} :
          call' = [call EXCEPT ![s] = [Free EXCEPT
           !.nth = calls, !.route = r, !.who = who, !.secret = n, !.limits = LimitsOf(r),
           !.ended = Late(r, who, n),
           !.stage = IF r \in Public THEN "limit" ELSE "authenticate"]]
    BY DEF Arrive
  <1>3. NeedsCsrf(r) => r \notin Tools \cup Public \cup {"ready"} /\ who \in Sessions
    BY DEF NeedsCsrf, CredentialsOf, Mutations, Tools, Public
  <1>4. n \in Nat /\ (NeedsCsrf(r) => n <= csrf[who])
    BY <1>0, <1>2, <1>3 DEF TypeOK
  <1>5. LimitsOf(r) \in Seq(Groups)
    <2>1. \A g \in Groups : <<g>> \in Seq(Groups)
      OBVIOUS
    <2>2. \A g, h \in Groups : <<g, h>> \in Seq(Groups)
      OBVIOUS
    <2>3. <<>> \in Seq(Groups)
      OBVIOUS
    <2>4. {"mcp", "oauth-start", "oauth-callback", "invite-capture", "owner-read",
           "invite-redeem", "owner-mutation", "connection-create"} \subseteq Groups
      BY DEF Groups
    <2> QED
      BY <1>1, <2>1, <2>2, <2>3, <2>4 DEF LimitsOf, AllRoutes, Tools, Public, Reads, Mutations
  <1>6. who \in Identities
    BY DEF CredentialsOf, Identities, Credentials
  <1>7. Late(r, who, n) \in BOOLEAN
    BY DEF Late
  <1>8. call'[s] \in Call
    <2>1. call'[s] = [nth |-> calls, route |-> r, who |-> who, secret |-> n,
            ended |-> Late(r, who, n), stage |-> IF r \in Public THEN "limit" ELSE "authenticate",
            seen |-> 0, limits |-> LimitsOf(r), counted |-> FALSE, done |-> FALSE,
            reply |-> None, tell |-> 0, told |-> 0, wasUp |-> FALSE]
      BY <1>0, <1>2 DEF TypeOK, Free
    <2> QED
      BY <1>1, <1>4, <1>5, <1>6, <1>7, <2>1 DEF Call
  <1>9. /\ call'[s].route = r /\ call'[s].who = who /\ call'[s].secret = n
        /\ call'[s].ended = Late(r, who, n) /\ call'[s].reply = None
        /\ call'[s].stage = IF r \in Public THEN "limit" ELSE "authenticate"
        /\ ~call'[s].counted /\ ~call'[s].done /\ call'[s].tell = 0 /\ call'[s].told = 0
    BY <1>0, <1>2, FreeFacts DEF TypeOK, Call
  <1>10. Barred(call[s])'
    <2> SUFFICES ASSUME Late(r, who, n)
                 PROVE  /\ r \notin Public
                        /\ \/ who \in Credentials \ alive'
                           \/ NeedsCsrf(r) /\ who \in Sessions /\ n < csrf'[who]
      BY <1>9 DEF Barred
    <2>1. UNCHANGED <<alive, csrf>>
      BY DEF Arrive
    <2>2. r \in Public => who \notin Credentials
      BY GatewayAssumption DEF CredentialsOf, Credentials, Public, Tools
    <2>3. NeedsCsrf(r) => csrf[who] \in Nat
      BY <1>0, <1>3 DEF TypeOK
    <2> QED
      BY <1>3, <1>4, <2>1, <2>2, <2>3 DEF Late
  <1>11. Journaled(call[s])'
    BY <1>9 DEF Journaled
  <1>12. Fresh(call[s])'
    BY <1>9, GatewayAssumption DEF Fresh, Replies
  <1> QED
    BY <1>8, <1>10, <1>11, <1>12 DEF CallOK

\* A request is answered by anything but the news that the process is ready.
LEMMA AnswerOK ==
  ASSUME IInv, NEW s \in Slots, NEW reply \in Replies \ {"ready"}, NEW c \in Call,
         Answers(s, c, reply), call[s].stage \in Asked \cup {"waiting"},
         c.route = call[s].route, c.told = call[s].told,
         c.ended => ~c.counted /\ ~c.done,
         c.route \in Tools => reply \notin {"failed", "internal"} /\ (c.done => reply = "ok")
  PROVE  CallOK(call[s])'
  <1>0. TypeOK /\ Journaled(call[s])
    BY DEF IInv, CallInv, CallOK
  <1>1. call'[s] = [c EXCEPT !.stage = "answered", !.reply = reply]
    BY <1>0 DEF Answers, TypeOK
  <1>2. call'[s] \in Call
    BY <1>1 DEF Call
  <1>3. /\ call'[s].stage = "answered" /\ call'[s].reply = reply /\ call'[s].done = c.done
        /\ call'[s].counted = c.counted /\ call'[s].route = c.route
        /\ call'[s].told = c.told /\ call'[s].ended = c.ended
    BY <1>1 DEF Call
  <1>4. c.told = 0
    BY <1>0 DEF Journaled, Asked
  <1>5. Barred(call[s])'
    BY <1>3 DEF Barred
  <1>6. Journaled(call[s])'
    BY <1>3, <1>4 DEF Journaled
  <1>7. Fresh(call[s])'
    BY <1>3 DEF Fresh
  <1> QED
    BY <1>2, <1>5, <1>6, <1>7 DEF CallOK

\* The answers of a refusal, of a handler and of a wait that took too long.
LEMMA AnsweredOK ==
  ASSUME IInv, NEW s \in Slots,
         \/ \E stage \in Asked : Refused(s, stage)
         \/ \E routes \in SUBSET (AllRoutes \ Tools) : Settles(s, routes)
         \/ Bootstrap(s) \/ Logout(s) \/ TimeOut(s)
  PROVE  CallOK(call[s])'
  <1> DEFINE c == call[s]
  <1>0. TypeOK /\ c \in Call /\ Barred(c) /\ Journaled(c)
    BY DEF IInv, CallInv, CallOK
  <1>1. /\ Committed(c) \in Call /\ Committed(c).route = c.route
        /\ Committed(c).told = c.told /\ Committed(c).ended = c.ended
    BY <1>0 DEF Committed, Call
  <1>4. c.stage \in Asked \cup {"waiting"} => ~c.done
    BY <1>0 DEF Journaled, Asked
  <1>5. c.ended /\ c.stage \in Asked \cup {"waiting"} => ~c.counted
    BY <1>0 DEF Barred, Asked
  <1>6. c.stage = "work" => ~c.ended
    BY <1>0 DEF Barred
  <1>7. ASSUME NEW stage \in Asked, Refused(s, stage) PROVE CallOK(call[s])'
    <2>1. c.stage \in Asked /\ Answers(s, c, "refused") /\ "refused" \in Replies
      BY <1>7 DEF Refused, Replies
    <2> QED
      BY <1>0, <1>4, <1>5, <2>1, AnswerOK
  <1>8. CASE TimeOut(s)
    <2>1. c.stage = "waiting" /\ Answers(s, c, "unavailable") /\ "unavailable" \in Replies
      BY <1>8 DEF TimeOut, Replies
    <2> QED
      BY <1>0, <1>4, <1>5, <2>1, AnswerOK
  <1>9. CASE (\E routes \in SUBSET (AllRoutes \ Tools) : Settles(s, routes))
             \/ Bootstrap(s) \/ Logout(s)
    <2>1. c.stage = "work" /\ c.route \notin Tools
      BY <1>9 DEF Settles, Bootstrap, Logout, AtWork, Tools
    <2>2. \E reply \in {"ok", "failed", "refused"} :
            Answers(s, c, reply) \/ Answers(s, Committed(c), reply)
      BY <1>9 DEF Settles, Bootstrap, Logout
    <2>3. {"ok", "failed", "refused"} \subseteq Replies \ {"ready"} /\ "work" \in Asked
      BY DEF Replies, Asked
    <2>4. ASSUME NEW reply \in {"ok", "failed", "refused"}, Answers(s, c, reply)
          PROVE  CallOK(call[s])'
      BY <1>0, <1>4, <1>6, <2>1, <2>3, <2>4, AnswerOK
    <2>5. ASSUME NEW reply \in {"ok", "failed", "refused"}, Answers(s, Committed(c), reply)
          PROVE  CallOK(call[s])'
      BY <1>1, <1>6, <2>1, <2>3, <2>5, AnswerOK
    <2> QED
      BY <2>2, <2>4, <2>5
  <1> QED
    BY <1>7, <1>8, <1>9

\* The guards before a request's work.
LEMMA AdmissionOK ==
  ASSUME IInv, NEW s \in Slots, Authenticate(s) \/ VerifyCsrf(s) \/ Guard(s) \/ Passed(s)
  PROVE  CallOK(call[s])'
  <1> DEFINE c == call[s]
  <1>0. TypeOK /\ c \in Call /\ Barred(c) /\ Journaled(c) /\ Fresh(c)
    BY DEF IInv, CallInv, CallOK
  <1>1. CASE Authenticate(s)
    <2>1. /\ c.stage = "authenticate" /\ c.who \in alive
          /\ UNCHANGED <<alive, csrf, database>>
      BY <1>1 DEF Authenticate, MayEnter
    <2>2. call'[s] = [c EXCEPT !.stage = IF NeedsCsrf(c.route) THEN "csrf" ELSE "limit",
                               !.seen = IF c.who \in Sessions THEN csrf[c.who] ELSE 0]
      BY <1>0, <1>1 DEF Authenticate, TypeOK
    <2>3. (IF c.who \in Sessions THEN csrf[c.who] ELSE 0) \in Nat
      BY <1>0 DEF TypeOK
    <2>4. call'[s] \in Call
      BY <1>0, <2>2, <2>3 DEF Call
    <2>5. /\ call'[s].ended = c.ended /\ call'[s].counted = c.counted /\ call'[s].done = c.done
          /\ call'[s].stage = IF NeedsCsrf(c.route) THEN "csrf" ELSE "limit"
          /\ call'[s].seen = IF c.who \in Sessions THEN csrf[c.who] ELSE 0
          /\ call'[s].secret = c.secret /\ call'[s].tell = c.tell /\ call'[s].told = c.told
          /\ call'[s].reply = c.reply /\ call'[s].wasUp = c.wasUp
      BY <1>0, <2>2 DEF Call
    <2>6. Barred(call[s])'
      BY <1>0, <2>1, <2>5 DEF Barred
    <2>7. Journaled(call[s])' /\ Fresh(call[s])'
      BY <1>0, <2>1, <2>5 DEF Journaled, Fresh
    <2> QED
      BY <2>4, <2>6, <2>7 DEF CallOK
  <1>2. CASE VerifyCsrf(s) \/ Passed(s)
    <2>1. /\ (c.stage = "csrf" /\ c.secret = c.seen) \/ c.stage = "limit"
          /\ UNCHANGED <<alive, csrf, database>>
      BY <1>2 DEF VerifyCsrf, Passed
    <2>2. PICK stage \in {"limit", "work"} : call'[s] = [c EXCEPT !.stage = stage]
      BY <1>0, <1>2 DEF VerifyCsrf, Passed, TypeOK
    <2>3. call'[s] \in Call
      BY <1>0, <2>2 DEF Call
    <2>4. /\ call'[s].ended = c.ended /\ call'[s].stage \in {"limit", "work"}
          /\ call'[s].done = c.done /\ call'[s].tell = c.tell /\ call'[s].told = c.told
          /\ call'[s].reply = c.reply /\ call'[s].wasUp = c.wasUp
      BY <1>0, <2>2 DEF Call
    <2>5. ~c.ended
      <3>1. c.secret \in Nat /\ c.seen \in Nat
        BY <1>0 DEF Call
      <3> QED
        BY <1>0, <2>1, <3>1 DEF Barred
    <2>6. Barred(call[s])'
      BY <2>4, <2>5 DEF Barred
    <2>7. Journaled(call[s])' /\ Fresh(call[s])'
      BY <1>0, <2>1, <2>4 DEF Journaled, Fresh
    <2> QED
      BY <2>3, <2>6, <2>7 DEF CallOK
  <1>3. CASE Guard(s)
    <2>1. c.stage = "limit" /\ c.limits # <<>> /\ UNCHANGED <<alive, csrf, database>>
      BY <1>3 DEF Guard
    <2>2. ~c.ended /\ ~c.done
      BY <1>0, <2>1 DEF Barred, Journaled
    <2>3. CASE Answers(s, [c EXCEPT !.counted = TRUE], "limited")
      <3>1. /\ [c EXCEPT !.counted = TRUE] \in Call
            /\ [c EXCEPT !.counted = TRUE].route = c.route
            /\ [c EXCEPT !.counted = TRUE].told = c.told
            /\ [c EXCEPT !.counted = TRUE].ended = c.ended
            /\ [c EXCEPT !.counted = TRUE].done = c.done
        BY <1>0 DEF Call
      <3>2. "limited" \in Replies \ {"ready"} /\ "limit" \in Asked
        BY DEF Replies, Asked
      <3> QED
        BY <2>1, <2>2, <2>3, <3>1, <3>2, AnswerOK
    <2>4. CASE call' = [call EXCEPT ![s].limits = Tail(c.limits), ![s].counted = TRUE]
      <3>1. call'[s] = [c EXCEPT !.limits = Tail(c.limits), !.counted = TRUE]
        BY <1>0, <2>4 DEF TypeOK
      <3>2. Tail(c.limits) \in Seq(Groups)
        BY <1>0, <2>1 DEF Call
      <3>3. call'[s] \in Call
        BY <1>0, <3>1, <3>2 DEF Call
      <3>4. /\ call'[s].ended = c.ended /\ call'[s].stage = c.stage
            /\ call'[s].done = c.done /\ call'[s].tell = c.tell /\ call'[s].told = c.told
            /\ call'[s].reply = c.reply /\ call'[s].wasUp = c.wasUp
        BY <1>0, <3>1 DEF Call
      <3>5. Barred(call[s])'
        BY <2>2, <3>4 DEF Barred
      <3>6. Journaled(call[s])' /\ Fresh(call[s])'
        BY <1>0, <2>1, <3>4 DEF Journaled, Fresh
      <3> QED
        BY <3>3, <3>5, <3>6 DEF CallOK
    <2> QED
      BY <1>3, <2>3, <2>4 DEF Guard
  <1> QED
    BY <1>1, <1>2, <1>3

\* Every tool's refusals are told by one: by its service or by runTool.
LEMMA OneTeller == ASSUME NEW tool \in Tools PROVE Tellers(tool) = 1
  BY DEF Tools, Tellers, One, TellsItself, RecordedByService

\* A tool call and its rows in the journal.
LEMMA ToolOK ==
  ASSUME IInv, NEW s \in Slots, RunTool(s) \/ Tell(s) \/ Told(s)
  PROVE  CallOK(call[s])'
  <1> DEFINE c == call[s]
  <1>0. TypeOK /\ c \in Call /\ Barred(c) /\ Journaled(c) /\ Fresh(c)
    BY DEF IInv, CallInv, CallOK
  <1>1. CASE RunTool(s)
    <2>1. /\ c.stage = "work" /\ c.route \in Tools /\ ~c.ended /\ c.told = 0 /\ ~c.done
          /\ UNCHANGED <<alive, csrf, database>>
      BY <1>0, <1>1 DEF RunTool, AtWork, Barred, Journaled
    <2>2. CASE Answers(s, Committed(c), "ok")
      <3>1. /\ Committed(c) \in Call /\ Committed(c).route = c.route
            /\ Committed(c).told = c.told /\ Committed(c).ended = c.ended
        BY <1>0 DEF Committed, Call
      <3>2. "ok" \in Replies \ {"ready"} /\ "work" \in Asked
        BY DEF Replies, Asked
      <3> QED
        BY <2>1, <2>2, <3>1, <3>2, AnswerOK
    <2>3. ASSUME NEW reply \in {"failed", "internal"}, NEW b \in BOOLEAN,
                 reply = "failed" => ~b,
                 call'[s] = [c EXCEPT !.stage = "tell", !.tell = 1, !.reply = reply, !.done = b]
          PROVE  CallOK(call[s])'
      <3>0. 1 \in 0 .. 2 /\ reply \in Replies
        BY DEF Replies
      <3>1. call'[s] \in Call
        BY <1>0, <2>3, <3>0 DEF Call
      <3>2. /\ call'[s].stage = "tell" /\ call'[s].tell = 1 /\ call'[s].told = 0
            /\ call'[s].reply = reply /\ call'[s].done = b /\ call'[s].route \in Tools
            /\ ~call'[s].ended
        BY <1>0, <2>1, <2>3 DEF Call
      <3>3. Barred(call[s])'
        BY <3>2 DEF Barred
      <3>4. Journaled(call[s])'
        BY <2>3, <3>2 DEF Journaled
      <3>5. Fresh(call[s])'
        BY <3>2 DEF Fresh
      <3> QED
        BY <3>1, <3>3, <3>4, <3>5 DEF CallOK
    <2>4. CASE call' = [call EXCEPT ![s] = [c EXCEPT !.stage = "tell", !.tell = Tellers(c.route),
                                                      !.reply = "failed"]]
      <3>1. call'[s] = [c EXCEPT !.stage = "tell", !.tell = 1, !.reply = "failed"]
        BY <1>0, <2>1, <2>4, OneTeller DEF TypeOK
      <3>2. call'[s] = [c EXCEPT !.stage = "tell", !.tell = 1, !.reply = "failed", !.done = FALSE]
        BY ZenonT(60), <1>0, <2>1, <3>1 DEF Call
      <3> QED
        BY <2>3, <3>2
    <2>5. CASE \E b \in BOOLEAN : call' = [call EXCEPT ![s] =
                 [c EXCEPT !.stage = "tell", !.tell = 1, !.reply = "internal", !.done = b]]
      <3>1. PICK b \in BOOLEAN : call' = [call EXCEPT ![s] =
              [c EXCEPT !.stage = "tell", !.tell = 1, !.reply = "internal", !.done = b]]
        BY <2>5
      <3>2. call'[s] = [c EXCEPT !.stage = "tell", !.tell = 1, !.reply = "internal", !.done = b]
        BY <1>0, <3>1 DEF TypeOK
      <3> QED
        BY <2>3, <3>2
    <2> QED
      BY <1>1, <2>2, <2>4, <2>5 DEF RunTool
  <1>2. CASE Tell(s)
    <2>1. /\ c.stage = "tell" /\ c.tell > 0 /\ ~c.ended
          /\ UNCHANGED <<alive, csrf, database>>
      BY <1>0, <1>2 DEF Tell, Barred
    <2>2. call'[s] = [c EXCEPT !.tell = @ - 1, !.told = @ + 1]
      BY <1>0, <1>2 DEF Tell, TypeOK
    <2>3. c.tell = 1 /\ c.told = 0
      BY <1>0, <2>1 DEF Journaled, Call
    <2>4. call'[s] = [c EXCEPT !.tell = 0, !.told = 1]
      BY <2>2, <2>3
    <2>5. call'[s] \in Call
      <3>1. 0 \in 0 .. 2 /\ 1 \in 0 .. 2
        OBVIOUS
      <3> QED
        BY <1>0, <2>4, <3>1 DEF Call
    <2>6. /\ call'[s].stage = "tell" /\ call'[s].tell = 0 /\ call'[s].told = 1
          /\ call'[s].reply = c.reply /\ call'[s].done = c.done /\ call'[s].route = c.route
          /\ ~call'[s].ended /\ call'[s].wasUp = c.wasUp
      BY <1>0, <2>1, <2>4 DEF Call
    <2>7. Barred(call[s])'
      BY <2>6 DEF Barred
    <2>8. Journaled(call[s])' /\ Fresh(call[s])'
      BY <1>0, <2>1, <2>6 DEF Journaled, Fresh
    <2> QED
      BY <2>5, <2>7, <2>8 DEF CallOK
  <1>3. CASE Told(s)
    <2>1. /\ c.stage = "tell" /\ c.tell = 0 /\ ~c.ended
          /\ UNCHANGED <<alive, csrf, database>>
      BY <1>0, <1>3 DEF Told, Barred
    <2>2. call'[s] = [c EXCEPT !.stage = "answered", !.reply = c.reply]
      BY <1>0, <1>3 DEF Told, Answers, TypeOK
    <2>3. call'[s] \in Call
      BY <1>0, <2>2 DEF Call
    <2>4. /\ call'[s].stage = "answered" /\ call'[s].told = c.told
          /\ call'[s].reply = c.reply /\ call'[s].done = c.done /\ call'[s].route = c.route
          /\ ~call'[s].ended /\ call'[s].wasUp = c.wasUp
      BY <1>0, <2>1, <2>2 DEF Call
    <2>5. c.told = 1
      BY <1>0, <2>1 DEF Journaled, Call
    <2>6. Barred(call[s])'
      BY <2>4 DEF Barred
    <2>7. Journaled(call[s])' /\ Fresh(call[s])'
      BY <1>0, <2>1, <2>4, <2>5 DEF Journaled, Fresh
    <2> QED
      BY <2>3, <2>6, <2>7 DEF CallOK
  <1> QED
    BY <1>1, <1>2, <1>3

\* A slot becomes free again.
LEMMA LeaveOK == ASSUME IInv, NEW s \in Slots, Leave(s) PROVE CallOK(call[s])'
  <1>1. call'[s] = Free
    BY DEF IInv, TypeOK, Leave
  <1> QED
    BY <1>1, FreeFacts, GatewayAssumption DEF CallOK, Barred, Journaled, Fresh, Replies

\* A readiness request starts a check or joins the one under way.
LEMMA AskReadyOK ==
  ASSUME IInv, NEW s \in Slots, AskReady(s)
  PROVE  /\ CallOK(call[s])' /\ FlightInv'
         /\ flight' \in [on : BOOLEAN, value : {None, "ready", "unavailable"}, wasUp : BOOLEAN]
  <1> DEFINE begun == IF flight.on THEN flight
                      ELSE [on |-> TRUE, value |-> None, wasUp |-> database.up]
  <1>0. TypeOK /\ FlightInv
    BY DEF IInv
  <1>1. /\ begun \in [on : BOOLEAN, value : {None, "ready", "unavailable"}, wasUp : BOOLEAN]
        /\ begun.value = None /\ (database.up => begun.wasUp)
    BY <1>0 DEF TypeOK, FlightInv
  <1>2. /\ flight' = begun /\ UNCHANGED database
        /\ call'[s] = [Free EXCEPT !.route = "ready", !.wasUp = begun.wasUp, !.stage = "waiting"]
        /\ "ready" \in Routes
    BY <1>0, <1>1 DEF AskReady, TypeOK
  <1>3. call'[s] \in Call
    BY ZenonT(60), <1>1, <1>2, FreeFacts DEF Call
  <1>4. /\ call'[s].route = "ready" /\ call'[s].stage = "waiting" /\ call'[s].wasUp = begun.wasUp
        /\ call'[s].reply = None /\ ~call'[s].ended /\ ~call'[s].done
        /\ call'[s].tell = 0 /\ call'[s].told = 0
    BY <1>2, FreeFacts DEF Call
  <1>5. Barred(call[s])' /\ Journaled(call[s])'
    BY <1>4 DEF Barred, Journaled
  <1>6. Fresh(call[s])'
    BY <1>1, <1>2, <1>4, GatewayAssumption DEF Fresh, Replies
  <1>7. FlightInv'
    BY <1>1, <1>2 DEF FlightInv
  <1> QED
    BY <1>1, <1>2, <1>3, <1>5, <1>6, <1>7 DEF CallOK

\* What a request may count on is not disturbed by the steps of another.
LEMMA OthersOK ==
  ASSUME NEW s \in Slots, CallOK(call[s]), call'[s] = call[s],
         alive' \subseteq alive, UNCHANGED database,
         csrf \in [Sessions -> Nat], csrf' \in [Sessions -> Nat],
         \A x \in Sessions : csrf[x] <= csrf'[x]
  PROVE  CallOK(call[s])'
  <1> DEFINE c == call[s]
  <1>1. c \in Call /\ Journaled(c)' /\ Fresh(c)'
    BY DEF CallOK, Journaled, Fresh
  <1>2. c.secret \in Nat
    BY <1>1 DEF Call
  <1>3. \A x \in Sessions : csrf[x] \in Nat /\ csrf'[x] \in Nat /\ (c.secret < csrf[x] => c.secret < csrf'[x])
    BY <1>2
  <1>4. Barred(c) => Barred(c)'
    BY <1>3 DEF Barred
  <1> QED
    BY <1>1, <1>4 DEF CallOK

\* A step of one request keeps what is said of every request.
LEMMA RequestOK == ASSUME IInv, NEW s \in Slots, RequestStep(s) PROVE CallInv'
  <1> SUFFICES ASSUME NEW t \in Slots PROVE CallOK(call[t])'
    BY DEF CallInv
  <1>1. CASE t = s
    BY <1>1, ArriveOK, AnsweredOK, AdmissionOK, ToolOK, LeaveOK, AskReadyOK DEF RequestStep
  <1>2. CASE t # s
    <2>1. csrf \in [Sessions -> Nat] /\ CallOK(call[t])
      BY DEF IInv, TypeOK, CallInv
    <2> QED
      BY <1>2, <2>1, RequestFrame, OthersOK
  <1> QED
    BY <1>1, <1>2

---------------------------------------------------------------------------
\* The world around.

\* Credentials end, time passes and the process goes on; no request notices.
LEMMA UnnoticedOK ==
  ASSUME IInv, UNCHANGED <<call, csrf, database, flight>>, alive' \subseteq alive
  PROVE  CallInv' /\ FlightInv'
  <1>1. ASSUME NEW s \in Slots PROVE CallOK(call[s])'
    BY OthersOK DEF IInv, TypeOK, CallInv
  <1>2. FlightInv'
    BY DEF IInv, FlightInv
  <1> QED
    BY <1>1, <1>2 DEF CallInv

\* The database goes away or comes back; who waits for a check takes note.
LEMMA TurnOK ==
  ASSUME IInv, Turn
  PROVE  /\ CallInv' /\ FlightInv' /\ call' \in [Slots -> Call]
         /\ flight' \in [on : BOOLEAN, value : {None, "ready", "unavailable"}, wasUp : BOOLEAN]
         /\ database' \in [up : BOOLEAN, turns : 0 .. MaxTurns]
         /\ flight'.on = flight.on /\ \A s \in Slots : call'[s].stage = call[s].stage
  <1>0. TypeOK /\ FlightInv
    BY DEF IInv
  <1>1. UNCHANGED <<alive, csrf>>
    BY DEF Turn
  <1>2. ASSUME NEW s \in Slots
        PROVE  CallOK(call[s])' /\ call'[s] \in Call /\ call'[s].stage = call[s].stage
    <2> DEFINE c == call[s]
    <2>0. c \in Call /\ Barred(c) /\ Journaled(c) /\ Fresh(c)
      BY DEF IInv, CallInv, CallOK
    <2>1. CASE c.stage = "waiting" /\ database'.up
      <3>1. call'[s] = [c EXCEPT !.wasUp = TRUE]
        BY <2>1 DEF Turn
      <3>2. call'[s] \in Call
        BY <2>0, <3>1 DEF Call
      <3>3. /\ call'[s].stage = "waiting" /\ call'[s].wasUp /\ call'[s].ended = c.ended
            /\ call'[s].tell = c.tell /\ call'[s].told = c.told /\ call'[s].done = c.done
        BY <2>0, <2>1, <3>1 DEF Call
      <3>4. Barred(call[s])' /\ Journaled(call[s])' /\ Fresh(call[s])'
        BY <2>0, <2>1, <3>3 DEF Barred, Journaled, Fresh
      <3> QED
        BY <2>1, <3>2, <3>3, <3>4 DEF CallOK
    <2>2. CASE ~(c.stage = "waiting" /\ database'.up)
      <3>1. call'[s] = c
        BY <2>2 DEF Turn
      <3>2. Barred(call[s])' /\ Journaled(call[s])'
        BY <1>1, <2>0, <3>1 DEF Barred, Journaled
      <3>3. Fresh(call[s])'
        BY <2>0, <2>2, <3>1 DEF Fresh
      <3> QED
        BY <2>0, <3>1, <3>2, <3>3 DEF CallOK
    <2> QED
      BY <2>1, <2>2
  <1>3. call' \in [Slots -> Call]
    <2>1. call' = [s \in Slots |-> call'[s]]
      BY DEF Turn
    <2> QED
      BY <1>2, <2>1
  <1>4. database' \in [up : BOOLEAN, turns : 0 .. MaxTurns]
    BY <1>0, GatewayAssumption DEF Turn, TypeOK
  <1>5. /\ flight'.on = flight.on /\ FlightInv'
        /\ flight' \in [on : BOOLEAN, value : {None, "ready", "unavailable"}, wasUp : BOOLEAN]
    <2>1. flight' = IF flight.on /\ database'.up THEN [flight EXCEPT !.wasUp = TRUE] ELSE flight
      BY DEF Turn
    <2> QED
      BY <1>0, <2>1 DEF TypeOK, FlightInv
  <1> QED
    BY <1>2, <1>3, <1>4, <1>5 DEF CallInv

\* A check ends, and answers all that wait for it.
LEMMA CheckOK ==
  ASSUME IInv, Check
  PROVE  CallInv' /\ FlightInv' /\ call' \in [Slots -> Call] /\ flight' = NoFlight
  <1>0. TypeOK
    BY DEF IInv
  <1>1. PICK v \in {"ready", "unavailable"} :
          /\ v = "ready" => database.up
          /\ call' = [s \in Slots |->
               IF call[s].stage = "waiting"
               THEN [call[s] EXCEPT !.stage = "answered", !.reply = v] ELSE call[s]]
    BY DEF Check
  <1>2. UNCHANGED <<alive, csrf, database>> /\ flight' = NoFlight
    BY DEF Check, After
  <1>3. ASSUME NEW s \in Slots PROVE CallOK(call[s])' /\ call'[s] \in Call
    <2> DEFINE c == call[s]
    <2>0. c \in Call /\ Barred(c) /\ Journaled(c) /\ Fresh(c)
      BY DEF IInv, CallInv, CallOK
    <2>1. CASE c.stage = "waiting"
      <3>1. call'[s] = [c EXCEPT !.stage = "answered", !.reply = v] /\ v \in Replies
        BY <1>1, <2>1 DEF Replies
      <3>2. call'[s] \in Call
        BY <2>0, <3>1 DEF Call
      <3>3. /\ call'[s].stage = "answered" /\ call'[s].reply = v /\ call'[s].wasUp = c.wasUp
            /\ call'[s].ended = c.ended /\ call'[s].told = c.told /\ call'[s].done = c.done
            /\ call'[s].counted = c.counted
        BY <2>0, <3>1 DEF Call
      <3>4. Barred(call[s])'
        BY <2>0, <2>1, <3>3 DEF Barred
      <3>5. Journaled(call[s])'
        BY <2>0, <2>1, <3>3 DEF Journaled
      <3>6. Fresh(call[s])'
        BY <1>1, <2>0, <2>1, <3>3 DEF Fresh
      <3> QED
        BY <3>2, <3>4, <3>5, <3>6 DEF CallOK
    <2>2. CASE c.stage # "waiting"
      <3>1. call'[s] = c
        BY <1>1, <2>2
      <3> QED
        BY <1>2, <2>0, <3>1 DEF CallOK, Barred, Journaled, Fresh
    <2> QED
      BY <2>1, <2>2
  <1>4. call' \in [Slots -> Call]
    BY <1>1, <1>3
  <1>5. FlightInv'
    BY <1>2 DEF FlightInv, NoFlight
  <1> QED
    BY <1>2, <1>3, <1>4, <1>5 DEF CallInv

---------------------------------------------------------------------------
\* The limits.

\* What the counters say stays true while time passes.
LEMMA LimitWaits ==
  ASSUME IInv, UNCHANGED limits, now' \in Nat, now <= now'
  PROVE  LimitInv'
  <1>0. TypeOK /\ LimitInv
    BY DEF IInv
  <1>1. UNCHANGED <<count, passed>>
    BY DEF limits
  <1>3. ASSUME NEW k \in DOMAIN count
        PROVE  WindowInv(At(passed, k), Limit[k[1]], Window[k[1]], count[k].n, count[k].since, now')
    <2>1. /\ WindowInv(At(passed, k), Limit[k[1]], Window[k[1]], count[k].n, count[k].since, now)
          /\ count[k].n \in Nat /\ count[k].since \in Nat /\ now \in Nat
      <3>1. k[1] \in Groups /\ Limit[k[1]] \in Nat
        BY <1>0, GatewayAssumption DEF TypeOK
      <3> QED
        BY <1>0, <3>1, GatewayAssumption DEF TypeOK, LimitInv
    <2> QED
      BY <2>1, WindowWaits
  <1> QED
    BY <1>0, <1>1, <1>3 DEF LimitInv

\* One guard of the chain.
LEMMA GuardOK ==
  ASSUME IInv, NEW s \in Slots, Guard(s)
  PROVE  /\ LimitInv'
         /\ DOMAIN count' \subseteq Groups \X Identities
         /\ \A k \in DOMAIN count' :
              count'[k] \in [n : 1 .. Limit[k[1]] + 1, since : 0 .. MaxTime]
         /\ passed' \subseteq [group : Groups, who : Identities, at : 0 .. MaxTime, nth : Counts]
  <1> DEFINE c == call[s]
             g == Head(c.limits)
             key == <<g, Identity(g, c)>>
             w == Counted(key)
             e == [group |-> g, who |-> c.who, at |-> now, nth |-> c.nth]
             l == Limit[g]
             d == Window[g]
  <1>0. TypeOK /\ LimitInv /\ c \in Call
    BY DEF IInv, CallInv, CallOK
  <1>1. /\ count' = [k \in DOMAIN count \cup {key} |-> IF k = key THEN w ELSE count[k]]
        /\ \/ w.n > l /\ passed' = passed
           \/ ~(w.n > l) /\ passed' = passed \cup {e}
        /\ c.limits # <<>> /\ now' = now
    BY DEF Guard
  <1>2. g \in Groups /\ l \in Nat \ {0} /\ d \in Nat \ {0}
    <2>1. g \in Groups
      BY <1>0, <1>1 DEF Call
    <2> QED
      BY <2>1, GatewayAssumption
  <1>3. key \in Groups \X Identities /\ key[1] = g /\ KeyOf(e) = key
    <2>1. Identity(g, c) \in Identities
      BY <1>0 DEF Identity, Identities, Call
    <2> QED
      BY <1>2, <2>1 DEF KeyOf, Identity
  <1>4. now \in Nat /\ now \in 0 .. MaxTime /\ e.at = now
    BY <1>0 DEF TypeOK
  <1>5. e \in [group : Groups, who : Identities, at : 0 .. MaxTime, nth : Counts]
    BY <1>0, <1>2, <1>4 DEF Call
  <1>6. key \in DOMAIN count =>
          /\ count[key].n \in 1 .. l + 1 /\ count[key].since \in 0 .. MaxTime
          /\ count[key].n \in Nat /\ count[key].since \in Nat
          /\ WindowInv(At(passed, key), l, d, count[key].n, count[key].since, now)
    BY <1>0, <1>2, <1>3, GatewayAssumption DEF TypeOK, LimitInv
  <1> HIDE DEF c, g, key, e, l, d
  <1>7. At(passed \cup {e}, key) = At(passed, key) \cup {e}
    BY <1>3 DEF At
  <1>8. ASSUME key \notin DOMAIN count \/ now >= count[key].since + d
        PROVE  WindowInv(At(passed', key), l, d, w.n, w.since, now)
               /\ w \in [n : 1 .. l + 1, since : 0 .. MaxTime]
    <2>1. w = [n |-> 1, since |-> now]
      BY <1>3, <1>8 DEF Counted, d
    <2>2. At(passed', key) = At(passed, key) \cup {e}
      <3>1. w.n = 1 /\ ~(1 > l)
        BY <1>2, <2>1
      <3> QED
        BY <1>1, <1>7, <3>1
    <2>3. At(passed, key) = {} \/ \E n, since \in Nat :
            WindowInv(At(passed, key), l, d, n, since, now) /\ since + d <= now
      <3>1. CASE key \notin DOMAIN count
        BY <1>0, <3>1 DEF LimitInv, At
      <3>2. CASE key \in DOMAIN count
        BY <1>2, <1>4, <1>6, <1>8, <3>2
      <3> QED
        BY <3>1, <3>2
    <2>4. WindowInv(At(passed, key) \cup {e}, l, d, 1, now, now)
      BY <1>2, <1>4, <2>3, WindowOpens
    <2>5. w \in [n : 1 .. l + 1, since : 0 .. MaxTime]
      BY <1>2, <1>4, <2>1
    <2> QED
      BY <2>1, <2>2, <2>4, <2>5
  <1>9. ASSUME key \in DOMAIN count /\ ~(now >= count[key].since + d)
        PROVE  WindowInv(At(passed', key), l, d, w.n, w.since, now)
               /\ w \in [n : 1 .. l + 1, since : 0 .. MaxTime]
    <2> DEFINE n == count[key].n
               since == count[key].since
    <2>1. /\ n \in 1 .. l + 1 /\ n \in Nat /\ since \in Nat /\ since \in 0 .. MaxTime
          /\ WindowInv(At(passed, key), l, d, n, since, now)
      BY <1>6, <1>9
    <2>2. count[key] \in [n : 1 .. l + 1, since : 0 .. MaxTime]
      BY <1>0, <1>3, <1>9 DEF TypeOK, l
    <2>3. /\ w.n = IF n <= l THEN n + 1 ELSE n
          /\ w.since = since
          /\ w = [count[key] EXCEPT !.n = IF n <= l THEN n + 1 ELSE n]
      BY <1>3, <1>9, <2>2 DEF Counted, d, l
    <2>4. (IF n <= l THEN n + 1 ELSE n) \in 1 .. l + 1
      BY <1>2, <2>1
    <2>5. w \in [n : 1 .. l + 1, since : 0 .. MaxTime]
      BY <2>2, <2>3, <2>4
    <2>6. CASE w.n > l
      <3>1. At(passed', key) = At(passed, key) /\ n <= w.n /\ w.n \in Nat
        BY <1>1, <1>2, <2>1, <2>3, <2>6
      <3>2. WindowInv(At(passed, key), l, d, w.n, since, now)
        BY <1>2, <1>4, <2>1, <3>1, WindowWaits
      <3> QED
        BY <2>3, <2>5, <3>1, <3>2
    <2>7. CASE ~(w.n > l)
      <3>1. w.n = n + 1 /\ n + 1 <= l
        BY <1>2, <2>1, <2>3, <2>7
      <3>2. At(passed', key) = At(passed, key) \cup {e}
        BY <1>1, <1>7, <2>7
      <3>3. now < since + d
        BY <1>2, <1>4, <1>9, <2>1
      <3>4. WindowInv(At(passed, key) \cup {e}, l, d, n + 1, since, now)
        BY <1>2, <1>4, <2>1, <3>1, <3>3, WindowGrows
      <3> QED
        BY <2>3, <2>5, <3>1, <3>2, <3>4
    <2> QED
      BY <2>6, <2>7
  <1>10. /\ WindowInv(At(passed', key), l, d, w.n, w.since, now)
         /\ w \in [n : 1 .. l + 1, since : 0 .. MaxTime]
    BY <1>8, <1>9
  <1> HIDE DEF w
  <1>11. DOMAIN count' = DOMAIN count \cup {key} /\ count'[key] = w
    BY <1>1
  <1>12. ASSUME NEW k \in DOMAIN count', k # key
         PROVE  k \in DOMAIN count /\ count'[k] = count[k] /\ At(passed', k) = At(passed, k)
    <2>1. At(passed \cup {e}, k) = At(passed, k)
      BY <1>3, <1>12 DEF At
    <2> QED
      BY <1>1, <1>12, <2>1
  <1>13. ASSUME NEW k \in DOMAIN count'
         PROVE  /\ WindowInv(At(passed', k), Limit[k[1]], Window[k[1]], count'[k].n, count'[k].since, now')
                /\ count'[k] \in [n : 1 .. Limit[k[1]] + 1, since : 0 .. MaxTime]
    <2>1. CASE k = key
      BY <1>1, <1>3, <1>10, <1>11, <2>1 DEF l, d
    <2>2. CASE k # key
      BY <1>0, <1>1, <1>12, <2>2 DEF LimitInv, TypeOK
    <2> QED
      BY <2>1, <2>2
  <1>14. IsFiniteSet(passed') /\ \A p \in passed' : KeyOf(p) \in DOMAIN count'
    <2>1. IsFiniteSet(passed \cup {e})
      BY <1>0, FS_AddElement DEF LimitInv
    <2> QED
      BY <1>0, <1>1, <1>3, <1>11, <2>1 DEF LimitInv
  <1>15. passed' \subseteq [group : Groups, who : Identities, at : 0 .. MaxTime, nth : Counts]
    BY <1>0, <1>1, <1>5 DEF TypeOK
  <1>16. DOMAIN count' \subseteq Groups \X Identities
    BY <1>0, <1>3, <1>11 DEF TypeOK
  <1>17. LimitInv'
    BY <1>13, <1>14 DEF LimitInv
  <1> QED
    BY <1>13, <1>15, <1>16, <1>17

---------------------------------------------------------------------------
\* Start-up and shutdown.

\* Signals, failures and the end of the pool.
LEMMA ProcessOK ==
  ASSUME IInv, ProcessStep
  PROVE  /\ ProcessInv' /\ UNCHANGED services
         /\ process' \in [phase : {"starting", "listening", "ended"},
                          signals : SUBSET {"SIGINT", "SIGTERM"}, closing : 0 .. 2,
                          failed : BOOLEAN, ends : 0 .. 2, exit : {None, 0, 1}]
  <1> DEFINE p == process
             PT == [phase : {"starting", "listening", "ended"},
                    signals : SUBSET {"SIGINT", "SIGTERM"}, closing : 0 .. 2,
                    failed : BOOLEAN, ends : 0 .. 2, exit : {None, 0, 1}]
  <1>0. p \in PT /\ ProcessInv /\ p.closing \in Nat /\ p.ends \in Nat
    BY DEF IInv, TypeOK
  <1>1. UNCHANGED services
    BY DEF ProcessStep, StartServer, Close, Exit, Signal
  <1>2. Quiet' = Quiet
    BY <1>1 DEF Quiet, services
  <1>3. 0 \in 0 .. 2 /\ 1 \in 0 .. 2
    OBVIOUS
  <1>4. CASE StartServer
    <2>1. p.phase = "starting" /\ p.closing = 0 /\ p.ends = 0 /\ Quiet
      BY <1>0, <1>4 DEF StartServer, ProcessInv
    <2>2. \/ process' = [p EXCEPT !.phase = "listening"]
          \/ process' = [p EXCEPT !.phase = "ended", !.ends = 1, !.exit = 1, !.failed = TRUE]
      BY <1>4 DEF StartServer
    <2>3. process' \in PT
      BY ZenonT(60), <1>0, <1>3, <2>2
    <2>4. CASE process' = [p EXCEPT !.phase = "listening"]
      <3>1. /\ process'.phase = "listening" /\ process'.closing = 0 /\ process'.ends = 0
            /\ process'.exit = p.exit /\ process'.failed = p.failed
        BY <1>0, <2>1, <2>4
      <3> QED
        BY <1>0, <1>1, <1>2, <2>1, <2>3, <3>1 DEF ProcessInv
    <2>5. CASE process' = [p EXCEPT !.phase = "ended", !.ends = 1, !.exit = 1, !.failed = TRUE]
      <3>1. /\ process'.phase = "ended" /\ process'.closing = 0 /\ process'.ends = 1
            /\ process'.exit = 1 /\ process'.failed
        BY <1>0, <2>1, <2>5
      <3> QED
        BY <1>0, <1>1, <1>2, <2>1, <2>3, <3>1 DEF ProcessInv
    <2> QED
      BY <2>2, <2>3, <2>4, <2>5
  <1>5. CASE Exit
    <2>1. process' = [p EXCEPT !.phase = "ended"]
      BY <1>5 DEF Exit
    <2>2. process' \in PT
      BY <1>0, <2>1
    <2>3. ProcessInv'
      BY <1>0, <1>2, <2>1 DEF ProcessInv
    <2> QED
      BY <1>1, <2>2, <2>3
  <1>6. ASSUME NEW sig \in {"SIGINT", "SIGTERM"}, Signal(sig) PROVE process' \in PT /\ ProcessInv'
    <2>1. p.phase = "listening"
      BY <1>6 DEF Signal
    <2>2. CASE FirstClose
      <3>1. p.closing = 0 /\ p.ends = 0
        BY <2>2 DEF FirstClose
      <3>2. process' = [p EXCEPT !.signals = p.signals \cup {sig}, !.closing = 1]
        BY <1>6, <2>2, <3>1 DEF Signal
      <3>3. process' \in PT
        BY <1>0, <1>3, <3>2
      <3>4. /\ process'.closing = 1 /\ process'.ends = 0 /\ process'.phase = "listening"
            /\ process'.exit = p.exit /\ process'.failed = p.failed
        BY <1>0, <2>1, <3>1, <3>2
      <3> QED
        BY <1>0, <3>3, <3>4 DEF ProcessInv
    <2>3. CASE ~FirstClose
      <3>1. process' = [p EXCEPT !.signals = p.signals \cup {sig}, !.exit = 0]
        BY <1>6, <2>3 DEF Signal
      <3>2. process' \in PT
        BY <1>0, <3>1
      <3>3. /\ process'.closing = p.closing /\ process'.ends = p.ends
            /\ process'.phase = "listening" /\ process'.exit = 0
        BY <1>0, <2>1, <3>1
      <3> QED
        BY <1>0, <1>2, <3>2, <3>3 DEF ProcessInv
    <2> QED
      BY <2>2, <2>3
  <1>7. CASE Close
    <2>1. /\ p.closing = 1 /\ p.ends = 0 /\ p.phase # "starting" /\ Quiet
      BY <1>0, <1>7 DEF Close, ProcessInv, Quiet
    <2>2. PICK failed \in BOOLEAN :
            process' = [p EXCEPT !.closing = 0, !.ends = 1,
                                 !.failed = IF failed THEN TRUE ELSE @,
                                 !.exit = IF failed THEN 1 ELSE 0]
      <3>1. p.closing - 1 = 0 /\ p.ends + 1 = 1 /\ ~(p.ends > 0)
        BY <2>1
      <3> QED
        BY <1>7, <3>1 DEF Close
    <2>3. CASE failed
      <3>1. process' = [p EXCEPT !.closing = 0, !.ends = 1, !.failed = TRUE, !.exit = 1]
        BY <1>0, <2>1, <2>2, <2>3
      <3>2. process' \in PT
        BY <1>0, <1>3, <3>1
      <3>3. /\ process'.closing = 0 /\ process'.ends = 1 /\ process'.failed
            /\ process'.phase = p.phase
        BY <1>0, <3>1
      <3> QED
        BY <1>1, <1>2, <2>1, <3>2, <3>3 DEF ProcessInv
    <2>4. CASE ~failed
      <3>1. process' = [p EXCEPT !.closing = 0, !.ends = 1, !.exit = 0]
        BY <1>0, <2>1, <2>2, <2>4
      <3>2. process' \in PT
        BY <1>0, <1>3, <3>1
      <3>3. /\ process'.closing = 0 /\ process'.ends = 1 /\ process'.exit = 0
            /\ process'.phase = p.phase
        BY <1>0, <3>1
      <3> QED
        BY <1>1, <1>2, <2>1, <3>2, <3>3 DEF ProcessInv
    <2> QED
      BY <2>3, <2>4
  <1> QED
    BY <1>1, <1>4, <1>5, <1>6, <1>7 DEF ProcessStep

\* While nothing is under way and nothing is listened to, nothing begins.
LEMMA QuietKept ==
  ASSUME IInv, UNCHANGED process,
         \/ \E s \in Slots : RequestStep(s)
         \/ WorldStep
         \/ UNCHANGED vars
  PROVE  ProcessInv'
  <1> SUFFICES ASSUME process.phase = "starting" \/ process.ends > 0 PROVE Quiet'
    BY DEF IInv, ProcessInv
  <1>0. TypeOK /\ Quiet /\ ~Listening
    BY DEF IInv, TypeOK, ProcessInv, Listening
  <1>1. ASSUME NEW s \in Slots, RequestStep(s) PROVE FALSE
    BY <1>0, <1>1, RequestFrame DEF Quiet
  <1>2. CASE UNCHANGED <<call, flight>>
    BY <1>0, <1>2 DEF Quiet
  <1>3. CASE Turn
    BY <1>0, <1>3, TurnOK DEF Quiet
  <1>4. CASE Check
    BY <1>0, <1>4 DEF Check, Quiet
  <1> QED
    BY <1>1, <1>2, <1>3, <1>4 DEF WorldStep, Revoke, Tick, vars

---------------------------------------------------------------------------
\* The invariant.

\* The process before start-up.
LEMMA InitInv == Init => IInv
  <1> SUFFICES ASSUME Init PROVE IInv
    OBVIOUS
  <1>1. call \in [Slots -> Call] /\ \A s \in Slots : call[s] = Free
    BY FreeFacts DEF Init
  <1>2. TypeOK
    BY <1>1, GatewayAssumption DEF Init, TypeOK, NoFlight, Counts
  <1>3. CallInv
    BY <1>1, FreeFacts, GatewayAssumption DEF CallInv, CallOK, Barred, Journaled, Fresh, Replies
  <1>4. FlightInv /\ ProcessInv
    BY <1>1, FreeFacts, GatewayAssumption DEF Init, FlightInv, NoFlight, ProcessInv, Quiet
  <1>5. LimitInv
    BY FS_EmptySet DEF Init, LimitInv
  <1> QED
    BY <1>2, <1>3, <1>4, <1>5 DEF IInv

\* Every step keeps the inductive invariant.
LEMMA StepInv == IInv /\ [Next]_vars => IInv'
  <1> SUFFICES ASSUME IInv, [Next]_vars PROVE IInv'
    OBVIOUS
  <1>0. TypeOK
    BY DEF IInv
  <1>n. now \in Nat /\ \A n \in 0 .. MaxTime : n \in Nat
    BY <1>0, GatewayAssumption DEF TypeOK
  <1>1. ASSUME NEW s \in Slots, RequestStep(s) PROVE IInv'
    <2>1. CallInv' /\ ProcessInv'
      BY <1>1, RequestOK, RequestFrame, QuietKept
    <2>2. call' \in [Slots -> Call]
      <3>1. \A t \in Slots : call'[t] \in Call
        BY <2>1 DEF CallInv, CallOK
      <3>2. call' = [t \in Slots |-> call'[t]]
        BY <1>1, RequestFrame
      <3> QED
        BY <3>1, <3>2
    <2>3. /\ FlightInv'
          /\ flight' \in [on : BOOLEAN, value : {None, "ready", "unavailable"}, wasUp : BOOLEAN]
      <3>1. CASE AskReady(s)
        BY <3>1, AskReadyOK
      <3>2. CASE UNCHANGED <<flight, database>>
        BY <1>0, <3>2 DEF IInv, FlightInv, TypeOK
      <3> QED
        BY <1>1, <3>1, <3>2, RequestFrame
    <2>4. /\ LimitInv'
          /\ DOMAIN count' \subseteq Groups \X Identities
          /\ \A k \in DOMAIN count' :
               count'[k] \in [n : 1 .. Limit[k[1]] + 1, since : 0 .. MaxTime]
          /\ passed' \subseteq [group : Groups, who : Identities, at : 0 .. MaxTime, nth : Counts]
      <3>1. CASE Guard(s)
        BY <3>1, GuardOK
      <3>2. CASE UNCHANGED limits
        <4>1. now' = now
          BY <1>1, RequestFrame
        <4>2. LimitInv'
          BY <1>n, <3>2, <4>1, LimitWaits
        <4> QED
          BY <1>0, <3>2, <4>2 DEF TypeOK, limits
      <3> QED
        BY <1>1, <3>1, <3>2, RequestFrame
    <2>5. /\ UNCHANGED <<now, database, process>> /\ alive' \subseteq alive
          /\ csrf' \in [Sessions -> Nat] /\ calls' \in Counts
      BY <1>1, RequestFrame
    <2>6. TypeOK'
      BY <1>0, <2>2, <2>3, <2>4, <2>5 DEF TypeOK
    <2> QED
      BY <2>1, <2>3, <2>4, <2>6 DEF IInv
  <1>2. CASE ProcessStep
    <2>1. UNCHANGED <<now, alive, csrf, limits, calls, call, database, flight>>
      BY <1>2, ProcessOK DEF services
    <2>2. CallInv' /\ FlightInv'
      BY <2>1, UnnoticedOK
    <2>3. LimitInv'
      BY <1>n, <2>1, LimitWaits
    <2>4. TypeOK' /\ ProcessInv'
      BY <1>0, <1>2, <2>1, ProcessOK DEF TypeOK, limits
    <2> QED
      BY <2>2, <2>3, <2>4 DEF IInv
  <1>3. CASE \/ \E x \in Credentials : Revoke(x)
             \/ Tick
             \/ UNCHANGED vars
    <2>1. /\ UNCHANGED <<csrf, limits, calls, call, database, flight, process>>
          /\ alive' \subseteq alive
      BY <1>3 DEF Revoke, Tick, vars
    <2>2. now' \in 0 .. MaxTime /\ now <= now'
      <3>1. CASE Tick
        BY <1>0, <3>1, GatewayAssumption DEF Tick, TypeOK
      <3>2. CASE UNCHANGED now
        BY <1>0, <1>n, <3>2 DEF TypeOK
      <3> QED
        BY <1>3, <3>1, <3>2 DEF Revoke, vars
    <2>3. CallInv' /\ FlightInv'
      BY <2>1, UnnoticedOK
    <2>4. LimitInv'
      BY <1>n, <2>1, <2>2, LimitWaits
    <2>5. ProcessInv'
      BY <1>3, <2>1, QuietKept DEF WorldStep
    <2>6. TypeOK'
      BY <1>0, <2>1, <2>2 DEF TypeOK, limits
    <2> QED
      BY <2>3, <2>4, <2>5, <2>6 DEF IInv
  <1>4. CASE Turn \/ Check
    <2>1. UNCHANGED <<now, alive, csrf, limits, calls, process>>
      BY <1>4 DEF Turn, Check
    <2>2. CallInv' /\ FlightInv' /\ call' \in [Slots -> Call]
      BY <1>4, TurnOK, CheckOK
    <2>3. flight' \in [on : BOOLEAN, value : {None, "ready", "unavailable"}, wasUp : BOOLEAN]
      <3>1. NoFlight \in [on : BOOLEAN, value : {None, "ready", "unavailable"}, wasUp : BOOLEAN]
        BY DEF NoFlight
      <3>2. CASE Turn
        BY <3>2, TurnOK
      <3>3. CASE Check
        BY <3>1, <3>3, CheckOK
      <3> QED
        BY <1>4, <3>2, <3>3
    <2>4. database' \in [up : BOOLEAN, turns : 0 .. MaxTurns]
      BY <1>0, <1>4, TurnOK DEF Check, TypeOK
    <2>5. LimitInv'
      BY <1>n, <2>1, LimitWaits
    <2>6. ProcessInv'
      BY <1>4, <2>1, QuietKept DEF WorldStep
    <2>7. TypeOK'
      BY <1>0, <2>1, <2>2, <2>3, <2>4 DEF TypeOK, limits
    <2> QED
      BY <2>2, <2>5, <2>6, <2>7 DEF IInv
  <1> QED
    BY <1>1, <1>2, <1>3, <1>4, NextCases DEF WorldStep

\* The strengthening of all the properties below is inductive.
THEOREM Invariant == Spec => []IInv
  BY InitInv, StepInv, PTL DEF Spec

---------------------------------------------------------------------------
\* What follows from it.

\* Every variable keeps its shape, whatever requests are made at the same time.
THEOREM TypeCorrect == Spec => []TypeOK
  <1>1. IInv => TypeOK
    BY DEF IInv
  <1> QED
    BY <1>1, Invariant, PTL

\* A request that comes after its connection or session ended, or with a CSRF
\* secret that GET /api/v1/session has replaced, never passes a limit nor reaches
\* a service: authenticate or verifyCsrf turns it away whatever else happens.
THEOREM LateShutOut == Spec => []ShutOut
  <1>1. IInv => ShutOut
    BY DEF IInv, CallInv, CallOK, Barred, ShutOut
  <1> QED
    BY <1>1, Invariant, PTL

\* runTool and the service never both journal a failure of a tool call, and never
\* both leave it to the other; a refused call changed nothing.
THEOREM ToolFailuresToldOnce == Spec => []FailuresToldOnce
  <1>1. IInv => FailuresToldOnce
    BY DEF IInv, CallInv, CallOK, Journaled, FailuresToldOnce
  <1> QED
    BY <1>1, Invariant, PTL

\* A probe, the one that starts a readiness check or one that joins it, is told
\* "ready" only when the database was usable at some moment of that check.
THEOREM ReadinessFresh == Spec => []ReadyIsFresh
  <1>1. IInv => ReadyIsFresh
    BY DEF IInv, CallInv, CallOK, Fresh, ReadyIsFresh
  <1> QED
    BY <1>1, Invariant, PTL

\* Whatever signals arrive and whenever, the pool ends once, when nothing uses it,
\* and only a failure makes the exit code 1.
THEOREM ShutdownClean == Spec => []CleanExit
  <1>1. ASSUME IInv PROVE CleanExit
    <2>1. process.closing \in Nat /\ process.ends \in Nat
      BY <1>1 DEF IInv, TypeOK
    <2> QED
      BY <1>1, <2>1 DEF IInv, ProcessInv, Quiet, CleanExit
  <1> QED
    BY <1>1, Invariant, PTL

\* The fixed windows of @fastify/rate-limit let less than twice the limit pass in
\* any stretch of a window's length, for every limit, window and key.
THEOREM LimitsRespected == Spec => []LimitHolds
  <1>1. ASSUME IInv PROVE LimitHolds
    <2> SUFFICES ASSUME NEW p \in passed
                 PROVE  Cardinality({q \in passed : SameSubject(p, q)
                            /\ p.at <= q.at /\ q.at < p.at + Window[p.group]})
                          < 2 * Limit[p.group]
      BY DEF LimitHolds
    <2> DEFINE k == KeyOf(p)
    <2>1. k \in DOMAIN count /\ k[1] = p.group /\ p \in At(passed, k)
      BY <1>1 DEF IInv, LimitInv, KeyOf, At
    <2>2. Cardinality(Within(At(passed, k), p.at, p.at + Window[p.group])) < 2 * Limit[p.group]
      BY <1>1, <2>1 DEF IInv, LimitInv, WindowInv
    <2>3. {q \in passed : SameSubject(p, q) /\ p.at <= q.at /\ q.at < p.at + Window[p.group]}
            = Within(At(passed, k), p.at, p.at + Window[p.group])
      BY DEF SameSubject, Within, At, KeyOf
    <2> QED
      BY <2>2, <2>3
  <1> QED
    BY <1>1, Invariant, PTL
=============================================================================
