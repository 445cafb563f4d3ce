----------------------------- MODULE WsSession -----------------------------
(***************************************************************************)
(* Websocket sessions (ws.rs): each runs in a worker thread of the HTTP    *)
(* server and reaches the multiplexer of its PLC by messages only.  A      *)
(* mutation is sent and forgotten, a Resolve or a Subscription is a future *)
(* that waits while the mailbox is full; what a session shows comes on two *)
(* ways, the answer of its Resolve and the notices in its own mailbox.     *)
(* The multiplexer is what AdsToWsMultiplexer.tla makes of one structure:  *)
(* a mirror, requests to the PLC in order, answers copied over the mirror. *)
(***************************************************************************)
EXTENDS Naturals, Sequences

CONSTANTS
    Base,         \* values of a byte (256)
    Sessions,     \* websocket sessions, each opened at most once
    WorkerOf,     \* session -> the worker thread it runs in
    Octets,       \* net id -> the numbers it is written with
    Plcs,         \* the configured PLCs: [net, port] records
    Visits,       \* what the browsers ask for: session -> [net, port] record
    MaxTexts,     \* bound: text messages of all sessions
    Capacity,     \* messages in a mailbox before `send` waits
    Disconnects,  \* the PLCs whose connection may end
    PlcRefuses    \* may the PLC answer a read with an error and no data?

Urls == UNION {{visit[s] : s \in Sessions} : visit \in Visits}

ASSUME SessionAssumption ==
    /\ Base \in Nat \ {0}
    /\ WorkerOf \in [Sessions -> {WorkerOf[s] : s \in Sessions}]
    /\ \A visit \in Visits : visit \in [Sessions -> Urls]
    /\ \A p \in Plcs \cup Urls : p.net \in DOMAIN Octets /\ p.port \in 0..(Base * Base - 1)
    /\ \A m, n \in DOMAIN Octets : Octets[m] = Octets[n] => m = n
    /\ MaxTexts \in Nat /\ Capacity \in Nat \ {0}
    /\ Disconnects \subseteq Plcs /\ PlcRefuses \in BOOLEAN

\* A structure's value: as loaded at boot, or as the k-th mutation of a session made it.
Loaded == <<>>
Values == {Loaded} \cup (Sessions \X (1..MaxTexts))

VARIABLES
    status,      \* the process: "running" or "panicked"
    phase,       \* session -> "new", "open", "closed", or "dead" with its worker
    url,         \* session -> the URL it was opened with
    texts,       \* text messages received from browsers
    sent,        \* history: session -> mutations it has sent
    malformed,   \* history: sessions that sent a text the parser refuses
    parked,      \* session -> `send`s waiting for room in the mailbox
    future,      \* session -> its Resolve
    inbox,       \* session -> notices in its mailbox
    shown,       \* session -> last value shown since it subscribed, if any
    outdated,    \* history: session -> was that an answer a newer notice overtook?
    mailbox,     \* PLC -> messages to its multiplexer
    alive,       \* PLC -> does the multiplexer run?
    clientUp,    \* PLC -> does the AdsClient run?
    ws_clients,  \* PLC -> sessions registered
    subscribers, \* PLC -> sessions in subscription_map
    mirror,      \* PLC -> the multiplexer's value
    pipe,        \* PLC -> requests on their way
    replies,     \* PLC -> answers on their way, at most one for each session
    plc,         \* PLC -> its value
    order        \* history: PLC -> mutations in the order the multiplexer handled them

browser == <<phase, url, texts, sent, malformed>>
display == <<inbox, shown, outdated>>
lifecycle == <<alive, clientUp>>
registry == <<ws_clients, subscribers>>
requests == <<pipe, replies, plc>>
vars == <<status, browser, parked, future, display, mailbox, lifecycle, registry, mirror,
          requests, order>>

Running == status = "running"
Open(s) == phase[s] = "open"

-----------------------------------------------------------------------------
\* Routing: as_plc_conn writes the octets, then the port's low and high byte.
ConnLowByte(p) == <<Octets[p.net], p.port % Base>>
Conn(p) == <<Octets[p.net], p.port % Base, (p.port \div Base) % Base>>

\* WsState.sender: the multiplexers by connection.
Known(u) == \E p \in Plcs : Conn(p) = Conn(u)
Target(u) == CHOOSE p \in Plcs : Conn(p) = Conn(u)
Mux(s) == Target(url[s])

\* Messages.
Message(kind, s, v) == [kind |-> kind, from |-> s, v |-> v]
NoFuture == [st |-> "none", v |-> Loaded, since |-> 0, blind |-> FALSE, passed |-> FALSE]

\* do_send: an actor that stopped takes nothing.
DoSend(s, m) ==
    mailbox' = IF alive[Mux(s)] THEN [mailbox EXCEPT ![Mux(s)] = Append(@, m)] ELSE mailbox

\* send: waits when the mailbox is full, and may go in all the same.
SendOrDrop(s, m) ==
    /\ IF Len(mailbox[Mux(s)]) < Capacity THEN DoSend(s, m) ELSE UNCHANGED mailbox
    /\ UNCHANGED parked
SendOrPark(s, m) ==
    \/ DoSend(s, m) /\ UNCHANGED parked
    \/ /\ alive[Mux(s)] /\ Len(mailbox[Mux(s)]) >= Capacity
       /\ parked' = [parked EXCEPT ![s] = Append(@, m)]
       /\ UNCHANGED mailbox

\* A panic in the worker thread of s: all its sessions are gone, and none says goodbye.
\* What a session that is gone had shown or sent is of no interest any more.
WorkerDies(s) ==
    LET Gone == {s} \cup {t \in Sessions : WorkerOf[t] = WorkerOf[s] /\ Open(t)}
        Reset(f, none) == [t \in Sessions |-> IF t \in Gone THEN none ELSE f[t]]
    IN  /\ phase' = Reset(phase, "dead")
        /\ parked' = Reset(parked, <<>>)
        /\ future' = Reset(future, NoFuture)
        /\ inbox' = Reset(inbox, <<>>)
        /\ shown' = Reset(shown, <<>>)
        /\ outdated' = Reset(outdated, FALSE)
        /\ sent' = Reset(sent, 0)
        /\ UNCHANGED <<mailbox, lifecycle, registry, mirror, requests, order>>

-----------------------------------------------------------------------------
Init ==
    /\ status = "running"
    /\ phase = [s \in Sessions |-> "new"]
    /\ url \in {visit \in Visits : \A s \in Sessions : \E p \in Plcs : p.net = visit[s].net}
    /\ texts = 0
    /\ sent = [s \in Sessions |-> 0]
    /\ malformed = {}
    /\ parked = [s \in Sessions |-> <<>>]
    /\ future = [s \in Sessions |-> NoFuture]
    /\ inbox = [s \in Sessions |-> <<>>]
    /\ shown = [s \in Sessions |-> <<>>]
    /\ outdated = [s \in Sessions |-> FALSE]
    /\ mailbox = [p \in Plcs |-> <<>>]
    /\ alive = [p \in Plcs |-> TRUE]
    /\ clientUp = [p \in Plcs |-> TRUE]
    /\ ws_clients = [p \in Plcs |-> {}]
    /\ subscribers = [p \in Plcs |-> {}]
    /\ mirror = [p \in Plcs |-> Loaded]
    /\ pipe = [p \in Plcs |-> <<>>]
    /\ replies = [p \in Plcs |-> {}]
    /\ plc = [p \in Plcs |-> Loaded]
    /\ order = [p \in Plcs |-> <<>>]

-----------------------------------------------------------------------------
\* The session.

\* ws_index looks for the net id only (a URL without one gets an error page and
\* no session); started() unwraps the multiplexer of net id and port.
Start(s) ==
    /\ Running /\ phase[s] = "new"
    /\ \/ /\ Known(url[s])
          /\ phase' = [phase EXCEPT ![s] = "open"]
          /\ DoSend(s, Message("register", s, Loaded))
          /\ UNCHANGED <<parked, future, display, lifecycle, registry, mirror, requests, order>>
          /\ UNCHANGED sent
       \/ ~Known(url[s]) /\ WorkerDies(s)
    /\ UNCHANGED <<status, url, texts, malformed>>

\* stopped(): the futures of the context go with it, a message sent does not.
Stop(s) ==
    /\ Running /\ Open(s)
    /\ phase' = [phase EXCEPT ![s] = "closed"]
    /\ DoSend(s, Message("unregister", s, Loaded))
    /\ parked' = [parked EXCEPT ![s] = <<>>]
    /\ future' = [future EXCEPT ![s] = NoFuture]
    /\ inbox' = [inbox EXCEPT ![s] = <<>>]
    /\ shown' = [shown EXCEPT ![s] = <<>>]
    /\ outdated' = [outdated EXCEPT ![s] = FALSE]
    /\ sent' = [sent EXCEPT ![s] = 0]
    /\ UNCHANGED <<status, url, texts, malformed, lifecycle, registry, mirror, requests, order>>

\* A text with a colon that is JSON.
SendMutation(s) ==
    /\ sent' = [sent EXCEPT ![s] = @ + 1]
    /\ DoSend(s, Message("mutation", s, <<s, sent'[s]>>))
    /\ UNCHANGED <<phase, malformed, parked, future, inbox, shown, outdated, lifecycle, registry,
                   mirror, requests, order>>

\* One Resolve of a session at a time; a stopped multiplexer refuses it.
SendResolve(s) ==
    /\ future[s].st = "none"
    /\ future' = [future EXCEPT ![s] = [NoFuture EXCEPT
                    !.st = IF alive[Mux(s)] THEN "waiting" ELSE "closed", !.since = sent[s]]]
    /\ SendOrPark(s, Message("resolve", s, Loaded))
    /\ UNCHANGED <<phase, sent, malformed, inbox, shown, outdated, lifecycle, registry, mirror,
                   requests, order>>

SendSubscription(s) ==
    /\ SendOrPark(s, Message("subscription", s, Loaded))
    /\ UNCHANGED <<phase, sent, malformed, future, inbox, shown, outdated, lifecycle, registry,
                   mirror, requests, order>>

\* schema_parser unwraps its result, and slices the first twelve bytes.
SendMalformed(s) ==
    /\ malformed' = malformed \cup {s}
    /\ WorkerDies(s)

OnText(s) ==
    /\ Running /\ Open(s) /\ texts < MaxTexts
    /\ texts' = texts + 1
    /\ SendMutation(s) \/ SendResolve(s) \/ SendSubscription(s) \/ SendMalformed(s)
    /\ UNCHANGED <<status, url>>

\* A `send` that waited is tried again when its future is polled.
Unpark(s) ==
    /\ Running /\ parked[s] # <<>>
    /\ DoSend(s, Head(parked[s]))
    /\ parked' = [parked EXCEPT ![s] = Tail(@)]
    /\ future' = IF Head(parked[s]).kind = "resolve" /\ ~alive[Mux(s)]
                 THEN [future EXCEPT ![s].st = "closed"] ELSE future
    /\ UNCHANGED <<status, browser, display, lifecycle, registry, mirror, requests, order>>

\* Handler<AdsToWsClient>.
ShowNotice(s) ==
    /\ Running /\ inbox[s] # <<>>
    /\ LET n == Head(inbox[s]) IN
       /\ shown' = [shown EXCEPT ![s] = <<n.v>>]
       /\ future' = [future EXCEPT ![s].passed = @ \/ (n.late /\ future[s].st = "answered")]
    /\ inbox' = [inbox EXCEPT ![s] = Tail(@)]
    /\ outdated' = [outdated EXCEPT ![s] = FALSE]
    /\ UNCHANGED <<status, browser, parked, mailbox, lifecycle, registry, mirror, requests, order>>

\* The future of a Resolve: a text, a MailboxError that is printed, or Err(()),
\* which f.unwrap() does not survive.
ShowAnswer(s) ==
    /\ Running
    /\ \/ /\ future[s].st = "answered"
          /\ shown' = [shown EXCEPT ![s] = <<future[s].v>>]
          /\ outdated' = [outdated EXCEPT ![s] = future[s].passed]
          /\ inbox' = [inbox EXCEPT ![s] = [i \in DOMAIN @ |-> [@[i] EXCEPT !.late = FALSE]]]
          /\ future' = [future EXCEPT ![s] = NoFuture]
          /\ UNCHANGED <<phase, sent, parked, mailbox, lifecycle, registry, mirror, requests, order>>
       \/ /\ future[s].st = "closed"
          /\ future' = [future EXCEPT ![s] = NoFuture]
          /\ UNCHANGED <<phase, sent, parked, display, mailbox, lifecycle, registry, mirror, requests,
                         order>>
       \/ future[s].st = "failed" /\ WorkerDies(s)
    /\ UNCHANGED <<status, url, texts, malformed>>

-----------------------------------------------------------------------------
\* The multiplexer.

\* The notices of a step: a session that is gone has no mailbox.
NotifyOthers(p, v) ==
    inbox' = [s \in Sessions |->
        IF s \in subscribers[p] /\ Open(s) /\ (v = Loaded \/ v[1] # s)
        THEN Append(inbox[s], [v |-> v, late |-> future[s].st = "answered"])
        ELSE inbox[s]]
Notify(p, v) ==
    inbox' = [s \in Sessions |->
        IF s \in subscribers[p] /\ Open(s)
        THEN Append(inbox[s], [v |-> v, late |-> future[s].st = "answered"])
        ELSE inbox[s]]

\* The result of a Resolve reaches a session that still waits for it.
SettledAnyway(s, st) == [future EXCEPT ![s].st = st]
Settled(s, st) ==
    IF future[s].st = "waiting" THEN [future EXCEPT ![s].st = st] ELSE future

Registered(p, s) == ws_clients' = [ws_clients EXCEPT ![p] = @ \cup {s}]
UnregisteredNone(p, s) == ws_clients' = ws_clients
Unregistered(p, s) == ws_clients' = [ws_clients EXCEPT ![p] = @ \ {s}]

OnMutation(p, v) ==
    /\ mirror' = [mirror EXCEPT ![p] = v]
    /\ order' = [order EXCEPT ![p] = Append(@, v)]
    /\ pipe' = IF clientUp[p] THEN [pipe EXCEPT ![p] = Append(@, Message("write", v[1], v))]
               ELSE pipe
    /\ Notify(p, v)
    /\ UNCHANGED <<registry, future, shown, outdated, replies>>

\* An AdsClient that stopped refuses the read: Err(()).
OnResolveFirst(p, s) ==
    /\ IF clientUp[p]
       THEN /\ pipe' = [pipe EXCEPT ![p] = <<Message("read", s, Loaded)>> \o @]
            /\ UNCHANGED future
       ELSE future' = Settled(s, "failed") /\ UNCHANGED pipe
    /\ UNCHANGED <<registry, mirror, order, display, replies>>
OnResolve(p, s) ==
    /\ IF clientUp[p]
       THEN /\ pipe' = [pipe EXCEPT ![p] = Append(@, Message("read", s, Loaded))]
            /\ UNCHANGED future
       ELSE future' = Settled(s, "failed") /\ UNCHANGED pipe
    /\ UNCHANGED <<registry, mirror, order, display, replies>>

\* Nothing is sent on subscribing: what was shown before, or answers an earlier
\* Resolve, is not kept up to date.
OnSubscription(p, s) ==
    /\ subscribers' = [subscribers EXCEPT ![p] = @ \cup {s}]
    /\ shown' = [shown EXCEPT ![s] = <<>>]
    /\ future' = [future EXCEPT ![s].passed = future[s].st = "answered"]
    /\ UNCHANGED <<ws_clients, mirror, order, inbox, outdated, pipe, replies>>

Handle(p) ==
    /\ Running /\ alive[p] /\ mailbox[p] # <<>>
    /\ mailbox' = [mailbox EXCEPT ![p] = Tail(@)]
    /\ LET m == Head(mailbox[p])
           Rest == UNCHANGED <<subscribers, mirror, order, future, display, pipe, replies>>
       IN  \/ m.kind = "register" /\ Registered(p, m.from) /\ Rest
           \/ m.kind = "unregister" /\ Unregistered(p, m.from) /\ Rest
           \/ m.kind = "mutation" /\ OnMutation(p, m.v)
           \/ m.kind = "resolve" /\ OnResolve(p, m.from)
           \/ m.kind = "subscription" /\ OnSubscription(p, m.from)
    /\ UNCHANGED <<status, browser, parked, lifecycle, plc>>

\* handle_request: an error answer of the PLC is an answer all the same.
OutcomeByResult(r) == IF r.refused THEN "failed" ELSE "answered"
Outcome(r) == "answered"

\* handle_future: the answer is copied over the mirror, subscribers are told of a
\* change, then the text goes to the session.  Answers are polled in any order.
Finish(p) ==
    /\ Running /\ alive[p]
    /\ \E r \in replies[p] :
         LET v == IF r.refused THEN mirror[p] ELSE r.v
         IN  /\ mirror' = [mirror EXCEPT ![p] = v]
             /\ IF v # mirror[p] THEN Notify(p, v) ELSE UNCHANGED inbox
             /\ future' = IF future[r.from].st # "waiting" THEN future
                          ELSE [future EXCEPT ![r.from] = [@ EXCEPT
                                   !.st = Outcome(r), !.v = v, !.blind = r.refused]]
             /\ replies' = [replies EXCEPT ![p] = @ \ {r}]
    /\ UNCHANGED <<status, browser, parked, shown, outdated, mailbox, lifecycle, registry, pipe,
                   plc, order>>

ResolveParked(s) == \E i \in DOMAIN parked[s] : parked[s][i].kind = "resolve"

\* The stream of PLC writes has ended: what waits for the actor is refused.
MuxStops(p) ==
    /\ Running /\ alive[p] /\ ~clientUp[p]
    /\ alive' = [alive EXCEPT ![p] = FALSE]
    /\ mailbox' = [mailbox EXCEPT ![p] = <<>>]
    /\ replies' = [replies EXCEPT ![p] = {}]
    /\ future' = [s \in Sessions |->
                    IF future[s].st = "waiting" /\ Mux(s) = p /\ ~ResolveParked(s)
                    THEN [future[s] EXCEPT !.st = "closed"] ELSE future[s]]
    /\ UNCHANGED <<status, browser, parked, display, clientUp, registry, mirror, pipe, plc, order>>

-----------------------------------------------------------------------------
\* The AdsClient and the PLC.

PlcServes(p) ==
    /\ Running /\ pipe[p] # <<>>
    /\ pipe' = [pipe EXCEPT ![p] = Tail(@)]
    /\ LET m == Head(pipe[p]) IN
       \/ /\ m.kind = "write"
          /\ plc' = [plc EXCEPT ![p] = m.v]
          /\ UNCHANGED replies
       \/ /\ m.kind = "read"
          /\ \E refused \in IF PlcRefuses THEN BOOLEAN ELSE {FALSE} :
               replies' = [replies EXCEPT ![p] = @ \cup
                             {[from |-> m.from, v |-> plc[p], refused |-> refused]}]
          /\ UNCHANGED plc
    /\ UNCHANGED <<status, browser, parked, future, display, mailbox, lifecycle, registry, mirror,
                   order>>

\* The connection ends: a read the AdsClient has sent is canceled, which the
\* process does not survive; one still in its mailbox is refused.
ClientStops(p) ==
    /\ p \in Disconnects /\ Running /\ clientUp[p]
    /\ clientUp' = [clientUp EXCEPT ![p] = FALSE]
    /\ pipe' = [pipe EXCEPT ![p] = <<>>]
    /\ LET readers == {pipe[p][i].from : i \in {j \in DOMAIN pipe[p] : pipe[p][j].kind = "read"}} IN
       \/ /\ readers # {}
          /\ status' = "panicked"
          /\ UNCHANGED future
       \/ /\ future' = [s \in Sessions |->
                          IF s \in readers /\ future[s].st = "waiting"
                          THEN [future[s] EXCEPT !.st = "failed"] ELSE future[s]]
          /\ UNCHANGED status
    /\ UNCHANGED <<browser, parked, display, mailbox, alive, registry, mirror, replies, plc, order>>

-----------------------------------------------------------------------------
Session(s) ==
    Start(s) \/ Stop(s) \/ OnText(s) \/ Unpark(s) \/ ShowNotice(s) \/ ShowAnswer(s)
Server(p) == Handle(p) \/ Finish(p) \/ MuxStops(p) \/ PlcServes(p) \/ ClientStops(p)

Next == (\E s \in Sessions : Session(s)) \/ (\E p \in Plcs : Server(p))

Spec == Init /\ [][Next]_vars

\* Each thread polls its futures and mailboxes; a live PLC answers.
Fairness ==
    /\ \A s \in Sessions : WF_vars(Unpark(s)) /\ WF_vars(ShowAnswer(s))
    /\ \A p \in Plcs : /\ WF_vars(Handle(p)) /\ WF_vars(Finish(p))
                       /\ WF_vars(MuxStops(p)) /\ WF_vars(PlcServes(p))

FairSpec == Spec /\ Fairness

-----------------------------------------------------------------------------
\* Properties.

Messages ==
    [kind : {"register", "unregister", "mutation", "resolve", "subscription", "read", "write"},
     from : Sessions, v : Values]
Futures ==
    [st : {"none", "waiting", "answered", "failed", "closed"}, v : Values,
     since : 0..MaxTexts, blind : BOOLEAN, passed : BOOLEAN]

\* The types; a session that is gone waits for nothing.
BrowserTypeOK ==
    /\ status \in {"running", "panicked"}
    /\ phase \in [Sessions -> {"new", "open", "closed", "dead"}]
    /\ url \in [Sessions -> Urls]
    /\ texts \in 0..MaxTexts /\ sent \in [Sessions -> 0..texts]
    /\ malformed \subseteq Sessions
SessionTypeOK ==
    /\ parked \in [Sessions -> Seq(Messages)] /\ future \in [Sessions -> Futures]
    /\ inbox \in [Sessions -> Seq([v : Values, late : BOOLEAN])]
    /\ shown \in [Sessions -> Seq(Values)] /\ outdated \in [Sessions -> BOOLEAN]
ServerTypeOK ==
    /\ mailbox \in [Plcs -> Seq(Messages)] /\ pipe \in [Plcs -> Seq(Messages)]
    /\ alive \in [Plcs -> BOOLEAN] /\ clientUp \in [Plcs -> BOOLEAN]
    /\ ws_clients \in [Plcs -> SUBSET Sessions] /\ subscribers \in [Plcs -> SUBSET Sessions]
    /\ mirror \in [Plcs -> Values] /\ plc \in [Plcs -> Values]
    /\ replies \in [Plcs -> SUBSET [from : Sessions, v : Values, refused : BOOLEAN]]
    /\ order \in [Plcs -> Seq(Values)]
GoneIsIdle ==
    \A s \in Sessions : ~Open(s) =>
        parked[s] = <<>> /\ future[s] = NoFuture /\ inbox[s] = <<>> /\ shown[s] = <<>>
TypeOK == BrowserTypeOK /\ SessionTypeOK /\ ServerTypeOK /\ GoneIsIdle

\* A message reaches the multiplexer of the PLC that the URL of its session
\* names by net id and port, however alike the addresses of two PLCs are.
Routed ==
    \A p \in Plcs : \A i \in DOMAIN mailbox[p] :
        LET u == url[mailbox[p][i].from] IN u.net = p.net /\ u.port = p.port

\* The answer of a Resolve holds what the session itself had sent before it, or
\* something newer: mutation and read take the same way to the PLC although one
\* is sent with do_send and the other may wait.  A refused read answers with
\* the mirror, which may be older.
ReadYourWrites ==
    \A s \in Sessions : future[s].st = "answered" /\ ~future[s].blind =>
        \A k \in 1..future[s].since : \E i, j \in DOMAIN order[Mux(s)] :
            i <= j /\ order[Mux(s)][i] = <<s, k>> /\ order[Mux(s)][j] = future[s].v

\* When neither its hello nor its goodbye is on the way, the multiplexer knows a
\* session exactly from its opening on and until it says goodbye.  One that died
\* with its worker never does, and stays known for good.
RegistryExact ==
    \A s \in Sessions : Known(url[s]) /\ alive[Mux(s)] =>
        \/ \E i \in DOMAIN mailbox[Mux(s)] :
              mailbox[Mux(s)][i].from = s /\ mailbox[Mux(s)][i].kind \in {"register", "unregister"}
        \/ s \in ws_clients[Mux(s)] <=> phase[s] \in {"open", "dead"}

\* A session that has shown all it was sent shows the mirror, as far as it was
\* told anything: only an answer that a newer notice passed on the way is left
\* standing.
ShownIsCurrent ==
    \A p \in Plcs : \A s \in subscribers[p] :
        Open(s) /\ alive[p] /\ inbox[s] = <<>> /\ future[s].st # "answered" =>
            shown[s] \in {<<>>, <<mirror[p]>>} \/ outdated[s]

\* A worker dies for what one of its own sessions did or met: a port that is not
\* configured, a text that does not parse, a Resolve against a connection that
\* ended.  A PLC that refuses a read is not among the reasons.
DeathHasReason ==
    \A s \in Sessions : phase[s] = "dead" =>
        \E t \in Sessions : /\ WorkerOf[t] = WorkerOf[s]
                            /\ ~Known(url[t]) \/ t \in malformed \/ ~clientUp[Mux(t)]

\* Every Resolve ends, with an answer, an error or its session, also when it has
\* to wait for room or the multiplexer stops.
ResolveEnds ==
    \A s \in Sessions : future[s].st # "none" ~> (future[s].st = "none" \/ ~Running)

=============================================================================
