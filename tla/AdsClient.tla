----------------------------- MODULE AdsClient -----------------------------
(***************************************************************************)
(* The AdsClient actor (networking/client.rs): it numbers the requests of  *)
(* the multiplexer, writes them to the TCP connection of one PLC, matches  *)
(* the PLC's responses to the requests by invocation id, and answers and   *)
(* forwards the requests the PLC itself sends.  The module also holds the  *)
(* three parties the actor talks to: the multiplexer that issues requests  *)
(* and drains the write channel, the two directions of the connection, and *)
(* the PLC, which is external.                                             *)
(***************************************************************************)
EXTENDS Naturals, Sequences, FiniteSets

CONSTANTS
    Reads,        \* the AdsReadReq messages the multiplexer may issue
    Writes,       \* the AdsWriteReq messages the multiplexer may issue
    PlcReads,     \* the read requests the PLC may send
    MaxPlcWrites, \* bound: the PLC's write requests are 1..MaxPlcWrites
    InvIds,       \* the values rand::thread_rng().gen() may take
    Buffer,       \* the argument of mpsc::channel
    MaxBatch,     \* bound: whole frames one decode call may find in its buffer
    Collisions,   \* may a random id be that of an outstanding request?
    Disconnects   \* may the connection be lost?

ASSUME ClientAssumption ==
    /\ Reads \cap Writes = {}
    /\ MaxPlcWrites \in Nat
    /\ Buffer \in Nat
    /\ MaxBatch \in Nat \ {0}
    /\ {Collisions, Disconnects} \subseteq BOOLEAN

VARIABLES
    state,                 \* the actor: "running" or "stopped"; the process: "panicked"
    mailbox,               \* messages from the multiplexer, in order
    request_map,           \* invocation id -> the request whose oneshot sender it holds
    ws_ads,                \* is a multiplexer address stored?
    write_request_sender,  \* is the sending half of the write channel stored?
    receiver,              \* the receiving half: "none", "open" or "dropped"
    channel,               \* PLC writes queued for the multiplexer
    toPlc, fromPlc,        \* the frames in each direction of the connection
    reply,                 \* what the future of each read has come to
    answers,               \* pairs <<read, the read whose data it was given>>
    issued, served,        \* requests in the order issued, and executed by the PLC
    plcSent,               \* how many write requests the PLC has sent
    plcAsked,              \* the read requests the PLC has sent
    forwarded              \* PLC writes the multiplexer took from the channel

actor == <<state, request_map, ws_ads, write_request_sender>>
muxEnd == <<reply, answers, issued, receiver, forwarded>>
plcEnd == <<served, plcSent, plcAsked>>
vars == <<actor, muxEnd, plcEnd, mailbox, channel, toPlc, fromPlc>>

PlcWrites == 1..MaxPlcWrites
Requests == Reads \cup Writes

Message ==
    [kind : {"read"}, of : Reads] \cup [kind : {"write"}, of : Writes]
        \cup [kind : {"register", "unregister"}]

\* Frames the server sends: its own requests, and its responses to the PLC's.
OutPacket ==
    [cmd : {"ReadReq"}, inv : InvIds, of : Reads]
        \cup [cmd : {"WriteReq"}, of : Writes]
        \cup [cmd : {"ReadRes"}, of : PlcReads]
        \cup [cmd : {"WriteRes"}, of : PlcWrites]

\* Frames the PLC sends.  A ReadRes carries the data of the read in `of`.
InPacket ==
    [cmd : {"ReadRes"}, inv : InvIds, of : Reads]
        \cup [cmd : {"WriteRes"}, of : Writes]
        \cup [cmd : {"ReadReq"}, of : PlcReads]
        \cup [cmd : {"WriteReq"}, of : PlcWrites]

\* futures::sync::mpsc gives every sender one slot beyond the buffer.
ChannelCap == Buffer + 1

EmptyMap == [i \in {} |-> i]
Pending == {request_map[i] : i \in DOMAIN request_map}

ActorTypeOK ==
    /\ state \in {"running", "stopped", "panicked"}
    /\ DOMAIN request_map \subseteq InvIds
    /\ request_map \in [DOMAIN request_map -> Reads]
    /\ ws_ads \in BOOLEAN /\ write_request_sender \in BOOLEAN

QueueTypeOK ==
    /\ mailbox \in Seq(Message)
    /\ channel \in Seq(PlcWrites) /\ Len(channel) <= ChannelCap
    /\ toPlc \in Seq(OutPacket) /\ fromPlc \in Seq(InPacket)

CallerTypeOK ==
    /\ reply \in [Reads -> {"unsent", "waiting", "ok", "canceled", "closed"}]
    /\ answers \subseteq Reads \X Reads
    /\ receiver \in {"none", "open", "dropped"}
    /\ issued \in Seq(Requests)
    /\ forwarded \in Seq(PlcWrites)

PlcTypeOK ==
    /\ served \in Seq(Requests)
    /\ plcSent \in 0..MaxPlcWrites
    /\ plcAsked \subseteq PlcReads

TypeOK == ActorTypeOK /\ QueueTypeOK /\ CallerTypeOK /\ PlcTypeOK

-----------------------------------------------------------------------------
\* The actor starts with nothing outstanding; AdsToWsMultiplexer::started has
\* put its Register in the mailbox.
Init ==
    /\ state = "running"
    /\ mailbox = <<[kind |-> "register"]>>
    /\ request_map = EmptyMap
    /\ ws_ads = FALSE /\ write_request_sender = FALSE
    /\ receiver = "none"
    /\ channel = <<>> /\ toPlc = <<>> /\ fromPlc = <<>>
    /\ reply = [r \in Reads |-> "unsent"]
    /\ answers = {}
    /\ issued = <<>> /\ served = <<>>
    /\ plcSent = 0 /\ plcAsked = {} /\ forwarded = <<>>

-----------------------------------------------------------------------------
\* The multiplexer.

\* client.send(AdsReadReq): a stopped actor's mailbox refuses it.
IssueRead(r) ==
    /\ state # "panicked"
    /\ receiver # "dropped"
    /\ reply[r] = "unsent"
    /\ IF state = "running"
       THEN /\ mailbox' = Append(mailbox, [kind |-> "read", of |-> r])
            /\ reply' = [reply EXCEPT ![r] = "waiting"]
            /\ issued' = Append(issued, r)
       ELSE /\ reply' = [reply EXCEPT ![r] = "closed"]
            /\ UNCHANGED <<mailbox, issued>>
    /\ UNCHANGED <<actor, plcEnd, answers, receiver, forwarded, channel, toPlc, fromPlc>>

\* client.do_send(AdsWriteReq): nobody waits for the outcome.
IssueWrite(w) ==
    /\ state = "running" /\ receiver # "dropped"
    /\ \A i \in DOMAIN issued : issued[i] # w
    /\ mailbox' = Append(mailbox, [kind |-> "write", of |-> w])
    /\ issued' = Append(issued, w)
    /\ UNCHANGED <<actor, plcEnd, reply, answers, receiver, forwarded, channel, toPlc, fromPlc>>

\* The stream of the multiplexer takes the oldest queued PLC write.
TakeWrite ==
    /\ state # "panicked"
    /\ receiver = "open" /\ channel # <<>>
    /\ forwarded' = Append(forwarded, Head(channel))
    /\ channel' = Tail(channel)
    /\ UNCHANGED <<actor, plcEnd, reply, answers, issued, receiver, mailbox, toPlc, fromPlc>>

\* The multiplexer's context ends: its stream is dropped and stopped() sends
\* Unregister, which a stopped client no longer receives.
MuxStops ==
    /\ state # "panicked" /\ receiver = "open"
    /\ receiver' = "dropped"
    /\ channel' = <<>>
    /\ mailbox' = IF state = "running" THEN Append(mailbox, [kind |-> "unregister"]) ELSE mailbox
    /\ UNCHANGED <<actor, plcEnd, reply, answers, issued, forwarded, toPlc, fromPlc>>

-----------------------------------------------------------------------------
\* The actor's messages.

NextMessage(kind) ==
    /\ state = "running"
    /\ mailbox # <<>> /\ Head(mailbox).kind = kind
    /\ mailbox' = Tail(mailbox)

HandleRegister ==
    /\ NextMessage("register")
    /\ ws_ads' = TRUE
    /\ write_request_sender' = TRUE
    /\ receiver' = "open"
    /\ channel' = <<>>
    /\ UNCHANGED <<state, request_map, plcEnd, reply, answers, issued, forwarded, toPlc, fromPlc>>

\* The sending half of the channel stays behind.
HandleUnregister ==
    /\ NextMessage("unregister")
    /\ ws_ads' = FALSE
    /\ UNCHANGED <<state, request_map, write_request_sender, muxEnd, plcEnd, channel, toPlc, fromPlc>>

\* framed.write appends to the outgoing stream.
WrittenFirst(p) == <<p>> \o toPlc
Written(p) == Append(toPlc, p)

\* gen_request draws the id without looking at request_map.
DrawAnyId == InvIds
DrawIds == IF Collisions THEN InvIds ELSE InvIds \ DOMAIN request_map

ReadReqRedrawn ==
    /\ NextMessage("read")
    /\ \E inv, other \in DrawIds :
         /\ request_map' = [i \in DOMAIN request_map \cup {inv} |->
                               IF i = inv THEN Head(mailbox).of ELSE request_map[i]]
         /\ reply' = IF inv \in DOMAIN request_map
                     THEN [reply EXCEPT ![request_map[inv]] = "canceled"]
                     ELSE reply
         /\ toPlc' = Written([cmd |-> "ReadReq", inv |-> other, of |-> Head(mailbox).of])
    /\ UNCHANGED <<state, ws_ads, write_request_sender, answers, issued, receiver, forwarded,
                   plcEnd, channel, fromPlc>>

\* HashMap::insert on a taken id drops the sender it held: that read's future
\* ends with an error.
HandleReadReq ==
    /\ NextMessage("read")
    /\ \E inv \in DrawIds :
         LET r == Head(mailbox).of IN
         /\ request_map' = [i \in DOMAIN request_map \cup {inv} |->
                               IF i = inv THEN r ELSE request_map[i]]
         /\ reply' = IF inv \in DOMAIN request_map
                     THEN [reply EXCEPT ![request_map[inv]] = "canceled"]
                     ELSE reply
         /\ toPlc' = Written([cmd |-> "ReadReq", inv |-> inv, of |-> r])
    /\ UNCHANGED <<state, ws_ads, write_request_sender, answers, issued, receiver, forwarded,
                   plcEnd, channel, fromPlc>>

HandleWriteReq ==
    /\ NextMessage("write")
    /\ toPlc' = Written([cmd |-> "WriteReq", of |-> Head(mailbox).of])
    /\ UNCHANGED <<actor, muxEnd, plcEnd, channel, fromPlc>>

HandleMessage == HandleRegister \/ HandleUnregister \/ HandleReadReq \/ HandleWriteReq

-----------------------------------------------------------------------------
\* The actor's packets.  AdsClientCodec::decode returns the first frame of its
\* buffer and clears the buffer: the k-1 frames behind it are never seen.
Decoded(k, cmd) ==
    /\ state = "running"
    /\ k <= Len(fromPlc)
    /\ fromPlc[1].cmd = cmd
    /\ fromPlc' = SubSeq(fromPlc, k + 1, Len(fromPlc))

OnReadReq(k) ==
    /\ Decoded(k, "ReadReq")
    /\ toPlc' = Written([cmd |-> "ReadRes", of |-> fromPlc[1].of])
    /\ UNCHANGED <<actor, muxEnd, plcEnd, mailbox, channel>>

MapKept(inv) == request_map
MapWithout(inv) == [i \in DOMAIN request_map \ {inv} |-> request_map[i]]

\* request_map.remove(..).unwrap(), then the oneshot carries the data.
OnReadRes(k) ==
    /\ Decoded(k, "ReadRes")
    /\ LET inv == fromPlc[1].inv IN
       IF inv \in DOMAIN request_map
       THEN LET r == request_map[inv] IN
            /\ request_map' = MapWithout(inv)
            /\ reply' = [reply EXCEPT ![r] = "ok"]
            /\ answers' = answers \cup {<<r, fromPlc[1].of>>}
            /\ UNCHANGED state
       ELSE /\ state' = "panicked"
            /\ UNCHANGED <<request_map, reply, answers>>
    /\ UNCHANGED <<ws_ads, write_request_sender, issued, receiver, forwarded, plcEnd,
                   mailbox, channel, toPlc>>

\* try_send drops the data when the channel is full or has no receiver.
CanSend == write_request_sender /\ receiver = "open" /\ Len(channel) < ChannelCap
TrySendUnbounded(w) == IF write_request_sender THEN Append(channel, w) ELSE channel
TrySendFront(w) == IF CanSend THEN <<w>> \o channel ELSE channel
TrySend(w) == IF CanSend THEN Append(channel, w) ELSE channel

\* The acknowledgement is written whether or not the data can be passed on.
OnWriteReq(k) ==
    /\ Decoded(k, "WriteReq")
    /\ toPlc' = Written([cmd |-> "WriteRes", of |-> fromPlc[1].of])
    /\ channel' = TrySend(fromPlc[1].of)
    /\ UNCHANGED <<actor, muxEnd, plcEnd, mailbox>>

OnWriteRes(k) ==
    /\ Decoded(k, "WriteRes")
    /\ UNCHANGED <<actor, muxEnd, plcEnd, mailbox, channel, toPlc>>

OnPacketButReadRes(k) == OnReadReq(k) \/ OnWriteReq(k) \/ OnWriteRes(k)
OnPacket(k) == OnReadReq(k) \/ OnReadRes(k) \/ OnWriteReq(k) \/ OnWriteRes(k)

\* The read stream ends or fails: the context stops, the actor is dropped, and
\* with it the oneshot senders and the channel's sender.  Requests still in the
\* mailbox end with a MailboxError.
ConnectionLost ==
    /\ Disconnects /\ state = "running"
    /\ state' = "stopped"
    /\ reply' = [r \in Reads |-> IF r \in Pending THEN "canceled"
                                 ELSE IF reply[r] = "waiting" THEN "closed" ELSE reply[r]]
    /\ request_map' = EmptyMap
    /\ ws_ads' = FALSE /\ write_request_sender' = FALSE
    /\ mailbox' = <<>> /\ toPlc' = <<>> /\ fromPlc' = <<>>
    /\ UNCHANGED <<answers, issued, receiver, forwarded, plcEnd, channel>>

-----------------------------------------------------------------------------
\* The PLC: it executes requests in the order they arrive, answers each once,
\* and sends requests of its own.

PlcReceives(cmds) ==
    /\ state = "running"
    /\ toPlc # <<>> /\ Head(toPlc).cmd \in cmds
    /\ toPlc' = Tail(toPlc)

PlcAnswersRead ==
    /\ PlcReceives({"ReadReq"})
    /\ LET p == Head(toPlc) IN
       /\ fromPlc' = Append(fromPlc, [cmd |-> "ReadRes", inv |-> p.inv, of |-> p.of])
       /\ served' = Append(served, p.of)
    /\ UNCHANGED <<actor, muxEnd, plcSent, plcAsked, mailbox, channel>>

PlcAnswersWrite ==
    /\ PlcReceives({"WriteReq"})
    /\ fromPlc' = Append(fromPlc, [cmd |-> "WriteRes", of |-> Head(toPlc).of])
    /\ served' = Append(served, Head(toPlc).of)
    /\ UNCHANGED <<actor, muxEnd, plcSent, plcAsked, mailbox, channel>>

PlcTakesResponse ==
    /\ PlcReceives({"ReadRes", "WriteRes"})
    /\ UNCHANGED <<actor, muxEnd, plcEnd, mailbox, channel, fromPlc>>

PlcServe == PlcAnswersRead \/ PlcAnswersWrite \/ PlcTakesResponse

PlcSendsWrite ==
    /\ state = "running" /\ plcSent < MaxPlcWrites
    /\ plcSent' = plcSent + 1
    /\ fromPlc' = Append(fromPlc, [cmd |-> "WriteReq", of |-> plcSent + 1])
    /\ UNCHANGED <<actor, muxEnd, served, plcAsked, mailbox, channel, toPlc>>

PlcSendsRead(p) ==
    /\ state = "running" /\ p \notin plcAsked
    /\ plcAsked' = plcAsked \cup {p}
    /\ fromPlc' = Append(fromPlc, [cmd |-> "ReadReq", of |-> p])
    /\ UNCHANGED <<actor, muxEnd, served, plcSent, mailbox, channel, toPlc>>

-----------------------------------------------------------------------------
Next ==
    \/ \E r \in Reads : IssueRead(r)
    \/ \E w \in Writes : IssueWrite(w)
    \/ TakeWrite \/ MuxStops
    \/ HandleMessage
    \/ \E k \in 1..MaxBatch : OnPacket(k)
    \/ ConnectionLost
    \/ PlcServe \/ PlcSendsWrite
    \/ \E p \in PlcReads : PlcSendsRead(p)

Spec == Init /\ [][Next]_vars

\* The event loop polls a ready mailbox, a readable socket and a non-empty
\* stream; a live PLC answers.  Nothing makes anybody issue a request, and
\* nothing makes the connection fail.
Fairness ==
    /\ WF_vars(HandleMessage)
    /\ WF_vars(\E k \in 1..MaxBatch : OnPacket(k))
    /\ WF_vars(TakeWrite)
    /\ WF_vars(PlcServe)

FairSpec == Spec /\ Fairness

-----------------------------------------------------------------------------
\* Properties.

Queued(r) == \E i \in DOMAIN mailbox : mailbox[i] = [kind |-> "read", of |-> r]
Asked(r) == \E i \in DOMAIN toPlc : toPlc[i].cmd = "ReadReq" /\ toPlc[i].of = r
Answered(r) == \E i \in DOMAIN fromPlc : fromPlc[i].cmd = "ReadRes" /\ fromPlc[i].of = r

\* Every read response on the wire finds the oneshot of the request it answers
\* under its id: request_map.remove(..).unwrap() (client.rs:148) cannot fail
\* and cannot hand the data to another request.
ResponseHasRequest ==
    \A i \in DOMAIN fromPlc :
        fromPlc[i].cmd = "ReadRes" =>
            /\ fromPlc[i].inv \in DOMAIN request_map
            /\ request_map[fromPlc[i].inv] = fromPlc[i].of

\* The unwrap at client.rs:148 itself: the process never dies of a response that
\* has no request.
NoUnmatchedResponse == state # "panicked"

\* A response without a request, or data for another read than asked for, has one
\* cause only: an id was drawn that another read held, whose future then failed.
MismatchNeedsCollision ==
    (state = "panicked" \/ \E a \in answers : a[1] # a[2])
        => \E r \in Reads : reply[r] = "canceled"

\* A future the multiplexer waits on is never forgotten: while the actor runs,
\* its request is either still in the mailbox or its sender is in request_map.
WaitingIsHeld ==
    state = "running" =>
        \A r \in Reads : (reply[r] = "waiting") <=> (Queued(r) \/ r \in Pending)

\* The PLC executes the multiplexer's reads and writes in the order they were
\* issued, whatever they wait behind; a mirror of PLC memory depends on it.
PlcSeesIssueOrder ==
    /\ Len(served) <= Len(issued)
    /\ \A i \in DOMAIN served : served[i] = issued[i]

\* What the multiplexer takes from the channel keeps the PLC's order, without
\* repetition: a write may be dropped, never overtaken by an older one.
ForwardedInOrder ==
    LET all == forwarded \o channel IN
    \A i, j \in DOMAIN all : i < j => all[i] < all[j]

\* handle_request (ws_ads.rs:302) declares Err(()) from the client unreachable.
NoCanceledReply == \A r \in Reads : reply[r] # "canceled"

\* The actor implements the promise the multiplexer relies on.
Rpc == INSTANCE ReadRpc
RpcSpec == Rpc!Spec

\* The actor, the connection and the PLC together are the pipe that the model of
\* the multiplexer puts in their place: the data of an answer is the PLC's memory
\* after the writes issued before the read, and none issued after it.
Served == {served[i] : i \in DOMAIN served}
SeenBy(r) == {w \in Writes : \E i, j \in DOMAIN served : i < j /\ served[i] = w /\ served[j] = r}
InPipe == IF state = "running" THEN SubSeq(issued, Len(served) + 1, Len(issued)) ELSE <<>>
Futures == [r \in Reads |-> IF reply[r] = "waiting" /\ r \in Served THEN "executed" ELSE reply[r]]
Samples == [r \in Reads |-> SeenBy(r)]
Deliveries == {<<a[1], SeenBy(a[2])>> : a \in answers}
Pipe == INSTANCE AdsPipe WITH
    up <- state = "running", pipe <- InPipe, memory <- Served \cap Writes,
    sample <- Samples, reply <- Futures, answers <- Deliveries
PipeSpec == Pipe!Spec

\* An issued read settles, unless its response was in a cleared buffer or the
\* process died.
Orphaned(r) == r \in Pending /\ ~Asked(r) /\ ~Answered(r)
ReadSettlesOrIsLost ==
    \A r \in Reads : reply[r] = "waiting" ~> (reply[r] # "waiting" \/ Orphaned(r) \/ state = "panicked")

\* When the decoder never finds two frames at once, every read settles.
ReadSettles == \A r \in Reads : reply[r] = "waiting" ~> reply[r] # "waiting"
=============================================================================
