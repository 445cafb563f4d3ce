# AdsServer: TLA+ models, checks and proofs

AdsServer (Rust, actix 0.7) puts a websocket interface in front of Beckhoff
TwinCAT PLCs.  For each configured PLC it keeps a TCP connection that speaks
ADS/AMS, a mirror of three structures of the PLC's memory (`ST_ADS_TO_BC`,
`ST_ADS_FROM_BC`, `ST_RETAIN_DATA`) as bytes and as JSON, and any number of
websocket sessions that read, change and subscribe to those structures.

Paths below are relative to the repository root; `client.rs` is
`src/networking/client.rs`, `codec` is `src/networking/codec/`.

## 1. The system

| Part | State | Operations | Modelled by |
|---|---|---|---|
| `AdsClient` actor (`client.rs`, `networking/mod.rs`) | `request_map` (invocation id -> oneshot sender), `ws_ads`, `write_request_sender` | `Register`, `Unregister`, `AdsReadReq`, `AdsWriteReq`, the four packets, end of the stream | `AdsClient`, `ReadRpc`, `AdsPipe` |
| `AdsClientCodec` and frame types (`codec/`) | the receive buffer | `decode`, `encode`, `gen_res`, `from_buf`, `into_buf` | `AdsCodec`, `AmsFrames`, `AdsWire`, `FrameStream`; `Decoded(k, cmd)` of `AdsClient` (whole frames) |
| `AdsToWsMultiplexer` actor (`ws_ads.rs`) | `AdsMemory` (bytes and JSON), `subscription_map`, `ws_clients`, `count` | `started`, PLC write stream, `HeartBeat`, `Register`, `Unregister`, `Mutation`, `Resolve`, `Subscription` | `AdsToWsMultiplexer`, `JsonDiff` |
| Schemas (`json_diff.rs`) | - | parser, `as_schema`, `merge`, `merge_schemas`, `merge_values`, `is_empty` | `SchemaText` (parser), `JsonTrees` (values of any depth), `JsonDiff` (`merge_schemas`) |
| `Ws` session (`ws.rs`) | its PLC address, the multiplexer's address | `started`, `stopped`, text messages, notices | `WsSession`; what it asks of the multiplexer, `AdsToWsMultiplexer` |
| Types (`types/`) | type map, symbols | `to_writer`, `as_data_struct`, `from_value`, `len` | `AdsPrimitives`, `AdsTypes`, on memory in `AdsMemory` |
| TPY compiler (`xml_to_struct/`) | - | `read_tpy`, `build_dependencies` | `XmlToStruct` |
| Settings, start-up (`settings/`, `main.rs`) | configuration, `WsState` | reading, wiring | the wiring of one PLC (`StartUp` of `AdsMemory`), the keys of the multiplexers (`Conn` of `WsSession`) |

How they interact.  All `AdsClient` and `AdsToWsMultiplexer` actors run on the
main thread, one handler at a time; sessions run in the worker threads of the
HTTP server and reach the multiplexer only by messages.  The multiplexer sends
reads with `send` (a future: answered, canceled or refused) and writes with
`do_send` (nobody waits).  The `AdsClient` numbers them, writes them to the
socket, and matches responses by invocation id.  Requests the PLC sends are
acknowledged at once; their data goes through a bounded channel (`mpsc`, two
slots) to the multiplexer's stream.  A panic on the main thread ends the
process.

What is hard here: responses matched by random ids; futures that can be
answered, canceled or refused; frames lost by a decoder that clears its buffer;
a bounded channel that drops after the acknowledgement; two copies of each
structure, changed on four paths; answers to reads that are older than the
writes sent after them; mutations that write a prefix of the structure, hence
also fields they do not name; subscriptions whose schemas are merged and
compared against old data of a different shape on one path; several
`unwrap`/`unreachable!()` whose unreachability depends on another actor; sessions
that share a thread, in which one that panics ends the others; a mailbox that is
full for one kind of message and never for another; conversions that cut, clamp
or round, on bytes that a later mutation of another field sends back.
`PROJECT.json` lists each of them at its line ("hazards").

What makes each component correct:

- `AdsClient`: a response finds the request it answers; no waiting future is
  forgotten; requests reach the PLC in the order issued; PLC writes reach the
  multiplexer in order; to the multiplexer all of it is one pipe (`ReadRpc`, `AdsPipe`).
- `AdsToWsMultiplexer`: bytes and JSON agree; the mirror is what the PLC will
  hold once the requests on their way are executed; a mutation changes only
  what it names; the mirror of `ST_ADS_FROM_BC` follows the PLC; subscribers
  are told of every change and show nothing outdated; a Resolve settles.
- codec: a frame in pieces is put together, frames come out whole, once and in
  order; what is lost is what stood behind another frame in the buffer.
- types: what is read and written back unchanged is the same bytes; a value that
  does not fit becomes the nearest one that does.
- schemas: the text of a schema is parsed to it, a Resolve answers what it names,
  a notice is sent exactly for a change of what it names.
- TPY compiler: the server starts exactly on the complete TPY files.
- session: a text reaches the PLC of the session's URL, a Resolve sees what its
  session sent before, what is shown is current, a session is known as long as
  it is open, and one that does nothing wrong is ended by nobody else's mistake
  but those in its thread.

## 2. The modules

`ReadRpc` -- what the multiplexer may rely on when it sends an `AdsReadReq`: a
future that settles at most once, with its own data or with an error.

`AdsPipe` -- what lies between the multiplexer and the PLC's memory: requests execute
one by one in the order issued, a read is answered with the memory as it was when the
read executed, and when the connection ends all that is on its way is lost at once.

`AdsClient` -- the actor with the three parties around it.  One action per
handler: `HandleRegister`, `HandleUnregister`, `HandleReadReq`,
`HandleWriteReq` take the head of `mailbox`; `OnReadReq`, `OnReadRes`,
`OnWriteReq`, `OnWriteRes` take the head of `fromPlc`.  Parameter `k` of
`OnPacket` is the number of whole frames the decoder finds in its buffer: it
returns the first, `k - 1` are cleared unseen.  The multiplexer's side
(`IssueRead`, `IssueWrite`, `TakeWrite`, `MuxStops`) and the PLC (external:
serves requests in order of arrival, sends requests of its own) are in the
same module, for their interleaving is the point.  `ConnectionLost` is the end
of the read stream: actix stops the context and drops the actor, which cancels
every oneshot it holds; what is still in the mailbox fails with a
`MailboxError`.  `answers` and `issued`, `served`, `forwarded` record what was
observed.

`FrameStream` -- what is left of a stream of frames behind the decoder: a read
takes some frames and hands on the first, the others are lost; a reader that
ended inside a frame is adrift, and what it hands on then is no frame at all.

`AdsCodec` -- `AdsClientCodec::decode` under tokio's `FramedRead`.  Bytes are
positions in the stream, `Off` gives the first byte of each frame, and the
buffer holds the positions `start` to `got - 1`: `decode` only ever clears all
of it.  One step is one segment of any size, appended and decoded: `Waits`
(fewer than six bytes, or than the length says), `Decodes` (a frame at the
head; `None` when its command is unknown, and the buffer is cleared all the
same), `DecodesAdrift` (the buffer starts inside a frame: the length is
whatever these bytes say, chosen from `Lengths` and kept until the next clear;
the result is `None`, a bogus packet, or a panic on a slice beyond the buffer).
The `Decoded(k, cmd)` of `AdsClient` is `Decodes` when the segment ends on a
boundary: `AdsClient` loses whole frames only, never its step.

`AmsFrames` -- the bytes of a frame: `IntoBuf`, `FromBuf`, `PacketSize` (`size`), `GenRes`,
`GenRequest`, for the four commands.  A command is its numbers and its data; `FieldsOf`
says how many, `WithData` whether the last one counts data.

`AdsWire` -- `AdsCodec` with what is in the frames: a packet that `Segment` hands on is
`FromBuf` of the buffer, the client answers requests (`Handles`; what else a packet
does is in `AdsClient`) and asks (`Request`), `Writes` is `encode`, and the PLC takes a
frame from what it gets by the length in it (`Cut`), one for each packet written:
PlcFindsPackets says that this leaves nothing.  What bytes out of step look like is chosen from
`Misread`.

`AdsStructs` -- the names of the three structures and their order as JSON keys.

`JsonDiff` -- `merge_schemas` as it is (zip truncation, a `Root` inside a
`Root` for two different structures, the pairs that reach `unreachable!()`),
and what `as_schema` and `is_empty` make of a schema when one structure changes.

`AdsToWsMultiplexer` -- `mem` is the bytes and `data` the JSON of each
structure, as rows of fields.  Actions: `Register`, `Unregister`,
`Subscription`, `Mutation`, `Resolve`, `FinishJob` (the join of the reads:
`handle_future` for each structure), `JobFails`, `HeartBeat`, `OnPlcWrite`,
`StreamEnds`.  The `AdsClient` is abstracted to the pipe its own module
justifies (`PipeSpec`: mailbox, socket and PLC together are an `AdsPipe`): `pipe` holds
requests in the order issued, `PlcServes` executes the oldest and gives a read what the
PLC held at that moment, `ClientStops` loses what is left.
`PlcPush` queues a PLC write unless the channel is full (ForwardedInOrder).
Panics set `fault` to the assertion that failed and stop everything.  History
variables: `overtaken` (structures written to since a job asked for them),
`suspect` (mirrors not loaded, or loaded with an overtaken answer), `behind`
(fields of `ST_ADS_FROM_BC` the PLC has not sent, or whose last write was
dropped or, at an offset other than 0, not taken from its place in the data).
Fields carry small numbers; a subrange (`Limit`) makes the difference between
the JSON of a mutation, which `merge` does not clamp, and the bytes, which
`to_writer` does.  `ws_clients` is a set here: the code's Vec never holds a
session twice, and nothing depends on its order.

`WsSession` -- sessions in their worker threads, the multiplexers' mailboxes,
and of each multiplexer what `AdsToWsMultiplexer` makes of one structure: a
`mirror`, requests in a `pipe`, `replies` in any order.  `Start` is `ws_index` and
`started` (which looks up what the index page did not check), `OnText` the text
handler: a mutation goes by `DoSend`, which no mailbox refuses, a Resolve or a
Subscription by `SendOrPark`, which may wait (`parked`, tried again by `Unpark`).
What the browser is shown comes from `ShowNotice` (the session's mailbox) and
`ShowAnswer` (a future that the session polls).  `WorkerDies` is a panic in a
session's thread: the sessions of that thread are gone and none sends
`Unregister`.  `Handle`, `Finish` and `MuxStops` are the multiplexer, `PlcServes`
and `ClientStops` the rest.  A value is named by the mutation that made it, so that
`order` (the mutations as handled) says which of two values is newer.  History:
`sent`, `malformed`, `outdated`, `order`, and in a future `since` (the session's
mutations before it), `blind` (answered after a refused read) and `passed` (a
newer notice was shown before it).

`AdsPrimitives` -- `AdsPlcType::to_writer` and `as_data_struct` for the primitive types
and for the keys of an enum: little endian bytes, two's complement, `as` casts that cut,
clamping to the subrange, strings cut at their length, REAL and LREAL with the number as
their bit pattern; what a leaf is to become (`Clean`, `Becomes`); and what is done with
rows of bytes, `Overlay` of a slice and `LastChange` of two rows. A byte has `Base`
values instead of 256 and a REAL is exact up to `F32` instead of 2^24, so that every
overflow happens on small numbers. What panics in the code is `Bad` as a value,
`BadByte` as bytes.

`AdsTypes` -- `from_value`, the type names, `AdsType::len`, and `to_writer` and
`as_data_struct` through structures, arrays, enums and references into the type
map.  `SlotsOf` gives the place of each leaf in the bytes; only properties use it.

`JsonTrees` -- `merge`, `as_schema`, `merge_values` and `is_empty` on JSON and
schemas of any depth, with objects as functions from keys.

`SchemaText` -- the nom parsers of `json_diff.rs` on a sequence of tokens: names,
braces and commas.  `Written` is the text a client would write for a schema.

`XmlToStruct` -- `read_tpy`: symbols, types by decoration, the search index and
`build_dependencies`, from records with the elements of a TPY file.

`AdsMemory` -- composes these: `StartUp` is what `main.rs` does with the TPY file
of a PLC, with the unwraps it may fail on; `Loads` an answer or a write of the PLC
(`handle_future`, `Handler<AdsWriteReq>`), `HeartBeat` the counter, `Mutate` a
mutation: merged into the JSON, encoded whole, the prefix up to the last byte
that changed copied into the memory.  Each step that panics ends the process
with `fault` the reason.  It knows nothing of messages: those are the matter of
`AdsToWsMultiplexer`, whose rows of fields are these structures with the types
left out.

`MCAdsClient`, `MCAdsWire`, `MCAdsToWsMultiplexer`, `MCWsSession`, `MCAdsMemory`
-- constants for TLC.

The theorems are in `AdsClientProofs` and `AdsClientOrderProofs`, `AdsCodecProofs` and
`AdsWireProofs`, `WsSessionProofs` and `WsSessionOrderProofs`, `AdsToWsMultiplexerProofs`
and `AdsPrimitivesProofs`, each about the module it is named for.

## 3. The runs

| Run | Checks | Shows |
|---|---|---|
| `client_rpc` | ResponseHasRequest, PlcSeesIssueOrder, RpcSpec, PipeSpec | two reads, a write, a PLC read and a PLC write in every interleaving, two frames per segment, loss of the connection |
| `client_lossy` | TypeOK, ForwardedInOrder, WaitingIsHeld, MismatchNeedsCollision, ReadSettlesOrIsLost | two reads whose ids may collide, four PLC writes against a channel of two slots, a multiplexer that stops; every read issued settles, unless its response was cleared with the buffer, and a response is mismatched only after a future has failed |
| `client_disconnect` | NoCanceledReply (violated) | the `unreachable!()` of `handle_request` is reached when the connection ends |
| `codec_segments` | TypeOK, WholeInOrder, LockstepLosesNothing, StreamSpec, LoneFrameArrives, PacketsAsSent, PlcFindsPackets, RequestsAnswered | three frames, one of an unknown command, in segments of every size, as bytes; answers and a request of the client in between |
| `mux_mirror` | TypeOK, JsonMatchesBytes, MirrorCurrent, MutationKeepsOthers | heartbeat, mutations and a Resolve against a PLC that is slow and may refuse |
| `mux_notify` | ViewCurrent, ChangeIsTold | a session with one or two subscriptions, changes on all four paths |
| `mux_from_bc` | FromBcCurrent | PLC writes of one to three fields from the first, second or third on, channel overflow, a client that stops, Tag subscriptions |
| `mux_live` | ResolveSettles | reads at boot and a Resolve of two structures, refusals, answers the decoder cleared, a client that stops |
| `ws_session` | TypeOK, Routed, ReadYourWrites, RegistryExact, ShownIsCurrent, DeathHasReason, ResolveEnds | two sessions of one worker, at two PLCs or at a port nobody configured, three texts of any kind, a full mailbox, a connection that ends |
| `ads_memory` | TypeOK, RewriteIsFaithful, UnreadableOnlyByMutation, ResolveAnswers, MutationEndsIfUnfit, StartsWhenComplete, NoticesTell, OnlyNamedAreSet | twelve good and ten bad TPY files, loads, heartbeats and mutations on the bytes of their structures, six schemas asked for or subscribed to |
| `mux_third_schema` | SchemasMerge (violated) | three subscriptions reach `unreachable!()` in `merge_schemas` |
| `mux_tag` | TagsResolve (violated) | a Tag subscription makes the next update of another structure fail |

Bounds.  Two reads are enough for a response to meet another request's id, and
a write between them for reordering.  `Buffer = 1` is the code's value: three
PLC writes overflow the channel, the fourth shows what comes after.  `MaxBatch =
2` loses one frame per segment.  The codec's frames have real sizes (50 bytes
a `ReadReq`, 38 a frame of the header alone, 51 a `WriteReq` of one byte); three
of them let a read end inside the second and the third arrive out of step.
`Lengths` has a length that is always complete and one that is so only for a long
buffer; a byte has 16 values, so that most numbers of the frames need more than one.  What
is read out of step looks like a request, which the client answers.
Three fields put one before and one after the
heartbeat counter, which decides whether a mutation's prefix contains it; two
values more than a subrange's limit make clamping visible.  `MaxPipe = 2` lets a
write stand between a read and its answer, and two writes of one field wait at
once.  `MaxCount` bounds heartbeats, `MaxPlcWrites` PLC writes.
`AllPushes`: the handler of a PLC's write at offset `off` takes `data[off..]` for the
memory from `off` on (`ws_ads.rs:134-135`), so the first `off` bytes are dropped, the
others put where equal bytes hide the mistake and different ones show it, and an `off`
beyond the data panics; all of these are pushed.  Each job is
asked once at a time, as a session's second Resolve would be another job.

`ws_session`: `Capacity = 1` (16 in actix) fills a mailbox with one message;
three texts let one session subscribe and resolve while the other mutates, and a
session mutate twice before it resolves.  The ports of the two PLCs, 800 and 288,
have the same low byte; `Base` is the code's 256.  One worker is enough for a session that dies through
another's mistake, and with both sessions in it the thread order changes nothing,
for every step is that of one actor.  One of the connections may end.
`MaxTexts` bounds the texts of all sessions together.

`ads_memory`: with `Base = 4` a byte is NUL, an ASCII character, or the first or
second byte of a UTF-8 character; an INT has 16 values, a REAL is exact up to 16
and an LREAL up to 1024, and of the numbers sent -1, 2, 5 and 18 are outside a subrange
or the width of a byte or an INT, and 32767 rounds to an LREAL whose pattern has no i64.  Each
TPY file shows one type in `ST_ADS_TO_BC` between the counter and a plain field; the orders are three of the six in which a HashMap may give three
enum keys (their first and last differ, which is all that counts).  Two files have a type
that renames another: one renames a primitive type, the other a type that a field next to
it has as well, without which it would be a bad file.  The schemas have a field that many
of the files lack, a field before an object, a structure named twice, and two whole
structures with a field of the same name.  What the PLC
may hold (`MCPlcData`) are whole structures whose second byte varies, and nothing,
which is an error answer.  The counter is one byte at offset 0 (four at 16 in the
code); `MaxCount` is two.

Deadlock checking is off (`CHECK_DEADLOCK FALSE`): the system stops with its
connection, after a panic, and when the bounded environment has nothing left to do.

Fairness.  The event loop polls a ready mailbox, a readable socket, a non-empty
stream and the futures of a job: weak fairness of each (`Segment` for the codec:
bytes that are there are read, some number of them at a time).  A live PLC answers:
weak fairness of `PlcServe`/`PlcServes`.  A session's thread polls its futures
(`Unpark`, `ShowAnswer`).  Nothing is assumed of what browsers send, of the PLC's
own writes, or of the connection, which may end at any time or never.  In
`mux_live` an answer may be lost (`AnswersLost`) for the decoder may clear it; in
`ws_session` none is, as `ResolveSettles` tells what happens then.

Disagreements (see "findings"): three assertions of the code that another actor
or a legal message sequence violates.  Beyond these, the models show two
consequences of the design that no assertion denies.  A read's answer is copied
over the mirror however old it is: `MirrorCurrent` and `MutationKeepsOthers`
hold only for structures that are not `suspect`, and the read of `ST_ADS_TO_BC`
at boot is always followed by a heartbeat before its answer arrives.  And a
subscription to two structures in two messages tells only of the one whose name
comes first in JSON order: `ViewCurrent` and `ChangeIsTold` exclude such nested
nodes.

Of sessions and data, the models show more that no text of the repository denies;
the properties are stated so that they hold with it, and say exactly how far:

- the answer of a Resolve may be shown after a newer notice, and stays
  (`ShownIsCurrent` excludes just this); a refused read answers with the mirror,
  as if it had been read (`ReadYourWrites` excludes just this);
- a text that does not parse, or a Resolve against a connection that ended, ends
  every session of the thread, and these stay registered (`DeathHasReason`,
  `RegistryExact`);
- a text longer than its STRING that is cut inside a character, or a number that rounds
  to an LREAL whose pattern is 2^63 or more, is accepted from a mutation; the next heartbeat or
  Resolve then ends the process (`UnreadableOnlyByMutation`);
- a number is cut to the width of its field before it is clamped, so one that is
  far too large may become any value of the subrange; an enum value is cut to an INT
  and then kept if it lies between two keys (`OnlyNamedAreSet`);
- an enum of one key, or a type that only renames another, stops the start
  (`StartsWhenComplete`, which also has what does not);
- a mutation that one of the types does not take ends the process, whatever else it
  names: a negative number for an unsigned field, an array with fewer elements than the
  structure's; and so does any mutation of a structure with a REAL that the PLC holds and
  that was rounded up past its width when it was read (`MutationEndsIfUnfit` says exactly
  when, `ST_ADS_FROM_BC` included, which has no memory to write);
- in the text of a schema a field named before a nested object becomes part of the
  object's name, a nested object is answered under its name twice, and a key of a later
  node takes the place of an earlier one's (`ResolveAnswers` spells out all three);
- a subscriber to an object that does not exist is told of no change of what comes after
  it in JSON order (`NoticesTell`).

## 4. The proofs

All are checked by tlapm to the last leaf.  For every value of the constants
allowed by `ClientAssumption` (`AdsClientProofs`):

- `ClientTypeCorrect`: `Spec => []TypeOK`, with `Len(channel) <= ChannelCap`.
- `ResponsesMatch`: without id collisions, `ResponseHasRequest` and
  `NoUnmatchedResponse` are invariants.
- `WaitingReadsAreHeld`: `Spec => []WaitingIsHeld`, whatever ids are drawn.
- `MismatchIsCollision`: `Spec => []MismatchNeedsCollision`, whatever ids are drawn.
- `ClientImplementsRpc`: without id collisions, `Spec => RpcSpec`.

The hypothesis `~Collisions`, of ResponsesMatch and the two refinements only, is not in
the code: ids are random 32-bit numbers. With it, the argument is an inductive invariant
about where an id can be: an id is in flight at most once, in a request towards the PLC
or in a response, and wherever it is, `request_map` holds under it the read of that
frame. ResponseHasRequest alone is not inductive: a response is created from a request
frame, so the same must be known of `toPlc`; removing an entry must not break another
frame, so frames must have distinct ids; and a read must be in the mailbox at most once
for its frame to be the only one. `WaitingIsHeld` needs less: `reply` is "waiting"
exactly for the reads in the mailbox or in `request_map`, each in one place, and an id
drawn again cancels the read it takes the place of. The refinement follows: the data of
a response is that of the request its id maps to.

What a collision costs is MismatchIsCollision.  A response without its request, or with
another's, is preceded by a future that failed: up to the first collision the invariant
above holds and every answer is its own (`MatchInv`), the collision cancels a read
(`ClashCancels`), and a read once canceled stays so, for `request_map` holds waiting
reads only.

`AdsClientOrderProofs` proves, whatever ids are drawn:

- `WritesForwardedInOrder`: `Spec => []ForwardedInOrder`.
- `RequestsServedInOrder`: `Spec => []PlcSeesIssueOrder`.

and, without collisions, what the multiplexer's model builds on:

- `ClientImplementsPipe`: `Spec => PipeSpec`.

The first two say something of the end of a line only, and are inductive together with the
line behind it.  `RelayInv`: the writes the multiplexer took, those in the channel
and those on the connection ascend, each part before the next, and none is newer
than the last the PLC sent.  `OrderInv`: the requests on the wire and in the mailbox
are numbered; those on the wire continue what the PLC has served, and those in the
mailbox continue the wire up to the last one issued.  The messages between them that
are not requests (`Register`, answers to the PLC) get no number, which is why it is a
function of positions and not the positions themselves.  The pipe of `AdsPipe` is then
what was issued and not yet served, and its memory the writes served; `PipeInv` adds that
a request is issued once and a read is answered only after the PLC executed it, so that
the sample it is answered with exists.

For any frames of at least 26 bytes (`CodecAssumption`: offsets that increase,
`decode` never looks further than byte 26 to tell what a frame is;
`AdsCodecProofs`):

- `CodecTypeCorrect`: `Spec => []TypeOK`.
- `FramesWholeInOrder`: `Spec => []WholeInOrder`.
- `LockstepIsLossless`: `Spec => []LockstepLosesNothing`.
- `CodecImplementsStream`: `Spec => StreamSpec`.

Here the argument is about positions.  `WholeInOrder` says nothing of the
buffer, so the invariant adds where it starts: `start` lies after the first byte
of frame `taken` and not after the first byte of frame `taken + 1`, and every
frame handed on is among the first `taken`.  A decode in step then hands on
frame `taken + 1`, greater than all before it, and `Complete` with the frame's
own length says its last byte has arrived.  For lockstep the addition is that at
most one frame is beyond `start`, so a clear ends exactly on its boundary.  The
assumption is only about the sizes of frames: segments and the lengths read out
of step are arbitrary.

For any frames, commands, data and requests (`WireAssumption`; `AdsWireProofs`):

- `WireIsCodec`: `WireSpec => Spec`, so that the four theorems above hold of the
  connection with its bytes.
- `PacketsReadAsSent`: `WireSpec => []PacketsAsSent`.
- `PlcFindsWhatIsWritten`: `WireSpec => []PlcFindsPackets`.
- `RequestsAreAnswered`: `WireSpec => []RequestsAnswered`.

The lemma that carries them is `ReadsBack`: from any bytes that begin with `IntoBuf(p)`,
`FromBuf` reads `p`, and the length in them tells where they end.  It asks that numbers
fit their fields and that a packet's data is as long as its count says (`Packets`), and
that the whole fits the length field (`Sendable`: the code writes it `as u32`).  `Base >=
16` (256 in the code) makes room for the sizes and codes that the AdsClient itself
writes, of which 0x701 is the largest.  The PLC's own frames may carry more commands than the four,
of which only the bytes matter.  For an answer to come in its place the invariant keeps
that `found` is what was written (`NothingLeft`), and a matching that grows by one pair
with every request: an answer is appended in the very step that hands the request on.

For any sessions, threads, PLCs, URLs and capacity of the mailboxes, any number of
texts and a byte of any number of values (`SessionAssumption`: ports have two
bytes, different net ids different octets; `WsSessionProofs`):

- `SessionTypeCorrect`: `Spec => []TypeOK`.
- `SessionsRouted`: `Spec => []Routed`.
- `SessionDeathHasReason`: `Spec => []DeathHasReason`.

`TypeInv` adds to the types that an open session has a multiplexer, without which
`Mux` would be no PLC, and that a mutation carries a value.  `RouteInv` says of every
message, waiting for room, in a mailbox, or as a read in the pipe, whose it is: of
a session whose URL has that multiplexer's key.  `Routed` follows as a key is the
key of one address only: `TwoDigits` shows that a port is known by its low and high
byte, which the mutant of `Conn` that keeps one of them breaks.  `DeathInv` adds
that a future has failed only where the connection has ended, which needs
`RouteInv`: a multiplexer refuses the reads of its own sessions.

`WsSessionOrderProofs`, from the same assumption:

- `RegistryIsExact`: `Spec => []RegistryExact`.
- `ResolvesSeeOwnWrites`: `Spec => []ReadYourWrites`.
- `SubscribersShowMirror`: `Spec => []ShownIsCurrent`.

RegistryExact speaks of a multiplexer that has read its mailbox.  `RegistryInv` speaks of
every moment: a session that was opened, open or dead with its worker, is known or its
hello is on the way, one that closed is forgotten or its goodbye is, and the hello lies
before the goodbye; one that has not opened is neither known nor announced.  `RouteInv`
shows that both are in the one mailbox, and `ParkWaits` that neither waits for room,
since hello and goodbye go by `do_send`: were they to wait, they could change places.

ReadYourWrites speaks of an answer that was shown.  `WriteInv` follows a Resolve through
all the places it can be in, of which it is in at most one at a time: waiting for
room, in the mailbox, as a read in the pipe, as an answer on its way.  In each, the
mutations its session sent before it are handled, or lie in front of it in the mailbox;
once it is a read, they are in front of it in the pipe or at the PLC.  That a mutation
passes a Resolve that waits for room only helps it.  `PipeIsLatest` adds what makes the
answer new enough: the last write in the pipe is the last mutation handled.

ShownIsCurrent speaks of a session with no notice left to show.  `ShownInv` adds the
notices: the last one in a subscriber's mailbox is the mirror, and an answer that no
newer notice passed is the mirror too.

For any sessions, schemas, mutations, values, prefixes written by the PLC and bounds
(`MuxAssumption`: values fit the fields, a Resolve names a structure once, a session is
no structure; `AdsToWsMultiplexerProofs`):

- `MuxTypeCorrect`: `Spec => []TypeOK`.
- `JsonAndBytesAgree`: `Spec => []JsonMatchesBytes`.
- `EveryChangeIsTold`: `Spec => ChangeIsTold`, an action property.
- `SessionsShowTheMirror`: `Spec => []ViewCurrent`.
- `MirrorIsCurrent`: `Spec => []MirrorCurrent`.
- `MutationsKeepOthers`: `Spec => MutationKeepsOthers`, an action property.
- `FromBcIsCurrent`: `Spec => []FromBcCurrent`, for writes at any offset.

JsonMatchesBytes, ViewCurrent and FromBcCurrent are inductive with the types
(`MuxTypeInv`: a session that has not opened has no subscription).  ViewCurrent is so
only because it is the same condition on a schema, `SubscribedTo`, that decides what is
told and what a session is owed: the lemma about `Notify` shows this for the merged
subscription of a structure.

MirrorCurrent is not inductive.  It compares the mirror with what a structure will be
when the pipe is executed (`Expected`), and the mirror becomes the answer of a read, about
which it says nothing.  `MirrorInv` adds the same of answers that have arrived
(`AnswersCurrent`) and that a read still in the pipe has no write of its structure behind
it (`ReadsLast`), in both cases but for the structures in `overtaken`; so the PLC's answer
is what the structure will be.  `ReadsAwaited` and `JobsTidy` make `overtaken` mean that
very read, and `NothingSentInVain` leaves no pipe without a connection.  `Expected` takes
the last write of a field in the pipe; the proofs use it as `After`, by what appending a
request and executing the oldest do to it.  MutationKeepsOthers follows: below
its last changed byte a mutation repeats the mirror, which is what the PLC will have.

FromBcCurrent is about the last write in the channel that takes a field (`Taken`): the
handler takes those from `off` to the length of the data, which are among the fields that
were written, and of each either the byte that was written or, since `data[off..]` is
copied and not `data`, another one (`Placed`, `behind`).

For a byte of any even number of values, any leaf type but `Other` (a BOOL, an
integer of any width and subrange, signed or not, a REAL or LREAL exact up to any even
number, a STRING of any length, an enum of any keys) and any JSON value (`PrimitiveAssumption`;
`AdsPrimitivesProofs`):

- `CleanLeafKept`: bytes that are read and written back are the same bytes.
- `WrittenLeafBecomes`: what a JSON value is written as fills the field, and is what the
  type makes of the value (`Becomes`).
- `WrittenIsReadable`: what is written can be read again, but for a text cut inside a
  character and a number that rounds to an LREAL pattern without an i64.
- `RewrittenLeaf`: what is written is a fixed point of reading and writing.
- `OverlayKeepsTheRest`: bytes copied into a row change nothing beside them.
- `PrefixIsEnough`: the prefix up to the last byte that differs turns the old row into the
  new one, and no shorter prefix does.

These are what RewriteIsFaithful, UnreadableOnlyByMutation and OnlyNamedAreSet of
`AdsMemory` say of one leaf and of one row of bytes.  `Power` and `Number` are recursive
functions: `Recursion` shows that such a function exists and obeys its equation, and
`Counting` is the induction over numbers without an operator for a parameter.  On these
rest little endian (`Number` of the digits of `n` is `n` modulo the width), two's
complement, the clamp as the nearest number of a subrange, and rounding: the number of
binary digits to cut exists as a least one, and a rounded number, being exact, is rounded
no further.

Two properties turned out too narrow when their leaf was to be proved, which TLC then
confirmed with larger numbers: `Becomes` had an enum keep a value before it was cut to an
INT, and UnreadableOnlyByMutation overlooked numbers below 2^63 that round up to it.

Not proved, and left to TLC:

- `ReadSettlesOrIsLost`, `LoneFrameArrives`, `ResolveSettles`, `ResolveEnds`: liveness under
  fairness is beyond the prover.
- All properties of `AdsMemory` as they stand: types, values and schemas are trees which
  `AdsTypes`, `JsonTrees` and `SchemaText` read by recursive operators, and induction over
  such data is beyond the prover.  `AdsPrimitivesProofs` has their leaves; how leaves
  make up a structure is checked by TLC.
- `NoCanceledReply`, `SchemasMerge`, `TagsResolve`: they are false.

## 5. Not modelled

- A stream that ends inside a frame (an error of `FramedRead`, which stops the client as
  the end does); AMS errors of a router (see "hazards").
- The command line, logging, the configuration file and its deserialisation, the
  HTTP routes and pages; `create_client`'s address parsing and `exit(1)`.
- Reading XML (`quickxml_to_serde`): `XmlToStruct` begins with elements as records,
  and knows that an element that stands alone is no array.  `number_from_value`'s
  digits.  Types that reach themselves: `build_dependencies` would not end, and
  neither would the model.  Two DataTypes of one name: which of them
  `search_index` keeps depends on the order of a HashMap.
- Structures with gaps: fields are read one after another whatever `BitOffs` says,
  so a structure with padding is read wrongly in the code as well; the types of
  the runs have none.
- A Resolve that names a structure twice, and so reads it twice, in `AdsToWsMultiplexer`;
  `AdsMemory` has what it answers.
- A second Resolve of a session while one is out, which `ws.rs:123-129` would spawn:
  `WsSession` has one at a time.  Two Resolves meet in the mailboxes and pipes as those
  of two sessions; in which order one browser is shown two answers of its own is open.
- A number with a fraction (`Frac`) is one that a float holds exactly: `WriteReal` takes
  the floor and rounds, the code rounds and takes the floor, which is then the same.
- What becomes of the entries that closed sessions leave in `subscription_map`: they are
  kept, and their Tags can fail, but the memory they take is not counted (see "hazards").
- `AdsMemory` and `WsSession` are each one view of the multiplexer, not composed with
  `AdsToWsMultiplexer`: the data of one and the messages of the other do not meet
  in any condition of the code but "changed" and "named", which all three have.

## 6. Plan

1. Done: `ReadRpc`, `AdsClient`, `JsonDiff`, `AdsToWsMultiplexer`; their proofs as in 4.
2. Done: `AdsCodec` and `FrameStream`, with their proofs; `AmsFrames` and `AdsWire`.
3. Done: `AdsPrimitives`, `AdsTypes`, `JsonTrees`, `SchemaText`, `XmlToStruct`, composed
   in `AdsMemory`; `WsSession`, with its first proofs.
4. Done: the proofs of section 4, which leave no safety property of `AdsClient`,
   `AdsCodec`, `AdsWire`, `AdsToWsMultiplexer` and `WsSession` to TLC alone.
5. Done: `AdsPrimitivesProofs`, the leaves of `AdsMemory`.
6. Done: `AdsPipe`, by which the multiplexer's pipe is refined by mailbox, connection and
   PLC.
7. Left: liveness and the trees of `AdsMemory`, for other provers than the installed ones.
