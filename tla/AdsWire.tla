------------------------------ MODULE AdsWire ------------------------------
(***************************************************************************)
(* The connection to a PLC down to its bytes: what the decoder of AdsCodec *)
(* hands on is read by from_buf from whatever lies in the buffer, the      *)
(* AdsClient answers the PLC's requests and sends its own, and encode      *)
(* writes all of it into one stream that the PLC cuts into frames by their *)
(* lengths.                                                                *)
(***************************************************************************)
EXTENDS AdsCodec, AmsFrames, FiniteSets

CONSTANTS
    Frames,       \* what the PLC sends: packet i is frame i of AdsCodec
    Requests,     \* what the multiplexer asks for: [id, command_id, command] records
    MaxRequests,  \* bound: requests of the AdsClient
    Misread,      \* packets that bytes out of step may look like
    Target,       \* the addresses of the PLC
    Source        \* and of the AdsClient

\* All bytes of the PLC, in the order sent.
FrameAt(n) == CHOOSE i \in 1..MaxFrames : Off[i] < n /\ n <= Off[i + 1]
FromPlc == [n \in 1..Off[MaxFrames + 1] |-> IntoBuf(Frames[FrameAt(n)])[n - Off[FrameAt(n)]]]

\* What the AdsClient makes of what the multiplexer asks for.
Asked(r) == GenRequest(Target, Source, r.command_id, r.id, r.command)

ASSUME WireAssumption ==
    /\ Base \in Nat /\ Base >= 16 /\ MaxRequests \in Nat
    /\ DOMAIN Frames = 1..MaxFrames
    /\ \A i \in 1..MaxFrames : /\ IntoBuf(Frames[i]) \in Seq(0..Base - 1)
                              /\ Off[i + 1] - Off[i] = Len(IntoBuf(Frames[i]))
    /\ Known = {i \in 1..MaxFrames : Kind(Frames[i]) # "None"}
    /\ \A i \in Known : Frames[i] \in Sendable
    /\ \A r \in Requests : Asked(r) \in Sendable /\ IsRequest(Asked(r))
    /\ Misread \subseteq Packets

VARIABLES
    handled,   \* the packets the AdsClient got
    wrote,     \* history: the packets it wrote
    unread,    \* bytes it wrote that the PLC cannot make a frame of yet
    found      \* the packets the PLC found in the bytes

plcSide == <<wrote, unread, found>>
wire == <<handled, plcSide>>
wireVars == <<vars, wire>>

WireInit == Init /\ handled = <<>> /\ wrote = <<>> /\ unread = <<>> /\ found = <<>>

\* The PLC (external) takes a frame from the bytes by the length in its header.  It
\* looks once for each packet written: PlcFindsPackets says that nothing is left.
Cut(b, packets) ==
    LET end == TcpHeaderSize + U32At(b, 2)
    IN  IF Len(b) < TcpHeaderSize \/ Len(b) < end THEN [found |-> packets, unread |-> b]
        ELSE [found |-> Append(packets, FromBuf(SubSeq(b, 1, end))),
              unread |-> SubSeq(b, end + 1, Len(b))]

\* encode appends to what FramedWrite still has to send.
Writes(p) ==
    /\ wrote' = Append(wrote, p)
    /\ \E cut \in {Cut(unread \o IntoBuf(p), found)} : found' = cut.found /\ unread' = cut.unread

\* StreamHandler::handle of a packet: requests are answered at once.
Handles(p) ==
    /\ handled' = Append(handled, p)
    /\ IF IsRequest(p) THEN Writes(GenRes(p)) ELSE UNCHANGED plcSide

\* from_buf reads from the head of the buffer, which may hold more than the frame.
Buffered == SubSeq(FromPlc, start + 1, got')

Receive ==
    /\ Segment
    /\ \/ delivered' = delivered /\ UNCHANGED wire
       \/ /\ delivered' # delivered /\ InStep
          /\ \E b \in {Buffered} : \E p \in {FromBuf(b)} : Handles(p)
       \/ /\ delivered' # delivered /\ ~InStep
          /\ \E p \in Misread : Handles(p)

\* Handler<AdsReadReq>, Handler<AdsWriteReq>.
Request ==
    /\ state = "running"
    /\ Cardinality({i \in DOMAIN wrote : IsRequest(wrote[i])}) < MaxRequests
    /\ \E r \in Requests : Writes(Asked(r))
    /\ UNCHANGED <<vars, handled>>

WireNext == Receive \/ Request \/ (PlcSends /\ UNCHANGED wire)

\* A readable socket is read.
WireSpec == WireInit /\ [][WireNext]_wireVars /\ WF_vars(Segment)

-----------------------------------------------------------------------------
\* The AdsClient gets the packets the PLC made, field by field, also from a buffer
\* that holds more than one frame.
PacketsAsSent ==
    /\ Len(handled) = Len(delivered)
    /\ \A i \in DOMAIN delivered : delivered[i] # Bogus => handled[i] = Frames[delivered[i]]

\* The PLC finds exactly the packets written in the bytes it gets: every length
\* counts what follows it, and encode puts no more than it has reserved.
PlcFindsPackets ==
    /\ found = wrote /\ unread = <<>>
    /\ \A i \in DOMAIN wrote : Len(IntoBuf(wrote[i])) <= PacketSize(wrote[i])

Answers(a, q) ==
    /\ a.inv_id = q.inv_id /\ a.target = q.source /\ a.source = q.target
    /\ <<Kind(q), Kind(a)>> \in {<<"ReadReq", "ReadRes">>, <<"WriteReq", "WriteRes">>}

\* Each request the AdsClient got is answered once, in order: the answer the PLC reads
\* has the request's id, goes back to where it came from, and is the response to
\* its command.
RequestsAnswered ==
    LET requests == {i \in DOMAIN handled : IsRequest(handled[i])}
        answers == {j \in DOMAIN found : ~IsRequest(found[j])}
    IN  \E answer \in [requests -> answers] :
          /\ answers = {answer[i] : i \in requests}
          /\ \A i, k \in requests : i < k => answer[i] < answer[k]
          /\ \A i \in requests : Answers(found[answer[i]], handled[i])
=============================================================================
