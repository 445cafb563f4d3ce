------------------------------ MODULE AdsCodec ------------------------------
(***************************************************************************)
(* AdsClientCodec::decode (codec/mod.rs) under tokio's FramedRead: bytes   *)
(* arrive in segments of any size, each segment is appended to the buffer  *)
(* and decode is called.  Bytes are positions in the stream: the buffer    *)
(* holds positions start..got-1, for decode only ever clears it.           *)
(***************************************************************************)
EXTENDS Naturals, Sequences

CONSTANTS
    MaxFrames,   \* bound: frames the PLC sends
    Off,         \* Off[i] is the position of the first byte of frame i
    Known,       \* frames whose (command, flags) decode matches
    Lengths      \* what a length field read from inside a frame may say

HeaderLen == 6       \* reserved and length, before the AMS header
FlagsEnd == 26       \* the last byte decode looks at, through p[24..]
Bogus == 0           \* a packet that no frame is

ASSUME CodecAssumption ==
    /\ MaxFrames \in Nat
    /\ Off \in [1..MaxFrames + 1 -> Nat] /\ Off[1] = 0
    /\ \A i, j \in 1..MaxFrames + 1 : i < j => Off[i] + FlagsEnd <= Off[j]
    /\ Known \subseteq 1..MaxFrames
    /\ Lengths \subseteq Nat /\ Lengths # {}

VARIABLES
    state,       \* "running" or "panicked"
    sent,        \* frames the PLC has sent
    got,         \* bytes that have arrived
    start,       \* the first byte of the buffer
    length,      \* what the bytes of the length field say when out of step
    taken,       \* history: frames of which a byte was cleared from the buffer
    delivered,   \* the packets handed to the AdsClient
    lockstep     \* history: no frame was sent before the last one was decoded

vars == <<state, sent, got, start, length, taken, delivered, lockstep>>

TypeOK ==
    /\ state \in {"running", "panicked"}
    /\ sent \in 0..MaxFrames
    /\ got \in 0..Off[sent + 1]
    /\ start \in 0..got
    /\ length \in Lengths
    /\ taken \in 0..sent
    /\ delivered \in Seq(Known \cup {Bogus})
    /\ lockstep \in BOOLEAN

Init ==
    /\ state = "running"
    /\ sent = 0 /\ got = 0 /\ start = 0
    /\ length \in Lengths
    /\ taken = 0
    /\ delivered = <<>>
    /\ lockstep = TRUE

\* The PLC writes a whole frame to its socket.
PlcSends ==
    /\ state = "running" /\ sent < MaxFrames
    /\ sent' = sent + 1
    /\ lockstep' = (lockstep /\ start = Off[sent + 1])
    /\ UNCHANGED <<state, got, start, length, taken, delivered>>

-----------------------------------------------------------------------------
InStep == start = Off[taken + 1]

\* LittleEndian::read_u32(&p[2..]).
Size == IF InStep THEN Off[taken + 2] - Off[taken + 1] - HeaderLen ELSE length

\* src_len >= size + 6.
CompleteNoHeader(src_len) == src_len >= HeaderLen /\ src_len >= Size
CompleteAndMore(src_len) == src_len >= HeaderLen /\ src_len > Size + HeaderLen
Complete(src_len) == src_len >= HeaderLen /\ src_len >= Size + HeaderLen

\* A segment of n bytes arrives.
Arrives(n) ==
    /\ state = "running"
    /\ got' = got + n
    /\ UNCHANGED <<sent, lockstep>>

\* b.into_inner().clear(): the whole buffer, whatever was decoded of it.
ClearNothing == start' = start
Clear == start' = got'

\* Frames up to taken' have their first byte before the new start.
Cleared ==
    /\ Clear
    /\ taken' \in {t \in 0..sent : (t > 0 => Off[t] < start') /\ start' <= Off[t + 1]}
    /\ length' \in Lengths

\* Too few bytes: the buffer is kept.
Waits(n) ==
    /\ Arrives(n) /\ ~Complete(got' - start)
    /\ UNCHANGED <<state, start, length, taken, delivered>>

\* The frame at the head of the buffer is there; an unknown command is None.
HandOnAny(i) == Append(delivered, i)
HandOn(i) == IF i \in Known THEN Append(delivered, i) ELSE delivered

Decodes(n) ==
    /\ InStep
    /\ Arrives(n) /\ Complete(got' - start)
    /\ delivered' = HandOn(taken + 1)
    /\ Cleared
    /\ UNCHANGED state

\* Out of step any bytes look like command, flags and data.  A slice beyond the
\* buffer, in decode or in from_buf, panics.
DecodesAdrift(n) ==
    /\ ~InStep
    /\ Arrives(n) /\ Complete(got' - start)
    /\ \/ /\ state' = "panicked"
          /\ UNCHANGED <<start, length, taken, delivered>>
       \/ /\ got' - start >= FlagsEnd
          /\ delivered' \in {delivered, Append(delivered, Bogus)}
          /\ Cleared
          /\ UNCHANGED state

Reads(n) == Waits(n) \/ Decodes(n) \/ DecodesAdrift(n)

\* Any part of what the PLC has sent and has not arrived yet.
Segment == \E n \in 1..(Off[sent + 1] - got) : Reads(n)

Next == PlcSends \/ Segment

Spec == Init /\ [][Next]_vars

\* A readable socket is read.
FairSpec == Spec /\ WF_vars(Segment)

-----------------------------------------------------------------------------
\* Properties.

\* Frames are handed on in the order sent, none twice, none before its last
\* byte arrived, whatever the segments and however often the reader is adrift.
WholeInOrder ==
    /\ \A i, j \in DOMAIN delivered :
          i < j /\ delivered[i] # Bogus /\ delivered[j] # Bogus => delivered[i] < delivered[j]
    /\ \A i \in DOMAIN delivered : delivered[i] # Bogus => Off[delivered[i] + 1] <= got

\* While the PLC waits for each frame to be decoded before it sends the next,
\* the reader stays in step and no frame it knows is lost, however segmented.
LockstepLosesNothing ==
    lockstep =>
        /\ InStep
        /\ Known \cap 1..taken = {delivered[i] : i \in DOMAIN delivered}

\* The codec is the lossy stream of FrameStream.
Stream == INSTANCE FrameStream WITH adrift <- ~InStep
StreamSpec == Stream!Spec

\* A frame sent in lockstep is delivered.
LoneFrameArrives ==
    \A f \in Known : (lockstep /\ sent = f) ~> \E i \in DOMAIN delivered : delivered[i] = f
=============================================================================
