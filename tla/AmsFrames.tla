----------------------------- MODULE AmsFrames -----------------------------
(***************************************************************************)
(* The bytes of a frame (codec/types.rs): AmsTcpHeader, AmsHeader and the  *)
(* four commands, into_buf and from_buf, and the answer to a request.  A   *)
(* byte has Base values (256 in the code); every field has its width.      *)
(***************************************************************************)
EXTENDS Naturals, Sequences

CONSTANT Base   \* values of a byte

\* write_u16, write_u32, get_u16_le and get_u32_le: little endian.
U16Bytes(n) == <<n % Base, (n \div Base) % Base>>
U32Bytes(n) == U16Bytes(n) \o U16Bytes(n \div (Base * Base))
U16At(b, i) == b[i + 1] + Base * b[i + 2]
U32At(b, i) == U16At(b, i) + Base * Base * U16At(b, i + 2)
U32 == 4
U32s(numbers) ==
    [i \in 1..U32 * Len(numbers) |-> U32Bytes(numbers[(i + 3) \div U32])[((i + 3) % U32) + 1]]

ReadCommand == 2
WriteCommand == 3
RequestFlags == 4
ResponseFlags == 5
NotSupported == 1793

\* What the pair of command and flags is taken for; anything else is no packet.
KindOf(command_id, state_flags) ==
    CASE command_id = WriteCommand /\ state_flags = RequestFlags -> "WriteReq"
      [] command_id = WriteCommand /\ state_flags = ResponseFlags -> "WriteRes"
      [] command_id = ReadCommand /\ state_flags = RequestFlags -> "ReadReq"
      [] command_id = ReadCommand /\ state_flags = ResponseFlags -> "ReadRes"
      [] OTHER -> "None"

\* The numbers of a command: index group, offset and length, or result and
\* length, or the result alone.  The last number of two kinds counts their data.
FieldsOf == [WriteReq |-> 3, WriteRes |-> 1, ReadReq |-> 3, ReadRes |-> 2, None |-> 0]
WithData == {"WriteReq", "ReadRes"}

Command(fields, data) == [fields |-> fields, data |-> data]
Packet(target, source, command_id, state_flags, inv_id, command) ==
    [target |-> target, source |-> source, command_id |-> command_id,
     state_flags |-> state_flags, inv_id |-> inv_id, command |-> command]
Kind(p) == KindOf(p.command_id, p.state_flags)
IsRequest(p) == Kind(p) \in {"ReadReq", "WriteReq"}

\* size(): from the length field, not from the data.
CommandSize(kind, c) ==
    U32 * FieldsOf[kind] + (IF kind \in WithData THEN c.fields[FieldsOf[kind]] ELSE 0)
TcpHeaderSize == 6
HeaderSize == 32
PacketSize(p) == TcpHeaderSize + HeaderSize + CommandSize(Kind(p), p.command)

\* into_buf.  The error code of a packet is always 0.
IntoHeader(p) ==
    p.target \o p.source \o U16Bytes(p.command_id) \o U16Bytes(p.state_flags)
        \o U32s(<<CommandSize(Kind(p), p.command), 0, p.inv_id>> \o p.command.fields)
        \o p.command.data
IntoBufCountingAll(p) ==
    U16Bytes(0) \o U32Bytes(Len(IntoHeader(p)) + TcpHeaderSize) \o IntoHeader(p)
IntoBuf(p) == U16Bytes(0) \o U32Bytes(Len(IntoHeader(p))) \o IntoHeader(p)

\* from_buf: the reserved bytes, the size and the error code are read and dropped.
\* Reading beyond the end panics: there is no packet.
CommandFromBuf(kind, b, at) ==
    LET n == FieldsOf[kind]
        fields == [i \in 1..n |-> U32At(b, at + U32 * (i - 1))]
        data == at + U32 * n
    IN  Command(fields,
                IF kind \in WithData THEN SubSeq(b, data + 1, data + fields[n]) ELSE <<>>)
PacketAt(b, inv_id) ==
    Packet(SubSeq(b, 7, 14), SubSeq(b, 15, 22), U16At(b, 22), U16At(b, 24), inv_id,
           CommandFromBuf(KindOf(U16At(b, 22), U16At(b, 24)), b, TcpHeaderSize + HeaderSize))
NoPacket == Packet(<<>>, <<>>, 0, 0, 0, Command(<<>>, <<>>))
IsWhole(b) == Len(b) >= TcpHeaderSize + HeaderSize /\ Len(b) >= TcpHeaderSize + U32At(b, 2)
FromBufKeepingError(b) == IF IsWhole(b) THEN PacketAt(b, U32At(b, 30)) ELSE NoPacket
FromBuf(b) == IF IsWhole(b) THEN PacketAt(b, U32At(b, 34)) ELSE NoPacket

\* What the fields of a packet can hold, with as much data as its length says.
Address == [1..8 -> 0..Base - 1]
U16Values == 0..Base * Base - 1
U32Values == 0..Base * Base * Base * Base - 1
Packets ==
    {p \in [target : Address, source : Address, command_id : U16Values, state_flags : U16Values,
            inv_id : U32Values, command : [fields : Seq(U32Values), data : Seq(0..Base - 1)]] :
        /\ Len(p.command.fields) = FieldsOf[Kind(p)]
        /\ Len(p.command.data) = IF Kind(p) \in WithData THEN p.command.fields[FieldsOf[Kind(p)]] ELSE 0}
\* Its length fits the field for it.
Sendable == {p \in Packets : HeaderSize + CommandSize(Kind(p), p.command) \in U32Values}

\* gen_request of the AdsClient (its length field is not what is written), and
\* gen_res of a request.
GenRequest(target, source, command_id, inv_id, command) ==
    Packet(target, source, command_id, RequestFlags, inv_id, command)
Response(p, target, source) ==
    Packet(target, source, p.command_id, ResponseFlags, p.inv_id,
           Command(IF Kind(p) = "ReadReq" THEN <<NotSupported, 0>> ELSE <<0>>, <<>>))
GenResSameWay(p) == Response(p, p.target, p.source)
GenRes(p) == Response(p, p.source, p.target)
=============================================================================
