-------------------------- MODULE AdsClientProofs --------------------------
(***************************************************************************)
(* Proofs about AdsClient, for every set of requests and ids and every     *)
(* bound.  Where a theorem says ~Collisions, the random invocation ids are *)
(* assumed not to be those of outstanding reads; the others hold for any.  *)
(***************************************************************************)
EXTENDS AdsClient, TLAPS

\* The id drawn for a read is that of an outstanding one.
Clash == HandleReadReq /\ DOMAIN request_map' = DOMAIN request_map

LEMMA FreshIds == ~Collisions => ~Clash
BY DEF Clash, HandleReadReq, DrawIds

\* What a received frame or message carries, by its tag.
LEMMA MessageFields ==
    ASSUME NEW m \in Message
    PROVE  /\ m.kind = "read" => m.of \in Reads
           /\ m.kind = "write" => m.of \in Writes
BY DEF Message

LEMMA OutFields ==
    ASSUME NEW p \in OutPacket
    PROVE  /\ p.cmd = "ReadReq" => p.of \in Reads /\ p.inv \in InvIds
           /\ p.cmd = "WriteReq" => p.of \in Writes
BY DEF OutPacket

LEMMA InFields ==
    ASSUME NEW p \in InPacket
    PROVE  /\ p.cmd = "ReadRes" => p.of \in Reads /\ p.inv \in InvIds
           /\ p.cmd = "ReadReq" => p.of \in PlcReads
           /\ p.cmd = "WriteReq" => p.of \in PlcWrites
BY DEF InPacket

LEMMA SuffixType ==
    ASSUME NEW S, NEW s \in Seq(S), NEW k \in Nat, k <= Len(s)
    PROVE  /\ SubSeq(s, k + 1, Len(s)) \in Seq(S)
           /\ Len(SubSeq(s, k + 1, Len(s))) = Len(s) - k
           /\ \A i \in 1..(Len(s) - k) : SubSeq(s, k + 1, Len(s))[i] = s[i + k]
OBVIOUS



LEMMA InitType == Init => TypeOK
<1> SUFFICES ASSUME Init PROVE TypeOK
  OBVIOUS
<1> USE ClientAssumption DEF Init
<1>1. ActorTypeOK BY DEF ActorTypeOK, EmptyMap
<1>2. QueueTypeOK BY DEF QueueTypeOK, Message, ChannelCap
<1>3. CallerTypeOK BY DEF CallerTypeOK
<1>4. PlcTypeOK BY DEF PlcTypeOK
<1>5. QED BY <1>1, <1>2, <1>3, <1>4 DEF TypeOK

\* Only two handlers and the end of the connection change the map.
LEMMA ActorType == TypeOK /\ [Next]_vars => ActorTypeOK'
<1> SUFFICES ASSUME TypeOK, [Next]_vars PROVE ActorTypeOK'
  OBVIOUS
<1>0. ActorTypeOK
  BY DEF TypeOK
<1>1. CASE UNCHANGED actor
  BY <1>0, <1>1 DEF ActorTypeOK, actor
<1>2. CASE HandleRegister \/ HandleUnregister
  BY <1>0, <1>2 DEF ActorTypeOK, HandleRegister, HandleUnregister
<1>3. CASE HandleReadReq
  <2>1. PICK inv \in DrawIds :
          request_map' = [i \in DOMAIN request_map \cup {inv} |->
                             IF i = inv THEN Head(mailbox).of ELSE request_map[i]]
    BY <1>3 DEF HandleReadReq
  <2>2. inv \in InvIds
    BY DEF DrawIds
  <2>3. Head(mailbox).of \in Reads
    BY <1>3, MessageFields DEF HandleReadReq, NextMessage, TypeOK, QueueTypeOK
  <2>4. DOMAIN request_map' = DOMAIN request_map \cup {inv}
    BY <2>1
  <2>5. request_map' \in [DOMAIN request_map' -> Reads]
    BY <1>0, <2>1, <2>3, <2>4 DEF ActorTypeOK
  <2>6. QED
    BY <1>0, <1>3, <2>2, <2>4, <2>5 DEF ActorTypeOK, HandleReadReq
<1>4. ASSUME NEW k \in 1..MaxBatch, OnReadRes(k) PROVE ActorTypeOK'
  <2>1. state' \in {"running", "stopped", "panicked"}
    BY <1>0, <1>4 DEF ActorTypeOK, OnReadRes
  <2>2. request_map' = request_map \/ request_map' = MapWithout(fromPlc[1].inv)
    BY <1>4 DEF OnReadRes
  <2>3. DOMAIN request_map' \subseteq InvIds /\ request_map' \in [DOMAIN request_map' -> Reads]
    BY <1>0, <2>2 DEF ActorTypeOK, MapWithout
  <2>4. QED
    BY <1>0, <1>4, <2>1, <2>3 DEF ActorTypeOK, OnReadRes
<1>5. CASE ConnectionLost
  BY <1>5 DEF ActorTypeOK, ConnectionLost, EmptyMap
<1>6. QED
  BY <1>1, <1>2, <1>3, <1>4, <1>5
  DEF Next, vars, HandleMessage, OnPacket, PlcServe, IssueRead, IssueWrite, TakeWrite, MuxStops,
      HandleWriteReq, OnReadReq, OnWriteReq, OnWriteRes, PlcAnswersRead, PlcAnswersWrite,
      PlcTakesResponse, PlcSendsWrite, PlcSendsRead

LEMMA MailboxType == TypeOK /\ [Next]_vars => mailbox' \in Seq(Message)
<1> SUFFICES ASSUME TypeOK, [Next]_vars PROVE mailbox' \in Seq(Message)
  OBVIOUS
<1>0. mailbox \in Seq(Message)
  BY DEF TypeOK, QueueTypeOK
<1>1. ASSUME NEW m \in Message, mailbox' = Append(mailbox, m) PROVE mailbox' \in Seq(Message)
  BY <1>0, <1>1
<1>2. CASE mailbox' = Tail(mailbox) /\ mailbox # <<>>
  BY <1>0, <1>2
<1>3. ASSUME NEW r \in Reads, IssueRead(r) PROVE mailbox' \in Seq(Message)
  <2>1. [kind |-> "read", of |-> r] \in Message
    BY DEF Message
  <2>2. mailbox' = mailbox \/ mailbox' = Append(mailbox, [kind |-> "read", of |-> r])
    BY <1>3 DEF IssueRead
  <2>3. QED
    BY <1>0, <1>1, <2>1, <2>2
<1>4. ASSUME NEW w \in Writes, IssueWrite(w) PROVE mailbox' \in Seq(Message)
  <2>1. [kind |-> "write", of |-> w] \in Message
    BY DEF Message
  <2>2. QED
    BY <1>1, <1>4, <2>1 DEF IssueWrite
<1>5. CASE MuxStops
  <2>1. [kind |-> "unregister"] \in Message
    BY DEF Message
  <2>2. mailbox' = mailbox \/ mailbox' = Append(mailbox, [kind |-> "unregister"])
    BY <1>5 DEF MuxStops
  <2>3. QED
    BY <1>0, <1>1, <2>1, <2>2
<1>6. CASE HandleMessage
  BY <1>2, <1>6 DEF HandleMessage, HandleRegister, HandleUnregister, HandleReadReq,
                    HandleWriteReq, NextMessage
<1>7. CASE ConnectionLost
  BY <1>7 DEF ConnectionLost
<1>8. CASE UNCHANGED mailbox
  BY <1>0, <1>8
<1>9. QED
  BY <1>3, <1>4, <1>5, <1>6, <1>7, <1>8
  DEF Next, vars, OnPacket, PlcServe, TakeWrite, OnReadReq, OnReadRes, OnWriteReq, OnWriteRes,
      PlcAnswersRead, PlcAnswersWrite, PlcTakesResponse, PlcSendsWrite, PlcSendsRead

\* What a decode leaves of the incoming frames, and the frame it returned.
LEMMA DecodedFrame ==
    ASSUME TypeOK, NEW k \in 1..MaxBatch, NEW cmd, Decoded(k, cmd)
    PROVE  /\ fromPlc' \in Seq(InPacket)
           /\ fromPlc[1] \in InPacket
           /\ fromPlc[1].cmd = cmd
           /\ Len(fromPlc) >= 1
           /\ Len(fromPlc') = Len(fromPlc) - k
           /\ \A i \in 1..Len(fromPlc') : i + k \in 1..Len(fromPlc) /\ fromPlc'[i] = fromPlc[i + k]
<1>1. fromPlc \in Seq(InPacket)
  BY DEF TypeOK, QueueTypeOK
<1>2. k \in Nat /\ k >= 1
  BY ClientAssumption
<1>3. k <= Len(fromPlc) /\ fromPlc' = SubSeq(fromPlc, k + 1, Len(fromPlc)) /\ fromPlc[1].cmd = cmd
  BY DEF Decoded
<1>4. Len(fromPlc) \in Nat
  BY <1>1
<1>5. QED
  BY <1>1, <1>2, <1>3, <1>4, SuffixType, SMTT(30)

LEMMA ChannelType ==
    TypeOK /\ [Next]_vars => channel' \in Seq(PlcWrites) /\ Len(channel') <= ChannelCap
<1> SUFFICES ASSUME TypeOK, [Next]_vars
             PROVE  channel' \in Seq(PlcWrites) /\ Len(channel') <= ChannelCap
  OBVIOUS
<1>0. channel \in Seq(PlcWrites) /\ Len(channel) <= ChannelCap /\ ChannelCap \in Nat
  BY ClientAssumption DEF TypeOK, QueueTypeOK, ChannelCap
<1>1. CASE UNCHANGED channel
  BY <1>0, <1>1
<1>2. CASE channel' = <<>>
  BY <1>0, <1>2
<1>3. CASE TakeWrite
  <2>1. channel # <<>> /\ channel' = Tail(channel)
    BY <1>3 DEF TakeWrite
  <2>2. QED
    BY <1>0, <2>1
<1>4. ASSUME NEW k \in 1..MaxBatch, OnWriteReq(k)
      PROVE  channel' \in Seq(PlcWrites) /\ Len(channel') <= ChannelCap
  <2>1. fromPlc[1].of \in PlcWrites
    BY <1>4, DecodedFrame, InFields DEF OnWriteReq
  <2>2. \/ channel' = channel
        \/ (Len(channel) < ChannelCap /\ channel' = Append(channel, fromPlc[1].of))
    BY <1>4 DEF OnWriteReq, TrySend, CanSend
  <2>3. QED
    BY <1>0, <2>1, <2>2
<1>5. QED
  BY <1>1, <1>2, <1>3, <1>4
  DEF Next, vars, HandleMessage, OnPacket, PlcServe, IssueRead, IssueWrite, MuxStops,
      HandleRegister, HandleUnregister, HandleReadReq, HandleWriteReq, OnReadReq, OnReadRes,
      OnWriteRes, ConnectionLost, PlcAnswersRead, PlcAnswersWrite, PlcTakesResponse,
      PlcSendsWrite, PlcSendsRead

LEMMA ToPlcType == TypeOK /\ [Next]_vars => toPlc' \in Seq(OutPacket)
<1> SUFFICES ASSUME TypeOK, [Next]_vars PROVE toPlc' \in Seq(OutPacket)
  OBVIOUS
<1>0. toPlc \in Seq(OutPacket)
  BY DEF TypeOK, QueueTypeOK
<1>1. CASE UNCHANGED toPlc
  BY <1>0, <1>1
<1>2. ASSUME NEW p \in OutPacket, toPlc' = Written(p) PROVE toPlc' \in Seq(OutPacket)
  BY <1>0, <1>2 DEF Written
<1>3. CASE HandleReadReq
  <2>1. Head(mailbox).of \in Reads
    BY <1>3, MessageFields DEF HandleReadReq, NextMessage, TypeOK, QueueTypeOK
  <2>2. PICK inv \in DrawIds :
          toPlc' = Written([cmd |-> "ReadReq", inv |-> inv, of |-> Head(mailbox).of])
    BY <1>3 DEF HandleReadReq
  <2>3. [cmd |-> "ReadReq", inv |-> inv, of |-> Head(mailbox).of] \in OutPacket
    BY <2>1 DEF OutPacket, DrawIds
  <2>4. QED
    BY <1>2, <2>2, <2>3
<1>4. CASE HandleWriteReq
  <2>1. Head(mailbox).of \in Writes
    BY <1>4, MessageFields DEF HandleWriteReq, NextMessage, TypeOK, QueueTypeOK
  <2>2. [cmd |-> "WriteReq", of |-> Head(mailbox).of] \in OutPacket
    BY <2>1 DEF OutPacket
  <2>3. QED
    BY <1>2, <1>4, <2>2 DEF HandleWriteReq
<1>5. ASSUME NEW k \in 1..MaxBatch, OnReadReq(k) PROVE toPlc' \in Seq(OutPacket)
  <2>1. fromPlc[1].of \in PlcReads
    BY <1>5, DecodedFrame, InFields DEF OnReadReq
  <2>2. [cmd |-> "ReadRes", of |-> fromPlc[1].of] \in OutPacket
    BY <2>1 DEF OutPacket
  <2>3. QED
    BY <1>2, <1>5, <2>2 DEF OnReadReq
<1>6. ASSUME NEW k \in 1..MaxBatch, OnWriteReq(k) PROVE toPlc' \in Seq(OutPacket)
  <2>1. fromPlc[1].of \in PlcWrites
    BY <1>6, DecodedFrame, InFields DEF OnWriteReq
  <2>2. [cmd |-> "WriteRes", of |-> fromPlc[1].of] \in OutPacket
    BY <2>1 DEF OutPacket
  <2>3. QED
    BY <1>2, <1>6, <2>2 DEF OnWriteReq
<1>7. CASE toPlc' = <<>>
  BY <1>7
<1>8. CASE PlcServe
  <2>1. toPlc # <<>> /\ toPlc' = Tail(toPlc)
    BY <1>8 DEF PlcServe, PlcAnswersRead, PlcAnswersWrite, PlcTakesResponse, PlcReceives
  <2>2. QED
    BY <1>0, <2>1
<1>9. QED
  BY <1>1, <1>3, <1>4, <1>5, <1>6, <1>7, <1>8
  DEF Next, vars, HandleMessage, OnPacket, IssueRead, IssueWrite, MuxStops, TakeWrite,
      HandleRegister, HandleUnregister, OnReadRes, OnWriteRes, ConnectionLost,
      PlcSendsWrite, PlcSendsRead

\* The frame at the head of what the PLC has received.
LEMMA ReceivedFrame ==
    ASSUME TypeOK, NEW cmds, PlcReceives(cmds)
    PROVE  /\ Head(toPlc) \in OutPacket
           /\ Head(toPlc).cmd \in cmds
           /\ toPlc # <<>> /\ toPlc' = Tail(toPlc)
BY DEF TypeOK, QueueTypeOK, PlcReceives

LEMMA FromPlcType == TypeOK /\ [Next]_vars => fromPlc' \in Seq(InPacket)
<1> SUFFICES ASSUME TypeOK, [Next]_vars PROVE fromPlc' \in Seq(InPacket)
  OBVIOUS
<1>0. fromPlc \in Seq(InPacket)
  BY DEF TypeOK, QueueTypeOK
<1>1. CASE UNCHANGED fromPlc
  BY <1>0, <1>1
<1>2. ASSUME NEW p \in InPacket, fromPlc' = Append(fromPlc, p) PROVE fromPlc' \in Seq(InPacket)
  BY <1>0, <1>2
<1>3. ASSUME NEW k \in 1..MaxBatch, OnPacket(k) PROVE fromPlc' \in Seq(InPacket)
  BY <1>3, DecodedFrame DEF OnPacket, OnReadReq, OnReadRes, OnWriteReq, OnWriteRes
<1>4. CASE fromPlc' = <<>>
  BY <1>4
<1>5. CASE PlcAnswersRead
  <2>1. Head(toPlc).of \in Reads /\ Head(toPlc).inv \in InvIds
    BY <1>5, ReceivedFrame, OutFields DEF PlcAnswersRead
  <2>2. [cmd |-> "ReadRes", inv |-> Head(toPlc).inv, of |-> Head(toPlc).of] \in InPacket
    BY <2>1 DEF InPacket
  <2>3. QED
    BY <1>2, <1>5, <2>2 DEF PlcAnswersRead
<1>6. CASE PlcAnswersWrite
  <2>1. Head(toPlc).of \in Writes
    BY <1>6, ReceivedFrame, OutFields DEF PlcAnswersWrite
  <2>2. [cmd |-> "WriteRes", of |-> Head(toPlc).of] \in InPacket
    BY <2>1 DEF InPacket
  <2>3. QED
    BY <1>2, <1>6, <2>2 DEF PlcAnswersWrite
<1>7. CASE PlcSendsWrite
  <2>1. plcSent + 1 \in PlcWrites
    BY <1>7, ClientAssumption DEF PlcSendsWrite, PlcWrites, TypeOK, PlcTypeOK
  <2>2. [cmd |-> "WriteReq", of |-> plcSent + 1] \in InPacket
    BY <2>1 DEF InPacket
  <2>3. QED
    BY <1>2, <1>7, <2>2 DEF PlcSendsWrite
<1>8. ASSUME NEW q \in PlcReads, PlcSendsRead(q) PROVE fromPlc' \in Seq(InPacket)
  <2>1. [cmd |-> "ReadReq", of |-> q] \in InPacket
    BY DEF InPacket
  <2>2. QED
    BY <1>2, <1>8, <2>1 DEF PlcSendsRead
<1>9. QED
  BY <1>1, <1>3, <1>4, <1>5, <1>6, <1>7, <1>8
  DEF Next, vars, HandleMessage, PlcServe, IssueRead, IssueWrite, MuxStops, TakeWrite,
      HandleRegister, HandleUnregister, HandleReadReq, HandleWriteReq, ConnectionLost,
      PlcTakesResponse

LEMMA ReplyType ==
    TypeOK /\ [Next]_vars =>
        /\ reply' \in [Reads -> {"unsent", "waiting", "ok", "canceled", "closed"}]
        /\ answers' \subseteq Reads \X Reads
<1> DEFINE R == [Reads -> {"unsent", "waiting", "ok", "canceled", "closed"}]
<1> SUFFICES ASSUME TypeOK, [Next]_vars PROVE reply' \in R /\ answers' \subseteq Reads \X Reads
  OBVIOUS
<1>0. /\ reply \in R /\ answers \subseteq Reads \X Reads
      /\ request_map \in [DOMAIN request_map -> Reads]
  BY DEF TypeOK, CallerTypeOK, ActorTypeOK
<1>1. CASE UNCHANGED <<reply, answers>>
  BY <1>0, <1>1
<1>2. ASSUME NEW r \in Reads, IssueRead(r) PROVE reply' \in R /\ answers' \subseteq Reads \X Reads
  BY <1>0, <1>2 DEF IssueRead
<1>3. CASE HandleReadReq
  BY <1>0, <1>3 DEF HandleReadReq
<1>4. ASSUME NEW k \in 1..MaxBatch, OnReadRes(k)
      PROVE  reply' \in R /\ answers' \subseteq Reads \X Reads
  <2>1. fromPlc[1].of \in Reads
    BY <1>4, DecodedFrame, InFields DEF OnReadRes
  <2>2. QED
    BY <1>0, <1>4, <2>1 DEF OnReadRes
<1>5. CASE ConnectionLost
  <2>1. reply' \in R
    BY <1>0, <1>5 DEF ConnectionLost
  <2>2. QED
    BY <1>0, <1>5, <2>1 DEF ConnectionLost
<1>6. QED
  BY <1>1, <1>2, <1>3, <1>4, <1>5
  DEF Next, vars, muxEnd, HandleMessage, OnPacket, PlcServe, IssueWrite, TakeWrite, MuxStops,
      HandleRegister, HandleUnregister, HandleWriteReq, OnReadReq, OnWriteReq, OnWriteRes,
      PlcAnswersRead, PlcAnswersWrite, PlcTakesResponse, PlcSendsWrite, PlcSendsRead

LEMMA HistoryType ==
    TypeOK /\ [Next]_vars =>
        /\ issued' \in Seq(Requests)
        /\ served' \in Seq(Requests)
        /\ forwarded' \in Seq(PlcWrites)
<1> SUFFICES ASSUME TypeOK, [Next]_vars
             PROVE  issued' \in Seq(Requests) /\ served' \in Seq(Requests)
                    /\ forwarded' \in Seq(PlcWrites)
  OBVIOUS
<1>0. issued \in Seq(Requests) /\ served \in Seq(Requests)
      /\ forwarded \in Seq(PlcWrites) /\ channel \in Seq(PlcWrites)
  BY DEF TypeOK, CallerTypeOK, PlcTypeOK, QueueTypeOK
<1>1. issued' \in Seq(Requests)
  <2>1. ASSUME NEW r \in Reads, IssueRead(r) PROVE issued' \in Seq(Requests)
    <3>1. r \in Requests
      BY DEF Requests
    <3>2. issued' = issued \/ issued' = Append(issued, r)
      BY <2>1 DEF IssueRead
    <3>3. QED
      BY <1>0, <3>1, <3>2
  <2>2. ASSUME NEW w \in Writes, IssueWrite(w) PROVE issued' \in Seq(Requests)
    BY <1>0, <2>2 DEF IssueWrite, Requests
  <2>3. CASE UNCHANGED issued
    BY <1>0, <2>3
  <2>4. QED
    BY <2>1, <2>2, <2>3
      DEF Next, vars, muxEnd, HandleMessage, OnPacket, PlcServe, TakeWrite, MuxStops,
          HandleRegister, HandleUnregister, HandleReadReq, HandleWriteReq, OnReadReq,
          OnReadRes, OnWriteReq, OnWriteRes, ConnectionLost, PlcAnswersRead,
          PlcAnswersWrite, PlcTakesResponse, PlcSendsWrite, PlcSendsRead
<1>2. served' \in Seq(Requests)
  <2>1. CASE PlcAnswersRead
    <3>1. Head(toPlc).of \in Requests
      BY <2>1, ReceivedFrame, OutFields DEF PlcAnswersRead, Requests
    <3>2. QED
      BY <1>0, <2>1, <3>1 DEF PlcAnswersRead
  <2>2. CASE PlcAnswersWrite
    <3>1. Head(toPlc).of \in Requests
      BY <2>2, ReceivedFrame, OutFields DEF PlcAnswersWrite, Requests
    <3>2. QED
      BY <1>0, <2>2, <3>1 DEF PlcAnswersWrite
  <2>3. CASE UNCHANGED served
    BY <1>0, <2>3
  <2>4. QED
    BY <2>1, <2>2, <2>3
      DEF Next, vars, plcEnd, IssueRead, IssueWrite, TakeWrite, MuxStops, HandleMessage,
          OnPacket, PlcServe, HandleRegister, HandleUnregister, HandleReadReq, HandleWriteReq, OnReadReq,
          OnReadRes, OnWriteReq, OnWriteRes, ConnectionLost, PlcTakesResponse,
          PlcSendsWrite, PlcSendsRead
<1>3. forwarded' \in Seq(PlcWrites)
  <2>1. CASE TakeWrite
    BY <1>0, <2>1 DEF TakeWrite
  <2>2. CASE UNCHANGED forwarded
    BY <1>0, <2>2
  <2>3. QED
    BY <2>1, <2>2
      DEF Next, vars, muxEnd, IssueRead, IssueWrite, MuxStops, HandleMessage,
          OnPacket, PlcServe, HandleRegister, HandleUnregister, HandleReadReq, HandleWriteReq, OnReadReq,
          OnReadRes, OnWriteReq, OnWriteRes, ConnectionLost, PlcAnswersRead,
          PlcAnswersWrite, PlcTakesResponse, PlcSendsWrite, PlcSendsRead
<1>4. QED
  BY <1>1, <1>2, <1>3

LEMMA PartyType ==
    TypeOK /\ [Next]_vars =>
        /\ receiver' \in {"none", "open", "dropped"}
        /\ plcSent' \in 0..MaxPlcWrites
        /\ plcAsked' \subseteq PlcReads
<1> SUFFICES ASSUME TypeOK, [Next]_vars
             PROVE  receiver' \in {"none", "open", "dropped"} /\ plcSent' \in 0..MaxPlcWrites
                    /\ plcAsked' \subseteq PlcReads
  OBVIOUS
<1>0. receiver \in {"none", "open", "dropped"} /\ plcSent \in 0..MaxPlcWrites
      /\ plcAsked \subseteq PlcReads /\ MaxPlcWrites \in Nat
  BY ClientAssumption DEF TypeOK, CallerTypeOK, PlcTypeOK
<1>1. CASE HandleRegister \/ MuxStops
  BY <1>0, <1>1 DEF HandleRegister, MuxStops, plcEnd
<1>2. CASE PlcSendsWrite
  BY <1>0, <1>2 DEF PlcSendsWrite, muxEnd
<1>3. ASSUME NEW q \in PlcReads, PlcSendsRead(q)
      PROVE  UNCHANGED <<receiver, plcSent>> /\ plcAsked' \subseteq PlcReads
  BY <1>0, <1>3 DEF PlcSendsRead, muxEnd
<1>4. CASE UNCHANGED <<receiver, plcSent, plcAsked>>
  BY <1>0, <1>4
<1>5. QED
  BY <1>0, <1>1, <1>2, <1>3, <1>4
  DEF Next, vars, muxEnd, plcEnd, HandleMessage, OnPacket, PlcServe, IssueRead, IssueWrite, TakeWrite,
      HandleUnregister, HandleReadReq, HandleWriteReq, OnReadReq, OnReadRes, OnWriteReq,
      OnWriteRes, ConnectionLost, PlcAnswersRead, PlcAnswersWrite, PlcTakesResponse

LEMMA NextType == TypeOK /\ [Next]_vars => TypeOK'
<1> SUFFICES ASSUME TypeOK, [Next]_vars PROVE TypeOK'
  OBVIOUS
<1>1. ActorTypeOK' BY ActorType
<1>2. QueueTypeOK' BY MailboxType, ChannelType, ToPlcType, FromPlcType DEF QueueTypeOK, ChannelCap
<1>3. CallerTypeOK' BY ReplyType, HistoryType, PartyType DEF CallerTypeOK
<1>4. PlcTypeOK' BY HistoryType, PartyType DEF PlcTypeOK
<1>5. QED BY <1>1, <1>2, <1>3, <1>4 DEF TypeOK

\* Type correctness of the client, whatever ids are drawn, however the frames
\* are batched and wherever the connection breaks; in particular the write
\* channel never holds more than its buffer and the sender's own slot.
THEOREM ClientTypeCorrect == Spec => []TypeOK
<1>1. QED
  BY InitType, NextType, PTL DEF Spec

-----------------------------------------------------------------------------
\* Response matching.  ResponseHasRequest is not inductive: a request must be
\* held from the moment it is on the wire, and an id may be on the wire only
\* once, or removing it for one response would orphan another.

HeldIn(m, p) == p.inv \in DOMAIN m /\ m[p.inv] = p.of

\* Of a map m, outgoing frames a and incoming frames b.
Matched(m, a, b) ==
    /\ \A i \in 1..Len(a) : a[i].cmd = "ReadReq" => HeldIn(m, a[i])
    /\ \A i \in 1..Len(b) : b[i].cmd = "ReadRes" => HeldIn(m, b[i])
    /\ \A i, j \in 1..Len(a) :
          i # j /\ a[i].cmd = "ReadReq" /\ a[j].cmd = "ReadReq" => a[i].inv # a[j].inv
    /\ \A i, j \in 1..Len(b) :
          i # j /\ b[i].cmd = "ReadRes" /\ b[j].cmd = "ReadRes" => b[i].inv # b[j].inv
    /\ \A i \in 1..Len(a), j \in 1..Len(b) :
          a[i].cmd = "ReadReq" /\ b[j].cmd = "ReadRes" => a[i].inv # b[j].inv

WireInv == state # "panicked" /\ Matched(request_map, toPlc, fromPlc)

LEMMA AppendFacts ==
    ASSUME NEW S, NEW s \in Seq(S), NEW e
    PROVE  /\ Len(s) \in Nat /\ Len(Append(s, e)) = Len(s) + 1
           /\ \A i \in 1..Len(Append(s, e)) :
                 \/ i \in 1..Len(s) /\ Append(s, e)[i] = s[i]
                 \/ i = Len(s) + 1 /\ Append(s, e)[i] = e
OBVIOUS

LEMMA TailFacts ==
    ASSUME NEW S, NEW s \in Seq(S), s # <<>>
    PROVE  /\ Len(s) \in Nat /\ Len(Tail(s)) = Len(s) - 1
           /\ Len(s) >= 1 /\ Head(s) = s[1]
           /\ \A i \in 1..Len(Tail(s)) : i + 1 \in 1..Len(s) /\ Tail(s)[i] = s[i + 1]
OBVIOUS

\* t is s without its first k elements.
Shifted(s, t, k) ==
    /\ Len(t) = Len(s) - k
    /\ \A i \in 1..Len(t) : i + k \in 1..Len(s) /\ t[i] = s[i + k]

\* Frames may leave either direction, and frames other than a read or its
\* response may join it.
LEMMA DropIncoming ==
    ASSUME NEW m, NEW a, NEW b, NEW c, NEW k \in Nat, Matched(m, a, b), Shifted(b, c, k),
           Len(b) \in Nat
    PROVE  Matched(m, a, c)
<1>1. \A i \in 1..Len(c) : i \in Nat /\ i + k \in 1..Len(b) /\ c[i] = b[i + k]
  BY DEF Shifted
<1>2. \A i \in 1..Len(c) : c[i].cmd = "ReadRes" => HeldIn(m, c[i])
  BY <1>1 DEF Matched
<1>3. ASSUME NEW i \in 1..Len(c), NEW j \in 1..Len(c), i # j,
             c[i].cmd = "ReadRes", c[j].cmd = "ReadRes"
      PROVE  c[i].inv # c[j].inv
  <2>1. i + k # j + k
    BY <1>1, <1>3
  <2>2. QED
    BY <1>1, <1>3, <2>1 DEF Matched
<1>4. QED
  BY <1>1, <1>2, <1>3 DEF Matched

LEMMA DropOutgoing ==
    ASSUME NEW m, NEW a, NEW b, NEW c, NEW k \in Nat, Matched(m, a, b), Shifted(a, c, k),
           Len(a) \in Nat
    PROVE  Matched(m, c, b)
<1>1. \A i \in 1..Len(c) : i \in Nat /\ i + k \in 1..Len(a) /\ c[i] = a[i + k]
  BY DEF Shifted
<1>2. \A i \in 1..Len(c) : c[i].cmd = "ReadReq" => HeldIn(m, c[i])
  BY <1>1 DEF Matched
<1>3. ASSUME NEW i \in 1..Len(c), NEW j \in 1..Len(c), i # j,
             c[i].cmd = "ReadReq", c[j].cmd = "ReadReq"
      PROVE  c[i].inv # c[j].inv
  <2>1. i + k # j + k
    BY <1>1, <1>3
  <2>2. QED
    BY <1>1, <1>3, <2>1 DEF Matched
<1>4. QED
  BY <1>1, <1>2, <1>3 DEF Matched

LEMMA JoinIncoming ==
    ASSUME NEW S, NEW m, NEW a, NEW b \in Seq(S), NEW p, Matched(m, a, b), p.cmd # "ReadRes"
    PROVE  Matched(m, a, Append(b, p))
BY AppendFacts DEF Matched

LEMMA JoinOutgoing ==
    ASSUME NEW S, NEW m, NEW a \in Seq(S), NEW b, NEW p, Matched(m, a, b), p.cmd # "ReadReq"
    PROVE  Matched(m, Append(a, p), b)
BY AppendFacts DEF Matched

\* A new request takes an id that is not in the map.
LEMMA NewRequest ==
    ASSUME NEW S, NEW m, NEW n, NEW a \in Seq(S), NEW b, NEW p, Matched(m, a, b),
           p.inv \notin DOMAIN m, HeldIn(n, p),
           \A q : HeldIn(m, q) => HeldIn(n, q)
    PROVE  Matched(n, Append(a, p), b)
<1> DEFINE c == Append(a, p)
<1>1. /\ Len(a) \in Nat /\ Len(c) = Len(a) + 1
      /\ \A i \in 1..Len(c) :
            \/ i \in 1..Len(a) /\ c[i] = a[i]
            \/ i = Len(a) + 1 /\ c[i] = p
  BY AppendFacts
<1>2. \A q : HeldIn(m, q) => q.inv # p.inv
  BY DEF HeldIn
<1> HIDE DEF c
<1>3. \A i \in 1..Len(c) : c[i].cmd = "ReadReq" => HeldIn(n, c[i])
  BY <1>1 DEF Matched
<1>4. \A i \in 1..Len(b) : b[i].cmd = "ReadRes" => HeldIn(n, b[i])
  BY DEF Matched
<1>5. \A i, j \in 1..Len(c) :
        i # j /\ c[i].cmd = "ReadReq" /\ c[j].cmd = "ReadReq" => c[i].inv # c[j].inv
  BY <1>1, <1>2 DEF Matched
<1>6. \A i \in 1..Len(c), j \in 1..Len(b) :
        c[i].cmd = "ReadReq" /\ b[j].cmd = "ReadRes" => c[i].inv # b[j].inv
  BY <1>1, <1>2 DEF Matched
<1>7. Matched(n, c, b)
  BY <1>3, <1>4, <1>5, <1>6 DEF Matched
<1>8. QED
  BY <1>7 DEF c

\* The PLC turns the oldest request into a response with the same id.
LEMMA Respond ==
    ASSUME NEW S, NEW T, NEW m, NEW a \in Seq(S), NEW b \in Seq(T), NEW p, Matched(m, a, b),
           a # <<>>, a[1].cmd = "ReadReq", p.inv = a[1].inv, p.of = a[1].of
    PROVE  Matched(m, Tail(a), Append(b, p))
<1> DEFINE c == Tail(a)
           d == Append(b, p)
<1>1. /\ Len(a) \in Nat /\ Len(a) >= 1 /\ Len(c) = Len(a) - 1
      /\ \A i \in 1..Len(c) : i + 1 \in 1..Len(a) /\ c[i] = a[i + 1]
  BY TailFacts
<1>2. /\ Len(b) \in Nat /\ Len(d) = Len(b) + 1
      /\ \A i \in 1..Len(d) :
            \/ i \in 1..Len(b) /\ d[i] = b[i]
            \/ i = Len(b) + 1 /\ d[i] = p
  BY AppendFacts
<1>3. HeldIn(m, p)
  BY <1>1 DEF Matched, HeldIn
<1>4. \A i \in 1..Len(c) : c[i].cmd = "ReadReq" => c[i].inv # p.inv
  BY <1>1 DEF Matched
<1>5. \A i \in 1..Len(b) : b[i].cmd = "ReadRes" => b[i].inv # p.inv
  BY <1>1 DEF Matched
<1> HIDE DEF c, d
<1>6. \A i \in 1..Len(d) : d[i].cmd = "ReadRes" => HeldIn(m, d[i])
  BY <1>2, <1>3 DEF Matched
<1>7. Matched(m, c, b)
  BY <1>1, DropOutgoing DEF Shifted
<1>8. \A i, j \in 1..Len(d) :
        i # j /\ d[i].cmd = "ReadRes" /\ d[j].cmd = "ReadRes" => d[i].inv # d[j].inv
  BY <1>2, <1>5 DEF Matched
<1>9. \A i \in 1..Len(c), j \in 1..Len(d) :
        c[i].cmd = "ReadReq" /\ d[j].cmd = "ReadRes" => c[i].inv # d[j].inv
  BY <1>1, <1>2, <1>4, SMTT(30) DEF Matched
<1>10. Matched(m, c, d)
  BY <1>6, <1>7, <1>8, <1>9 DEF Matched
<1>11. QED
  BY <1>10 DEF c, d

\* The oldest response leaves, with its id.
LEMMA Settle ==
    ASSUME NEW m, NEW n, NEW a, NEW b, NEW c, NEW k \in Nat, k >= 1, Matched(m, a, b),
           Shifted(b, c, k), Len(b) \in Nat, Len(b) >= 1, b[1].cmd = "ReadRes",
           \A q : HeldIn(m, q) /\ q.inv # b[1].inv => HeldIn(n, q)
    PROVE  Matched(n, a, c)
<1>1. \A i \in 1..Len(c) : i + k \in 1..Len(b) /\ i + k # 1 /\ c[i] = b[i + k]
  BY DEF Shifted
<1>2. \A i \in 1..Len(c) : c[i].cmd = "ReadRes" => HeldIn(m, c[i]) /\ c[i].inv # b[1].inv
  BY <1>1, SMTT(30) DEF Matched
<1>3. \A i \in 1..Len(a) : a[i].cmd = "ReadReq" => HeldIn(m, a[i]) /\ a[i].inv # b[1].inv
  BY DEF Matched
<1>4. Matched(m, a, c)
  BY DropIncoming
<1>5. QED
  BY <1>2, <1>3, <1>4 DEF Matched

LEMMA InitWire == Init => WireInv
BY DEF Init, WireInv, Matched

LEMMA NextWire == ~Clash /\ TypeOK /\ WireInv /\ [Next]_vars => WireInv'
<1> SUFFICES ASSUME ~Clash, TypeOK, WireInv, [Next]_vars PROVE WireInv'
  OBVIOUS
<1>0. /\ toPlc \in Seq(OutPacket) /\ fromPlc \in Seq(InPacket)
      /\ Len(toPlc) \in Nat /\ Len(fromPlc) \in Nat
      /\ Matched(request_map, toPlc, fromPlc) /\ state # "panicked"
  BY DEF TypeOK, QueueTypeOK, WireInv
<1>1. ASSUME NEW k \in 1..MaxBatch, NEW cmd, Decoded(k, cmd)
      PROVE  Shifted(fromPlc, fromPlc', k) /\ k \in Nat /\ k >= 1
  BY <1>1, DecodedFrame, ClientAssumption DEF Shifted
<1>2. ASSUME NEW cmds, PlcReceives(cmds) PROVE Shifted(toPlc, toPlc', 1)
  BY <1>0, <1>2, TailFacts DEF Shifted, PlcReceives
<1>3. CASE UNCHANGED <<state, request_map, toPlc, fromPlc>>
  BY <1>0, <1>3 DEF WireInv
<1>4. CASE HandleReadReq
  <2>1. PICK inv \in DrawIds :
          /\ request_map' = [i \in DOMAIN request_map \cup {inv} |->
                                IF i = inv THEN Head(mailbox).of ELSE request_map[i]]
          /\ toPlc' = Append(toPlc, [cmd |-> "ReadReq", inv |-> inv, of |-> Head(mailbox).of])
    BY <1>4 DEF HandleReadReq, Written
  <2> DEFINE q == [cmd |-> "ReadReq", inv |-> inv, of |-> Head(mailbox).of]
  <2>2. q.inv \notin DOMAIN request_map
    <3>1. DOMAIN request_map' = DOMAIN request_map \cup {inv}
      BY <2>1
    <3>2. QED
      BY <1>4, <3>1 DEF Clash
  <2>3. HeldIn(request_map', q) /\ \A r : HeldIn(request_map, r) => HeldIn(request_map', r)
    BY <2>1, <2>2 DEF HeldIn
  <2>4. toPlc' = Append(toPlc, q)
    BY <2>1
  <2> HIDE DEF q
  <2>5. Matched(request_map', toPlc', fromPlc)
    BY <1>0, <2>2, <2>3, <2>4, NewRequest
  <2>6. UNCHANGED <<state, fromPlc>>
    BY <1>4 DEF HandleReadReq
  <2>7. QED
    BY <1>0, <2>5, <2>6 DEF WireInv
<1>5. CASE HandleWriteReq
  BY <1>0, <1>5, JoinOutgoing DEF HandleWriteReq, Written, actor, WireInv
<1>6. ASSUME NEW k \in 1..MaxBatch, OnReadRes(k) PROVE WireInv'
  <2>1. Decoded(k, "ReadRes")
    BY <1>6 DEF OnReadRes
  <2>2. Len(fromPlc) >= 1 /\ fromPlc[1].cmd = "ReadRes"
    BY <2>1, DecodedFrame
  <2>3. HeldIn(request_map, fromPlc[1])
    BY <1>0, <2>2 DEF Matched
  <2>4. request_map' = MapWithout(fromPlc[1].inv) /\ UNCHANGED <<state, toPlc>>
    BY <1>6, <2>3 DEF OnReadRes, HeldIn
  <2>5. \A q : HeldIn(request_map, q) /\ q.inv # fromPlc[1].inv => HeldIn(request_map', q)
    BY <2>4 DEF HeldIn, MapWithout
  <2>6. Matched(request_map', toPlc, fromPlc')
    BY <1>0, <1>1, <2>1, <2>2, <2>5, Settle
  <2>7. QED
    BY <1>0, <2>4, <2>6 DEF WireInv
<1>7. ASSUME NEW k \in 1..MaxBatch, OnReadReq(k) \/ OnWriteReq(k) \/ OnWriteRes(k)
      PROVE  WireInv'
  <2>1. Matched(request_map, toPlc, fromPlc')
    BY <1>0, <1>1, <1>7, DropIncoming DEF OnReadReq, OnWriteReq, OnWriteRes
  <2>2. UNCHANGED <<state, request_map>>
    BY <1>7 DEF OnReadReq, OnWriteReq, OnWriteRes, actor
  <2>3. CASE UNCHANGED toPlc
    BY <1>0, <2>1, <2>2, <2>3 DEF WireInv
  <2>4. ASSUME NEW p, p.cmd # "ReadReq", toPlc' = Append(toPlc, p) PROVE WireInv'
    BY <1>0, <2>1, <2>2, <2>4, JoinOutgoing DEF WireInv
  <2>5. QED
    BY <1>7, <2>3, <2>4 DEF OnReadReq, OnWriteReq, OnWriteRes, Written
<1>8. CASE ConnectionLost
  BY <1>8 DEF ConnectionLost, WireInv, Matched
<1>9. CASE PlcAnswersRead
  <2> DEFINE q == [cmd |-> "ReadRes", inv |-> Head(toPlc).inv, of |-> Head(toPlc).of]
  <2>1. Head(toPlc).cmd = "ReadReq" /\ toPlc # <<>> /\ toPlc' = Tail(toPlc)
    BY <1>9 DEF PlcAnswersRead, PlcReceives
  <2>2. fromPlc' = Append(fromPlc, q) /\ UNCHANGED <<state, request_map>>
    BY <1>9 DEF PlcAnswersRead, actor
  <2>3. q.inv = toPlc[1].inv /\ q.of = toPlc[1].of /\ toPlc[1].cmd = "ReadReq"
    BY <1>0, <2>1, TailFacts
  <2> HIDE DEF q
  <2>4. Matched(request_map, toPlc', fromPlc')
    BY <1>0, <2>1, <2>2, <2>3, Respond
  <2>5. QED
    BY <1>0, <2>2, <2>4 DEF WireInv
<1>10. CASE PlcAnswersWrite
  <2>1. Matched(request_map, toPlc', fromPlc)
    BY <1>0, <1>2, <1>10, DropOutgoing DEF PlcAnswersWrite
  <2>2. QED
    BY <1>0, <1>10, <2>1, JoinIncoming DEF PlcAnswersWrite, actor, WireInv
<1>11. CASE PlcTakesResponse
  BY <1>0, <1>2, <1>11, DropOutgoing DEF PlcTakesResponse, actor, WireInv
<1>12. CASE PlcSendsWrite
  BY <1>0, <1>12, JoinIncoming DEF PlcSendsWrite, actor, WireInv
<1>13. ASSUME NEW q \in PlcReads, PlcSendsRead(q) PROVE WireInv'
  BY <1>0, <1>13, JoinIncoming DEF PlcSendsRead, actor, WireInv
<1>14. QED
  BY <1>3, <1>4, <1>5, <1>6, <1>7, <1>8, <1>9, <1>10, <1>11, <1>12, <1>13
  DEF Next, vars, actor, HandleMessage, OnPacket, PlcServe, IssueRead, IssueWrite, TakeWrite,
      MuxStops, HandleRegister, HandleUnregister

\* When no random id collides with an outstanding one, every response finds its
\* own request in request_map: the unwrap of client.rs:148 cannot fail, however
\* requests, responses and the PLC's own frames interleave, and whichever
\* frames the decoder discards.
THEOREM ResponsesMatch == ~Collisions => (Spec => [](ResponseHasRequest /\ NoUnmatchedResponse))
<1> SUFFICES ASSUME ~Collisions PROVE Spec => [](ResponseHasRequest /\ NoUnmatchedResponse)
  OBVIOUS
<1>1. Init => TypeOK /\ WireInv
  BY InitType, InitWire
<1>2. TypeOK /\ WireInv /\ [Next]_vars => TypeOK' /\ WireInv'
  BY FreshIds, NextType, NextWire
<1>3. TypeOK /\ WireInv => ResponseHasRequest /\ NoUnmatchedResponse
  BY SMTT(30) DEF TypeOK, QueueTypeOK, WireInv, Matched, HeldIn,
         ResponseHasRequest, NoUnmatchedResponse
<1>4. QED
  BY <1>1, <1>2, <1>3, PTL DEF Spec

-----------------------------------------------------------------------------
\* Outstanding reads.  Every waiting read is at exactly one place, in the
\* mailbox or in the map, and every read at one of them is waiting: an answer
\* then settles a waiting future, and no future is settled twice.

\* Of a map m, a mailbox b and the callers' futures f.
Outstanding(m, b, f) ==
    /\ \A i \in DOMAIN m : m[i] \in Reads /\ f[m[i]] = "waiting"
    /\ \A i, j \in DOMAIN m : i # j => m[i] # m[j]
    /\ \A n \in 1..Len(b) : b[n].kind = "read" =>
          b[n].of \in Reads /\ f[b[n].of] = "waiting" /\ \A i \in DOMAIN m : m[i] # b[n].of
    /\ \A n, l \in 1..Len(b) :
          n # l /\ b[n].kind = "read" /\ b[l].kind = "read" => b[n].of # b[l].of
    /\ \A r \in Reads : f[r] = "waiting" =>
          \/ \E i \in DOMAIN m : m[i] = r
          \/ \E n \in 1..Len(b) : b[n].kind = "read" /\ b[n].of = r

CallerInv == state = "running" => Outstanding(request_map, mailbox, reply)

LEMMA OutstandingAppend ==
    ASSUME NEW S, NEW m, NEW b \in Seq(S), NEW f, NEW p, Outstanding(m, b, f), p.kind # "read"
    PROVE  Outstanding(m, Append(b, p), f)
<1> DEFINE c == Append(b, p)
<1>1. /\ Len(b) \in Nat /\ Len(c) = Len(b) + 1
      /\ \A i \in 1..Len(c) :
            \/ i \in 1..Len(b) /\ c[i] = b[i]
            \/ i = Len(b) + 1 /\ c[i] = p
      /\ \A i \in 1..Len(b) : i \in 1..Len(c) /\ c[i] = b[i]
  BY AppendFacts
<1> HIDE DEF c
<1>2. Outstanding(m, c, f)
  BY <1>1 DEF Outstanding
<1>3. QED
  BY <1>2 DEF c

\* A message other than a read leaves the mailbox.
LEMMA OutstandingTail ==
    ASSUME NEW S, NEW m, NEW b \in Seq(S), NEW f, Outstanding(m, b, f), b # <<>>,
           Head(b).kind # "read"
    PROVE  Outstanding(m, Tail(b), f)
<1> DEFINE c == Tail(b)
<1>1. /\ Len(b) \in Nat /\ Len(c) = Len(b) - 1 /\ Head(b) = b[1]
      /\ \A i \in 1..Len(c) : i + 1 \in 1..Len(b) /\ c[i] = b[i + 1]
  BY TailFacts
<1>2. \A i \in 1..Len(b) : i = 1 \/ (i - 1 \in 1..Len(c) /\ c[i - 1] = b[i])
  BY <1>1
<1> HIDE DEF c
<1>3. \A n, l \in 1..Len(c) :
        n # l /\ c[n].kind = "read" /\ c[l].kind = "read" => c[n].of # c[l].of
  <2>1. \A n, l \in 1..Len(c) : n # l => n + 1 # l + 1
    OBVIOUS
  <2>2. QED
    BY <1>1, <2>1, SMTT(30) DEF Outstanding
<1>4. \A n \in 1..Len(b) : b[n].kind = "read" =>
        \E l \in 1..Len(c) : c[l].kind = "read" /\ c[l].of = b[n].of
  BY <1>1, <1>2
<1>5. \A n \in 1..Len(c) : c[n].kind = "read" =>
        c[n].of \in Reads /\ f[c[n].of] = "waiting" /\ \A i \in DOMAIN m : m[i] # c[n].of
  BY <1>1 DEF Outstanding
<1>6. Outstanding(m, c, f)
  BY <1>3, <1>4, <1>5 DEF Outstanding
<1>7. QED
  BY <1>6 DEF c

\* A fresh read joins the mailbox.
LEMMA OutstandingCall ==
    ASSUME NEW S, NEW m, NEW b \in Seq(S), NEW f, NEW r \in Reads, NEW p, Outstanding(m, b, f),
           DOMAIN f = Reads, p.kind = "read", p.of = r, f[r] = "unsent"
    PROVE  Outstanding(m, Append(b, p), [f EXCEPT ![r] = "waiting"])
<1> DEFINE c == Append(b, p)
           g == [f EXCEPT ![r] = "waiting"]
<1>1. /\ Len(b) \in Nat /\ Len(c) = Len(b) + 1
      /\ \A i \in 1..Len(c) :
            \/ i \in 1..Len(b) /\ c[i] = b[i]
            \/ i = Len(b) + 1 /\ c[i] = p
  BY AppendFacts
<1>2. \A i \in 1..Len(b) : i \in 1..Len(c) /\ c[i] = b[i]
  BY <1>1
<1>3. Len(c) \in 1..Len(c) /\ c[Len(c)] = p
  BY <1>1
<1>4. g[r] = "waiting" /\ \A q \in Reads : q # r => g[q] = f[q]
  OBVIOUS
<1> HIDE DEF c, g
<1>5. \A i \in DOMAIN m : m[i] # r
  BY DEF Outstanding
<1>6. \A n \in 1..Len(b) : b[n].kind = "read" => b[n].of # r
  BY DEF Outstanding
<1>7. \A i \in DOMAIN m : m[i] \in Reads /\ g[m[i]] = "waiting"
  BY <1>4, <1>5 DEF Outstanding
<1>8. \A n \in 1..Len(c) : c[n].kind = "read" =>
        c[n].of \in Reads /\ g[c[n].of] = "waiting" /\ \A i \in DOMAIN m : m[i] # c[n].of
  BY <1>1, <1>4, <1>5 DEF Outstanding
<1>9. \A n, l \in 1..Len(c) :
        n # l /\ c[n].kind = "read" /\ c[l].kind = "read" => c[n].of # c[l].of
  BY <1>1, <1>6 DEF Outstanding
<1>10. ASSUME NEW q \in Reads, g[q] = "waiting"
       PROVE  \/ \E i \in DOMAIN m : m[i] = q
              \/ \E n \in 1..Len(c) : c[n].kind = "read" /\ c[n].of = q
  <2>1. CASE q = r
    BY <1>3, <2>1
  <2>2. CASE q # r
    <3>1. f[q] = "waiting"
      BY <1>4, <1>10, <2>2
    <3>2. \/ \E i \in DOMAIN m : m[i] = q
          \/ \E n \in 1..Len(b) : b[n].kind = "read" /\ b[n].of = q
      BY <3>1 DEF Outstanding
    <3>3. QED
      BY <1>2, <3>2
  <2>3. QED
    BY <2>1, <2>2
<1>11. \A i, j \in DOMAIN m : i # j => m[i] # m[j]
  BY DEF Outstanding
<1>12. Outstanding(m, c, g)
  BY <1>7, <1>8, <1>9, <1>10, <1>11 DEF Outstanding
<1>13. QED
  BY <1>12 DEF c, g

\* The oldest message, a read, moves from the mailbox to a fresh id of the map.
LEMMA OutstandingNumber ==
    ASSUME NEW S, NEW m, NEW b \in Seq(S), NEW f, NEW inv, Outstanding(m, b, f), b # <<>>,
           Head(b).kind = "read", inv \notin DOMAIN m,
           NEW n, DOMAIN n = DOMAIN m \cup {inv}, n[inv] = Head(b).of,
           \A i \in DOMAIN m : n[i] = m[i]
    PROVE  Outstanding(n, Tail(b), f)
<1> DEFINE c == Tail(b)
           r == Head(b).of
<1>1. /\ Len(b) \in Nat /\ Len(b) >= 1 /\ Len(c) = Len(b) - 1
      /\ b[1].kind = "read" /\ b[1].of = r
      /\ \A i \in 1..Len(c) : i \in Nat /\ i + 1 \in 1..Len(b) /\ i + 1 # 1 /\ c[i] = b[i + 1]
  BY TailFacts
<1>2. \A i \in 1..Len(b) : i = 1 \/ (i - 1 \in 1..Len(c) /\ c[i - 1] = b[i])
  BY <1>1
<1>3. /\ DOMAIN n = DOMAIN m \cup {inv}
      /\ n[inv] = r
      /\ \A i \in DOMAIN m : i # inv /\ n[i] = m[i]
  OBVIOUS
<1> HIDE DEF c, r
<1>4. r \in Reads /\ f[r] = "waiting" /\ \A i \in DOMAIN m : m[i] # r
  BY <1>1 DEF Outstanding
<1>5. \A i \in DOMAIN n : n[i] \in Reads /\ f[n[i]] = "waiting"
  BY <1>3, <1>4 DEF Outstanding
<1>6. \A i, j \in DOMAIN n : i # j => n[i] # n[j]
  BY <1>3, <1>4 DEF Outstanding
<1>7. \A l \in 1..Len(c) : c[l].kind = "read" => c[l].of # r
  BY <1>1 DEF Outstanding
<1>8. \A l \in 1..Len(c) : c[l].kind = "read" =>
        c[l].of \in Reads /\ f[c[l].of] = "waiting" /\ \A i \in DOMAIN m : m[i] # c[l].of
  BY <1>1 DEF Outstanding
<1>9. \A l \in 1..Len(c) : c[l].kind = "read" =>
        c[l].of \in Reads /\ f[c[l].of] = "waiting" /\ \A i \in DOMAIN n : n[i] # c[l].of
  BY <1>3, <1>7, <1>8
<1>10. \A k, l \in 1..Len(c) :
         k # l /\ c[k].kind = "read" /\ c[l].kind = "read" => c[k].of # c[l].of
  <2>1. \A k, l \in 1..Len(c) : k # l => k + 1 # l + 1
    BY <1>1
  <2>2. QED
    BY <1>1, <2>1, SMTT(30) DEF Outstanding
<1>11. ASSUME NEW q \in Reads, f[q] = "waiting"
       PROVE  \/ \E i \in DOMAIN n : n[i] = q
              \/ \E l \in 1..Len(c) : c[l].kind = "read" /\ c[l].of = q
  <2>1. CASE \E i \in DOMAIN m : m[i] = q
    BY <1>3, <2>1
  <2>2. CASE \E l \in 1..Len(b) : b[l].kind = "read" /\ b[l].of = q
    BY <1>1, <1>2, <1>3, <2>2
  <2>3. QED
    BY <1>11, <2>1, <2>2 DEF Outstanding
<1>12. Outstanding(n, c, f)
  BY <1>5, <1>6, <1>9, <1>10, <1>11 DEF Outstanding
<1>13. QED
  BY <1>12 DEF c, r

\* A read that is answered or fails leaves the map.
LEMMA OutstandingLeave ==
    ASSUME NEW m, NEW b, NEW f, NEW inv \in DOMAIN m, Outstanding(m, b, f), DOMAIN f = Reads,
           m[inv] \in Reads, NEW v, v # "waiting"
    PROVE  Outstanding([i \in DOMAIN m \ {inv} |-> m[i]], b, [f EXCEPT ![m[inv]] = v])
<1> DEFINE n == [i \in DOMAIN m \ {inv} |-> m[i]]
           g == [f EXCEPT ![m[inv]] = v]
<1>1. g[m[inv]] = v /\ \A q \in Reads : q # m[inv] => g[q] = f[q]
  OBVIOUS
<1>2. DOMAIN n = DOMAIN m \ {inv} /\ \A i \in DOMAIN n : n[i] = m[i]
  OBVIOUS
<1> HIDE DEF n, g
<1>3. \A i \in DOMAIN n : n[i] # m[inv]
  BY <1>2 DEF Outstanding
<1>4. \A l \in 1..Len(b) : b[l].kind = "read" => b[l].of # m[inv]
  BY DEF Outstanding
<1>5. \A i \in DOMAIN n : n[i] \in Reads /\ g[n[i]] = "waiting"
  BY <1>1, <1>2, <1>3 DEF Outstanding
<1>6. \A i, j \in DOMAIN n : i # j => n[i] # n[j]
  BY <1>2 DEF Outstanding
<1>7. \A l \in 1..Len(b) : b[l].kind = "read" =>
        b[l].of \in Reads /\ g[b[l].of] = "waiting" /\ \A i \in DOMAIN n : n[i] # b[l].of
  BY <1>1, <1>2, <1>4 DEF Outstanding
<1>8. ASSUME NEW q \in Reads, g[q] = "waiting"
      PROVE  \/ \E i \in DOMAIN n : n[i] = q
             \/ \E l \in 1..Len(b) : b[l].kind = "read" /\ b[l].of = q
  <2>1. q # m[inv] /\ f[q] = "waiting"
    BY <1>1, <1>8
  <2>2. QED
    BY <1>2, <2>1 DEF Outstanding
<1>9. Outstanding(n, b, g)
  BY <1>5, <1>6, <1>7, <1>8 DEF Outstanding
<1>10. QED
  BY <1>9 DEF n, g

\* A read takes the id of another, whose future fails: as if that one had left the
\* map first.
LEMMA OutstandingReplace ==
    ASSUME NEW S, NEW m, NEW b \in Seq(S), NEW f, NEW inv \in DOMAIN m, Outstanding(m, b, f),
           DOMAIN f = Reads, b # <<>>, Head(b).kind = "read",
           NEW n, DOMAIN n = DOMAIN m, n[inv] = Head(b).of,
           \A i \in DOMAIN m : i # inv => n[i] = m[i]
    PROVE  Outstanding(n, Tail(b), [f EXCEPT ![m[inv]] = "canceled"])
<1> DEFINE k == [i \in DOMAIN m \ {inv} |-> m[i]]
           g == [f EXCEPT ![m[inv]] = "canceled"]
<1>1. m[inv] \in Reads
  BY DEF Outstanding
<1>2. Outstanding(k, b, g)
  BY <1>1, OutstandingLeave
<1>3. /\ DOMAIN n = DOMAIN k \cup {inv} /\ inv \notin DOMAIN k
      /\ \A i \in DOMAIN k : n[i] = k[i]
  OBVIOUS
<1> HIDE DEF k, g
<1>4. Outstanding(n, Tail(b), g)
  BY <1>2, <1>3, OutstandingNumber
<1>5. QED
  BY <1>4 DEF g

LEMMA InitCaller == Init => CallerInv
<1> SUFFICES ASSUME Init PROVE Outstanding(request_map, mailbox, reply)
  BY DEF CallerInv
<1>1. /\ DOMAIN request_map = {} /\ Len(mailbox) = 1 /\ mailbox[1].kind = "register"
      /\ \A r \in Reads : reply[r] = "unsent"
  BY DEF Init, EmptyMap
<1>2. QED
  BY <1>1 DEF Outstanding

LEMMA NextCaller == TypeOK /\ CallerInv /\ [Next]_vars => CallerInv'
<1> SUFFICES ASSUME TypeOK, CallerInv, [Next]_vars, state' = "running"
             PROVE  Outstanding(request_map', mailbox', reply')
  BY DEF CallerInv
<1>0. /\ mailbox \in Seq(Message) /\ DOMAIN reply = Reads
      /\ request_map \in [DOMAIN request_map -> Reads]
  BY DEF TypeOK, QueueTypeOK, CallerTypeOK, ActorTypeOK
<1>1. state = "running" /\ Outstanding(request_map, mailbox, reply)
  BY DEF CallerInv, Next, vars, actor, HandleMessage, OnPacket, PlcServe, IssueRead, IssueWrite,
         TakeWrite, MuxStops, HandleRegister, HandleUnregister, HandleReadReq, HandleWriteReq,
         NextMessage, OnReadReq, OnReadRes, OnWriteReq, OnWriteRes, Decoded, ConnectionLost,
         PlcAnswersRead, PlcAnswersWrite, PlcTakesResponse, PlcReceives, PlcSendsWrite, PlcSendsRead
<1>2. CASE UNCHANGED <<request_map, mailbox, reply>>
  BY <1>1, <1>2
<1>3. ASSUME NEW r \in Reads, IssueRead(r) PROVE Outstanding(request_map', mailbox', reply')
  <2> DEFINE p == [kind |-> "read", of |-> r]
  <2>1. p.kind = "read" /\ p.of = r
    OBVIOUS
  <2>2. /\ mailbox' = Append(mailbox, p) /\ reply' = [reply EXCEPT ![r] = "waiting"]
        /\ request_map' = request_map /\ reply[r] = "unsent"
    BY <1>1, <1>3 DEF IssueRead, actor
  <2> HIDE DEF p
  <2>3. QED
    BY <1>0, <1>1, <2>1, <2>2, OutstandingCall
<1>4. ASSUME NEW p, p.kind # "read", mailbox' = Append(mailbox, p), UNCHANGED <<request_map, reply>>
      PROVE  Outstanding(request_map', mailbox', reply')
  BY <1>0, <1>1, <1>4, OutstandingAppend
<1>5. ASSUME NEW w \in Writes, IssueWrite(w) PROVE Outstanding(request_map', mailbox', reply')
  BY <1>4, <1>5 DEF IssueWrite, actor
<1>6. CASE MuxStops
  BY <1>1, <1>4, <1>6 DEF MuxStops, actor
<1>7. CASE HandleRegister \/ HandleUnregister \/ HandleWriteReq
  <2>1. /\ mailbox # <<>> /\ Head(mailbox).kind # "read" /\ mailbox' = Tail(mailbox)
        /\ UNCHANGED <<request_map, reply>>
    BY <1>7 DEF HandleRegister, HandleUnregister, HandleWriteReq, NextMessage, actor, muxEnd
  <2>2. QED
    BY <1>0, <1>1, <2>1, OutstandingTail
<1>8. CASE HandleReadReq
  <2>1. mailbox # <<>> /\ Head(mailbox).kind = "read" /\ mailbox' = Tail(mailbox)
    BY <1>8 DEF HandleReadReq, NextMessage
  <2>2. PICK inv \in DrawIds :
          /\ request_map' = [i \in DOMAIN request_map \cup {inv} |->
                                IF i = inv THEN Head(mailbox).of ELSE request_map[i]]
          /\ reply' = IF inv \in DOMAIN request_map
                      THEN [reply EXCEPT ![request_map[inv]] = "canceled"]
                      ELSE reply
    BY <1>8 DEF HandleReadReq
  <2>3. CASE inv \notin DOMAIN request_map
    <3>1. /\ DOMAIN request_map' = DOMAIN request_map \cup {inv}
          /\ request_map'[inv] = Head(mailbox).of
          /\ \A i \in DOMAIN request_map : request_map'[i] = request_map[i]
      BY <2>2, <2>3
    <3>2. reply' = reply
      BY <2>2, <2>3
    <3>3. QED
      BY <1>0, <1>1, <2>1, <2>3, <3>1, <3>2, OutstandingNumber
  <2>4. CASE inv \in DOMAIN request_map
    <3>1. /\ DOMAIN request_map' = DOMAIN request_map
          /\ request_map'[inv] = Head(mailbox).of
          /\ \A i \in DOMAIN request_map : i # inv => request_map'[i] = request_map[i]
      BY <2>2, <2>4
    <3>2. reply' = [reply EXCEPT ![request_map[inv]] = "canceled"]
      BY <2>2, <2>4
    <3>3. QED
      BY <1>0, <1>1, <2>1, <2>4, <3>1, <3>2, OutstandingReplace
  <2>5. QED
    BY <2>3, <2>4
<1>9. ASSUME NEW k \in 1..MaxBatch, OnReadRes(k)
      PROVE  Outstanding(request_map', mailbox', reply')
  <2> DEFINE inv == fromPlc[1].inv
  <2>1. /\ inv \in DOMAIN request_map
        /\ request_map' = [i \in DOMAIN request_map \ {inv} |-> request_map[i]]
        /\ reply' = [reply EXCEPT ![request_map[inv]] = "ok"]
        /\ UNCHANGED mailbox
    BY <1>9 DEF OnReadRes, MapWithout
  <2>2. request_map[inv] \in Reads
    BY <1>0, <2>1
  <2>3. QED
    BY <1>0, <1>1, <2>1, <2>2, OutstandingLeave
<1>10. CASE ConnectionLost
  BY <1>10 DEF ConnectionLost
<1>11. QED
  BY <1>2, <1>3, <1>5, <1>6, <1>7, <1>8, <1>9, <1>10
  DEF Next, vars, actor, muxEnd, HandleMessage, OnPacket, PlcServe, TakeWrite, OnReadReq,
      OnWriteReq, OnWriteRes, PlcAnswersRead, PlcAnswersWrite, PlcTakesResponse, PlcSendsWrite,
      PlcSendsRead

\* The actor never forgets a read, whatever ids are drawn: while it runs, the
\* waiting futures are exactly those of the reads in its mailbox and in request_map.
THEOREM WaitingReadsAreHeld == Spec => []WaitingIsHeld
<1>1. Init => TypeOK /\ CallerInv
  BY InitType, InitCaller
<1>2. TypeOK /\ CallerInv /\ [Next]_vars => TypeOK' /\ CallerInv'
  BY NextType, NextCaller
<1>3. TypeOK /\ CallerInv => WaitingIsHeld
  <2> SUFFICES ASSUME TypeOK, CallerInv, state = "running", NEW r \in Reads
               PROVE  (reply[r] = "waiting") <=> (Queued(r) \/ r \in Pending)
    BY DEF WaitingIsHeld
  <2>1. Outstanding(request_map, mailbox, reply)
    BY DEF CallerInv
  <2>2. mailbox \in Seq(Message)
    BY DEF TypeOK, QueueTypeOK
  <2>3. r \in Pending <=> \E i \in DOMAIN request_map : request_map[i] = r
    BY DEF Pending
  <2>4. \A m \in Message : m = [kind |-> "read", of |-> r] <=> m.kind = "read" /\ m.of = r
    BY DEF Message
  <2>5. Queued(r) <=> \E n \in 1..Len(mailbox) : mailbox[n].kind = "read" /\ mailbox[n].of = r
    BY <2>2, <2>4 DEF Queued
  <2>6. QED
    BY <2>1, <2>3, <2>5 DEF Outstanding
<1>4. QED
  BY <1>1, <1>2, <1>3, PTL DEF Spec

-----------------------------------------------------------------------------
\* Colliding ids.  Up to the first collision every response is matched, and the
\* future that fails in it stays failed: request_map holds waiting reads only.

MatchInv == WireInv /\ \A a \in answers : a[1] = a[2]

Canceled == \E r \in Reads : reply[r] = "canceled"

LEMMA ClashCancels == TypeOK /\ Clash => Canceled'
<1> SUFFICES ASSUME TypeOK, Clash PROVE Canceled'
  OBVIOUS
<1>0. /\ reply \in [Reads -> {"unsent", "waiting", "ok", "canceled", "closed"}]
      /\ request_map \in [DOMAIN request_map -> Reads]
  BY DEF TypeOK, CallerTypeOK, ActorTypeOK
<1>1. PICK inv \in DrawIds :
        /\ DOMAIN request_map' = DOMAIN request_map \cup {inv}
        /\ reply' = IF inv \in DOMAIN request_map
                    THEN [reply EXCEPT ![request_map[inv]] = "canceled"]
                    ELSE reply
  BY DEF Clash, HandleReadReq
<1>2. inv \in DOMAIN request_map
  BY <1>1 DEF Clash
<1>3. request_map[inv] \in Reads /\ reply'[request_map[inv]] = "canceled"
  BY <1>0, <1>1, <1>2
<1>4. QED
  BY <1>3 DEF Canceled

LEMMA CanceledStays == TypeOK /\ CallerInv /\ Canceled /\ [Next]_vars => Canceled'
<1> SUFFICES ASSUME TypeOK, CallerInv, NEW r \in Reads, reply[r] = "canceled", [Next]_vars
             PROVE  reply'[r] = "canceled"
  BY DEF Canceled
<1>0. reply \in [Reads -> {"unsent", "waiting", "ok", "canceled", "closed"}]
  BY DEF TypeOK, CallerTypeOK
<1>1. CASE UNCHANGED reply
  BY <1>1
<1>2. ASSUME NEW q \in Reads, IssueRead(q) PROVE reply'[r] = "canceled"
  BY <1>0, <1>2 DEF IssueRead
<1>3. CASE HandleReadReq
  BY <1>0, <1>3 DEF HandleReadReq
<1>4. ASSUME NEW k \in 1..MaxBatch, OnReadRes(k) PROVE reply'[r] = "canceled"
  <2>1. \A i \in DOMAIN request_map : request_map[i] # r
    BY <1>4 DEF OnReadRes, Decoded, CallerInv, Outstanding
  <2>2. QED
    BY <1>0, <1>4, <2>1 DEF OnReadRes
<1>5. CASE ConnectionLost
  BY <1>0, <1>5 DEF ConnectionLost
<1>6. QED
  BY <1>1, <1>2, <1>3, <1>4, <1>5
  DEF Next, vars, muxEnd, HandleMessage, OnPacket, PlcServe, IssueWrite, TakeWrite, MuxStops,
      HandleRegister, HandleUnregister, HandleWriteReq, OnReadReq, OnWriteReq, OnWriteRes,
      PlcAnswersRead, PlcAnswersWrite, PlcTakesResponse, PlcSendsWrite, PlcSendsRead

LEMMA NextMatch == ~Clash /\ TypeOK /\ MatchInv /\ [Next]_vars => MatchInv'
<1> SUFFICES ASSUME ~Clash, TypeOK, MatchInv, [Next]_vars PROVE \A a \in answers' : a[1] = a[2]
  BY NextWire DEF MatchInv
<1>1. CASE UNCHANGED answers
  BY <1>1 DEF MatchInv
<1>2. ASSUME NEW k \in 1..MaxBatch, OnReadRes(k) PROVE \A a \in answers' : a[1] = a[2]
  <2>1. HeldIn(request_map, fromPlc[1])
    BY <1>2, DecodedFrame DEF OnReadRes, MatchInv, WireInv, Matched, TypeOK, QueueTypeOK
  <2>2. answers' = answers \cup {<<fromPlc[1].of, fromPlc[1].of>>}
    BY <1>2, <2>1 DEF OnReadRes, HeldIn
  <2>3. QED
    BY <2>2 DEF MatchInv
<1>3. QED
  BY <1>1, <1>2
  DEF Next, vars, muxEnd, HandleMessage, OnPacket, PlcServe, IssueRead, IssueWrite, TakeWrite,
      MuxStops, HandleRegister, HandleUnregister, HandleReadReq, HandleWriteReq, OnReadReq,
      OnWriteReq, OnWriteRes, ConnectionLost, PlcAnswersRead, PlcAnswersWrite, PlcTakesResponse,
      PlcSendsWrite, PlcSendsRead

\* Whatever ids are drawn, the unwrap of client.rs:148 fails and a read is given
\* the data of another only after an id was drawn twice, and then the future of
\* the read that held it has failed: no mismatch goes unnoticed.
THEOREM MismatchIsCollision == Spec => []MismatchNeedsCollision
<1>1. Init => TypeOK /\ CallerInv /\ MatchInv
  BY InitType, InitCaller, InitWire DEF Init, MatchInv
<1>2. TypeOK /\ CallerInv /\ (MatchInv \/ Canceled) /\ [Next]_vars
        => TypeOK' /\ CallerInv' /\ (MatchInv' \/ Canceled')
  BY NextType, NextCaller, NextMatch, ClashCancels, CanceledStays
<1>3. MatchInv \/ Canceled => MismatchNeedsCollision
  BY DEF MatchInv, WireInv, Canceled, MismatchNeedsCollision
<1>4. QED
  BY <1>1, <1>2, <1>3, PTL DEF Spec

-----------------------------------------------------------------------------
\* Refinement.  A step of the client is a step of the promise or leaves the
\* futures and the answers alone.

LEMMA RefinesInit == Init => Rpc!Init
BY DEF Init, Rpc!Init

LEMMA RefinesNext ==
    ~Collisions /\ TypeOK /\ WireInv /\ CallerInv /\ [Next]_vars => [Rpc!Next]_Rpc!vars
<1> SUFFICES ASSUME ~Collisions, TypeOK, WireInv, CallerInv, [Next]_vars
             PROVE  Rpc!Next \/ UNCHANGED Rpc!vars
  OBVIOUS
<1>0. /\ reply \in [Reads -> Rpc!ReplyState]
      /\ reply' \in [Reads -> Rpc!ReplyState]
  BY NextType DEF TypeOK, CallerTypeOK, Rpc!ReplyState
<1>1. ASSUME NEW r \in Reads, IssueRead(r) PROVE Rpc!Next
  <2>1. reply[r] = "unsent" /\ UNCHANGED answers
    BY <1>1 DEF IssueRead
  <2>2. \E v \in {"waiting", "closed"} : reply' = [reply EXCEPT ![r] = v]
    BY <1>1 DEF IssueRead
  <2>3. Rpc!Call(r)
    BY <2>1, <2>2 DEF Rpc!Call
  <2>4. QED
    BY <2>3 DEF Rpc!Next
<1>2. ASSUME NEW k \in 1..MaxBatch, OnReadRes(k) PROVE Rpc!Next
  <2>1. Decoded(k, "ReadRes") /\ state = "running"
    BY <1>2 DEF OnReadRes, Decoded
  <2>2. HeldIn(request_map, fromPlc[1])
    BY <2>1, DecodedFrame DEF WireInv, Matched, TypeOK, QueueTypeOK
  <2> DEFINE r == request_map[fromPlc[1].inv]
  <2>3. r \in Reads /\ reply[r] = "waiting" /\ fromPlc[1].of = r
    BY <2>1, <2>2 DEF HeldIn, CallerInv, Outstanding
  <2>4. reply' = [reply EXCEPT ![r] = "ok"] /\ answers' = answers \cup {<<r, r>>}
    BY <1>2, <2>2, <2>3 DEF OnReadRes, HeldIn
  <2>5. Rpc!Answer(r)
    BY <2>3, <2>4 DEF Rpc!Answer
  <2>6. QED
    BY <2>3, <2>5 DEF Rpc!Next
<1>3. CASE ConnectionLost
  <2>1. \A r \in Reads : r \in Pending => reply[r] = "waiting"
    BY <1>3 DEF ConnectionLost, CallerInv, Outstanding, Pending
  <2>2. \A r \in Reads : IF reply[r] = "waiting"
                         THEN reply'[r] \in {"canceled", "closed"}
                         ELSE reply'[r] = reply[r]
    BY <1>3, <2>1 DEF ConnectionLost
  <2>3. Rpc!Fail
    BY <1>0, <1>3, <2>2 DEF ConnectionLost, Rpc!Fail
  <2>4. QED
    BY <2>3 DEF Rpc!Next
<1>4. CASE HandleReadReq
  BY <1>4 DEF HandleReadReq, DrawIds, Rpc!vars
<1>5. CASE UNCHANGED <<reply, answers>>
  BY <1>5 DEF Rpc!vars
<1>6. QED
  BY <1>1, <1>2, <1>3, <1>4, <1>5
  DEF Next, vars, muxEnd, HandleMessage, OnPacket, PlcServe, IssueWrite, TakeWrite, MuxStops,
      HandleRegister, HandleUnregister, HandleWriteReq, OnReadReq, OnWriteReq, OnWriteRes,
      PlcAnswersRead, PlcAnswersWrite, PlcTakesResponse, PlcSendsWrite, PlcSendsRead

\* When no random id collides, the actor keeps the promise of ReadRpc: a future
\* settles at most once, and with data only from the answer to its own request.
THEOREM ClientImplementsRpc == ~Collisions => (Spec => RpcSpec)
<1> SUFFICES ASSUME ~Collisions PROVE Spec => RpcSpec
  OBVIOUS
<1>1. Init => TypeOK /\ WireInv /\ CallerInv
  BY InitType, InitWire, InitCaller
<1>2. TypeOK /\ WireInv /\ CallerInv /\ [Next]_vars => TypeOK' /\ WireInv' /\ CallerInv'
  BY FreshIds, NextType, NextWire, NextCaller
<1>3. Spec => [](TypeOK /\ WireInv /\ CallerInv)
  BY <1>1, <1>2, PTL DEF Spec
<1>4. TypeOK /\ WireInv /\ CallerInv /\ [Next]_vars => [Rpc!Next]_Rpc!vars
  BY RefinesNext
<1>5. QED
  BY RefinesInit, <1>3, <1>4, PTL DEF Spec, RpcSpec, Rpc!Spec
=============================================================================
