--------------------------- MODULE AdsCodecProofs ---------------------------
(***************************************************************************)
(* Proofs about AdsCodec.tla, for any frames, sizes and segments.  The     *)
(* buffer starts in or at the end of frame `taken`; the frames handed on   *)
(* all lie before it.                                                      *)
(***************************************************************************)
EXTENDS AdsCodec, TLAPS

\* The buffer starts behind the first byte of frame taken and not behind its end.
Positioned ==
    /\ taken > 0 => Off[taken] < start
    /\ start <= Off[taken + 1]

\* What was handed on was cleared, hence lies before the buffer.
Behind ==
    \A i \in DOMAIN delivered : delivered[i] # Bogus =>
        delivered[i] <= taken /\ Off[delivered[i] + 1] <= start

Ordered ==
    \A i, j \in DOMAIN delivered :
        i < j /\ delivered[i] # Bogus /\ delivered[j] # Bogus => delivered[i] < delivered[j]

\* In lockstep at most one frame is on its way.
OneAhead == lockstep => sent <= taken + 1

IInv == TypeOK /\ Positioned /\ Behind /\ Ordered

-----------------------------------------------------------------------------
\* Facts about frames and sequences.

LEMMA OffFacts ==
    /\ \A i \in 1..MaxFrames + 1 : Off[i] \in Nat
    /\ \A i, j \in 1..MaxFrames + 1 : i < j => Off[i] < Off[j]
    /\ \A i, j \in 1..MaxFrames + 1 : i <= j => Off[i] <= Off[j]
    /\ Off[1] = 0 /\ MaxFrames \in Nat
<1>1. \A i \in 1..MaxFrames + 1 : Off[i] \in Nat
  BY CodecAssumption
<1>2. \A i, j \in 1..MaxFrames + 1 : i < j => Off[i] < Off[j]
  BY CodecAssumption, <1>1 DEF FlagsEnd
<1> QED
  BY <1>1, <1>2, CodecAssumption

LEMMA AppendFacts ==
    ASSUME NEW S, NEW s \in Seq(S), NEW e \in S
    PROVE  /\ Append(s, e) \in Seq(S)
           /\ Len(s) \in Nat /\ DOMAIN s = 1..Len(s)
           /\ DOMAIN Append(s, e) = 1..(Len(s) + 1)
           /\ \A i \in 1..Len(s) : Append(s, e)[i] = s[i]
           /\ Append(s, e)[Len(s) + 1] = e
  OBVIOUS

LEMMA ElementFacts ==
    ASSUME NEW S, NEW s \in Seq(S)
    PROVE  /\ Len(s) \in Nat /\ DOMAIN s = 1..Len(s)
           /\ \A i \in DOMAIN s : s[i] \in S
  OBVIOUS

LEMMA PacketFacts ==
    ASSUME TypeOK
    PROVE  /\ Len(delivered) \in Nat /\ DOMAIN delivered = 1..Len(delivered)
           /\ \A i \in DOMAIN delivered : delivered[i] \in 0..MaxFrames
<1>1. delivered \in Seq(Known \cup {Bogus})
  BY DEF TypeOK
<1>2. \A x \in Known \cup {Bogus} : x \in 0..MaxFrames
  BY CodecAssumption DEF Bogus
<1> QED
  BY <1>1, <1>2, ElementFacts

-----------------------------------------------------------------------------
LEMMA InitIInv == Init => IInv /\ OneAhead /\ LockstepLosesNothing
<1> SUFFICES ASSUME Init PROVE IInv /\ OneAhead /\ LockstepLosesNothing
  OBVIOUS
<1> USE OffFacts, CodecAssumption DEF Init
<1>1. TypeOK
  BY DEF TypeOK
<1>2. Positioned
  BY DEF Positioned
<1>3. Behind /\ Ordered
  BY DEF Behind, Ordered
<1>4. OneAhead /\ LockstepLosesNothing
  BY DEF OneAhead, LockstepLosesNothing, InStep
<1> QED
  BY <1>1, <1>2, <1>3, <1>4 DEF IInv

\* What a segment of n bytes does when it completes the frame at the head.
LEMMA DecodesFacts ==
    ASSUME IInv, NEW n \in 1..(Off[sent + 1] - got), Decodes(n)
    PROVE  /\ start = Off[taken + 1] /\ taken + 1 \in 1..sent
           /\ got' \in Nat /\ got' <= Off[sent + 1] /\ start' = got'
           /\ Off[taken + 2] <= got'
           /\ taken' \in taken + 1..sent
           /\ Off[taken'] < start' /\ start' <= Off[taken' + 1]
<1> USE OffFacts DEF IInv, TypeOK, Positioned
<1>1. /\ start = Off[taken + 1] /\ got' = got + n
      /\ got' - start >= Off[taken + 2] - Off[taken + 1] - HeaderLen + HeaderLen
      /\ got' - start >= HeaderLen
      /\ start' = got' /\ taken' \in 0..sent
      /\ (taken' > 0 => Off[taken'] < start') /\ start' <= Off[taken' + 1]
  BY DEF Decodes, InStep, Arrives, Complete, Size, Cleared, Clear
<1>2. got' \in Nat /\ got' <= Off[sent + 1]
  BY <1>1, SMTT(30)
<1>3. taken + 1 <= sent
  BY <1>1, <1>2, SMTT(30) DEF HeaderLen
<1>3a. /\ Off[taken + 1] \in Nat /\ Off[taken + 2] \in Nat
       /\ Off[taken + 1] < Off[taken + 2]
  BY <1>3
<1>4. Off[taken + 2] <= got'
  <2>1. \A a, b, g \in Nat : g - b >= a - b - HeaderLen + HeaderLen => a <= g
    BY DEF HeaderLen
  <2>2. got' \in Nat /\ got' - Off[taken + 1] >= Off[taken + 2] - Off[taken + 1] - HeaderLen + HeaderLen
    BY ONLY <1>1, <1>2
  <2> QED
    BY ONLY <2>1, <2>2, <1>3a
<1>5. taken' > taken
  <2> SUFFICES ASSUME taken' <= taken PROVE FALSE
    BY <1>1
  <2>1. Off[taken' + 1] \in Nat /\ Off[taken' + 1] <= Off[taken + 1]
    BY <1>1, <1>3
  <2>2. got' \in Nat /\ got' <= Off[taken' + 1]
    BY ONLY <1>1, <1>2
  <2> QED
    BY ONLY <2>1, <2>2, <1>3a, <1>4
<1> QED
  BY <1>1, <1>2, <1>3, <1>4, <1>5

\* What a segment does out of step, when decode survives it.
LEMMA AdriftFacts ==
    ASSUME IInv, NEW n \in 1..(Off[sent + 1] - got), DecodesAdrift(n), state' # "panicked"
    PROVE  /\ start # Off[taken + 1]
           /\ got' \in Nat /\ got' <= Off[sent + 1] /\ start' = got' /\ start <= start'
           /\ taken' \in taken..sent
           /\ (taken' > 0 => Off[taken'] < start') /\ start' <= Off[taken' + 1]
           /\ delivered' \in {delivered, Append(delivered, Bogus)}
<1> USE OffFacts DEF IInv, TypeOK, Positioned
<1>1. /\ start # Off[taken + 1] /\ got' = got + n
      /\ start' = got' /\ taken' \in 0..sent
      /\ (taken' > 0 => Off[taken'] < start') /\ start' <= Off[taken' + 1]
      /\ delivered' \in {delivered, Append(delivered, Bogus)}
  BY DEF DecodesAdrift, InStep, Arrives, Cleared, Clear
<1>2. got' \in Nat /\ got' <= Off[sent + 1] /\ start <= start'
  BY <1>1
<1>3. taken' >= taken
  <2> SUFFICES ASSUME taken' < taken PROVE FALSE
    BY <1>1
  <2>1. Off[taken' + 1] <= Off[taken] /\ Off[taken] < start
    BY <1>1
  <2> QED
    BY <2>1, <1>1, <1>2, SMTT(30)
<1> QED
  BY <1>1, <1>2, <1>3

-----------------------------------------------------------------------------
LEMMA StepTypeOK == ASSUME IInv, Next PROVE TypeOK'
<1> USE OffFacts, CodecAssumption
<1>0. TypeOK
  BY DEF IInv
<1>1. CASE PlcSends
  BY <1>0, <1>1 DEF TypeOK, PlcSends
<1>2. ASSUME NEW n \in 1..(Off[sent + 1] - got), Waits(n) PROVE TypeOK'
  BY <1>0, <1>2 DEF TypeOK, Waits, Arrives
<1>3. ASSUME NEW n \in 1..(Off[sent + 1] - got), Decodes(n) PROVE TypeOK'
  <2>1. delivered' \in Seq(Known \cup {Bogus})
    BY <1>0, <1>3, AppendFacts DEF TypeOK, Decodes, HandOn
  <2>2. UNCHANGED <<state, sent, lockstep>> /\ length' \in Lengths
    BY <1>3 DEF Decodes, Arrives, Cleared
  <2>3. /\ got' \in Nat /\ got' <= Off[sent + 1] /\ start' = got'
        /\ taken' \in taken + 1..sent
    BY <1>3, DecodesFacts
  <2> QED
    BY <2>1, <2>2, <2>3, <1>0 DEF TypeOK
<1>4. ASSUME NEW n \in 1..(Off[sent + 1] - got), DecodesAdrift(n) PROVE TypeOK'
  <2>1. delivered' \in Seq(Known \cup {Bogus})
    <3>1. Append(delivered, Bogus) \in Seq(Known \cup {Bogus})
      BY <1>0, AppendFacts DEF TypeOK
    <3> QED
      BY <3>1, <1>0, <1>4 DEF TypeOK, DecodesAdrift
  <2>2. sent' = sent /\ lockstep' = lockstep /\ got' = got + n
    BY <1>4 DEF DecodesAdrift, Arrives
  <2>3. CASE state' = "panicked"
    <3>1. UNCHANGED <<start, length, taken>> \/ Cleared
      BY <1>4 DEF DecodesAdrift
    <3>2. CASE UNCHANGED <<start, length, taken>>
      BY <2>1, <2>2, <2>3, <3>2, <1>0 DEF TypeOK
    <3>3. CASE Cleared
      BY <2>1, <2>2, <2>3, <3>3, <1>0 DEF TypeOK, Cleared, Clear
    <3> QED
      BY <3>1, <3>2, <3>3
  <2>4. CASE state' # "panicked"
    <3>1. state' = state /\ length' \in Lengths
      BY <1>4, <2>4 DEF DecodesAdrift, Cleared
    <3> QED
      BY <2>1, <2>2, <2>4, <3>1, <1>0, <1>4, AdriftFacts, SMTT(30) DEF TypeOK
  <2> QED
    BY <2>3, <2>4
<1> QED
  BY <1>1, <1>2, <1>3, <1>4 DEF Next, Segment, Reads

LEMMA StepIInv == ASSUME IInv, Next PROVE IInv'
<1> USE OffFacts, CodecAssumption
<1>0. TypeOK /\ Positioned /\ Behind /\ Ordered
  BY DEF IInv
<1>1. TypeOK'
  BY StepTypeOK
<1>2. CASE UNCHANGED <<start, taken, delivered>>
  BY <1>0, <1>1, <1>2 DEF IInv, Positioned, Behind, Ordered
<1>3. ASSUME NEW n \in 1..(Off[sent + 1] - got), Decodes(n) PROVE IInv'
  <2>0. /\ start = Off[taken + 1] /\ taken + 1 \in 1..sent
        /\ got' \in Nat /\ start' = got'
        /\ Off[taken + 2] <= got'
        /\ taken' \in taken + 1..sent
        /\ Off[taken'] < start' /\ start' <= Off[taken' + 1]
    BY <1>3, DecodesFacts
  <2>1. Positioned'
    BY <2>0 DEF Positioned
  <2>2. start <= start'
    BY <2>0, <1>0, SMTT(30) DEF TypeOK
  <2>3. CASE taken + 1 \in Known
    <3>1. delivered' = Append(delivered, taken + 1)
      BY <1>3, <2>3 DEF Decodes, HandOn
    <3>2. /\ Len(delivered) \in Nat /\ DOMAIN delivered = 1..Len(delivered)
          /\ DOMAIN delivered' = 1..(Len(delivered) + 1)
          /\ \A i \in 1..Len(delivered) : delivered'[i] = delivered[i]
          /\ delivered'[Len(delivered) + 1] = taken + 1
      BY <3>1, <2>3, <1>0, AppendFacts DEF TypeOK
    <3>2a. \A i \in 1..Len(delivered) : delivered[i] \in 0..MaxFrames
      BY <1>0, <3>2, PacketFacts
    <3>2b. start \in Nat /\ taken \in Nat /\ sent \in 0..MaxFrames
      BY <1>0 DEF TypeOK
    <3>3. Behind'
      <4> SUFFICES ASSUME NEW i \in DOMAIN delivered', delivered'[i] # Bogus
                   PROVE  delivered'[i] <= taken' /\ Off[delivered'[i] + 1] <= start'
        BY DEF Behind
      <4>1. CASE i = Len(delivered) + 1
        BY <4>1, <3>2, <2>0, <3>2b
      <4>2. CASE i # Len(delivered) + 1
        <5>1. i \in DOMAIN delivered /\ delivered'[i] = delivered[i]
          BY <4>2, <3>2
        <5>2. delivered[i] <= taken /\ Off[delivered[i] + 1] <= start
          BY <5>1, <1>0 DEF Behind
        <5>3. Off[delivered[i] + 1] \in Nat
          BY <5>1, <3>2, <3>2a
        <5>4. delivered[i] \in Nat /\ taken' \in Nat /\ taken < taken' /\ start' \in Nat
          BY <5>1, <3>2, <3>2a, <3>2b, <2>0, SMTT(30)
        <5>5. delivered[i] <= taken' /\ Off[delivered[i] + 1] <= start'
          BY ONLY <5>2, <5>3, <5>4, <3>2b, <2>2
        <5> QED
          BY ONLY <5>1, <5>5
      <4> QED
        BY <4>1, <4>2
    <3>4. Ordered'
      <4> SUFFICES ASSUME NEW i \in DOMAIN delivered', NEW j \in DOMAIN delivered',
                          i < j, delivered'[i] # Bogus, delivered'[j] # Bogus
                   PROVE  delivered'[i] < delivered'[j]
        BY DEF Ordered
      <4>1. i \in DOMAIN delivered /\ delivered'[i] = delivered[i]
        BY <3>2
      <4>2. CASE j = Len(delivered) + 1
        <5>1. delivered[i] <= taken
          BY <4>1, <1>0 DEF Behind
        <5> QED
          BY <5>1, <4>1, <4>2, <3>2, <3>2a, <3>2b
      <4>3. CASE j # Len(delivered) + 1
        BY <4>1, <4>3, <3>2, <1>0 DEF Ordered
      <4> QED
        BY <4>2, <4>3
    <3> QED
      BY <3>3, <3>4, <2>1, <1>1 DEF IInv
  <2>4. CASE taken + 1 \notin Known
    <3>1. delivered' = delivered
      BY <1>3, <2>4 DEF Decodes, HandOn
    <3>2. /\ \A i \in DOMAIN delivered : delivered[i] \in 0..MaxFrames
          /\ start \in Nat /\ taken \in Nat /\ sent \in 0..MaxFrames
      BY <1>0, PacketFacts DEF TypeOK
    <3>3. \A i \in DOMAIN delivered : Off[delivered[i] + 1] \in Nat
      BY <3>2
    <3>3a. taken' \in Nat /\ taken < taken' /\ start' \in Nat
      BY <3>2, <2>0
    <3>4. Behind' /\ Ordered'
      BY ONLY <3>1, <3>2, <3>3, <3>3a, <2>2, <1>0 DEF Behind, Ordered
    <3> QED
      BY <3>4, <2>1, <1>1 DEF IInv
  <2> QED
    BY <2>3, <2>4
<1>4. ASSUME NEW n \in 1..(Off[sent + 1] - got), DecodesAdrift(n),
             ~UNCHANGED <<start, taken, delivered>>
      PROVE  IInv'
  <2>0. state' # "panicked"
    BY <1>4 DEF DecodesAdrift, Arrives
  <2>1. /\ start' \in Nat /\ start <= start'
        /\ taken' \in taken..sent
        /\ (taken' > 0 => Off[taken'] < start') /\ start' <= Off[taken' + 1]
        /\ delivered' \in {delivered, Append(delivered, Bogus)}
    BY <1>4, <2>0, AdriftFacts
  <2>2. Positioned'
    BY <2>1 DEF Positioned
  <2>3. /\ \A i \in DOMAIN delivered' : delivered'[i] # Bogus =>
              i \in DOMAIN delivered /\ delivered'[i] = delivered[i]
    <3>1. /\ Len(delivered) \in Nat /\ DOMAIN delivered = 1..Len(delivered)
          /\ DOMAIN Append(delivered, Bogus) = 1..(Len(delivered) + 1)
          /\ \A i \in 1..Len(delivered) : Append(delivered, Bogus)[i] = delivered[i]
          /\ Append(delivered, Bogus)[Len(delivered) + 1] = Bogus
      BY <1>0, AppendFacts DEF TypeOK
    <3> QED
      BY <2>1, <3>1
  <2>4. /\ \A i \in DOMAIN delivered : delivered[i] \in 0..MaxFrames
        /\ start \in Nat /\ taken \in Nat /\ sent \in 0..MaxFrames
    BY <1>0, PacketFacts DEF TypeOK
  <2>4a. \A i \in DOMAIN delivered : Off[delivered[i] + 1] \in Nat
    BY <2>4
  <2>4b. taken' \in Nat /\ taken <= taken'
    BY <2>1, <2>4
  <2>5. Behind'
    BY ONLY <2>1, <2>3, <2>4, <2>4a, <2>4b, <1>0 DEF Behind
  <2>6. Ordered'
    BY <2>3, <1>0 DEF Ordered
  <2> QED
    BY <2>2, <2>5, <2>6, <1>1 DEF IInv
<1> QED
  BY <1>2, <1>3, <1>4 DEF Next, PlcSends, Segment, Reads, Waits

-----------------------------------------------------------------------------
\* The type invariant of the codec holds for any frames and segments.
THEOREM CodecTypeCorrect == Spec => []TypeOK
<1>1. IInv /\ UNCHANGED vars => IInv'
  BY DEF IInv, TypeOK, Positioned, Behind, Ordered, vars
<1>2. IInv /\ [Next]_vars => IInv'
  BY <1>1, StepIInv
<1>3. IInv => TypeOK
  BY DEF IInv
<1> QED
  BY <1>2, <1>3, InitIInv, PTL DEF Spec

\* WholeInOrder: however the stream is cut into segments, and however often the
\* reader is adrift, frames are handed on whole, in order and once.
THEOREM FramesWholeInOrder == Spec => []WholeInOrder
<1>1. IInv /\ UNCHANGED vars => IInv'
  BY DEF IInv, TypeOK, Positioned, Behind, Ordered, vars
<1>2. IInv /\ [Next]_vars => IInv'
  BY <1>1, StepIInv
<1>3. IInv => WholeInOrder
  <2> SUFFICES ASSUME IInv PROVE WholeInOrder
    OBVIOUS
  <2>1. \A i \in DOMAIN delivered : delivered[i] \in 0..MaxFrames
    BY PacketFacts DEF IInv
  <2>2. \A i \in DOMAIN delivered : Off[delivered[i] + 1] \in Nat
    BY <2>1, OffFacts
  <2>3. start <= got /\ start \in Nat /\ got \in Nat
    BY OffFacts, CodecAssumption DEF IInv, TypeOK
  <2>4. \A i \in DOMAIN delivered : delivered[i] # Bogus => Off[delivered[i] + 1] <= got
    BY <2>2, <2>3 DEF IInv, Behind
  <2> QED
    BY <2>4 DEF IInv, Ordered, WholeInOrder
<1> QED
  BY <1>2, <1>3, InitIInv, PTL DEF Spec

-----------------------------------------------------------------------------
LEMMA StepLockstep ==
    ASSUME IInv, OneAhead, LockstepLosesNothing, Next
    PROVE  OneAhead' /\ LockstepLosesNothing'
<1>0. /\ sent \in 0..MaxFrames /\ taken \in 0..sent /\ start \in Nat
  BY OffFacts DEF IInv, TypeOK
<1>1. CASE ~lockstep'
  BY <1>1 DEF OneAhead, LockstepLosesNothing
<1>2. ASSUME lockstep', PlcSends PROVE OneAhead' /\ LockstepLosesNothing'
  <2>1. /\ lockstep /\ start = Off[sent + 1] /\ sent' = sent + 1
        /\ start' = start /\ taken' = taken /\ delivered' = delivered
    BY <1>2 DEF PlcSends
  <2>2. start = Off[taken + 1]
    BY <2>1 DEF LockstepLosesNothing, InStep
  <2>3. taken = sent
    <3> SUFFICES ASSUME taken # sent PROVE FALSE
      OBVIOUS
    <3>1. taken + 1 \in 1..MaxFrames + 1 /\ sent + 1 \in 1..MaxFrames + 1 /\ taken + 1 < sent + 1
      BY <1>0, CodecAssumption
    <3>2. Off[taken + 1] < Off[sent + 1] /\ Off[taken + 1] \in Nat
      BY <3>1, OffFacts
    <3> QED
      BY <3>2, <2>1, <2>2
  <2> QED
    BY <2>1, <2>3, <1>0 DEF OneAhead, LockstepLosesNothing, InStep
<1>3. ASSUME lockstep', NEW n \in 1..(Off[sent + 1] - got), Waits(n)
      PROVE  OneAhead' /\ LockstepLosesNothing'
  BY <1>3 DEF OneAhead, LockstepLosesNothing, InStep, Waits, Arrives
<1>4. ASSUME lockstep', NEW n \in 1..(Off[sent + 1] - got), Decodes(n)
      PROVE  OneAhead' /\ LockstepLosesNothing'
  <2>0. lockstep /\ sent' = sent
    BY <1>4 DEF Decodes, Arrives
  <2>1. /\ taken + 1 \in 1..sent /\ taken' \in taken + 1..sent
        /\ start' = got' /\ got' \in Nat
        /\ Off[taken + 2] <= got' /\ start' <= Off[taken' + 1]
    BY <1>4, DecodesFacts
  <2>2. sent = taken + 1 /\ taken' = taken + 1
    BY <2>0, <2>1, <1>0 DEF OneAhead
  <2>3. start' = Off[taken' + 1]
    <3>1. Off[taken + 2] \in Nat /\ taken' + 1 = taken + 2
      BY <2>2, <1>0, OffFacts
    <3> QED
      BY ONLY <3>1, <2>1, <2>2
  <2>4. OneAhead'
    BY <2>0, <2>2, <1>0 DEF OneAhead
  <2>5. Known \cap 1..taken' = {delivered'[i] : i \in DOMAIN delivered'}
    <3>1. Known \cap 1..taken = {delivered[i] : i \in DOMAIN delivered}
      BY <2>0 DEF LockstepLosesNothing
    <3>2. 1..taken' = (1..taken) \cup {taken + 1}
      BY <2>2, <1>0
    <3>3. CASE taken + 1 \in Known
      <4>1. delivered' = Append(delivered, taken + 1)
        BY <1>4, <3>3 DEF Decodes, HandOn
      <4>2. /\ Len(delivered) \in Nat /\ DOMAIN delivered = 1..Len(delivered)
            /\ DOMAIN delivered' = 1..(Len(delivered) + 1)
            /\ \A i \in 1..Len(delivered) : delivered'[i] = delivered[i]
            /\ delivered'[Len(delivered) + 1] = taken + 1
        BY <4>1, <3>3, AppendFacts DEF IInv, TypeOK
      <4>3. DOMAIN delivered' = DOMAIN delivered \cup {Len(delivered) + 1}
        BY <4>2
      <4>4. {delivered'[i] : i \in DOMAIN delivered'}
              = {delivered[i] : i \in DOMAIN delivered} \cup {taken + 1}
        BY <4>2, <4>3
      <4> QED
        BY <4>4, <3>1, <3>2, <3>3
    <3>4. CASE taken + 1 \notin Known
      BY <1>4, <3>1, <3>2, <3>4 DEF Decodes, HandOn
    <3> QED
      BY <3>3, <3>4
  <2> QED
    BY <2>3, <2>4, <2>5 DEF LockstepLosesNothing, InStep
<1>5. ASSUME lockstep', NEW n \in 1..(Off[sent + 1] - got), DecodesAdrift(n)
      PROVE  FALSE
  BY <1>5 DEF DecodesAdrift, Arrives, LockstepLosesNothing
<1> QED
  BY <1>1, <1>2, <1>3, <1>4, <1>5 DEF Next, Segment, Reads

\* LockstepLosesNothing: a PLC that waits for each frame to be decoded loses none
\* and never throws the reader out of step, however frames are segmented.
THEOREM LockstepIsLossless == Spec => []LockstepLosesNothing
<1> DEFINE LInv == IInv /\ OneAhead /\ LockstepLosesNothing
<1>1. LInv /\ UNCHANGED vars => LInv'
  BY DEF IInv, TypeOK, Positioned, Behind, Ordered, OneAhead, LockstepLosesNothing, InStep, vars
<1>2. LInv /\ [Next]_vars => LInv'
  BY <1>1, StepIInv, StepLockstep
<1>3. Init => LInv
  BY InitIInv
<1> QED
  BY <1>2, <1>3, PTL DEF Spec

-----------------------------------------------------------------------------
LEMMA InitStream == Init => Stream!Init
  BY CodecAssumption DEF Init, Stream!Init, InStep

LEMMA Difference ==
    ASSUME NEW m \in Nat, NEW t \in Nat, NEW u \in Nat, t <= u, u <= m
    PROVE  \E k \in 0..m : u = t + k /\ (t < u => k \in 1..m)
<1>1. u - t \in 0..m /\ u = t + (u - t) /\ (t < u => u - t \in 1..m)
  OBVIOUS
<1> QED
  BY <1>1

LEMMA StepStream == ASSUME IInv, Next PROVE [Stream!Next]_(Stream!vars)
<1>0. /\ sent \in 0..MaxFrames /\ taken \in 0..sent /\ MaxFrames \in Nat
  BY OffFacts DEF IInv, TypeOK
<1>1. CASE PlcSends
  <2>1. Stream!Send
    BY <1>1 DEF PlcSends, Stream!Send, InStep
  <2> QED
    BY <2>1 DEF Stream!Next
<1>2. CASE UNCHANGED <<sent, start, taken, delivered>>
  BY <1>2 DEF Stream!vars, InStep
<1>3. ASSUME NEW n \in 1..(Off[sent + 1] - got), Decodes(n)
      PROVE  Stream!Next
  <2>1. taken' \in taken + 1..sent
    BY <1>3, DecodesFacts
  <2>1a. /\ taken \in Nat /\ taken' \in Nat /\ sent \in Nat
         /\ taken < taken' /\ taken' <= sent /\ sent <= MaxFrames
    BY ONLY <2>1, <1>0
  <2>2. PICK k \in 0..MaxFrames : taken' = taken + k /\ k \in 1..MaxFrames
    BY <2>1a, <1>0, Difference
  <2>3. InStep /\ sent' = sent /\ delivered' = HandOn(taken + 1)
    BY <1>3 DEF Decodes, Arrives
  <2>4. Stream!Take(k)
    BY <2>1a, <2>2, <2>3 DEF Stream!Take, HandOn
  <2> QED
    BY <2>2, <2>4 DEF Stream!Next
<1>4. ASSUME NEW n \in 1..(Off[sent + 1] - got), DecodesAdrift(n), state' # "panicked"
      PROVE  Stream!Next
  <2>1. taken' \in taken..sent /\ delivered' \in {delivered, Append(delivered, Bogus)}
    BY <1>4, AdriftFacts
  <2>1a. /\ taken \in Nat /\ taken' \in Nat /\ sent \in Nat
         /\ taken <= taken' /\ taken' <= sent /\ sent <= MaxFrames
    BY ONLY <2>1, <1>0
  <2>2. PICK k \in 0..MaxFrames : taken' = taken + k
    BY <2>1a, <1>0, Difference
  <2>3. ~InStep /\ sent' = sent
    BY <1>4 DEF DecodesAdrift, Arrives
  <2>4. Stream!Drift(k)
    BY <2>1, <2>1a, <2>2, <2>3 DEF Stream!Drift
  <2> QED
    BY <2>2, <2>4 DEF Stream!Next
<1>5. ASSUME NEW n \in 1..(Off[sent + 1] - got), DecodesAdrift(n), state' = "panicked"
      PROVE  UNCHANGED <<sent, start, taken, delivered>>
  BY <1>5 DEF DecodesAdrift, Arrives
<1> QED
  BY <1>1, <1>2, <1>3, <1>4, <1>5 DEF Next, Segment, Reads, Waits, Arrives

\* The codec implements FrameStream: what AdsClient may assume of its packets.
THEOREM CodecImplementsStream == Spec => StreamSpec
<1>1. IInv /\ UNCHANGED vars => IInv' /\ UNCHANGED Stream!vars
  BY DEF IInv, TypeOK, Positioned, Behind, Ordered, vars, Stream!vars, InStep
<1>2. IInv /\ [Next]_vars => IInv' /\ [Stream!Next]_(Stream!vars)
  BY <1>1, StepIInv, StepStream
<1>3. Init => IInv /\ Stream!Init
  BY InitIInv, InitStream
<1> QED
  BY <1>2, <1>3, PTL DEF Spec, StreamSpec, Stream!Spec
=============================================================================
