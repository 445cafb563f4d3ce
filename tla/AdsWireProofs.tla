--------------------------- MODULE AdsWireProofs ---------------------------
(***************************************************************************)
(* Proofs about AmsFrames and AdsWire: from_buf reads what into_buf wrote, *)
(* also with more behind it in the buffer; so the AdsClient gets the       *)
(* packets the PLC made, the PLC those of the AdsClient, and each request  *)
(* its answer, for frames of any commands and data in any segments.        *)
(***************************************************************************)
EXTENDS AdsWire, AdsCodecProofs, SequenceTheorems

Byte == 0..Base - 1

-----------------------------------------------------------------------------
\* Numbers as bytes.

LEMMA Divided ==
    ASSUME NEW n \in Nat, NEW b \in Nat, b > 0
    PROVE  /\ n = (b * (n \div b)) + (n % b)
           /\ n % b \in 0..b - 1 /\ n \div b \in Nat
OBVIOUS

LEMMA Quotient ==
    ASSUME NEW b \in Nat, b > 0, NEW q \in Nat, NEW r \in 0..b - 1, NEW n \in Nat, n = (b * q) + r
    PROVE  n \div b = q /\ n % b = r
OBVIOUS

LEMMA QuotientBelow ==
    ASSUME NEW n \in Nat, NEW b \in Nat, b > 0, NEW c \in Nat, n < b * c
    PROVE  n \div b < c
OBVIOUS

LEMMA Remainder ==
    ASSUME NEW b \in Nat, NEW m \in Nat, m < b
    PROVE  m % b = m
OBVIOUS

LEMMA BaseFacts ==
    /\ Base \in Nat /\ Base > 0 /\ Base >= 16
    /\ Base * Base \in Nat /\ Base * Base >= 256 /\ Base * Base > 0
    /\ Base * Base * Base * Base = (Base * Base) * (Base * Base)
    /\ Base * Base * Base * Base >= 65536
<1>1. Base \in Nat /\ Base >= 16
  BY WireAssumption
<1>2. Base * Base \in Nat /\ Base * Base >= 256
  BY <1>1
<1>3. ASSUME NEW c \in Nat, c >= 256 PROVE c * c >= 65536 /\ c * c \in Nat
  BY <1>3
<1>4. Base * Base * Base * Base = (Base * Base) * (Base * Base)
  BY <1>1
<1>5. (Base * Base) * (Base * Base) >= 65536
  <2> DEFINE c == Base * Base
  <2>1. c \in Nat /\ c >= 256
    BY <1>2
  <2> HIDE DEF c
  <2>2. c * c >= 65536
    BY <1>3, <2>1
  <2>3. QED BY <2>2 DEF c
<1>6. QED BY <1>1, <1>2, <1>4, <1>5

LEMMA U16Written ==
    ASSUME NEW n \in Nat
    PROVE  /\ U16Bytes(n) \in Seq(Byte) /\ Len(U16Bytes(n)) = 2
           /\ U16Bytes(n)[1] = n % Base /\ U16Bytes(n)[2] = (n \div Base) % Base
           /\ n % Base \in Byte /\ (n \div Base) % Base \in Byte
<1>1. n % Base \in Byte /\ n \div Base \in Nat
  BY BaseFacts, Divided DEF Byte
<1>2. (n \div Base) % Base \in Byte
  BY <1>1, BaseFacts, Divided DEF Byte
<1>3. QED BY <1>1, <1>2 DEF U16Bytes

LEMMA U16Read ==
    ASSUME NEW n \in U16Values
    PROVE  (n % Base) + (Base * ((n \div Base) % Base)) = n
<1>1. n \in Nat /\ n < Base * Base
  BY BaseFacts DEF U16Values
<1>2. n \div Base \in Nat /\ n \div Base < Base
  BY <1>1, BaseFacts, Divided, QuotientBelow
<1>3. (n \div Base) % Base = n \div Base
  BY <1>2, BaseFacts
<1>4. QED BY <1>1, <1>3, BaseFacts, Divided

\* The two halves of a number of four bytes.
LEMMA Halves ==
    ASSUME NEW n \in U32Values
    PROVE  /\ n \in Nat /\ n \div (Base * Base) \in U16Values
           /\ n % (Base * Base) \in U16Values
           /\ n = (n % (Base * Base)) + (Base * Base * (n \div (Base * Base)))
           /\ (n % (Base * Base)) % Base = n % Base
           /\ ((n % (Base * Base)) \div Base) % Base = (n \div Base) % Base
<1> DEFINE B == Base * Base
           q == n \div B
           r == n % B
<1>1. n \in Nat /\ n < B * B /\ B \in Nat /\ B > 0
  BY BaseFacts DEF U32Values
<1>2. n = (B * q) + r /\ r \in 0..B - 1 /\ q \in Nat /\ q < B
  BY <1>1, Divided, QuotientBelow
<1>3. r \in Nat /\ r = (Base * (r \div Base)) + (r % Base)
         /\ r % Base \in 0..Base - 1 /\ r \div Base \in Nat
  <2>1. r \in Nat
    BY <1>1, <1>2
  <2> HIDE DEF r
  <2>2. QED BY <2>1, BaseFacts, Divided
<1>4. r \div Base < Base
  BY <1>1, <1>2, <1>3, BaseFacts, QuotientBelow
<1>5. (r \div Base) % Base = r \div Base
  <2> HIDE DEF r
  <2>1. QED BY <1>3, <1>4, BaseFacts, Remainder
<1>6. n = Base * ((Base * q) + (r \div Base)) + (r % Base)
  <2> DEFINE u == r \div Base
             v == r % Base
  <2>1. u \in Nat /\ v \in Nat /\ r = (Base * u) + v /\ Base \in Nat /\ q \in Nat
    BY <1>2, <1>3, BaseFacts
  <2>2. n = ((Base * Base) * q) + r
    BY <1>2
  <2> HIDE DEF u, v, q, r
  <2>3. n = Base * ((Base * q) + u) + v
    BY <2>1, <2>2
  <2>4. QED BY <2>3 DEF u, v
<1>7. (Base * q) + (r \div Base) \in Nat
  <2> DEFINE u == r \div Base
  <2>1. u \in Nat /\ q \in Nat /\ Base \in Nat
    BY <1>2, <1>3, BaseFacts
  <2> HIDE DEF u, q
  <2>2. (Base * q) + u \in Nat
    BY <2>1
  <2>3. QED BY <2>2 DEF u
<1>8. n \div Base = (Base * q) + (r \div Base) /\ n % Base = r % Base
  <2> DEFINE w == (Base * q) + (r \div Base)
             v == r % Base
  <2>1. w \in Nat /\ v \in 0..Base - 1 /\ n = (Base * w) + v /\ n \in Nat
    BY <1>1, <1>3, <1>6, <1>7
  <2> HIDE DEF w, v
  <2>2. n \div Base = w /\ n % Base = v
    BY <2>1, BaseFacts, Quotient
  <2>3. QED BY <2>2 DEF w, v
<1>9. (n \div Base) % Base = r \div Base
  <2> DEFINE u == r \div Base
             m == n \div Base
  <2>1. u \in 0..Base - 1
    BY <1>3, <1>4, BaseFacts
  <2>2. m \in Nat /\ m = (Base * q) + u /\ q \in Nat
    BY <1>2, <1>7, <1>8
  <2> HIDE DEF u, m, q
  <2>3. m % Base = u
    BY <2>1, <2>2, BaseFacts, Quotient
  <2>4. QED BY <2>3 DEF u, m
<1>10. q \in U16Values /\ r \in U16Values
  BY <1>1, <1>2 DEF U16Values
<1>11. QED BY <1>1, <1>2, <1>5, <1>8, <1>9, <1>10

LEMMA U32Written ==
    ASSUME NEW n \in Nat
    PROVE  /\ U32Bytes(n) \in Seq(Byte) /\ Len(U32Bytes(n)) = 4
           /\ U32Bytes(n)[1] = n % Base
           /\ U32Bytes(n)[2] = (n \div Base) % Base
           /\ U32Bytes(n)[3] = (n \div (Base * Base)) % Base
           /\ U32Bytes(n)[4] = ((n \div (Base * Base)) \div Base) % Base
<1> DEFINE h == n \div (Base * Base)
<1>1. h \in Nat
  BY BaseFacts, Divided
<1> HIDE DEF h
<1>2. /\ U16Bytes(n) \in Seq(Byte) /\ Len(U16Bytes(n)) = 2
      /\ U16Bytes(h) \in Seq(Byte) /\ Len(U16Bytes(h)) = 2
  BY <1>1, U16Written
<1>3. U32Bytes(n) = U16Bytes(n) \o U16Bytes(h)
  BY DEF U32Bytes, h
<1>4. /\ U32Bytes(n) \in Seq(Byte) /\ Len(U32Bytes(n)) = 4
      /\ U32Bytes(n)[1] = U16Bytes(n)[1] /\ U32Bytes(n)[2] = U16Bytes(n)[2]
      /\ U32Bytes(n)[3] = U16Bytes(h)[1] /\ U32Bytes(n)[4] = U16Bytes(h)[2]
  <2>1. /\ U16Bytes(n) \o U16Bytes(h) \in Seq(Byte) /\ Len(U16Bytes(n) \o U16Bytes(h)) = 2 + 2
        /\ \A i \in 1..2 + 2 : (U16Bytes(n) \o U16Bytes(h))[i] =
              IF i <= 2 THEN U16Bytes(n)[i] ELSE U16Bytes(h)[i - 2]
    BY <1>2, ConcatProperties, SMTT(30)
  <2>2. QED BY ONLY <1>3, <2>1
<1>5. QED BY <1>1, <1>4, U16Written DEF h

\* What is read of four bytes as they are written is the number.
LEMMA U32Read ==
    ASSUME NEW n \in U32Values, NEW b, NEW i \in Nat,
           \A j \in 1..4 : b[i + j] = U32Bytes(n)[j]
    PROVE  U32At(b, i) = n
<1> DEFINE h == n \div (Base * Base)
           l == n % (Base * Base)
<1>1. /\ n \in Nat /\ h \in U16Values /\ l \in U16Values /\ n = l + (Base * Base * h)
      /\ l % Base = n % Base /\ (l \div Base) % Base = (n \div Base) % Base
  BY Halves
<1>2. (l % Base) + (Base * ((l \div Base) % Base)) = l
  BY <1>1, U16Read
<1>3. (h % Base) + (Base * ((h \div Base) % Base)) = h
  BY <1>1, U16Read
<1>4. /\ b[i + 1] = l % Base /\ b[i + 2] = (l \div Base) % Base
      /\ b[i + 3] = h % Base /\ b[i + 4] = (h \div Base) % Base
  <2>1. 1 \in 1..4 /\ 2 \in 1..4 /\ 3 \in 1..4 /\ 4 \in 1..4
    OBVIOUS
  <2>2. QED BY <1>1, <2>1, U32Written
<1> HIDE DEF h, l
<1>5. U16At(b, i) = l
  BY <1>2, <1>4 DEF U16At
<1>6. U16At(b, i + 2) = h
  <2>1. (i + 2) + 1 = i + 3 /\ (i + 2) + 2 = i + 4
    OBVIOUS
  <2>2. QED BY <1>3, <1>4, <2>1 DEF U16At
<1>7. QED BY <1>1, <1>5, <1>6 DEF U32At

-----------------------------------------------------------------------------
\* The layout of a frame.

\* c is a of m elements, then b of n.
Joins(c, a, m, b, n, S) ==
    /\ c \in Seq(S) /\ Len(c) = m + n
    /\ \A i \in 1..m : c[i] = a[i]
    /\ \A i \in 1..n : c[m + i] = b[i]

LEMMA Joined ==
    ASSUME NEW S, NEW m \in Nat, NEW n \in Nat, NEW a \in Seq(S), NEW b \in Seq(S),
           Len(a) = m, Len(b) = n
    PROVE  Joins(a \o b, a, m, b, n, S)
<1>1. /\ a \o b \in Seq(S) /\ Len(a \o b) = m + n
      /\ \A i \in 1..m + n : (a \o b)[i] = IF i <= m THEN a[i] ELSE b[i - m]
  BY ConcatProperties
<1> DEFINE c == a \o b
<1> HIDE DEF c
<1>2. ASSUME NEW i \in 1..m PROVE c[i] = a[i]
  BY <1>1 DEF c
<1>3. ASSUME NEW i \in 1..n PROVE c[m + i] = b[i]
  <2>1. m + i \in 1..m + n /\ ~(m + i <= m) /\ (m + i) - m = i
    OBVIOUS
  <2>2. QED BY <1>1, <2>1 DEF c
<1>4. QED BY <1>1, <1>2, <1>3 DEF c, Joins

LEMMA FunctionIsSeq ==
    ASSUME NEW S, NEW n \in Nat, NEW f \in [1..n -> S]
    PROVE  f \in Seq(S) /\ Len(f) = n
<1>1. f \in Seq(S)
  BY SeqDef
<1>2. DOMAIN f = 1..Len(f) /\ Len(f) \in Nat /\ DOMAIN f = 1..n
  BY <1>1, LenProperties
<1>3. QED BY <1>1, <1>2

LEMMA U32sWritten ==
    ASSUME NEW ns \in Seq(Nat)
    PROVE  /\ U32s(ns) \in Seq(Byte) /\ Len(U32s(ns)) = 4 * Len(ns) /\ Len(ns) \in Nat
           /\ \A k \in 1..Len(ns), j \in 1..4 :
                 U32s(ns)[(4 * (k - 1)) + j] = U32Bytes(ns[k])[j]
<1> DEFINE m == Len(ns)
<1>1. m \in Nat /\ \A k \in 1..m : ns[k] \in Nat
  BY LenProperties, ElementOfSeq
<1> HIDE DEF m
<1>2. \A k \in 1..m : U32Bytes(ns[k]) \in Seq(Byte) /\ Len(U32Bytes(ns[k])) = 4
  BY <1>1, U32Written
<1>3. \A k \in 1..m, j \in 1..4 : U32Bytes(ns[k])[j] \in Byte
  BY <1>2, ElementOfSeq
<1>4. U32s(ns) = [i \in 1..4 * m |-> U32Bytes(ns[(i + 3) \div 4])[((i + 3) % 4) + 1]]
  BY DEF U32s, U32, m
<1>5. \A i \in 1..4 * m : (i + 3) \div 4 \in 1..m /\ ((i + 3) % 4) + 1 \in 1..4
  BY <1>1
<1>6. U32s(ns) \in [1..4 * m -> Byte]
  BY <1>3, <1>4, <1>5
<1>7. U32s(ns) \in Seq(Byte) /\ Len(U32s(ns)) = 4 * m
  <2>1. 4 * m \in Nat
    BY <1>1
  <2>2. QED BY <1>6, <2>1, FunctionIsSeq
<1>8. ASSUME NEW k \in 1..m, NEW j \in 1..4
      PROVE  U32s(ns)[(4 * (k - 1)) + j] = U32Bytes(ns[k])[j]
  <2>1. (4 * (k - 1)) + j \in 1..4 * m
    BY <1>1
  <2>2. (((4 * (k - 1)) + j) + 3) \div 4 = k /\ ((((4 * (k - 1)) + j) + 3) % 4) + 1 = j
    BY <1>1
  <2>3. QED BY <1>4, <2>1, <2>2
<1>9. QED BY <1>1, <1>7, <1>8 DEF m

LEMMA PacketParts ==
    ASSUME NEW p \in Packets
    PROVE  /\ p = Packet(p.target, p.source, p.command_id, p.state_flags, p.inv_id, p.command)
           /\ p.command = Command(p.command.fields, p.command.data)
           /\ p.target \in Seq(Byte) /\ Len(p.target) = 8
           /\ p.source \in Seq(Byte) /\ Len(p.source) = 8
           /\ p.command_id \in U16Values /\ p.state_flags \in U16Values /\ p.inv_id \in U32Values
           /\ p.command.fields \in Seq(U32Values) /\ p.command.data \in Seq(Byte)
           /\ Len(p.command.fields) = FieldsOf[Kind(p)]
           /\ Len(p.command.data) =
                 IF Kind(p) \in WithData THEN p.command.fields[FieldsOf[Kind(p)]] ELSE 0
           /\ CommandSize(Kind(p), p.command) =
                 (4 * Len(p.command.fields)) + Len(p.command.data)
<1>1. /\ p \in [target : Address, source : Address, command_id : U16Values,
                state_flags : U16Values, inv_id : U32Values,
                command : [fields : Seq(U32Values), data : Seq(0..Base - 1)]]
      /\ Len(p.command.fields) = FieldsOf[Kind(p)]
      /\ Len(p.command.data) =
            IF Kind(p) \in WithData THEN p.command.fields[FieldsOf[Kind(p)]] ELSE 0
  BY DEF Packets
<1>2. /\ p.target \in [1..8 -> Byte] /\ p.source \in [1..8 -> Byte]
      /\ p.command_id \in U16Values /\ p.state_flags \in U16Values /\ p.inv_id \in U32Values
      /\ p.command \in [fields : Seq(U32Values), data : Seq(Byte)]
  BY <1>1 DEF Address, Byte
<1>3. p = Packet(p.target, p.source, p.command_id, p.state_flags, p.inv_id, p.command)
  BY <1>1 DEF Packet
<1>4. /\ p.command.fields \in Seq(U32Values) /\ p.command.data \in Seq(Byte)
      /\ p.command = Command(p.command.fields, p.command.data)
  BY <1>2 DEF Command
<1>5. /\ p.target \in Seq(Byte) /\ Len(p.target) = 8
      /\ p.source \in Seq(Byte) /\ Len(p.source) = 8
  <2>1. 8 \in Nat
    OBVIOUS
  <2>2. QED BY <1>2, <2>1, FunctionIsSeq
<1>6. CommandSize(Kind(p), p.command) = (4 * Len(p.command.fields)) + Len(p.command.data)
  <2>1. CommandSize(Kind(p), p.command) = (4 * FieldsOf[Kind(p)])
          + (IF Kind(p) \in WithData THEN p.command.fields[FieldsOf[Kind(p)]] ELSE 0)
    BY DEF CommandSize, U32
  <2>2. QED BY ONLY <1>1, <2>1
<1>7. QED BY <1>1, <1>2, <1>3, <1>4, <1>5, <1>6

\* Where the parts of h are that one header h of a packet consists of.
HeaderOf(h, p) ==
    /\ h \in Seq(Byte)
    /\ Len(h) = 32 + (4 * Len(p.command.fields)) + Len(p.command.data)
    /\ \A i \in 1..8 : h[i] = p.target[i]
    /\ \A i \in 1..8 : h[8 + i] = p.source[i]
    /\ \A i \in 1..2 : h[16 + i] = U16Bytes(p.command_id)[i]
    /\ \A i \in 1..2 : h[18 + i] = U16Bytes(p.state_flags)[i]
    /\ \A j \in 1..4 : h[28 + j] = U32Bytes(p.inv_id)[j]
    /\ \A k \in 1..Len(p.command.fields), j \in 1..4 :
          h[(32 + (4 * (k - 1))) + j] = U32Bytes(p.command.fields[k])[j]
    /\ \A i \in 1..Len(p.command.data) :
          h[(32 + (4 * Len(p.command.fields))) + i] = p.command.data[i]

LEMMA HeaderLayout ==
    ASSUME NEW p \in Sendable
    PROVE  /\ HeaderOf(IntoHeader(p), p)
           /\ Len(IntoHeader(p)) \in U32Values
<1> DEFINE fs == p.command.fields
           d == p.command.data
           n == Len(fs)
           size == CommandSize(Kind(p), p.command)
           u == U16Bytes(p.command_id)
           v == U16Bytes(p.state_flags)
           ns == <<size, 0, p.inv_id>> \o fs
           a1 == p.target \o p.source
           a2 == a1 \o u
           a3 == a2 \o v
           a4 == a3 \o U32s(ns)
           a5 == a4 \o d
<1>1. p \in Packets /\ HeaderSize + size \in U32Values
  BY DEF Sendable
<1>2. /\ p.target \in Seq(Byte) /\ Len(p.target) = 8
      /\ p.source \in Seq(Byte) /\ Len(p.source) = 8
      /\ p.command_id \in U16Values /\ p.state_flags \in U16Values /\ p.inv_id \in U32Values
      /\ fs \in Seq(U32Values) /\ d \in Seq(Byte) /\ size = (4 * n) + Len(d)
  BY <1>1, PacketParts
<1>3. n \in Nat /\ Len(d) \in Nat /\ size \in Nat
  <2>1. n \in Nat /\ Len(d) \in Nat
    BY <1>2, LenProperties
  <2>2. size = (4 * n) + Len(d)
    BY <1>2
  <2> HIDE DEF n, d, size
  <2>3. QED BY <2>1, <2>2
<1>4. U32Values \subseteq Nat /\ U16Values \subseteq Nat /\ 0 \in Nat
  BY BaseFacts DEF U32Values, U16Values
<1>5. IntoHeader(p) = a5
  BY DEF IntoHeader
<1>6. u \in Seq(Byte) /\ Len(u) = 2 /\ v \in Seq(Byte) /\ Len(v) = 2
  BY <1>2, <1>4, U16Written
<1>7. /\ ns \in Seq(Nat) /\ Len(ns) = 3 + n /\ ns[3] = p.inv_id
      /\ \A k \in 1..n : ns[3 + k] = fs[k]
  <2> DEFINE three == <<size, 0, p.inv_id>>
  <2>1. three \in Seq(Nat) /\ Len(three) = 3 /\ three[3] = p.inv_id
    <3>1. p.inv_id \in Nat
      BY <1>2, <1>4
    <3> HIDE DEF size
    <3>2. QED BY <1>3, <1>4, <3>1
  <2>2. fs \in Seq(Nat)
    BY <1>2, <1>4, SeqMonotonic
  <2>3. 3 \in Nat /\ n \in Nat /\ 3 \in 1..3
    BY <1>3
  <2>4. Joins(three \o fs, three, 3, fs, n, Nat)
    BY <2>1, <2>2, <2>3, Joined
  <2>5. ns = three \o fs
    OBVIOUS
  <2> HIDE DEF three, ns, n, fs
  <2>6. QED BY <2>1, <2>3, <2>4, <2>5 DEF Joins
<1>8. /\ U32s(ns) \in Seq(Byte) /\ Len(U32s(ns)) = 4 * (3 + n)
      /\ \A j \in 1..4 : U32s(ns)[8 + j] = U32Bytes(p.inv_id)[j]
      /\ \A k \in 1..n, j \in 1..4 :
            U32s(ns)[(12 + (4 * (k - 1))) + j] = U32Bytes(fs[k])[j]
  <2> HIDE DEF ns
  <2>1. /\ U32s(ns) \in Seq(Byte) /\ Len(U32s(ns)) = 4 * Len(ns)
        /\ \A k \in 1..Len(ns), j \in 1..4 :
              U32s(ns)[(4 * (k - 1)) + j] = U32Bytes(ns[k])[j]
    BY <1>7, U32sWritten
  <2>2. ASSUME NEW j \in 1..4 PROVE U32s(ns)[8 + j] = U32Bytes(p.inv_id)[j]
    <3>1. 3 \in 1..Len(ns) /\ (4 * (3 - 1)) + j = 8 + j
      BY <1>3, <1>7
    <3>2. QED BY <1>7, <2>1, <3>1
  <2>3. ASSUME NEW k \in 1..n, NEW j \in 1..4
        PROVE  U32s(ns)[(12 + (4 * (k - 1))) + j] = U32Bytes(fs[k])[j]
    <3>1. 3 + k \in 1..Len(ns) /\ (4 * ((3 + k) - 1)) + j = (12 + (4 * (k - 1))) + j
      BY <1>3, <1>7
    <3>2. ns[3 + k] = fs[k]
      BY <1>7
    <3>3. QED BY <2>1, <3>1, <3>2
  <2>4. QED BY <1>7, <2>1, <2>2, <2>3
<1> HIDE DEF u, v, ns, a1, a2, a3, a4, a5, fs, d, size
<1>9. /\ 2 \in Nat /\ 8 \in Nat /\ 16 \in Nat /\ 18 \in Nat /\ 20 \in Nat
      /\ 12 + (4 * n) \in Nat /\ 32 + (4 * n) \in Nat
  BY <1>3
<1>10. Joins(a1, p.target, 8, p.source, 8, Byte)
  BY <1>2, <1>9, Joined DEF a1
<1>11. Joins(a2, a1, 16, u, 2, Byte)
  <2>1. a1 \in Seq(Byte) /\ Len(a1) = 16
    BY <1>10 DEF Joins
  <2>2. QED BY <1>6, <1>9, <2>1, Joined DEF a2
<1>12. Joins(a3, a2, 18, v, 2, Byte)
  <2>1. a2 \in Seq(Byte) /\ Len(a2) = 18
    BY <1>11 DEF Joins
  <2>2. QED BY <1>6, <1>9, <2>1, Joined DEF a3
<1>13. Joins(a4, a3, 20, U32s(ns), 12 + (4 * n), Byte)
  <2>1. a3 \in Seq(Byte) /\ Len(a3) = 20
    BY <1>12 DEF Joins
  <2>2. U32s(ns) \in Seq(Byte) /\ Len(U32s(ns)) = 12 + (4 * n)
    BY <1>3, <1>8
  <2>3. QED BY <1>9, <2>1, <2>2, Joined DEF a4
<1>14. Joins(a5, a4, 32 + (4 * n), d, Len(d), Byte)
  <2>1. a4 \in Seq(Byte) /\ Len(a4) = 32 + (4 * n)
    BY <1>3, <1>13 DEF Joins
  <2>2. QED BY <1>2, <1>3, <1>9, <2>1, Joined DEF a5
<1>15. \A i \in 1..20 : a5[i] = a3[i]
  <2>1. \A i \in 1..20 : i \in 1..32 + (4 * n)
    BY <1>3
  <2>2. QED BY <1>13, <1>14, <2>1 DEF Joins
<1>16. \A i \in 1..12 + (4 * n) : a5[20 + i] = U32s(ns)[i]
  <2> SUFFICES ASSUME NEW i \in 1..12 + (4 * n) PROVE a5[20 + i] = U32s(ns)[i]
    OBVIOUS
  <2>1. 20 + i \in 1..32 + (4 * n)
    BY <1>3
  <2>2. QED BY <1>13, <1>14, <2>1 DEF Joins
<1>17. /\ \A i \in 1..8 : a5[i] = p.target[i]
       /\ \A i \in 1..8 : a5[8 + i] = p.source[i]
       /\ \A i \in 1..2 : a5[16 + i] = u[i]
       /\ \A i \in 1..2 : a5[18 + i] = v[i]
  <2>1. \A i \in 1..8 : i \in 1..20 /\ i \in 1..18 /\ i \in 1..16 /\ 8 + i \in 1..20
                        /\ 8 + i \in 1..18 /\ 8 + i \in 1..16
    OBVIOUS
  <2>2. \A i \in 1..2 : 16 + i \in 1..20 /\ 16 + i \in 1..18 /\ 18 + i \in 1..20
    OBVIOUS
  <2>3. /\ \A i \in 1..18 : a3[i] = a2[i]
        /\ \A i \in 1..2 : a3[18 + i] = v[i]
        /\ \A i \in 1..16 : a2[i] = a1[i]
        /\ \A i \in 1..2 : a2[16 + i] = u[i]
        /\ \A i \in 1..8 : a1[i] = p.target[i]
        /\ \A i \in 1..8 : a1[8 + i] = p.source[i]
    BY <1>10, <1>11, <1>12 DEF Joins
  <2>4. /\ \A i \in 1..8 : a5[i] = p.target[i]
        /\ \A i \in 1..8 : a5[8 + i] = p.source[i]
    BY <1>15, <2>1, <2>3
  <2>5. /\ \A i \in 1..2 : a5[16 + i] = u[i]
        /\ \A i \in 1..2 : a5[18 + i] = v[i]
    BY <1>15, <2>2, <2>3
  <2>6. QED BY <2>4, <2>5
<1>18. ASSUME NEW j \in 1..4 PROVE a5[28 + j] = U32Bytes(p.inv_id)[j]
  <2>1. 8 + j \in 1..12 + (4 * n) /\ 20 + (8 + j) = 28 + j
    BY <1>3
  <2>2. QED BY <1>8, <1>16, <2>1
<1>19. ASSUME NEW k \in 1..n, NEW j \in 1..4
       PROVE  a5[(32 + (4 * (k - 1))) + j] = U32Bytes(fs[k])[j]
  <2>1. (12 + (4 * (k - 1))) + j \in 1..12 + (4 * n)
    BY <1>3
  <2>2. 20 + ((12 + (4 * (k - 1))) + j) = (32 + (4 * (k - 1))) + j
    BY <1>3
  <2>3. QED BY <1>8, <1>16, <2>1, <2>2
<1>20. /\ a5 \in Seq(Byte) /\ Len(a5) = (32 + (4 * n)) + Len(d)
       /\ \A i \in 1..Len(d) : a5[(32 + (4 * n)) + i] = d[i]
  BY <1>14 DEF Joins
<1>21. HeaderOf(a5, p)
  BY <1>17, <1>18, <1>19, <1>20 DEF HeaderOf, u, v, fs, d
<1>22. Len(a5) \in U32Values
  BY <1>1, <1>2, <1>3, <1>20 DEF HeaderSize
<1>23. QED BY <1>5, <1>21, <1>22

\* What lies in the buffer begins with these bytes.
Begins(c, b) == Len(c) \in Nat /\ Len(b) <= Len(c) /\ \A i \in 1..Len(b) : c[i] = b[i]

LEMMA FrameLayout ==
    ASSUME NEW p \in Sendable
    PROVE  /\ IntoBuf(p) \in Seq(Byte)
           /\ Len(IntoBuf(p)) = 38 + (4 * Len(p.command.fields)) + Len(p.command.data)
           /\ Len(p.command.fields) \in Nat /\ Len(p.command.data) \in Nat
           /\ Len(IntoHeader(p)) = 32 + (4 * Len(p.command.fields)) + Len(p.command.data)
           /\ \A j \in 1..4 : IntoBuf(p)[2 + j] = U32Bytes(Len(IntoHeader(p)))[j]
           /\ \A i \in 1..Len(IntoHeader(p)) : IntoBuf(p)[6 + i] = IntoHeader(p)[i]
<1> DEFINE h == IntoHeader(p)
           m == Len(h)
           n == Len(p.command.fields)
           l == Len(p.command.data)
           z == U16Bytes(0)
           u == U32Bytes(m)
           a == z \o u
           b == a \o h
<1>1. h \in Seq(Byte) /\ m = 32 + (4 * n) + l /\ m \in U32Values
  BY HeaderLayout DEF HeaderOf
<1>2. m \in Nat /\ 0 \in Nat /\ 2 \in Nat /\ 4 \in Nat /\ 6 \in Nat
  BY <1>1, LenProperties
<1>3. n \in Nat /\ l \in Nat
  <2>1. p \in Packets
    BY DEF Sendable
  <2>2. QED BY <2>1, PacketParts, LenProperties
<1>4. IntoBuf(p) = b
  BY DEF IntoBuf
<1> HIDE DEF h
<1>5. z \in Seq(Byte) /\ Len(z) = 2
  BY <1>2, U16Written
<1>6. u \in Seq(Byte) /\ Len(u) = 4
  <2> HIDE DEF m
  <2>1. QED BY <1>2, U32Written
<1> HIDE DEF m, n, l, z, u, a, b
<1>7. Joins(a, z, 2, u, 4, Byte)
  BY <1>2, <1>5, <1>6, Joined DEF a
<1>8. Joins(b, a, 6, h, m, Byte)
  <2>1. a \in Seq(Byte) /\ Len(a) = 6
    BY <1>7 DEF Joins
  <2>2. Len(h) = m
    BY DEF m
  <2>3. QED BY <1>1, <1>2, <2>1, <2>2, Joined DEF b
<1>9. ASSUME NEW j \in 1..4 PROVE b[2 + j] = u[j]
  <2>1. 2 + j \in 1..6
    OBVIOUS
  <2>2. b[2 + j] = a[2 + j]
    BY <1>8, <2>1 DEF Joins
  <2>3. QED BY <1>7, <2>2 DEF Joins
<1>10. /\ b \in Seq(Byte) /\ Len(b) = 6 + m
       /\ \A i \in 1..m : b[6 + i] = h[i]
  BY <1>8 DEF Joins
<1>11. Len(b) = 38 + (4 * n) + l
  BY <1>1, <1>2, <1>3, <1>10
<1>12. QED BY <1>1, <1>3, <1>4, <1>9, <1>10, <1>11 DEF h, m, n, l, u

\* A piece of a buffer is what lies there.
LEMMA Piece ==
    ASSUME NEW S, NEW c, NEW s \in Seq(S), NEW k \in Nat, NEW n \in Nat,
           Len(s) = n, \A i \in 1..n : c[k + i] = s[i]
    PROVE  SubSeq(c, k + 1, k + n) = s
<1> DEFINE t == SubSeq(c, k + 1, k + n)
<1>1. n \in Nat
  OBVIOUS
<1>2. \A i \in k + 1..k + n : c[i] \in S
  <2> SUFFICES ASSUME NEW i \in k + 1..k + n PROVE c[i] \in S
    OBVIOUS
  <2>1. i - k \in 1..n /\ k + (i - k) = i
    OBVIOUS
  <2>2. c[i] = s[i - k]
    BY <2>1
  <2>3. QED BY <2>1, <2>2, ElementOfSeq
<1>3. /\ t \in Seq(S)
      /\ Len(t) = IF k + 1 <= k + n THEN ((k + n) - (k + 1)) + 1 ELSE 0
      /\ \A i \in 1..((k + n) - (k + 1)) + 1 : t[i] = c[((k + 1) + i) - 1]
  <2>1. k + 1 \in Int /\ k + n \in Int
    BY <1>1
  <2>2. QED BY <1>2, <2>1, SubSeqProperties
<1> HIDE DEF t
<1>4. Len(t) = n /\ ((k + n) - (k + 1)) + 1 = n
  BY <1>1, <1>3
<1>5. ASSUME NEW i \in 1..n PROVE t[i] = s[i]
  <2>1. ((k + 1) + i) - 1 = k + i
    BY <1>1
  <2>2. QED BY <1>3, <1>4, <2>1
<1>6. t = s
  BY <1>3, <1>4, <1>5, SeqEqual
<1>7. QED BY <1>6 DEF t

\* What lies at the places of a buffer that begins with a packet.
BufferOf(c, p) ==
    /\ Len(c) \in Nat
    /\ (38 + (4 * Len(p.command.fields))) + Len(p.command.data) <= Len(c)
    /\ \A j \in 1..4 : c[2 + j] = U32Bytes(Len(IntoHeader(p)))[j]
    /\ \A i \in 1..8 : c[6 + i] = p.target[i]
    /\ \A i \in 1..8 : c[14 + i] = p.source[i]
    /\ \A i \in 1..2 : c[22 + i] = U16Bytes(p.command_id)[i]
    /\ \A i \in 1..2 : c[24 + i] = U16Bytes(p.state_flags)[i]
    /\ \A j \in 1..4 : c[34 + j] = U32Bytes(p.inv_id)[j]
    /\ \A k \in 1..Len(p.command.fields), j \in 1..4 :
          c[(38 + (4 * (k - 1))) + j] = U32Bytes(p.command.fields[k])[j]
    /\ \A i \in 1..Len(p.command.data) :
          c[(38 + (4 * Len(p.command.fields))) + i] = p.command.data[i]

LEMMA Buffer ==
    ASSUME NEW p \in Sendable, NEW c, Begins(c, IntoBuf(p))
    PROVE  BufferOf(c, p)
<1> DEFINE h == IntoHeader(p)
           b == IntoBuf(p)
           n == Len(p.command.fields)
           l == Len(p.command.data)
<1>1. /\ Len(b) = 38 + (4 * n) + l /\ n \in Nat /\ l \in Nat /\ Len(h) = 32 + (4 * n) + l
      /\ \A j \in 1..4 : b[2 + j] = U32Bytes(Len(h))[j]
      /\ \A i \in 1..Len(h) : b[6 + i] = h[i]
  BY FrameLayout
<1>2. Len(b) <= Len(c) /\ \A i \in 1..Len(b) : c[i] = b[i]
  BY DEF Begins
<1>3. Len(c) \in Nat
  BY DEF Begins
<1>4. /\ \A i \in 1..8 : h[i] = p.target[i]
      /\ \A i \in 1..8 : h[8 + i] = p.source[i]
      /\ \A i \in 1..2 : h[16 + i] = U16Bytes(p.command_id)[i]
      /\ \A i \in 1..2 : h[18 + i] = U16Bytes(p.state_flags)[i]
      /\ \A j \in 1..4 : h[28 + j] = U32Bytes(p.inv_id)[j]
      /\ \A k \in 1..n, j \in 1..4 :
            h[(32 + (4 * (k - 1))) + j] = U32Bytes(p.command.fields[k])[j]
      /\ \A i \in 1..l : h[(32 + (4 * n)) + i] = p.command.data[i]
  BY HeaderLayout DEF HeaderOf
<1> HIDE DEF h, b, n, l
<1>5. ASSUME NEW j \in 1..4 PROVE c[2 + j] = U32Bytes(Len(h))[j]
  <2>1. 2 + j \in 1..Len(b)
    BY <1>1
  <2>2. QED BY <1>1, <1>2, <2>1
<1>6. ASSUME NEW i \in 1..32 + (4 * n) + l PROVE c[6 + i] = h[i]
  <2>1. 6 + i \in 1..Len(b) /\ i \in 1..Len(h)
    BY <1>1
  <2>2. QED BY <1>1, <1>2, <2>1
<1>7. ASSUME NEW i \in 1..8
      PROVE  c[6 + i] = p.target[i] /\ c[14 + i] = p.source[i]
  <2>1. i \in 1..32 + (4 * n) + l /\ 8 + i \in 1..32 + (4 * n) + l /\ 6 + (8 + i) = 14 + i
    BY <1>1
  <2>2. QED BY <1>4, <1>6, <2>1
<1>8. ASSUME NEW i \in 1..2
      PROVE  /\ c[22 + i] = U16Bytes(p.command_id)[i]
             /\ c[24 + i] = U16Bytes(p.state_flags)[i]
  <2>1. /\ 16 + i \in 1..32 + (4 * n) + l /\ 18 + i \in 1..32 + (4 * n) + l
        /\ 6 + (16 + i) = 22 + i /\ 6 + (18 + i) = 24 + i
    BY <1>1
  <2>2. QED BY <1>4, <1>6, <2>1
<1>9. ASSUME NEW j \in 1..4 PROVE c[34 + j] = U32Bytes(p.inv_id)[j]
  <2>1. 28 + j \in 1..32 + (4 * n) + l /\ 6 + (28 + j) = 34 + j
    BY <1>1
  <2>2. QED BY <1>4, <1>6, <2>1
<1>10. ASSUME NEW k \in 1..n, NEW j \in 1..4
       PROVE  c[(38 + (4 * (k - 1))) + j] = U32Bytes(p.command.fields[k])[j]
  <2>1. /\ (32 + (4 * (k - 1))) + j \in 1..32 + (4 * n) + l
        /\ 6 + ((32 + (4 * (k - 1))) + j) = (38 + (4 * (k - 1))) + j
    BY <1>1
  <2>2. c[(38 + (4 * (k - 1))) + j] = h[(32 + (4 * (k - 1))) + j]
    BY <1>6, <2>1
  <2>3. QED BY <1>4, <2>2
<1>11. ASSUME NEW i \in 1..l PROVE c[(38 + (4 * n)) + i] = p.command.data[i]
  <2>1. /\ (32 + (4 * n)) + i \in 1..32 + (4 * n) + l
        /\ 6 + ((32 + (4 * n)) + i) = (38 + (4 * n)) + i
    BY <1>1
  <2>2. c[(38 + (4 * n)) + i] = h[(32 + (4 * n)) + i]
    BY <1>6, <2>1
  <2>3. QED BY <1>4, <2>2
<1>12. 38 + (4 * n) + l <= Len(c)
  BY <1>1, <1>2
<1>13. QED BY <1>2, <1>3, <1>5, <1>7, <1>8, <1>9, <1>10, <1>11, <1>12
          DEF BufferOf, h, n, l

\* from_buf gives back the packet that into_buf wrote, whatever lies behind it in the
\* buffer, and the length in the header tells where it ends.
LEMMA ReadsBack ==
    ASSUME NEW p \in Sendable, NEW c, Begins(c, IntoBuf(p))
    PROVE  /\ FromBuf(c) = p
           /\ TcpHeaderSize + U32At(c, 2) = Len(IntoBuf(p))
<1> DEFINE fs == p.command.fields
           d == p.command.data
           n == Len(fs)
           l == Len(d)
<1>1. /\ Len(c) \in Nat
      /\ (38 + (4 * n)) + l <= Len(c)
      /\ \A j \in 1..4 : c[2 + j] = U32Bytes(Len(IntoHeader(p)))[j]
      /\ \A i \in 1..8 : c[6 + i] = p.target[i]
      /\ \A i \in 1..8 : c[14 + i] = p.source[i]
      /\ \A i \in 1..2 : c[22 + i] = U16Bytes(p.command_id)[i]
      /\ \A i \in 1..2 : c[24 + i] = U16Bytes(p.state_flags)[i]
      /\ \A j \in 1..4 : c[34 + j] = U32Bytes(p.inv_id)[j]
      /\ \A k \in 1..n, j \in 1..4 : c[(38 + (4 * (k - 1))) + j] = U32Bytes(fs[k])[j]
      /\ \A i \in 1..l : c[(38 + (4 * n)) + i] = d[i]
  <2>1. BufferOf(c, p)
    BY Buffer
  <2>2. QED BY <2>1 DEF BufferOf
<1>2. /\ p = Packet(p.target, p.source, p.command_id, p.state_flags, p.inv_id, p.command)
      /\ p.command = Command(fs, d)
      /\ p.target \in Seq(Byte) /\ Len(p.target) = 8
      /\ p.source \in Seq(Byte) /\ Len(p.source) = 8
      /\ p.command_id \in U16Values /\ p.state_flags \in U16Values /\ p.inv_id \in U32Values
      /\ fs \in Seq(U32Values) /\ d \in Seq(Byte)
      /\ n = FieldsOf[Kind(p)]
      /\ l = IF Kind(p) \in WithData THEN fs[n] ELSE 0
  <2>1. p \in Packets
    BY DEF Sendable
  <2>2. QED BY <2>1, PacketParts
<1>3. n \in Nat /\ l \in Nat
  BY FrameLayout
<1> HIDE DEF fs, d, n, l
<1>4. U32At(c, 2) = Len(IntoHeader(p))
  <2>1. Len(IntoHeader(p)) \in U32Values /\ 2 \in Nat
    BY HeaderLayout
  <2>2. \A j \in 1..4 : c[2 + j] = U32Bytes(Len(IntoHeader(p)))[j]
    BY <1>1
  <2>3. QED BY <2>1, <2>2, U32Read
<1>5. TcpHeaderSize + U32At(c, 2) = Len(IntoBuf(p)) /\ Len(IntoBuf(p)) = (38 + (4 * n)) + l
  <2>1. Len(IntoBuf(p)) = 38 + (4 * n) + l /\ Len(IntoHeader(p)) = 32 + (4 * n) + l
    BY FrameLayout DEF n, l, fs, d
  <2>2. QED BY <1>3, <1>4, <2>1 DEF TcpHeaderSize
<1>6. IsWhole(c)
  BY <1>1, <1>3, <1>5 DEF IsWhole, TcpHeaderSize, HeaderSize
<1>7. SubSeq(c, 7, 14) = p.target /\ SubSeq(c, 15, 22) = p.source
  <2>1. ASSUME NEW s \in Seq(Byte), Len(s) = 8, NEW k \in Nat, \A i \in 1..8 : c[k + i] = s[i]
        PROVE  SubSeq(c, k + 1, k + 8) = s
    <3> DEFINE m == 8
    <3>1. m \in Nat /\ Len(s) = m /\ \A i \in 1..m : c[k + i] = s[i]
      BY <2>1
    <3> HIDE DEF m
    <3>2. SubSeq(c, k + 1, k + m) = s
      BY <2>1, <3>1, Piece, SMTT(30)
    <3>3. QED BY <3>2 DEF m
  <2>2. SubSeq(c, 6 + 1, 6 + 8) = p.target
    <3>1. \A i \in 1..8 : c[6 + i] = p.target[i]
      BY <1>1
    <3>2. 6 \in Nat
      OBVIOUS
    <3>3. QED BY <1>2, <2>1, <3>1, <3>2
  <2>3. SubSeq(c, 14 + 1, 14 + 8) = p.source
    <3>1. \A i \in 1..8 : c[14 + i] = p.source[i]
      BY <1>1
    <3>2. 14 \in Nat
      OBVIOUS
    <3>3. QED BY <1>2, <2>1, <3>1, <3>2
  <2>4. QED BY <2>2, <2>3
<1>8. ASSUME NEW x \in U16Values, NEW i \in Nat, \A j \in 1..2 : c[i + j] = U16Bytes(x)[j]
      PROVE  U16At(c, i) = x
  <2>1. x \in Nat /\ 1 \in 1..2 /\ 2 \in 1..2
    BY BaseFacts DEF U16Values
  <2>2. c[i + 1] = x % Base /\ c[i + 2] = (x \div Base) % Base
    BY <1>8, <2>1, U16Written
  <2>3. QED BY <2>2, U16Read DEF U16At
<1>9. U16At(c, 22) = p.command_id /\ U16At(c, 24) = p.state_flags
  <2>1. 22 \in Nat /\ 24 \in Nat
    OBVIOUS
  <2>2. QED BY <1>1, <1>2, <1>8, <2>1
<1>10. U32At(c, 34) = p.inv_id
  <2>1. 34 \in Nat
    OBVIOUS
  <2>2. \A j \in 1..4 : c[34 + j] = U32Bytes(p.inv_id)[j]
    BY <1>1
  <2>3. QED BY <1>2, <2>1, <2>2, U32Read
<1>11. [i \in 1..n |-> U32At(c, 38 + (4 * (i - 1)))] = fs
  <2>1. ASSUME NEW i \in 1..n PROVE U32At(c, 38 + (4 * (i - 1))) = fs[i]
    <3>1. 38 + (4 * (i - 1)) \in Nat
      BY <1>3
    <3>2. fs[i] \in U32Values
      BY <1>2, ElementOfSeq DEF n
    <3>3. \A j \in 1..4 : c[(38 + (4 * (i - 1))) + j] = U32Bytes(fs[i])[j]
      BY <1>1
    <3>4. QED BY <3>1, <3>2, <3>3, U32Read
  <2>2. fs = [i \in 1..n |-> fs[i]]
    BY <1>2, LenProperties DEF n
  <2>3. QED BY <2>1, <2>2
<1>12. IF Kind(p) \in WithData
       THEN SubSeq(c, (38 + (4 * n)) + 1, (38 + (4 * n)) + fs[n]) = d
       ELSE d = <<>>
  <2>1. CASE Kind(p) \in WithData
    <3>1. fs[n] = l
      BY <1>2, <2>1
    <3>2. 38 + (4 * n) \in Nat
      BY <1>3
    <3>3. SubSeq(c, (38 + (4 * n)) + 1, (38 + (4 * n)) + l) = d
      <4>1. \A i \in 1..l : c[(38 + (4 * n)) + i] = d[i]
        BY <1>1
      <4>2. d \in Seq(Byte) /\ Len(d) = l /\ l \in Nat
        BY <1>2, <1>3 DEF l
      <4> DEFINE k == 38 + (4 * n)
      <4>3. k \in Nat /\ \A i \in 1..l : c[k + i] = d[i]
        BY <3>2, <4>1
      <4> HIDE DEF k
      <4>4. SubSeq(c, k + 1, k + l) = d
        BY <4>1, <4>2, <4>3, Piece
      <4>5. QED BY <4>4 DEF k
    <3>4. QED BY <2>1, <3>1, <3>3
  <2>2. CASE Kind(p) \notin WithData
    <3>1. Len(d) = 0
      BY <1>2, <2>2 DEF l
    <3>2. d = <<>>
      BY <1>2, <3>1, EmptySeq
    <3>3. QED BY <2>2, <3>2
  <2>3. QED BY <2>1, <2>2
<1>13. KindOf(U16At(c, 22), U16At(c, 24)) = Kind(p)
  BY <1>9 DEF Kind
<1>14. CommandFromBuf(Kind(p), c, 38) = p.command
  <2>1. CommandFromBuf(Kind(p), c, 38) =
          Command([i \in 1..n |-> U32At(c, 38 + (4 * (i - 1)))],
                  IF Kind(p) \in WithData
                  THEN SubSeq(c, (38 + (4 * n)) + 1,
                              (38 + (4 * n)) + [i \in 1..n |-> U32At(c, 38 + (4 * (i - 1)))][n])
                  ELSE <<>>)
    BY <1>2 DEF CommandFromBuf, U32
  <2>2. CommandFromBuf(Kind(p), c, 38) =
          Command(fs, IF Kind(p) \in WithData
                      THEN SubSeq(c, (38 + (4 * n)) + 1, (38 + (4 * n)) + fs[n]) ELSE <<>>)
    BY <1>11, <2>1
  <2>3. QED BY <1>2, <1>12, <2>2
<1>15. PacketAt(c, U32At(c, 34)) = p
  <2>1. TcpHeaderSize + HeaderSize = 38
    BY DEF TcpHeaderSize, HeaderSize
  <2>2. PacketAt(c, U32At(c, 34)) =
          Packet(SubSeq(c, 7, 14), SubSeq(c, 15, 22), U16At(c, 22), U16At(c, 24), U32At(c, 34),
                 CommandFromBuf(KindOf(U16At(c, 22), U16At(c, 24)), c, 38))
    BY <2>1 DEF PacketAt
  <2>3. PacketAt(c, U32At(c, 34)) =
          Packet(p.target, p.source, p.command_id, p.state_flags, p.inv_id, p.command)
    BY <1>7, <1>9, <1>10, <1>13, <1>14, <2>2
  <2>4. QED BY <1>2, <2>3
<1>16. QED BY <1>5, <1>6, <1>15 DEF FromBuf

-----------------------------------------------------------------------------
\* Answers and requests.

\* The answer to a request is a packet that goes back to where the request came from.
LEMMA ResponseIs ==
    ASSUME NEW p \in Packets, IsRequest(p)
    PROVE  /\ GenRes(p) \in Sendable
           /\ ~IsRequest(GenRes(p)) /\ Answers(GenRes(p), p)
<1> DEFINE r == GenRes(p)
           fs == IF Kind(p) = "ReadReq" THEN <<NotSupported, 0>> ELSE <<0>>
<1>1. r = Packet(p.source, p.target, p.command_id, ResponseFlags, p.inv_id, Command(fs, <<>>))
  BY DEF GenRes, Response
<1>2. Kind(p) \in {"ReadReq", "WriteReq"}
  BY DEF IsRequest
<1>3. /\ Kind(p) = "ReadReq" => p.command_id = ReadCommand /\ p.state_flags = RequestFlags
      /\ Kind(p) = "WriteReq" => p.command_id = WriteCommand /\ p.state_flags = RequestFlags
  BY DEF Kind, KindOf, ReadCommand, WriteCommand, RequestFlags, ResponseFlags
<1>4. /\ r.target = p.source /\ r.source = p.target /\ r.inv_id = p.inv_id
      /\ r.command_id = p.command_id /\ r.state_flags = ResponseFlags
      /\ r.command = Command(fs, <<>>) /\ r.command.fields = fs /\ r.command.data = <<>>
  BY <1>1 DEF Packet, Command
<1>5. /\ Kind(p) = "ReadReq" => Kind(r) = "ReadRes"
      /\ Kind(p) = "WriteReq" => Kind(r) = "WriteRes"
  BY <1>3, <1>4 DEF Kind, KindOf, ReadCommand, WriteCommand, RequestFlags, ResponseFlags
<1>6. Kind(r) \in {"ReadRes", "WriteRes"}
  BY <1>2, <1>5
<1>7. ~IsRequest(r) /\ Answers(r, p)
  BY <1>2, <1>4, <1>5, <1>6 DEF IsRequest, Answers
<1>8. 0 \in U32Values /\ NotSupported \in U32Values /\ ResponseFlags \in U16Values
      /\ HeaderSize + 8 \in U32Values /\ HeaderSize + 4 \in U32Values
  BY BaseFacts DEF U32Values, U16Values, NotSupported, ResponseFlags, HeaderSize
<1>9. fs \in Seq(U32Values) /\ <<>> \in Seq(0..Base - 1) /\ Len(<<>>) = 0
  <2>1. <<NotSupported, 0>> \in Seq(U32Values) /\ <<0>> \in Seq(U32Values)
    BY <1>8
  <2>2. QED BY <2>1, EmptySeq
<1>10. Len(fs) = FieldsOf[Kind(r)]
  BY <1>2, <1>5 DEF FieldsOf
<1>11. /\ Kind(r) = "ReadRes" => r.command.fields[FieldsOf[Kind(r)]] = 0
       /\ Kind(r) \in WithData => Kind(r) = "ReadRes"
  <2>1. Kind(r) = "ReadRes" => Kind(p) = "ReadReq"
    BY <1>2, <1>5
  <2>2. Kind(r) = "ReadRes" => fs = <<NotSupported, 0>> /\ FieldsOf[Kind(r)] = 2
    BY <2>1 DEF FieldsOf
  <2>3. Kind(r) \in WithData => Kind(r) = "ReadRes"
    BY <1>6 DEF WithData
  <2>4. r.command.fields = fs
    BY <1>4
  <2>5. <<NotSupported, 0>>[2] = 0
    OBVIOUS
  <2> HIDE DEF r, fs
  <2>6. QED BY <2>2, <2>3, <2>4, <2>5
<1>12. p.source \in Address /\ p.target \in Address /\ p.command_id \in U16Values
       /\ p.inv_id \in U32Values
  BY DEF Packets
<1> HIDE DEF fs
<1>13. r \in [target : Address, source : Address, command_id : U16Values,
              state_flags : U16Values, inv_id : U32Values,
              command : [fields : Seq(U32Values), data : Seq(0..Base - 1)]]
  BY <1>1, <1>8, <1>9, <1>12 DEF Packet, Command
<1> HIDE DEF r
<1>14. Len(r.command.data) = IF Kind(r) \in WithData THEN r.command.fields[FieldsOf[Kind(r)]] ELSE 0
  BY <1>4, <1>9, <1>11
<1>15. r \in Packets
  BY <1>4, <1>10, <1>13, <1>14 DEF Packets
<1>16. CommandSize(Kind(r), r.command) \in {8, 4}
  <2>1. CommandSize(Kind(r), r.command) = (4 * Len(fs)) + Len(<<>>)
    BY <1>4, <1>15, PacketParts
  <2>2. Len(fs) \in {1, 2}
    BY <1>6, <1>10 DEF FieldsOf
  <2> DEFINE k == Len(fs)
             z == Len(<<>>)
  <2>3. CommandSize(Kind(r), r.command) = (4 * k) + z /\ z = 0 /\ k \in {1, 2}
    BY <1>9, <2>1, <2>2
  <2> HIDE DEF k, z
  <2>4. QED BY <2>3
<1>17. r \in Sendable
  BY <1>8, <1>15, <1>16 DEF Sendable
<1>18. QED BY <1>7, <1>17 DEF r

\* What the PLC finds in a packet's bytes, when nothing was left before, is the packet.
LEMMA WritesOne ==
    ASSUME NEW p \in Sendable, Writes(p), unread = <<>>
    PROVE  wrote' = Append(wrote, p) /\ found' = Append(found, p) /\ unread' = <<>>
<1> DEFINE b == IntoBuf(p)
           c == Cut(unread \o b, found)
<1>1. b \in Seq(Byte) /\ Len(b) \in Nat
  BY FrameLayout, LenProperties
<1>2. /\ wrote' = Append(wrote, p) /\ found' = c.found /\ unread' = c.unread
  BY DEF Writes
<1> HIDE DEF b
<1>3. unread \o b = b
  BY <1>1, ConcatEmptySeq
<1>4. Begins(b, b)
  BY <1>1 DEF Begins
<1>5. FromBuf(b) = p /\ TcpHeaderSize + U32At(b, 2) = Len(b)
  BY <1>4, ReadsBack DEF b
<1>6. 38 <= Len(b)
  <2> DEFINE n == Len(p.command.fields)
             l == Len(p.command.data)
  <2>1. Len(b) = 38 + (4 * n) + l /\ n \in Nat /\ l \in Nat
    BY FrameLayout DEF b
  <2> HIDE DEF n, l
  <2>2. QED BY <2>1
<1>7. SubSeq(b, 1, Len(b)) = b /\ SubSeq(b, Len(b) + 1, Len(b)) = <<>>
  <2>1. Len(b) + 1 \in Int /\ Len(b) \in Int /\ Len(b) < Len(b) + 1
    BY <1>1
  <2>2. QED BY <1>1, <2>1, SubSeqFull, SubSeqEmpty
<1>8. c = [found |-> Append(found, FromBuf(SubSeq(b, 1, Len(b)))),
           unread |-> SubSeq(b, Len(b) + 1, Len(b))]
  <2>1. ~(Len(b) < TcpHeaderSize) /\ ~(Len(b) < Len(b))
    BY <1>1, <1>6 DEF TcpHeaderSize
  <2>2. Cut(b, found) = [found |-> Append(found, FromBuf(SubSeq(b, 1, Len(b)))),
                         unread |-> SubSeq(b, Len(b) + 1, Len(b))]
    <3> DEFINE end == TcpHeaderSize + U32At(b, 2)
    <3>1. Cut(b, found) =
            IF Len(b) < TcpHeaderSize \/ Len(b) < end THEN [found |-> found, unread |-> b]
            ELSE [found |-> Append(found, FromBuf(SubSeq(b, 1, end))),
                  unread |-> SubSeq(b, end + 1, Len(b))]
      BY DEF Cut
    <3>2. end = Len(b)
      BY <1>5
    <3> HIDE DEF end
    <3>3. ~(Len(b) < TcpHeaderSize \/ Len(b) < end)
      BY <2>1, <3>2
    <3>4. Cut(b, found) = [found |-> Append(found, FromBuf(SubSeq(b, 1, end))),
                           unread |-> SubSeq(b, end + 1, Len(b))]
      BY <3>1, <3>3
    <3>5. QED BY <3>2, <3>4
  <2>3. QED BY <1>3, <2>2
<1> HIDE DEF c
<1>9. c = [found |-> Append(found, p), unread |-> <<>>]
  BY <1>5, <1>7, <1>8
<1>10. QED BY <1>2, <1>9

LEMMA SizeReserved ==
    ASSUME NEW p \in Sendable
    PROVE  Len(IntoBuf(p)) = PacketSize(p) /\ Len(IntoBuf(p)) \in Nat
<1> DEFINE n == Len(p.command.fields)
           l == Len(p.command.data)
<1>1. p \in Packets
  BY DEF Sendable
<1>2. CommandSize(Kind(p), p.command) = (4 * n) + l
  BY <1>1, PacketParts
<1>3. Len(IntoBuf(p)) = 38 + (4 * n) + l /\ n \in Nat /\ l \in Nat
  BY FrameLayout
<1>4. PacketSize(p) = 38 + CommandSize(Kind(p), p.command)
  BY DEF PacketSize, TcpHeaderSize, HeaderSize
<1> HIDE DEF n, l
<1>5. QED BY <1>2, <1>3, <1>4

-----------------------------------------------------------------------------
\* The bytes of the PLC.

LEMMA StreamBytes ==
    \A i \in 1..MaxFrames : \A k \in 1..Len(IntoBuf(Frames[i])) :
        Off[i] + k \in 1..Off[MaxFrames + 1] /\ FromPlc[Off[i] + k] = IntoBuf(Frames[i])[k]
<1> DEFINE b(i) == IntoBuf(Frames[i])
           last == Off[MaxFrames + 1]
<1>1. /\ \A i \in 1..MaxFrames + 1 : Off[i] \in Nat
      /\ \A i, j \in 1..MaxFrames + 1 : i <= j => Off[i] <= Off[j]
      /\ Off[1] = 0 /\ MaxFrames \in Nat
  BY OffFacts
<1>2. \A i \in 1..MaxFrames : b(i) \in Seq(Byte) /\ Off[i + 1] = Off[i] + Len(b(i)) /\ Len(b(i)) \in Nat
  <2> SUFFICES ASSUME NEW i \in 1..MaxFrames
               PROVE  b(i) \in Seq(Byte) /\ Off[i + 1] = Off[i] + Len(b(i)) /\ Len(b(i)) \in Nat
    OBVIOUS
  <2>1. b(i) \in Seq(Byte) /\ Off[i + 1] - Off[i] = Len(b(i))
    BY WireAssumption DEF Byte
  <2>2. Len(b(i)) \in Nat
    BY <2>1, LenProperties
  <2>3. Off[i] \in Nat /\ Off[i + 1] \in Nat
    BY <1>1
  <2>4. QED BY <2>1, <2>2, <2>3
<1> HIDE DEF b
<1>3. ASSUME NEW i \in 1..MaxFrames, NEW k \in 1..Len(b(i))
      PROVE  Off[i] + k \in 1..last /\ FrameAt(Off[i] + k) = i
  <2>1. Off[i] \in Nat /\ Off[i] < Off[i] + k /\ Off[i] + k <= Off[i + 1]
    BY <1>1, <1>2
  <2>2. Off[i + 1] <= last /\ last \in Nat
    BY <1>1
  <2>3. ASSUME NEW j \in 1..MaxFrames, Off[j] < Off[i] + k, Off[i] + k <= Off[j + 1] PROVE j = i
    <3>1. CASE j < i
      <4>1. Off[j + 1] <= Off[i] /\ Off[j + 1] \in Nat
        BY <1>1, <3>1
      <4>2. QED BY <2>1, <2>3, <4>1
    <3>2. CASE j > i
      <4>1. Off[i + 1] <= Off[j] /\ Off[j] \in Nat /\ Off[i + 1] \in Nat
        BY <1>1, <3>2
      <4>2. QED BY <2>1, <2>3, <4>1
    <3>3. QED BY <3>1, <3>2
  <2>4. FrameAt(Off[i] + k) = i
    <3> DEFINE x == Off[i] + k
    <3>1. \E j \in 1..MaxFrames : Off[j] < x /\ x <= Off[j + 1]
      BY <2>1
    <3> HIDE DEF x
    <3> DEFINE f == CHOOSE j \in 1..MaxFrames : Off[j] < x /\ x <= Off[j + 1]
    <3>2. f \in 1..MaxFrames /\ Off[f] < x /\ x <= Off[f + 1]
      BY <3>1
    <3>3. FrameAt(x) = f
      BY DEF FrameAt
    <3> HIDE DEF f
    <3>4. f = i
      BY <2>3, <3>2 DEF x
    <3>5. QED BY <3>3, <3>4 DEF x
  <2>5. Off[i] + k \in 1..last
    <3>1. k \in Nat /\ k > 0
      BY <1>2
    <3>2. QED BY <1>1, <2>1, <2>2, <3>1
  <2>6. QED BY <2>4, <2>5
<1>4. ASSUME NEW i \in 1..MaxFrames, NEW k \in 1..Len(b(i))
      PROVE  FromPlc[Off[i] + k] = b(i)[k]
  <2>1. (Off[i] + k) - Off[i] = k
    BY <1>1, <1>2
  <2>2. FromPlc[Off[i] + k] = IntoBuf(Frames[i])[(Off[i] + k) - Off[i]]
    BY <1>3 DEF FromPlc
  <2>3. QED BY <2>1, <2>2 DEF b
<1>5. QED BY <1>3, <1>4 DEF b

\* A decode in step finds the whole frame at the head of the buffer.
LEMMA HeadOfBuffer ==
    ASSUME IInv, NEW n \in 1..(Off[sent + 1] - got), Decodes(n)
    PROVE  /\ taken + 1 \in 1..MaxFrames
           /\ Begins(Buffered, IntoBuf(Frames[taken + 1]))
<1> DEFINE t == taken + 1
           b == IntoBuf(Frames[t])
           S == {FromPlc[i] : i \in start + 1..got'}
<1>1. /\ start = Off[t] /\ t \in 1..sent /\ got' \in Nat /\ Off[t + 1] <= got'
  <2>1. taken \in Nat
    BY DEF IInv, TypeOK
  <2>2. taken + 2 = (taken + 1) + 1
    BY <2>1
  <2>3. QED BY <2>2, DecodesFacts
<1>2. sent \in 0..MaxFrames /\ MaxFrames \in Nat
  BY OffFacts DEF IInv, TypeOK
<1>3. t \in 1..MaxFrames
  BY <1>1, <1>2
<1>4. Off[t] \in Nat /\ Off[t + 1] \in Nat
  BY <1>2, <1>3, OffFacts
<1>5. Off[t + 1] - Off[t] = Len(b) /\ b \in Seq(0..Base - 1)
  BY <1>3, WireAssumption
<1>6. Len(b) \in Nat
  BY <1>5, LenProperties
<1>7. \A k \in 1..Len(b) : FromPlc[Off[t] + k] = b[k]
  BY <1>3, StreamBytes
<1> HIDE DEF b, t
<1>8. Len(b) <= got' - start /\ start \in Nat /\ got' - start \in Nat
  BY <1>1, <1>4, <1>5, <1>6
<1>9. /\ Len(Buffered) = IF start + 1 <= got' THEN (got' - (start + 1)) + 1 ELSE 0
      /\ \A i \in 1..(got' - (start + 1)) + 1 : Buffered[i] = FromPlc[((start + 1) + i) - 1]
  <2>1. start + 1 \in Int /\ got' \in Int
    BY <1>1, <1>8
  <2>2. \A i \in start + 1..got' : FromPlc[i] \in S
    OBVIOUS
  <2> HIDE DEF S
  <2>3. QED BY <2>1, <2>2, SubSeqProperties DEF Buffered
<1>10. (got' - (start + 1)) + 1 = got' - start
  BY <1>1, <1>8
<1>11. Len(Buffered) = got' - start
  BY <1>1, <1>8, <1>9, <1>10
<1>12. ASSUME NEW i \in 1..Len(b) PROVE Buffered[i] = b[i]
  <2>1. i \in 1..(got' - (start + 1)) + 1 /\ ((start + 1) + i) - 1 = Off[t] + i
    BY <1>1, <1>6, <1>8, <1>10, SMTT(30)
  <2>2. QED BY <1>7, <1>9, <2>1
<1>13. Begins(Buffered, b)
  BY <1>8, <1>11, <1>12 DEF Begins
<1>14. QED BY <1>3, <1>13 DEF b, t

\* What a segment hands on: the frame in step, nothing that is a frame out of step.
LEMMA SegmentHandsOn ==
    ASSUME IInv, Segment, delivered' # delivered
    PROVE  /\ InStep => /\ taken + 1 \in Known
                        /\ delivered' = Append(delivered, taken + 1)
                        /\ FromBuf(Buffered) = Frames[taken + 1]
           /\ ~InStep => delivered' = Append(delivered, Bogus)
<1>1. PICK n \in 1..(Off[sent + 1] - got) : Reads(n)
  BY DEF Segment
<1>2. Decodes(n) \/ DecodesAdrift(n)
  BY <1>1 DEF Reads, Waits
<1>3. ASSUME InStep
      PROVE  /\ taken + 1 \in Known /\ delivered' = Append(delivered, taken + 1)
             /\ FromBuf(Buffered) = Frames[taken + 1]
  <2>1. Decodes(n)
    BY <1>2, <1>3 DEF DecodesAdrift
  <2>2. taken + 1 \in Known /\ delivered' = Append(delivered, taken + 1)
    BY <2>1 DEF Decodes, HandOn
  <2>3. Frames[taken + 1] \in Sendable
    BY <2>2, WireAssumption
  <2>4. Begins(Buffered, IntoBuf(Frames[taken + 1]))
    BY <2>1, HeadOfBuffer
  <2>5. QED BY <2>2, <2>3, <2>4, ReadsBack
<1>4. ASSUME ~InStep PROVE delivered' = Append(delivered, Bogus)
  BY <1>2, <1>4 DEF Decodes, DecodesAdrift
<1>5. QED BY <1>3, <1>4

-----------------------------------------------------------------------------
\* Requests and their answers, packet by packet.

Wanting(h) == {i \in 1..Len(h) : IsRequest(h[i])}
Answering(f) == {j \in 1..Len(f) : ~IsRequest(f[j])}
Matches(answer, h, f) ==
    /\ answer \in [Wanting(h) -> Answering(f)]
    /\ Answering(f) = {answer[i] : i \in Wanting(h)}
    /\ \A i, k \in Wanting(h) : i < k => answer[i] < answer[k]
    /\ \A i \in Wanting(h) : Answers(f[answer[i]], h[i])
Answered(h, f) == \E answer : Matches(answer, h, f)

LEMMA Longer ==
    ASSUME NEW S, NEW s \in Seq(S), NEW e \in S
    PROVE  /\ Append(s, e) \in Seq(S) /\ Len(s) \in Nat /\ Len(Append(s, e)) = Len(s) + 1
           /\ \A i \in 1..Len(s) : Append(s, e)[i] = s[i]
           /\ Append(s, e)[Len(s) + 1] = e
BY AppendFacts

LEMMA WantingAppend ==
    ASSUME NEW S, NEW h \in Seq(S), NEW p \in S
    PROVE  /\ IsRequest(p) => Wanting(Append(h, p)) = Wanting(h) \cup {Len(h) + 1}
           /\ ~IsRequest(p) => Wanting(Append(h, p)) = Wanting(h)
           /\ \A i \in Wanting(h) : Append(h, p)[i] = h[i] /\ i \in 1..Len(h)
<1> DEFINE g == Append(h, p)
           n == Len(h)
<1>1. n \in Nat /\ Len(g) = n + 1 /\ g[n + 1] = p /\ \A i \in 1..n : g[i] = h[i]
  BY Longer
<1> HIDE DEF g, n
<1>2. 1..n + 1 = (1..n) \cup {n + 1}
  BY <1>1
<1>3. Wanting(g) = {i \in 1..n : IsRequest(h[i])} \cup {i \in {n + 1} : IsRequest(p)}
  BY <1>1, <1>2 DEF Wanting
<1>4. Wanting(h) = {i \in 1..n : IsRequest(h[i])}
  BY DEF Wanting, n
<1>5. QED BY <1>1, <1>3, <1>4 DEF g, n

LEMMA AnsweringAppend ==
    ASSUME NEW S, NEW f \in Seq(S), NEW p \in S
    PROVE  /\ ~IsRequest(p) => Answering(Append(f, p)) = Answering(f) \cup {Len(f) + 1}
           /\ IsRequest(p) => Answering(Append(f, p)) = Answering(f)
           /\ \A j \in Answering(f) : Append(f, p)[j] = f[j] /\ j \in 1..Len(f)
<1> DEFINE g == Append(f, p)
           n == Len(f)
<1>1. n \in Nat /\ Len(g) = n + 1 /\ g[n + 1] = p /\ \A i \in 1..n : g[i] = f[i]
  BY Longer
<1> HIDE DEF g, n
<1>2. 1..n + 1 = (1..n) \cup {n + 1}
  BY <1>1
<1>3. Answering(g) = {i \in 1..n : ~IsRequest(f[i])} \cup {i \in {n + 1} : ~IsRequest(p)}
  BY <1>1, <1>2 DEF Answering
<1>4. Answering(f) = {i \in 1..n : ~IsRequest(f[i])}
  BY DEF Answering, n
<1>5. QED BY <1>1, <1>3, <1>4 DEF g, n

LEMMA AnswerRequest ==
    ASSUME NEW h \in Seq(Packets), NEW f \in Seq(Sendable), NEW p \in Packets, NEW r \in Sendable,
           IsRequest(p), ~IsRequest(r), Answers(r, p), Answered(h, f)
    PROVE  Answered(Append(h, p), Append(f, r))
<1> DEFINE g == Append(h, p)
           e == Append(f, r)
           n == Len(h) + 1
           m == Len(f) + 1
<1>1. PICK answer : Matches(answer, h, f)
  BY DEF Answered
<1> DEFINE new == [i \in Wanting(h) \cup {n} |-> IF i = n THEN m ELSE answer[i]]
<1>2. /\ Wanting(g) = Wanting(h) \cup {n}
      /\ \A i \in Wanting(h) : g[i] = h[i] /\ i \in 1..Len(h)
  BY WantingAppend
<1>3. /\ Answering(e) = Answering(f) \cup {m}
      /\ \A j \in Answering(f) : e[j] = f[j] /\ j \in 1..Len(f)
  BY AnsweringAppend
<1>4. g[n] = p /\ e[m] = r /\ n \in Nat /\ m \in Nat /\ Len(h) \in Nat /\ Len(f) \in Nat
  BY Longer
<1>5. \A i \in Wanting(h) : i # n /\ i < n /\ i \in Nat
  BY <1>2, <1>4
<1>6. \A j \in Answering(f) : j < m /\ j \in Nat
  BY <1>3, <1>4
<1>7. /\ answer \in [Wanting(h) -> Answering(f)]
      /\ Answering(f) = {answer[i] : i \in Wanting(h)}
      /\ \A i, k \in Wanting(h) : i < k => answer[i] < answer[k]
      /\ \A i \in Wanting(h) : Answers(f[answer[i]], h[i])
  BY <1>1 DEF Matches
<1> HIDE DEF g, e, n, m
<1>8. /\ new[n] = m
      /\ \A i \in Wanting(h) : new[i] = answer[i]
      /\ DOMAIN new = Wanting(h) \cup {n}
  BY <1>5
<1>9. new \in [Wanting(g) -> Answering(e)]
  BY <1>2, <1>3, <1>5, <1>7
<1> HIDE DEF new
<1>10. Answering(e) = {new[i] : i \in Wanting(g)}
  <2>1. {new[i] : i \in Wanting(g)} = {new[i] : i \in Wanting(h)} \cup {new[n]}
    BY <1>2
  <2>2. {new[i] : i \in Wanting(h)} = {answer[i] : i \in Wanting(h)}
    BY <1>8
  <2>3. QED BY <1>3, <1>7, <1>8, <2>1, <2>2
<1>11. ASSUME NEW i \in Wanting(g), NEW k \in Wanting(g), i < k PROVE new[i] < new[k]
  <2>1. i # n
    BY <1>2, <1>4, <1>5, <1>11
  <2>2. i \in Wanting(h) /\ new[i] = answer[i] /\ answer[i] \in Answering(f)
    BY <1>2, <1>7, <1>8, <2>1
  <2>3. CASE k = n
    BY <1>6, <1>8, <2>2, <2>3
  <2>4. CASE k # n
    <3>1. k \in Wanting(h)
      BY <1>2, <2>4
    <3>2. QED BY <1>7, <1>8, <1>11, <2>2, <3>1
  <2>5. QED BY <2>3, <2>4
<1>12. ASSUME NEW i \in Wanting(g) PROVE Answers(e[new[i]], g[i])
  <2>1. CASE i = n
    BY <1>4, <1>8, <2>1
  <2>2. CASE i # n
    <3>1. i \in Wanting(h) /\ new[i] = answer[i] /\ answer[i] \in Answering(f)
      BY <1>2, <1>7, <1>8, <2>2
    <3>2. e[new[i]] = f[answer[i]] /\ g[i] = h[i]
      BY <1>2, <1>3, <3>1
    <3>3. QED BY <1>7, <3>1, <3>2
  <2>3. QED BY <2>1, <2>2
<1>13. Matches(new, g, e)
  BY <1>9, <1>10, <1>11, <1>12 DEF Matches
<1>14. QED BY <1>13 DEF Answered, g, e

LEMMA AnswerOther ==
    ASSUME NEW h \in Seq(Packets), NEW f \in Seq(Sendable), NEW p \in Packets, ~IsRequest(p),
           Answered(h, f)
    PROVE  Answered(Append(h, p), f)
<1> DEFINE g == Append(h, p)
<1>1. PICK answer : Matches(answer, h, f)
  BY DEF Answered
<1>2. Wanting(g) = Wanting(h) /\ \A i \in Wanting(h) : g[i] = h[i]
  BY WantingAppend
<1> HIDE DEF g
<1>3. Matches(answer, g, f)
  BY <1>1, <1>2 DEF Matches
<1>4. QED BY <1>3 DEF Answered, g

LEMMA AnswerAsked ==
    ASSUME NEW h \in Seq(Packets), NEW f \in Seq(Sendable), NEW r \in Sendable, IsRequest(r),
           Answered(h, f)
    PROVE  Answered(h, Append(f, r))
<1> DEFINE e == Append(f, r)
<1>1. PICK answer : Matches(answer, h, f)
  BY DEF Answered
<1>2. Answering(e) = Answering(f) /\ \A j \in Answering(f) : e[j] = f[j]
  BY AnsweringAppend
<1> HIDE DEF e
<1>3. \A i \in Wanting(h) : answer[i] \in Answering(f)
  BY <1>1 DEF Matches
<1>4. Matches(answer, h, e)
  BY <1>1, <1>2, <1>3 DEF Matches
<1>5. QED BY <1>4 DEF Answered, e

-----------------------------------------------------------------------------
\* The connection.

WireTypes == handled \in Seq(Packets) /\ wrote \in Seq(Sendable)
NothingLeft == found = wrote /\ unread = <<>>
WireInv == IInv /\ WireTypes /\ PacketsAsSent /\ NothingLeft /\ Answered(handled, found)

LEMMA CodecStep == IInv /\ [Next]_vars => IInv'
<1>1. IInv /\ UNCHANGED vars => IInv'
  BY DEF IInv, TypeOK, Positioned, Behind, Ordered, vars
<1>2. QED BY <1>1, StepIInv

LEMMA WireMoves == [WireNext]_wireVars => [Next]_vars
BY DEF WireNext, wireVars, Receive, Request, Next

LEMMA WireStart == WireInit => WireInv
<1> SUFFICES ASSUME WireInit PROVE WireInv
  OBVIOUS
<1>1. IInv
  BY InitIInv DEF WireInit
<1>2. handled = <<>> /\ wrote = <<>> /\ unread = <<>> /\ found = <<>> /\ delivered = <<>>
  BY DEF WireInit, Init
<1>3. WireTypes
  BY <1>2, EmptySeq DEF WireTypes
<1>4. Len(<<>>) = 0 /\ DOMAIN <<>> = {}
  OBVIOUS
<1>5. PacketsAsSent
  BY <1>2, <1>4 DEF PacketsAsSent
<1>6. Answered(<<>>, <<>>)
  <2> DEFINE none == [i \in {} |-> 0]
  <2>1. Wanting(<<>>) = {} /\ Answering(<<>>) = {}
    BY <1>4 DEF Wanting, Answering
  <2>2. Matches(none, <<>>, <<>>)
    BY <2>1 DEF Matches
  <2>3. QED BY <2>2 DEF Answered
<1>7. QED BY <1>1, <1>2, <1>3, <1>5, <1>6 DEF WireInv, NothingLeft

\* A packet that the client got, and what it wrote at once.
LEMMA HandlesKeeps ==
    ASSUME WireInv, NEW p \in Packets, Handles(p)
    PROVE  /\ handled' = Append(handled, p)
           /\ WireTypes' /\ NothingLeft' /\ Answered(handled, found)'
<1>1. handled \in Seq(Packets) /\ wrote \in Seq(Sendable)
  BY DEF WireInv, WireTypes
<1>2. found = wrote /\ unread = <<>> /\ Answered(handled, wrote)
  BY DEF WireInv, NothingLeft
<1>3. handled' = Append(handled, p) /\ handled' \in Seq(Packets)
  BY <1>1, Longer DEF Handles
<1>4. CASE IsRequest(p)
  <2> DEFINE r == GenRes(p)
  <2>1. Writes(r)
    BY <1>4 DEF Handles
  <2>2. r \in Sendable /\ ~IsRequest(r) /\ Answers(r, p)
    BY <1>4, ResponseIs
  <2> HIDE DEF r
  <2>3. wrote' = Append(wrote, r) /\ found' = Append(found, r) /\ unread' = <<>>
    BY <1>2, <2>1, <2>2, WritesOne
  <2>4. wrote' \in Seq(Sendable)
    BY <1>1, <2>2, <2>3, Longer
  <2>5. Answered(Append(handled, p), Append(wrote, r))
    BY <1>1, <1>2, <1>4, <2>2, AnswerRequest
  <2>6. QED BY <1>2, <1>3, <2>3, <2>4, <2>5 DEF WireTypes, NothingLeft
<1>5. CASE ~IsRequest(p)
  <2>1. wrote' = wrote /\ found' = found /\ unread' = unread
    BY <1>5 DEF Handles, plcSide
  <2>2. Answered(Append(handled, p), wrote)
    BY <1>1, <1>2, <1>5, AnswerOther
  <2>3. QED BY <1>1, <1>2, <1>3, <2>1, <2>2 DEF WireTypes, NothingLeft
<1>6. QED BY <1>4, <1>5

LEMMA ReceiveKeeps == ASSUME WireInv, Receive PROVE WireInv'
<1>1. IInv /\ Segment
  BY DEF WireInv, Receive
<1>2. IInv'
  BY <1>1, CodecStep DEF Next
<1>3. /\ delivered \in Seq(Known \cup {Bogus}) /\ handled \in Seq(Packets)
      /\ Len(handled) = Len(delivered)
      /\ \A i \in DOMAIN delivered : delivered[i] # Bogus => handled[i] = Frames[delivered[i]]
  BY DEF WireInv, WireTypes, IInv, TypeOK, PacketsAsSent
<1>4. ASSUME NEW p \in Packets, handled' = Append(handled, p), NEW d \in Known \cup {Bogus},
             delivered' = Append(delivered, d), d # Bogus => p = Frames[d]
      PROVE  PacketsAsSent'
  <2>1. /\ Len(delivered) \in Nat /\ DOMAIN delivered = 1..Len(delivered)
        /\ DOMAIN delivered' = 1..(Len(delivered) + 1)
        /\ \A i \in 1..Len(delivered) : delivered'[i] = delivered[i]
        /\ delivered'[Len(delivered) + 1] = d
    BY <1>3, <1>4, AppendFacts
  <2>2. /\ Len(handled') = Len(handled) + 1
        /\ \A i \in 1..Len(handled) : handled'[i] = handled[i]
        /\ handled'[Len(handled) + 1] = p
    BY <1>3, <1>4, Longer
  <2>3. Len(delivered') = Len(delivered) + 1
    BY <1>3, <1>4, Longer
  <2>4. ASSUME NEW i \in DOMAIN delivered', delivered'[i] # Bogus
        PROVE  handled'[i] = Frames[delivered'[i]]
    <3>1. CASE i = Len(delivered) + 1
      BY <1>3, <1>4, <2>1, <2>2, <2>4, <3>1
    <3>2. CASE i # Len(delivered) + 1
      <4>1. i \in 1..Len(delivered)
        BY <2>1, <3>2
      <4>2. QED BY <1>3, <2>1, <2>2, <2>4, <4>1
    <3>3. QED BY <3>1, <3>2
  <2>5. QED BY <1>3, <2>2, <2>3, <2>4 DEF PacketsAsSent
<1>5. CASE delivered' = delivered /\ UNCHANGED wire
  BY <1>2, <1>5 DEF WireInv, WireTypes, PacketsAsSent, NothingLeft, wire, plcSide
<1>6. CASE delivered' # delivered /\ InStep /\ Handles(FromBuf(Buffered))
  <2>1. /\ taken + 1 \in Known /\ delivered' = Append(delivered, taken + 1)
        /\ FromBuf(Buffered) = Frames[taken + 1]
    BY <1>1, <1>6, SegmentHandsOn
  <2>2. Frames[taken + 1] \in Packets
    BY <2>1, WireAssumption DEF Sendable
  <2> DEFINE p == Frames[taken + 1]
  <2>3. /\ handled' = Append(handled, p)
        /\ WireTypes' /\ NothingLeft' /\ Answered(handled, found)'
    BY <1>6, <2>1, <2>2, HandlesKeeps
  <2>4. PacketsAsSent'
    BY <1>4, <2>1, <2>2, <2>3
  <2>5. QED BY <1>2, <2>3, <2>4 DEF WireInv
<1>7. ASSUME NEW p \in Misread, delivered' # delivered, ~InStep, Handles(p) PROVE WireInv'
  <2>1. delivered' = Append(delivered, Bogus)
    BY <1>1, <1>7, SegmentHandsOn
  <2>2. p \in Packets
    BY WireAssumption
  <2>3. /\ handled' = Append(handled, p)
        /\ WireTypes' /\ NothingLeft' /\ Answered(handled, found)'
    BY <1>7, <2>2, HandlesKeeps
  <2>4. PacketsAsSent'
    BY <1>4, <2>1, <2>2, <2>3
  <2>5. QED BY <1>2, <2>3, <2>4 DEF WireInv
<1>8. QED BY <1>5, <1>6, <1>7 DEF Receive

LEMMA RequestKeeps == ASSUME WireInv, Request PROVE WireInv'
<1>1. PICK r \in Requests : Writes(Asked(r))
  BY DEF Request
<1> DEFINE p == Asked(r)
<1>2. p \in Sendable /\ IsRequest(p)
  BY WireAssumption
<1>3. UNCHANGED <<vars, handled>>
  BY DEF Request
<1> HIDE DEF p
<1>4. handled \in Seq(Packets) /\ wrote \in Seq(Sendable)
  BY DEF WireInv, WireTypes
<1>5. found = wrote /\ unread = <<>> /\ Answered(handled, wrote)
  BY DEF WireInv, NothingLeft
<1>6. wrote' = Append(wrote, p) /\ found' = Append(found, p) /\ unread' = <<>>
  BY <1>1, <1>2, <1>5, WritesOne DEF p
<1>7. wrote' \in Seq(Sendable)
  BY <1>2, <1>4, <1>6, Longer
<1>8. Answered(handled, Append(wrote, p))
  BY <1>2, <1>4, <1>5, AnswerAsked
<1>9. IInv'
  BY <1>3, CodecStep DEF WireInv
<1>10. handled' = handled /\ delivered' = delivered
  BY <1>3 DEF vars
<1>11. PacketsAsSent'
  BY <1>10 DEF WireInv, PacketsAsSent
<1>12. QED BY <1>4, <1>5, <1>6, <1>7, <1>8, <1>9, <1>10, <1>11
           DEF WireInv, WireTypes, NothingLeft

LEMMA WireStep == WireInv /\ [WireNext]_wireVars => WireInv'
<1>1. ASSUME WireInv, PlcSends \/ UNCHANGED vars, UNCHANGED wire PROVE WireInv'
  <2>1. IInv'
    BY <1>1, CodecStep DEF WireInv, Next
  <2>2. delivered' = delivered
    BY <1>1 DEF PlcSends, vars
  <2>3. QED BY <1>1, <2>1, <2>2
            DEF WireInv, WireTypes, PacketsAsSent, NothingLeft, wire, plcSide
<1>2. QED BY <1>1, ReceiveKeeps, RequestKeeps DEF WireNext, wireVars

LEMMA Wires == WireSpec => []WireInv
BY WireStart, WireStep, PTL DEF WireSpec

\* Every behaviour of the connection with its bytes is one of the decoder, so that
\* what CodecTypeCorrect, FramesWholeInOrder, LockstepIsLossless and
\* CodecImplementsStream say holds of it.
THEOREM WireIsCodec == WireSpec => Spec
<1>1. WireInit => Init
  BY DEF WireInit
<1>2. QED BY <1>1, WireMoves, PTL DEF WireSpec, Spec

\* from_buf gives the AdsClient every packet as the PLC made it, for any commands
\* and data, from whatever segments the buffer was put together and however much
\* of the next frames it holds.
THEOREM PacketsReadAsSent == WireSpec => []PacketsAsSent
BY Wires, PTL DEF WireInv

\* The PLC finds in the bytes it gets exactly the packets the AdsClient wrote: each
\* length counts what follows it, and encode reserves no less than it puts.
THEOREM PlcFindsWhatIsWritten == WireSpec => []PlcFindsPackets
<1>1. WireInv => PlcFindsPackets
  <2> SUFFICES ASSUME WireInv PROVE PlcFindsPackets
    OBVIOUS
  <2>1. found = wrote /\ unread = <<>> /\ wrote \in Seq(Sendable)
    BY DEF WireInv, NothingLeft, WireTypes
  <2>2. ASSUME NEW i \in DOMAIN wrote PROVE Len(IntoBuf(wrote[i])) <= PacketSize(wrote[i])
    <3>1. wrote[i] \in Sendable
      BY <2>1, LenProperties, ElementOfSeq
    <3>2. QED BY <3>1, SizeReserved
  <2>3. QED BY <2>1, <2>2 DEF PlcFindsPackets
<1>2. QED BY <1>1, Wires, PTL

\* Every request of the PLC is answered once and in order, with its id, its
\* addresses turned around and the response of its command, whatever the
\* AdsClient asks in between and whatever it reads out of step.
THEOREM RequestsAreAnswered == WireSpec => []RequestsAnswered
<1>1. WireInv => RequestsAnswered
  <2> SUFFICES ASSUME WireInv PROVE RequestsAnswered
    OBVIOUS
  <2>1. PICK answer : Matches(answer, handled, found)
    BY DEF WireInv, Answered
  <2>2. handled \in Seq(Packets) /\ found \in Seq(Sendable)
    BY DEF WireInv, WireTypes, NothingLeft
  <2>3. DOMAIN handled = 1..Len(handled) /\ DOMAIN found = 1..Len(found)
    BY <2>2, LenProperties
  <2>4. /\ Wanting(handled) = {i \in DOMAIN handled : IsRequest(handled[i])}
        /\ Answering(found) = {j \in DOMAIN found : ~IsRequest(found[j])}
    BY <2>3 DEF Wanting, Answering
  <2>5. QED BY <2>1, <2>4 DEF Matches, RequestsAnswered
<1>2. QED BY <1>1, Wires, PTL
=============================================================================
