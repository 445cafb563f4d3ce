---------------------- MODULE AdsToWsMultiplexerProofs ----------------------
(***************************************************************************)
(* Proofs about AdsToWsMultiplexer: the two copies of a structure agree,   *)
(* the mirror is what the PLC will hold, and no change goes untold.        *)
(***************************************************************************)
EXTENDS AdsToWsMultiplexer, WellFoundedInduction, TLAPS

-----------------------------------------------------------------------------
\* The last of some positions.

LEMMA MaxExists ==
    ASSUME NEW n \in Nat, NEW D, D \subseteq 1..n, D # {}
    PROVE  \E x \in D : \A y \in D : x >= y
<1> DEFINE T == {n - d : d \in D}
<1>1. T \subseteq Nat /\ T # {}
  <2>1. \A d \in D : n - d \in Nat
    OBVIOUS
  <2>2. QED BY <2>1
<1> DEFINE R == {ss \in Nat \X Nat : ss[1] < ss[2]}
<1>2. IsWellFoundedOn(R, Nat)
  BY NatLessThanWellFounded DEF OpToRel
<1>3. PICK z \in T : \A y \in T : ~(<<y, z>> \in R)
  <2> HIDE DEF T, R
  <2>1. QED BY <1>1, <1>2, WFMin
<1>4. \A y \in T : ~(y < z)
  BY <1>1, <1>3
<1>5. PICK x \in D : z = n - x
  OBVIOUS
<1>6. \A y \in D : x >= y
  BY <1>4, <1>5
<1>7. QED BY <1>6

LEMMA MaxIs ==
    ASSUME NEW D, D \subseteq Nat, NEW x \in D, \A y \in D : x >= y
    PROVE  SX!Max(D) = x
<1>1. SX!Max(D) \in D /\ \A y \in D : SX!Max(D) >= y
  BY DEF SX!Max
<1>2. SX!Max(D) \in Nat /\ x \in Nat /\ SX!Max(D) >= x /\ x >= SX!Max(D)
  BY <1>1
<1>3. QED BY <1>2

LEMMA MaxOf ==
    ASSUME NEW n \in Nat, NEW D, D \subseteq 1..n, D # {}
    PROVE  SX!Max(D) \in D /\ \A y \in D : SX!Max(D) >= y
BY MaxExists DEF SX!Max

-----------------------------------------------------------------------------
\* Rows and patches.

LEMMA FieldsType == Ctr \in Fields /\ Fields \subseteq Nat /\ Size \in Nat /\ MaxValue \in Nat
BY MuxAssumption DEF Fields

LEMMA PatchOf ==
    ASSUME NEW f
    PROVE  f \in Patches <=> \E F \in SUBSET Fields : f \in [F -> Values]
BY DEF Patches

LEMMA PatchParts ==
    ASSUME NEW f \in Patches
    PROVE  DOMAIN f \subseteq Fields /\ \A c \in DOMAIN f : f[c] \in Values
BY DEF Patches

LEMMA NoDataType == NoData \in Patches
<1>1. NoData \in [{} -> Values] /\ {} \in SUBSET Fields
  BY DEF NoData
<1>2. QED BY <1>1, PatchOf

LEMMA RowIsPatch == ASSUME NEW row \in Rows PROVE row \in Patches /\ row # NoData
<1>1. row \in [Fields -> Values] /\ Fields \in SUBSET Fields /\ DOMAIN row = Fields
  BY DEF Rows
<1>2. DOMAIN NoData = {}
  BY DEF NoData
<1>3. row # NoData
  BY <1>1, <1>2, FieldsType
<1>4. QED BY <1>1, <1>3, PatchOf

LEMMA ApplyType ==
    ASSUME NEW row \in Rows, NEW f, \A c \in DOMAIN f : c \in Fields => f[c] \in Values
    PROVE  /\ Apply(row, f) \in Rows
           /\ \A c \in Fields : Apply(row, f)[c] = IF c \in DOMAIN f THEN f[c] ELSE row[c]
BY DEF Apply, Rows

LEMMA CodedType ==
    ASSUME NEW row \in Rows
    PROVE  /\ Encode(row) \in Rows /\ Decode(row) \in Rows
           /\ Encode(Encode(row)) = Encode(row) /\ Encode(Decode(row)) = Encode(row)
           /\ \A c \in Fields : /\ Encode(row)[c] = Clamped(row[c], Limit[c])
                                /\ Encode(row)[c] \in {row[c], Limit[c]}
<1>1. Limit \in [Fields -> Values] /\ row \in [Fields -> Values] /\ Values \subseteq Nat
  BY MuxAssumption DEF Rows, Values
<1>2. ASSUME NEW v \in Values, NEW l \in Values
      PROVE  /\ Clamped(v, l) \in Values /\ Clamped(v, l) \in {v, l}
             /\ Clamped(Clamped(v, l), l) = Clamped(v, l)
  <2>1. v \in Nat /\ l \in Nat
    BY <1>1
  <2>2. ~(l > l)
    BY <2>1
  <2>3. QED BY <2>2 DEF Clamped
<1>3. \A c \in Fields : row[c] \in Values /\ Limit[c] \in Values
  BY <1>1
<1>4. /\ Encode(row) \in Rows /\ Decode(row) \in Rows
      /\ \A c \in Fields : /\ Encode(row)[c] = Clamped(row[c], Limit[c])
                           /\ Decode(row)[c] = Clamped(row[c], Limit[c])
  BY <1>2, <1>3 DEF Encode, Decode, Rows
<1>5. Encode(Encode(row)) = Encode(row) /\ Encode(Decode(row)) = Encode(row)
  BY <1>2, <1>3, <1>4 DEF Encode
<1>6. QED BY <1>2, <1>3, <1>4, <1>5

\* The prefix that Mutation writes leaves no difference behind it.
LEMMA LastDifferenceParts ==
    ASSUME NEW old \in Rows, NEW new \in Rows
    PROVE  /\ LastDifference(old, new) \in 0..Size
           /\ \A c \in Fields : c > LastDifference(old, new) => old[c] = new[c]
<1> DEFINE D == {c \in Fields : old[c] # new[c]}
<1>1. D \subseteq 1..Size /\ Size \in Nat
  BY FieldsType DEF Fields
<1>2. LastDifference(old, new) = IF D = {} THEN Size ELSE SX!Max(D)
  BY DEF LastDifference
<1>3. CASE D = {}
  <2>1. LastDifference(old, new) = Size
    BY <1>2, <1>3
  <2>2. \A c \in Fields : old[c] = new[c]
    BY <1>3
  <2>3. QED BY <1>1, <2>1, <2>2
<1>4. CASE D # {}
  <2> DEFINE x == SX!Max(D)
  <2>1. x \in D /\ \A y \in D : x >= y
    <3> HIDE DEF D
    <3>1. QED BY <1>1, <1>4, MaxOf
  <2>2. LastDifference(old, new) = x
    BY <1>2, <1>4
  <2> HIDE DEF x
  <2>3. x \in 0..Size
    BY <1>1, <2>1
  <2>4. ASSUME NEW c \in Fields, c > x PROVE old[c] = new[c]
    <3>1. c \in Nat /\ x \in Nat /\ ~(x >= c)
      BY <2>3, <2>4, FieldsType
    <3>2. QED BY <2>1, <3>1
  <2>5. QED BY <2>2, <2>3, <2>4
<1>5. QED BY <1>3, <1>4

LEMMA PrefixType ==
    ASSUME NEW row \in Rows, NEW n \in 0..Size
    PROVE  /\ Prefix(row, n) \in Patches
           /\ \A c \in Fields : (c \in DOMAIN Prefix(row, n)) <=> ~(c > n)
           /\ \A c \in DOMAIN Prefix(row, n) : Prefix(row, n)[c] = row[c]
<1>1. 1..n \in SUBSET Fields /\ \A c \in Fields : (c \in 1..n) <=> ~(c > n)
  BY FieldsType DEF Fields
<1>2. Prefix(row, n) \in [1..n -> Values] /\ \A c \in 1..n : Prefix(row, n)[c] = row[c]
  BY <1>1 DEF Prefix, Rows
<1>3. QED BY <1>1, <1>2, PatchOf

\* What a mutation of one structure writes makes its bytes those of the JSON.
LEMMA MutationWriteParts ==
    ASSUME NEW s \in Writable, NEW values, mem[s] \in Rows, Merged(s, values) \in Rows
    PROVE  LET w == MutationWrite(s, values)
               bytes == Encode(Merged(s, values))
           IN  /\ w \in Request /\ w.kind = "write" /\ w.of = s /\ w.patch \in Patches
               /\ Apply(mem[s], w.patch) = bytes
               /\ \A c \in Fields : /\ c \in DOMAIN w.patch => w.patch[c] = bytes[c]
                                    /\ c \notin DOMAIN w.patch => mem[s][c] = bytes[c]
<1> DEFINE bytes == Encode(Merged(s, values))
           n == LastDifference(mem[s], bytes)
           patch == Prefix(bytes, n)
<1>1. bytes \in Rows
  BY CodedType
<1>2. MutationWrite(s, values) = Write(s, patch)
  BY DEF MutationWrite
<1> HIDE DEF bytes
<1>3. n \in 0..Size /\ \A c \in Fields : c > n => mem[s][c] = bytes[c]
  BY <1>1, LastDifferenceParts
<1> HIDE DEF n
<1>4. /\ patch \in Patches
      /\ \A c \in Fields : (c \in DOMAIN patch) <=> ~(c > n)
      /\ \A c \in DOMAIN patch : patch[c] = bytes[c]
  BY <1>1, <1>3, PrefixType
<1> HIDE DEF patch
<1>5. /\ Write(s, patch) \in Request /\ Write(s, patch).kind = "write" /\ Write(s, patch).of = s
      /\ Write(s, patch).patch = patch
  BY <1>4 DEF Write, Request
<1>6. \A c \in Fields : /\ c \in DOMAIN patch => patch[c] = bytes[c]
                        /\ c \notin DOMAIN patch => mem[s][c] = bytes[c]
  BY <1>3, <1>4
<1>7. Apply(mem[s], patch) = bytes
  BY <1>1, <1>6 DEF Apply, Rows
<1>8. QED BY <1>2, <1>4, <1>5, <1>6, <1>7 DEF bytes

-----------------------------------------------------------------------------
\* What a mutation that the process survives is made of.

LEMMA KeysApart ==
    /\ TO # FROM /\ TO # RETAIN /\ FROM # RETAIN /\ Structs = {FROM, TO, RETAIN}
    /\ KeyBefore(FROM, TO) /\ KeyBefore(FROM, RETAIN) /\ KeyBefore(TO, RETAIN)
<1>1. /\ KeyOrder[1] = FROM /\ KeyOrder[2] = TO /\ KeyOrder[3] = RETAIN
      /\ 1 \in DOMAIN KeyOrder /\ 2 \in DOMAIN KeyOrder /\ 3 \in DOMAIN KeyOrder
  BY DEF KeyOrder
<1>2. 1 < 2 /\ 1 < 3 /\ 2 < 3
  OBVIOUS
<1>3. KeyBefore(FROM, TO) /\ KeyBefore(FROM, RETAIN) /\ KeyBefore(TO, RETAIN)
  BY <1>1, <1>2 DEF KeyBefore
<1>4. QED BY <1>3 DEF TO, FROM, RETAIN, Structs

LEMMA FaultFirst ==
    ASSUME NEW m \in Mutations, FirstFault(m) = "none"
    PROVE  \A s \in DOMAIN m : MutationFault(s, m[s]) = "none"
<1> DEFINE Faulty == {s \in DOMAIN m : MutationFault(s, m[s]) # "none"}
           first == CHOOSE s \in Faulty : \A t \in Faulty \ {s} : KeyBefore(s, t)
<1>1. Faulty \subseteq {FROM, TO, RETAIN}
  BY KeysApart, MuxAssumption
<1>2. FirstFault(m) = IF Faulty = {} THEN "none" ELSE MutationFault(first, m[first])
  BY DEF FirstFault
<1>3. Faulty = {}
  <2> SUFFICES ASSUME Faulty # {} PROVE FALSE
    OBVIOUS
  <2>1. \E s \in Faulty : \A t \in Faulty \ {s} : KeyBefore(s, t)
    <3> HIDE DEF Faulty
    <3>1. CASE FROM \in Faulty
      BY <1>1, <3>1, KeysApart
    <3>2. CASE FROM \notin Faulty /\ TO \in Faulty
      BY <1>1, <3>2, KeysApart
    <3>3. CASE FROM \notin Faulty /\ TO \notin Faulty
      BY <1>1, <3>3
    <3>4. QED BY <3>1, <3>2, <3>3
  <2>2. first \in Faulty
    <3> HIDE DEF Faulty
    <3>1. QED BY <2>1
  <2>3. MutationFault(first, m[first]) # "none"
    <3> HIDE DEF first
    <3>1. QED BY <2>2
  <2>4. QED BY <1>2, <2>3
<1>4. QED BY <1>3

LEMMA MutationSafe ==
    ASSUME NEW m \in Mutations, FirstFault(m) = "none"
    PROVE  /\ DOMAIN m \subseteq Writable
           /\ \A s \in DOMAIN m : ~TagFault(s, TRUE) /\ \A c \in DOMAIN m[s] : m[s][c] \in Values
<1> SUFFICES ASSUME NEW s \in DOMAIN m
             PROVE  s \in Writable /\ ~TagFault(s, TRUE) /\ \A c \in DOMAIN m[s] : m[s][c] \in Values
  OBVIOUS
<1>1. MutationFault(s, m[s]) = "none"
  BY FaultFirst
<1>2. s \in Writable /\ ~TagFault(s, TRUE) /\ \A c \in DOMAIN m[s] : m[s][c] # Mistyped
  BY <1>1 DEF MutationFault
<1>3. \A c \in DOMAIN m[s] : m[s][c] \in Values \cup {Mistyped}
  BY MuxAssumption
<1>4. QED BY <1>2, <1>3

LEMMA MergedType ==
    ASSUME NEW s \in Structs, NEW values, \A c \in DOMAIN values : values[c] \in Values,
           data \in [Structs -> Rows]
    PROVE  /\ Merged(s, values) \in Rows
           /\ \A c \in Fields : c \notin DOMAIN values => Merged(s, values)[c] = data[s][c]
BY ApplyType DEF Merged

\* The writes of a mutation, one for each structure it names.
LEMMA MutationWritesParts ==
    ASSUME NEW m
    PROVE  /\ TO \in DOMAIN m /\ RETAIN \notin DOMAIN m =>
                 MutationWrites(m) = <<MutationWrite(TO, m[TO])>>
           /\ TO \notin DOMAIN m /\ RETAIN \in DOMAIN m =>
                 MutationWrites(m) = <<MutationWrite(RETAIN, m[RETAIN])>>
           /\ TO \in DOMAIN m /\ RETAIN \in DOMAIN m =>
                 MutationWrites(m) =
                    <<MutationWrite(TO, m[TO]), MutationWrite(RETAIN, m[RETAIN])>>
           /\ TO \notin DOMAIN m /\ RETAIN \notin DOMAIN m => MutationWrites(m) = <<>>
<1> DEFINE x == MutationWrite(TO, m[TO])
           y == MutationWrite(RETAIN, m[RETAIN])
<1>1. MutationWrites(m) = (IF TO \in DOMAIN m THEN <<x>> ELSE <<>>)
                             \o (IF RETAIN \in DOMAIN m THEN <<y>> ELSE <<>>)
  BY DEF MutationWrites
<1>2. ASSUME NEW u, NEW v PROVE <<u>> \o <<v>> = <<u, v>>
  <2> DEFINE z == <<u>> \o <<v>>
  <2>1. <<u>> \in Seq({u, v}) /\ <<v>> \in Seq({u, v}) /\ Len(<<u>>) = 1 /\ Len(<<v>>) = 1
    BY ONLY TRUE
  <2>2. z \in Seq({u, v}) /\ Len(z) = 2 /\ z[1] = u /\ z[2] = v
    BY ONLY <2>1
  <2>3. z = [i \in 1..2 |-> z[i]]
    <3> HIDE DEF z
    <3>1. QED BY ONLY <2>2
  <2>4. z = [i \in 1..2 |-> IF i = 1 THEN u ELSE v]
    <3> HIDE DEF z
    <3>1. \A i \in 1..2 : z[i] = IF i = 1 THEN u ELSE v
      BY ONLY <2>2
    <3>2. QED BY ONLY <2>3, <3>1
  <2>5. <<u, v>> = [i \in 1..2 |-> IF i = 1 THEN u ELSE v]
    BY ONLY TRUE
  <2>6. QED BY ONLY <2>4, <2>5
<1>3. \A u : <<u>> \o <<>> = <<u>> /\ <<>> \o <<u>> = <<u>> /\ <<>> \o <<>> = <<>>
  BY ONLY TRUE
<1> HIDE DEF x, y
<1>4. /\ TO \in DOMAIN m /\ RETAIN \notin DOMAIN m => MutationWrites(m) = <<x>>
      /\ TO \notin DOMAIN m /\ RETAIN \in DOMAIN m => MutationWrites(m) = <<y>>
      /\ TO \in DOMAIN m /\ RETAIN \in DOMAIN m => MutationWrites(m) = <<x, y>>
      /\ TO \notin DOMAIN m /\ RETAIN \notin DOMAIN m => MutationWrites(m) = <<>>
  BY <1>1, <1>2, <1>3
<1>5. QED BY <1>4 DEF x, y

-----------------------------------------------------------------------------
\* The types.

\* A session subscribes once it is open.
OpenedFirst == \A a \in Clients : session[a] = "new" => a \notin DOMAIN subscription_map
MuxTypeInv == TypeOK /\ OpenedFirst

LEMMA NotifyParts ==
    ASSUME NEW S, NEW new, NEW inner, Notify(S, new, inner)
    PROVE  \A a \in Clients, s \in Structs, c \in Fields :
              told[a][s] \in [Fields -> Values \cup {Untold}] =>
              told'[a][s][c] = IF /\ a \in DOMAIN subscription_map /\ session[a] = "open" /\ s \in S
                                  /\ c \in ToldFields(a, s, data[s], new[s], inner)
                               THEN new[s][c] ELSE told[a][s][c]
BY DEF Notify

LEMMA NotifyType ==
    ASSUME SessionTypeOK, NEW S, NEW new \in [Structs -> Rows], NEW inner, Notify(S, new, inner)
    PROVE  told' \in [Clients -> [Structs -> [Fields -> Values \cup {Untold}]]]
<1>1. /\ told \in [Clients -> [Structs -> [Fields -> Values \cup {Untold}]]]
      /\ \A s \in Structs : \A c \in Fields : new[s][c] \in Values
  BY DEF SessionTypeOK, Rows
<1>2. DOMAIN told' = Clients
  BY DEF Notify
<1>3. ASSUME NEW a \in Clients
      PROVE  told'[a] \in [Structs -> [Fields -> Values \cup {Untold}]]
  BY <1>1 DEF Notify
<1>4. told' = [a \in Clients |-> told'[a]]
  BY DEF Notify
<1>5. QED BY <1>3, <1>4

LEMMA OvertakeType ==
    ASSUME JobTypeOK, NEW S, Overtake(S)
    PROVE  overtaken' \in [Jobs -> SUBSET Writable]
BY DEF JobTypeOK, Overtake

LEMMA SendType ==
    ASSUME pipe \in Seq(Request), NEW requests \in Seq(Request), pipe' = Send(requests)
    PROVE  pipe' \in Seq(Request)
BY DEF Send

LEMMA MuxTypeInit == Init => MuxTypeInv
<1> SUFFICES ASSUME Init PROVE MuxTypeInv
  OBVIOUS
<1>1. Zero \in Rows /\ Decode(Zero) \in Rows
  <2>1. Zero \in Rows
    BY FieldsType DEF Zero, Rows, Values
  <2>2. QED BY <2>1, CodedType
<1>2. MemoryTypeOK
  <2>1. PlcRows \subseteq Rows /\ MaxCount \in Nat /\ 0 \in 0..MaxCount
    BY MuxAssumption
  <2>2. QED BY <1>1, <2>1 DEF Init, MemoryTypeOK
<1>3. SessionTypeOK /\ OpenedFirst
  BY DEF Init, SessionTypeOK, OpenedFirst
<1>4. JobTypeOK
  BY NoDataType DEF Init, JobTypeOK
<1>5. pipe \in Seq(Request)
  <2>1. Read(TO, TO) \in Request /\ Read(RETAIN, RETAIN) \in Request
    BY DEF Read, Request, Jobs, Writable
  <2>2. QED BY <2>1 DEF Init
<1>6. /\ status = "running" /\ clientUp = TRUE /\ suspect = Writable /\ behind = Fields /\ lost = {}
      /\ channel = <<>> /\ Buffer \in Nat
  BY MuxAssumption DEF Init
<1>7. channel \in Seq(PlcPushes) /\ Len(channel) <= ChannelCap
  BY <1>6 DEF ChannelCap
<1>8. QED BY <1>2, <1>3, <1>4, <1>5, <1>6, <1>7 DEF MuxTypeInv, TypeOK

LEMMA PanicType == ASSUME MuxTypeInv, NEW site, Panic(site) PROVE MuxTypeInv'
BY DEF MuxTypeInv, TypeOK, OpenedFirst, MemoryTypeOK, SessionTypeOK, JobTypeOK, Panic, memory,
       sessions, jobs, history

\* The parts that a step may leave alone.
LEMMA MemoryKept == ASSUME MuxTypeInv, UNCHANGED <<memory, plc>> PROVE MemoryTypeOK'
BY DEF MuxTypeInv, TypeOK, MemoryTypeOK, memory

LEMMA SessionsKept ==
    ASSUME MuxTypeInv, UNCHANGED sessions,
           told' \in [Clients -> [Structs -> [Fields -> Values \cup {Untold}]]]
    PROVE  SessionTypeOK' /\ OpenedFirst'
BY DEF MuxTypeInv, TypeOK, SessionTypeOK, OpenedFirst, sessions

LEMMA ToldType ==
    ASSUME MuxTypeInv PROVE told \in [Clients -> [Structs -> [Fields -> Values \cup {Untold}]]]
BY DEF MuxTypeInv, TypeOK, SessionTypeOK

LEMMA JobsKept ==
    ASSUME MuxTypeInv, UNCHANGED jobs, overtaken' \in [Jobs -> SUBSET Writable]
    PROVE  JobTypeOK'
BY DEF MuxTypeInv, TypeOK, JobTypeOK, jobs

\* The memory after a mutation: the JSON is merged, the bytes are those of it.
LEMMA MutationMemory ==
    ASSUME MuxTypeInv, NEW m \in Mutations, Mutation(m), FirstFault(m) = "none"
    PROVE  /\ DOMAIN m \subseteq Writable
           /\ \A s \in DOMAIN m : /\ Merged(s, m[s]) \in Rows
                                  /\ data'[s] = Merged(s, m[s])
                                  /\ mem'[s] = Encode(Merged(s, m[s]))
           /\ \A s \in Structs \ DOMAIN m : data'[s] = data[s] /\ mem'[s] = mem[s]
           /\ data' \in [Structs -> Rows] /\ mem' \in [Structs -> Rows]
<1>1. mem \in [Structs -> Rows] /\ data \in [Structs -> Rows]
  BY DEF MuxTypeInv, TypeOK, MemoryTypeOK
<1>2. /\ data' = [s \in Structs |-> IF s \in DOMAIN m THEN Merged(s, m[s]) ELSE data[s]]
      /\ mem' = [s \in Structs |-> IF s \in DOMAIN m
                                   THEN Apply(mem[s], MutationWrite(s, m[s]).patch)
                                   ELSE mem[s]]
  BY DEF Mutation
<1>3. DOMAIN m \subseteq Writable /\ Writable \subseteq Structs
  BY MutationSafe DEF Writable, Structs
<1>4. ASSUME NEW s \in DOMAIN m
      PROVE  /\ Merged(s, m[s]) \in Rows
             /\ Apply(mem[s], MutationWrite(s, m[s]).patch) = Encode(Merged(s, m[s]))
             /\ Encode(Merged(s, m[s])) \in Rows
  <2>1. \A c \in DOMAIN m[s] : m[s][c] \in Values
    BY MutationSafe
  <2>2. s \in Writable /\ s \in Structs
    BY <1>3
  <2>3. Merged(s, m[s]) \in Rows
    BY <1>1, <2>1, <2>2, MergedType
  <2>4. mem[s] \in Rows
    BY <1>1, <2>2
  <2>5. QED BY <2>2, <2>3, <2>4, MutationWriteParts, CodedType
<1>5. QED BY <1>1, <1>2, <1>3, <1>4

\* The writes of a mutation: one for each structure it names.
LEMMA MutationRequests ==
    ASSUME MuxTypeInv, NEW m \in Mutations, Mutation(m), FirstFault(m) = "none"
    PROVE  /\ MutationWrites(m) \in Seq(Request)
           /\ \A i \in DOMAIN MutationWrites(m) :
                 /\ MutationWrites(m)[i].of \in DOMAIN m
                 /\ MutationWrites(m)[i] = MutationWrite(MutationWrites(m)[i].of,
                                                         m[MutationWrites(m)[i].of])
           /\ \A s \in DOMAIN m : \E i \in DOMAIN MutationWrites(m) :
                 \A k \in DOMAIN MutationWrites(m) : MutationWrites(m)[k].of = s <=> k = i
<1> DEFINE x == MutationWrite(TO, m[TO])
           y == MutationWrite(RETAIN, m[RETAIN])
           W == MutationWrites(m)
<1>1. DOMAIN m \subseteq {TO, RETAIN} /\ TO # RETAIN
  BY MutationMemory, KeysApart DEF Writable
<1>2. \A s \in DOMAIN m : MutationWrite(s, m[s]) \in Request /\ MutationWrite(s, m[s]).of = s
  <2> SUFFICES ASSUME NEW s \in DOMAIN m
               PROVE  MutationWrite(s, m[s]) \in Request /\ MutationWrite(s, m[s]).of = s
    OBVIOUS
  <2>1. s \in Writable /\ Merged(s, m[s]) \in Rows
    BY MutationMemory
  <2>2. mem[s] \in Rows
    BY <2>1 DEF MuxTypeInv, TypeOK, MemoryTypeOK, Writable, Structs
  <2>3. QED BY <2>1, <2>2, MutationWriteParts
<1>3. /\ TO \in DOMAIN m => x \in Request /\ x.of = TO
      /\ RETAIN \in DOMAIN m => y \in Request /\ y.of = RETAIN
  BY <1>2
<1>4. /\ TO \in DOMAIN m /\ RETAIN \notin DOMAIN m => W = <<x>>
      /\ TO \notin DOMAIN m /\ RETAIN \in DOMAIN m => W = <<y>>
      /\ TO \in DOMAIN m /\ RETAIN \in DOMAIN m => W = <<x, y>>
      /\ TO \notin DOMAIN m /\ RETAIN \notin DOMAIN m => W = <<>>
  BY MutationWritesParts
<1>5. /\ W \in Seq(Request)
      /\ \A i \in DOMAIN W : \/ W[i].of = TO /\ W[i] = x /\ TO \in DOMAIN m
                             \/ W[i].of = RETAIN /\ W[i] = y /\ RETAIN \in DOMAIN m
  <2> HIDE DEF x, y, W
  <2>1. CASE TO \in DOMAIN m /\ RETAIN \notin DOMAIN m
    <3>1. W = <<x>> /\ x.of = TO /\ x \in Request
      BY <1>3, <1>4, <2>1
    <3>2. QED BY <3>1, <2>1
  <2>2. CASE TO \notin DOMAIN m /\ RETAIN \in DOMAIN m
    <3>1. W = <<y>> /\ y.of = RETAIN /\ y \in Request
      BY <1>3, <1>4, <2>2
    <3>2. QED BY <3>1, <2>2
  <2>3. CASE TO \in DOMAIN m /\ RETAIN \in DOMAIN m
    <3>1. W = <<x, y>> /\ x.of = TO /\ y.of = RETAIN /\ x \in Request /\ y \in Request
      BY <1>3, <1>4, <2>3
    <3>2. QED BY <3>1, <2>3
  <2>4. CASE TO \notin DOMAIN m /\ RETAIN \notin DOMAIN m
    BY <1>4, <2>4
  <2>5. QED BY <2>1, <2>2, <2>3, <2>4
<1>7. ASSUME NEW s \in DOMAIN m
      PROVE  \E i \in DOMAIN W : \A k \in DOMAIN W : W[k].of = s <=> k = i
  <2> SUFFICES \E i \in DOMAIN W : \A k \in DOMAIN W : W[k].of = s <=> k = i
    OBVIOUS
  <2> HIDE DEF x, y, W
  <2>1. CASE TO \in DOMAIN m /\ RETAIN \notin DOMAIN m
    <3>1. W = <<x>> /\ x.of = s
      BY <1>1, <1>3, <1>4, <2>1
    <3>2. QED BY <3>1
  <2>2. CASE TO \notin DOMAIN m /\ RETAIN \in DOMAIN m
    <3>1. W = <<y>> /\ y.of = s
      BY <1>1, <1>3, <1>4, <2>2
    <3>2. QED BY <3>1
  <2>3. CASE TO \in DOMAIN m /\ RETAIN \in DOMAIN m
    <3>1. W = <<x, y>> /\ x.of = TO /\ y.of = RETAIN /\ s \in {TO, RETAIN} /\ TO # RETAIN
      BY <1>1, <1>3, <1>4, <2>3
    <3>2. 1 \in DOMAIN W /\ 2 \in DOMAIN W /\ W[1] = x /\ W[2] = y /\ DOMAIN W = {1, 2}
      BY <3>1
    <3>3. QED BY <3>1, <3>2
  <2>4. QED BY <1>1, <2>1, <2>2, <2>3
<1>8. QED BY <1>5, <1>7 DEF W, x, y

LEMMA MuxTypeParts ==
    ASSUME MuxTypeInv
    PROVE  /\ mem \in [Structs -> Rows] /\ data \in [Structs -> Rows] /\ plc \in [Structs -> Rows]
           /\ wanted \in [Jobs -> SUBSET Writable] /\ arrived \in [Jobs -> SUBSET Writable]
           /\ sample \in [Jobs -> [Structs -> Patches]]
           /\ overtaken \in [Jobs -> SUBSET Writable]
           /\ pipe \in Seq(Request) /\ channel \in Seq(PlcPushes) /\ Len(channel) <= ChannelCap
           /\ suspect \subseteq Writable /\ clientUp \in BOOLEAN
           /\ count \in 0..MaxCount
BY DEF MuxTypeInv, TypeOK, MemoryTypeOK, JobTypeOK

LEMMA WritableStructs == TO \in Writable /\ Writable \subseteq Structs /\ FROM \in Structs \ Writable
BY KeysApart DEF Writable

LEMMA SessionStepType ==
    ASSUME MuxTypeInv, NEW a \in Clients, Session(a)
    PROVE  MuxTypeInv'
<1>1. /\ SessionTypeOK /\ OpenedFirst /\ TypeOK
  BY DEF MuxTypeInv, TypeOK
<1>2. ASSUME Register(a) \/ Unregister(a) PROVE MuxTypeInv'
  <2>1. /\ ws_clients' \in {ws_clients \cup {a}, ws_clients \ {a}}
        /\ session' \in {[session EXCEPT ![a] = "open"], [session EXCEPT ![a] = "closed"]}
        /\ UNCHANGED <<status, fault, memory, subscription_map, told, jobs, clientUp, pipe,
                       channel, plc, history>>
    BY <1>2 DEF Register, Unregister
  <2>2. SessionTypeOK' /\ OpenedFirst'
    BY <1>1, <2>1 DEF SessionTypeOK, OpenedFirst
  <2>3. QED BY <1>1, <2>1, <2>2 DEF MuxTypeInv, TypeOK, MemoryTypeOK, JobTypeOK, memory, jobs,
                                    history
<1>3. ASSUME NEW s \in Schemas, Subscription(a, s) PROVE MuxTypeInv'
  <2>1. CASE Panic("merge_schemas")
    BY <2>1, PanicType
  <2>2. CASE ~Panic("merge_schemas")
    <3>1. /\ session[a] = "open"
          /\ DOMAIN subscription_map' = DOMAIN subscription_map \cup {a}
          /\ told' = [told EXCEPT ![a] = [t \in Structs |-> [c \in Fields |-> Untold]]]
          /\ UNCHANGED <<status, fault, memory, ws_clients, session, jobs, clientUp, pipe,
                         channel, plc, history>>
      BY <1>3, <2>2 DEF Subscription
    <3>2. SessionTypeOK' /\ OpenedFirst'
      BY <1>1, <3>1 DEF SessionTypeOK, OpenedFirst
    <3>3. QED BY <1>1, <3>1, <3>2 DEF MuxTypeInv, TypeOK, MemoryTypeOK, JobTypeOK, memory, jobs,
                                      history
  <2>3. QED BY <2>1, <2>2
<1>4. QED BY <1>2, <1>3 DEF Session

LEMMA MutationType ==
    ASSUME MuxTypeInv, NEW m \in Mutations, Mutation(m)
    PROVE  MuxTypeInv'
<1>1. CASE FirstFault(m) # "none"
  BY <1>1, PanicType DEF Mutation
<1>2. CASE FirstFault(m) = "none"
  <2>1. /\ Notify(DOMAIN m, data', TRUE)
        /\ pipe' = Send(MutationWrites(m))
        /\ Overtake(DOMAIN m)
        /\ UNCHANGED <<status, fault, count, sessions, jobs, clientUp, channel, plc, suspect,
                       behind, lost>>
    BY <1>2 DEF Mutation
  <2>2. data' \in [Structs -> Rows] /\ mem' \in [Structs -> Rows]
    BY <1>2, MutationMemory
  <2>3. pipe' \in Seq(Request)
    BY <1>2, <2>1, MutationRequests, MuxTypeParts, SendType
  <2>4. told' \in [Clients -> [Structs -> [Fields -> Values \cup {Untold}]]]
    BY <2>1, <2>2, NotifyType DEF MuxTypeInv, TypeOK
  <2>5. SessionTypeOK' /\ OpenedFirst'
    BY <2>1, <2>4, SessionsKept
  <2>6. JobTypeOK'
    BY <2>1, OvertakeType, JobsKept DEF MuxTypeInv, TypeOK
  <2>7. MemoryTypeOK'
    BY <2>1, <2>2, MuxTypeParts DEF MemoryTypeOK
  <2>8. QED BY <2>1, <2>3, <2>5, <2>6, <2>7 DEF MuxTypeInv, TypeOK
<1>3. QED BY <1>1, <1>2

\* The reads of a Resolve, one for each structure it names.
LEMMA ResolveReads ==
    ASSUME NEW a \in Clients, NEW names \in Resolves, \A i \in DOMAIN names : names[i] \in Writable
    PROVE  LET R == [i \in DOMAIN names |-> Read(a, names[i])]
           IN  /\ R \in Seq(Request) /\ DOMAIN R = DOMAIN names
               /\ \A i \in DOMAIN R : R[i] = Read(a, names[i]) /\ R[i].kind = "read"
                                      /\ R[i].job = a /\ R[i].of = names[i]
<1>1. names \in Seq(Structs)
  BY MuxAssumption
<1>2. \A i \in DOMAIN names : Read(a, names[i]) \in Request
  BY DEF Read, Request, Jobs
<1>3. QED BY <1>1, <1>2 DEF Read

LEMMA ResolveType ==
    ASSUME MuxTypeInv, NEW a \in Clients, NEW names \in Resolves, Resolve(a, names)
    PROVE  MuxTypeInv'
<1>1. CASE \E i \in DOMAIN names : names[i] \notin Writable
  BY <1>1, PanicType DEF Resolve
<1>2. CASE \A i \in DOMAIN names : names[i] \in Writable
  <2>1. /\ wanted' = [wanted EXCEPT ![a] = {names[i] : i \in DOMAIN names}]
        /\ pipe' = Send([i \in DOMAIN names |-> Read(a, names[i])])
        /\ UNCHANGED <<status, fault, memory, sessions, told, arrived, sample, clientUp,
                       channel, plc, history>>
    BY <1>2 DEF Resolve
  <2>2. pipe' \in Seq(Request)
    BY <1>2, <2>1, ResolveReads, MuxTypeParts, SendType
  <2>3. {names[i] : i \in DOMAIN names} \in SUBSET Writable
    BY <1>2
  <2>4. wanted' \in [Jobs -> SUBSET Writable]
    BY <2>1, <2>3, MuxTypeParts
  <2>5. JobTypeOK'
    BY <2>1, <2>4 DEF MuxTypeInv, TypeOK, JobTypeOK, history
  <2>6. SessionTypeOK' /\ OpenedFirst'
    BY <2>1, ToldType, SessionsKept
  <2>7. MemoryTypeOK'
    BY <2>1, MemoryKept
  <2>8. QED BY <2>1, <2>2, <2>5, <2>6, <2>7 DEF MuxTypeInv, TypeOK, history
<1>3. QED BY <1>1, <1>2

\* What FinishJob copies, a structure for each that the job wanted.
LEMMA FinishMemory ==
    ASSUME MuxTypeInv, NEW j \in Jobs, FinishJob(j), ~\E s \in wanted[j] : TagFault(s, FALSE)
    PROVE  /\ \A s \in wanted[j] : /\ Loaded(j, s) \in Rows /\ mem'[s] = Loaded(j, s)
                                   /\ data'[s] = Decode(Loaded(j, s))
           /\ \A s \in Structs \ wanted[j] : data'[s] = data[s] /\ mem'[s] = mem[s]
           /\ data' \in [Structs -> Rows] /\ mem' \in [Structs -> Rows]
<1>1. mem \in [Structs -> Rows] /\ data \in [Structs -> Rows]
  BY MuxTypeParts
<1>2. /\ mem' = [s \in Structs |-> IF s \in wanted[j] THEN Loaded(j, s) ELSE mem[s]]
      /\ data' = [s \in Structs |-> IF s \in wanted[j] THEN Decode(Loaded(j, s)) ELSE data[s]]
  BY DEF FinishJob
<1>3. wanted[j] \subseteq Structs
  BY MuxTypeParts, WritableStructs
<1>4. ASSUME NEW s \in wanted[j] PROVE Loaded(j, s) \in Rows /\ Decode(Loaded(j, s)) \in Rows
  <2>1. sample[j][s] \in Patches
    BY <1>3, MuxTypeParts
  <2>2. Loaded(j, s) \in Rows
    BY <1>1, <1>3, <2>1, PatchParts, ApplyType DEF Loaded
  <2>3. QED BY <2>2, CodedType
<1>5. QED BY <1>1, <1>2, <1>3, <1>4

\* A job that ends, answered or not, forgets what it wanted.
LEMMA JobEnds ==
    ASSUME MuxTypeInv, NEW j \in Jobs,
           wanted' = [wanted EXCEPT ![j] = {}], arrived' = [arrived EXCEPT ![j] = {}],
           sample' = [sample EXCEPT ![j] = [s \in Structs |-> NoData]],
           overtaken' = [overtaken EXCEPT ![j] = {}]
    PROVE  JobTypeOK'
<1>1. [s \in Structs |-> NoData] \in [Structs -> Patches]
  BY NoDataType
<1>2. QED BY <1>1, MuxTypeParts DEF JobTypeOK

LEMMA FinishJobType ==
    ASSUME MuxTypeInv, NEW j \in Jobs, FinishJob(j)
    PROVE  MuxTypeInv'
<1>1. CASE \E s \in wanted[j] : TagFault(s, FALSE)
  BY <1>1, PanicType DEF FinishJob
<1>2. CASE ~\E s \in wanted[j] : TagFault(s, FALSE)
  <2>1. /\ Notify(wanted[j], data', FALSE)
        /\ suspect' = {s \in Structs : IF s \in wanted[j] /\ sample[j][s] # NoData
                                       THEN s \in overtaken[j] ELSE s \in suspect}
        /\ wanted' = [wanted EXCEPT ![j] = {}]
        /\ arrived' = [arrived EXCEPT ![j] = {}]
        /\ sample' = [sample EXCEPT ![j] = [s \in Structs |-> NoData]]
        /\ overtaken' = [overtaken EXCEPT ![j] = {}]
        /\ UNCHANGED <<status, fault, count, sessions, clientUp, pipe, channel, plc, behind, lost>>
    BY <1>2 DEF FinishJob
  <2>2. data' \in [Structs -> Rows] /\ mem' \in [Structs -> Rows]
    BY <1>2, FinishMemory
  <2>3. told' \in [Clients -> [Structs -> [Fields -> Values \cup {Untold}]]]
    BY <2>1, <2>2, NotifyType DEF MuxTypeInv, TypeOK
  <2>4. SessionTypeOK' /\ OpenedFirst'
    BY <2>1, <2>3, SessionsKept
  <2>5. JobTypeOK'
    BY <2>1, JobEnds
  <2>6. MemoryTypeOK'
    BY <2>1, <2>2, MuxTypeParts DEF MemoryTypeOK
  <2>7. suspect' \subseteq Writable
    BY <2>1, MuxTypeParts
  <2>8. QED BY <2>1, <2>4, <2>5, <2>6, <2>7 DEF MuxTypeInv, TypeOK
<1>3. QED BY <1>1, <1>2

LEMMA JobFailsType ==
    ASSUME MuxTypeInv, NEW j \in Jobs, JobFails(j)
    PROVE  MuxTypeInv'
<1>1. CASE Panic("handle_request")
  BY <1>1, PanicType
<1>2. CASE ~Panic("handle_request")
  <2>1. /\ wanted' = [wanted EXCEPT ![j] = {}]
        /\ arrived' = [arrived EXCEPT ![j] = {}]
        /\ sample' = [sample EXCEPT ![j] = [s \in Structs |-> NoData]]
        /\ overtaken' = [overtaken EXCEPT ![j] = {}]
        /\ lost' = lost \ {j}
        /\ UNCHANGED <<status, fault, memory, sessions, told, clientUp, pipe, channel, plc,
                       suspect, behind>>
    BY <1>2 DEF JobFails
  <2>2. JobTypeOK'
    BY <2>1, JobEnds
  <2>3. SessionTypeOK' /\ OpenedFirst'
    BY <2>1, ToldType, SessionsKept
  <2>4. MemoryTypeOK'
    BY <2>1, MemoryKept
  <2>5. QED BY <2>1, <2>2, <2>3, <2>4 DEF MuxTypeInv, TypeOK
<1>3. QED BY <1>1, <1>2

LEMMA HeartBeatMemory ==
    ASSUME MuxTypeInv, HeartBeat, ~TagFault(TO, FALSE)
    PROVE  /\ count \in Values /\ count' \in 0..MaxCount
           /\ mem'[TO] = [mem[TO] EXCEPT ![Ctr] = count] /\ data'[TO] = Decode(mem'[TO])
           /\ \A s \in Structs \ {TO} : data'[s] = data[s] /\ mem'[s] = mem[s]
           /\ data' \in [Structs -> Rows] /\ mem' \in [Structs -> Rows]
           /\ [c \in {Ctr} |-> count] \in Patches
           /\ Write(TO, [c \in {Ctr} |-> count]) \in Request
<1>1. /\ count' = count + 1 /\ count < MaxCount
      /\ mem' = [mem EXCEPT ![TO][Ctr] = count]
      /\ data' = [data EXCEPT ![TO] = Decode(mem'[TO])]
  BY DEF HeartBeat
<1>2. mem \in [Structs -> Rows] /\ data \in [Structs -> Rows] /\ count \in 0..MaxCount
  BY MuxTypeParts
<1>3. MaxCount \in 0..MaxValue /\ MaxValue \in Nat /\ Ctr \in Fields
  BY MuxAssumption
<1>4. count \in Values /\ count' \in 0..MaxCount
  BY <1>1, <1>2, <1>3 DEF Values
<1>5. TO \in Structs
  BY WritableStructs
<1>6. mem'[TO] = [mem[TO] EXCEPT ![Ctr] = count] /\ mem'[TO] \in Rows
  BY <1>1, <1>2, <1>3, <1>4, <1>5 DEF Rows
<1>7. mem' \in [Structs -> Rows] /\ \A s \in Structs \ {TO} : mem'[s] = mem[s]
  BY <1>1, <1>2, <1>5, <1>6
<1>8. Decode(mem'[TO]) \in Rows
  BY <1>6, CodedType
<1>9. /\ data' \in [Structs -> Rows] /\ data'[TO] = Decode(mem'[TO])
      /\ \A s \in Structs \ {TO} : data'[s] = data[s]
  BY <1>1, <1>2, <1>5, <1>8
<1>10. [c \in {Ctr} |-> count] \in [{Ctr} -> Values] /\ {Ctr} \in SUBSET Fields
  BY <1>3, <1>4
<1>11. [c \in {Ctr} |-> count] \in Patches
  BY <1>10, PatchOf
<1>12. Write(TO, [c \in {Ctr} |-> count]) \in Request
  BY <1>11, WritableStructs DEF Write, Request
<1>13. QED BY <1>4, <1>6, <1>7, <1>9, <1>11, <1>12

LEMMA HeartBeatType ==
    ASSUME MuxTypeInv, HeartBeat
    PROVE  MuxTypeInv'
<1>1. CASE TagFault(TO, FALSE)
  BY <1>1, PanicType DEF HeartBeat
<1>2. CASE ~TagFault(TO, FALSE)
  <2>1. /\ Notify({TO}, data', FALSE)
        /\ pipe' = Send(<<Write(TO, [c \in {Ctr} |-> count])>>)
        /\ Overtake({TO})
        /\ UNCHANGED <<status, fault, sessions, jobs, clientUp, channel, plc, suspect, behind,
                       lost>>
    BY <1>2 DEF HeartBeat
  <2>2. /\ data' \in [Structs -> Rows] /\ mem' \in [Structs -> Rows] /\ count' \in 0..MaxCount
        /\ Write(TO, [c \in {Ctr} |-> count]) \in Request
    BY <1>2, HeartBeatMemory
  <2>3. pipe' \in Seq(Request)
    <3>1. <<Write(TO, [c \in {Ctr} |-> count])>> \in Seq(Request)
      BY <2>2
    <3>2. QED BY <2>1, <3>1, MuxTypeParts, SendType
  <2>4. told' \in [Clients -> [Structs -> [Fields -> Values \cup {Untold}]]]
    BY <2>1, <2>2, NotifyType DEF MuxTypeInv, TypeOK
  <2>5. SessionTypeOK' /\ OpenedFirst'
    BY <2>1, <2>4, SessionsKept
  <2>6. JobTypeOK'
    BY <2>1, OvertakeType, JobsKept DEF MuxTypeInv, TypeOK
  <2>7. MemoryTypeOK'
    BY <2>1, <2>2, MuxTypeParts DEF MemoryTypeOK
  <2>8. QED BY <2>1, <2>3, <2>5, <2>6, <2>7 DEF MuxTypeInv, TypeOK
<1>3. QED BY <1>1, <1>2

LEMMA PushParts ==
    ASSUME NEW p \in PlcPushes
    PROVE  /\ p.off \in Nat /\ Len(p.bytes) \in Nat
           /\ \A c \in Nat \ {0} : c <= Len(p.bytes) => p.bytes[c] \in Values
           /\ \A c \in Pushed(p) : c \in Fields /\ p.bytes[c - p.off] \in Values
<1>1. p.off \in Nat /\ p.bytes \in Seq(Values)
  BY MuxAssumption
<1>2. \A c \in Pushed(p) : c \in Fields /\ c > p.off /\ c <= p.off + Len(p.bytes)
  BY DEF Pushed
<1>3. ASSUME NEW c \in Pushed(p) PROVE c - p.off \in 1..Len(p.bytes)
  <2> DEFINE off == p.off
             n == Len(p.bytes)
  <2>1. c \in Nat /\ c > off /\ c <= off + n
    <3>1. c \in Fields /\ c > off /\ c <= off + n
      BY <1>2
    <3>2. QED BY <3>1, FieldsType
  <2>0. off \in Nat /\ n \in Nat
    <3>1. p.bytes \in Seq(Values)
      BY <1>1
    <3>2. n \in Nat
      BY ONLY <3>1
    <3>3. QED BY <1>1, <3>2
  <2>2. c - off \in 1..n
    <3> HIDE DEF off, n
    <3>1. QED BY ONLY <2>0, <2>1
  <2>3. QED BY <2>2
<1>4. QED BY <1>1, <1>2, <1>3

LEMMA ReceivedType ==
    ASSUME MuxTypeInv, channel # <<>>
    PROVE  Head(channel) \in PlcPushes /\ Received(Head(channel)) \in Rows
<1>1. Head(channel) \in PlcPushes
  BY MuxTypeParts
<1>2. mem[FROM] \in Rows
  BY MuxTypeParts, WritableStructs
<1>3. \A c \in Fields : c \in Nat \ {0}
  BY FieldsType DEF Fields
<1>4. QED BY <1>1, <1>2, <1>3, PushParts DEF Received, Taken, Rows

LEMMA OnPlcWriteType ==
    ASSUME MuxTypeInv, OnPlcWrite
    PROVE  MuxTypeInv'
<1>1. CASE Panic("slice") \/ Panic("as_schema")
  BY <1>1, PanicType
<1>2. CASE ~(Panic("slice") \/ Panic("as_schema"))
  <2>1. /\ channel # <<>>
        /\ mem' = [mem EXCEPT ![FROM] = Received(Head(channel))]
        /\ data' = [data EXCEPT ![FROM] = Decode(Received(Head(channel)))]
        /\ Notify({FROM}, data', FALSE)
        /\ channel' = Tail(channel)
        /\ UNCHANGED <<status, fault, count, sessions, jobs, clientUp, pipe, plc, history>>
    BY <1>2 DEF OnPlcWrite
  <2>2. data' \in [Structs -> Rows] /\ mem' \in [Structs -> Rows]
    BY <2>1, ReceivedType, CodedType, MuxTypeParts
  <2>3. channel' \in Seq(PlcPushes) /\ Len(channel') <= ChannelCap
    <3>1. ChannelCap \in Nat
      BY MuxAssumption DEF ChannelCap
    <3>2. QED BY <2>1, <3>1, MuxTypeParts
  <2>4. told' \in [Clients -> [Structs -> [Fields -> Values \cup {Untold}]]]
    BY <2>1, <2>2, NotifyType DEF MuxTypeInv, TypeOK
  <2>5. SessionTypeOK' /\ OpenedFirst'
    BY <2>1, <2>4, SessionsKept
  <2>6. JobTypeOK'
    BY <2>1, JobsKept, MuxTypeParts DEF history
  <2>7. MemoryTypeOK'
    BY <2>1, <2>2, MuxTypeParts DEF MemoryTypeOK
  <2>8. QED BY <2>1, <2>3, <2>5, <2>6, <2>7 DEF MuxTypeInv, TypeOK, history
<1>3. QED BY <1>1, <1>2

LEMMA PlcServesType ==
    ASSUME MuxTypeInv, PlcServes
    PROVE  MuxTypeInv'
<1> DEFINE r == Head(pipe)
<1>1. /\ pipe # <<>> /\ pipe' = Tail(pipe)
      /\ UNCHANGED <<status, fault, memory, sessions, told, clientUp, channel, overtaken, suspect,
                     behind>>
  BY DEF PlcServes
<1>2. pipe' \in Seq(Request) /\ r \in Request
  BY <1>1, MuxTypeParts
<1>3. SessionTypeOK' /\ OpenedFirst'
  BY <1>1, ToldType, SessionsKept
<1>4. plc' \in [Structs -> Rows] /\ JobTypeOK' /\ lost' \subseteq Jobs
  <2>1. CASE r.kind = "write"
    <3>1. plc' = [plc EXCEPT ![r.of] = Apply(@, r.patch)] /\ UNCHANGED <<jobs, lost>>
      BY <2>1 DEF PlcServes
    <3>2. r.of \in Structs /\ r.patch \in Patches
      BY <1>2, <2>1, WritableStructs DEF Request
    <3>3. Apply(plc[r.of], r.patch) \in Rows
      BY <3>2, MuxTypeParts, PatchParts, ApplyType
    <3>4. plc' \in [Structs -> Rows]
      BY <3>1, <3>2, <3>3, MuxTypeParts
    <3>5. JobTypeOK'
      BY <1>1, <3>1, JobsKept, MuxTypeParts
    <3>6. QED BY <3>1, <3>4, <3>5 DEF MuxTypeInv, TypeOK
  <2>2. CASE r.kind = "read"
    <3>1. (Answered(r) \/ AnswerLost(r)) /\ UNCHANGED plc
      BY <2>2 DEF PlcServes
    <3>2. r.of \in Structs /\ r.of \in Writable /\ r.job \in Jobs
      BY <1>2, <2>2, WritableStructs DEF Request
    <3> HIDE DEF r
    <3>3. CASE Answered(r)
      <4>1. PICK d \in {plc[r.of]} \cup {NoData} : sample' = [sample EXCEPT ![r.job][r.of] = d]
        BY <3>3 DEF Answered
      <4>2. d \in Patches
        BY <3>2, <4>1, MuxTypeParts, RowIsPatch, NoDataType
      <4>3. sample' \in [Jobs -> [Structs -> Patches]]
        BY <3>2, <4>1, <4>2, MuxTypeParts
      <4>4. arrived' \in [Jobs -> SUBSET Writable]
        BY <3>2, <3>3, MuxTypeParts DEF Answered
      <4>5. QED BY <1>1, <3>1, <3>3, <4>3, <4>4, MuxTypeParts DEF Answered, JobTypeOK, MuxTypeInv, TypeOK
    <3>4. CASE AnswerLost(r)
      <4>1. UNCHANGED jobs /\ lost' = lost \cup {r.job}
        BY <3>4 DEF AnswerLost
      <4>2. JobTypeOK'
        BY <1>1, <4>1, JobsKept, MuxTypeParts
      <4>3. QED BY <3>1, <3>2, <4>1, <4>2, MuxTypeParts DEF MuxTypeInv, TypeOK
    <3>5. QED BY <3>1, <3>3, <3>4
  <2>3. QED BY <1>2, <2>1, <2>2 DEF Request
<1>5. MemoryTypeOK'
  BY <1>1, <1>4, MuxTypeParts DEF MemoryTypeOK, memory
<1>6. QED BY <1>1, <1>2, <1>3, <1>4, <1>5 DEF MuxTypeInv, TypeOK

LEMMA PlcPushType ==
    ASSUME MuxTypeInv, NEW p \in PlcPushes, PlcPush(p)
    PROVE  MuxTypeInv'
<1>1. /\ plc' = [plc EXCEPT ![FROM] =
                   [c \in Fields |-> IF c \in Pushed(p) THEN p.bytes[c - p.off] ELSE plc[FROM][c]]]
      /\ UNCHANGED <<status, fault, memory, sessions, told, jobs, clientUp, pipe, overtaken,
                     suspect, lost>>
  BY DEF PlcPush
<1>2. channel' \in Seq(PlcPushes) /\ Len(channel') <= ChannelCap
  <2>1. channel' = channel \/ (channel' = Append(channel, p) /\ Len(channel) < ChannelCap)
    BY DEF PlcPush
  <2>2. ChannelCap \in Nat
    BY MuxAssumption DEF ChannelCap
  <2>3. channel \in Seq(PlcPushes) /\ Len(channel) <= ChannelCap
    BY MuxTypeParts
  <2>4. CASE channel' = Append(channel, p) /\ Len(channel) < ChannelCap
    <3>1. Len(channel') = Len(channel) + 1 /\ channel' \in Seq(PlcPushes)
      BY <2>3, <2>4
    <3>2. Len(channel) \in Nat
      BY <2>3
    <3>3. QED BY <2>2, <2>4, <3>1, <3>2
  <2>5. QED BY <2>1, <2>3, <2>4
<1>3. behind' \subseteq Fields
  BY DEF PlcPush, Pushed, MuxTypeInv, TypeOK
<1>4. plc' \in [Structs -> Rows]
  BY <1>1, PushParts, MuxTypeParts DEF Rows
<1>5. MemoryTypeOK'
  BY <1>1, <1>4, MuxTypeParts DEF MemoryTypeOK, memory
<1>6. JobTypeOK'
  BY <1>1, JobsKept, MuxTypeParts
<1>7. SessionTypeOK' /\ OpenedFirst'
  BY <1>1, ToldType, SessionsKept
<1>8. QED BY <1>1, <1>2, <1>3, <1>5, <1>6, <1>7 DEF MuxTypeInv, TypeOK

LEMMA StopType ==
    ASSUME MuxTypeInv, StreamEnds \/ ClientStops \/ UNCHANGED vars
    PROVE  MuxTypeInv'
<1>1. /\ UNCHANGED <<memory, sessions, told, jobs, channel, plc, history>>
      /\ status' \in {status, "stopped"} /\ clientUp' \in {clientUp, FALSE}
      /\ pipe' = pipe \/ pipe' = <<>>
  BY DEF StreamEnds, ClientStops, vars
<1>2. SessionTypeOK' /\ OpenedFirst' /\ MemoryTypeOK' /\ JobTypeOK'
  BY <1>1, ToldType, SessionsKept, MemoryKept, JobsKept, MuxTypeParts DEF history
<1>3. pipe' \in Seq(Request) /\ clientUp' \in BOOLEAN
  <2>1. <<>> \in Seq(Request) /\ pipe \in Seq(Request) /\ clientUp \in BOOLEAN
    BY MuxTypeParts
  <2>2. QED BY <1>1, <2>1
<1>4. status' \in {"running", "stopped", "panicked"}
  BY <1>1 DEF MuxTypeInv, TypeOK
<1>5. QED BY <1>1, <1>2, <1>3, <1>4 DEF MuxTypeInv, TypeOK, history

LEMMA MuxTypeNext == MuxTypeInv /\ [Next]_vars => MuxTypeInv'
BY SessionStepType, MutationType, ResolveType, FinishJobType, JobFailsType, HeartBeatType,
   OnPlcWriteType, PlcServesType, PlcPushType, StopType DEF Next

LEMMA MuxTypes == Spec => []MuxTypeInv
BY MuxTypeInit, MuxTypeNext, PTL DEF Spec

\* The types, for any number of sessions, any schemas and any values: the reads
\* that are out name writable structures only, and nothing but ST_ADS_TO_BC and
\* ST_RETAIN_DATA is ever written (AdsStructMap::by_str), however long the PLC
\* takes, and what the channel holds never outgrows it.
THEOREM MuxTypeCorrect == Spec => []TypeOK
BY MuxTypes, PTL DEF MuxTypeInv

-----------------------------------------------------------------------------
\* The two copies of a structure.

\* What the write at the head of the channel does to the memory.
LEMMA OnPlcWriteMemory ==
    ASSUME MuxTypeInv, OnPlcWrite, ~Panic("slice"), ~Panic("as_schema")
    PROVE  /\ mem'[FROM] = Received(Head(channel))
           /\ data'[FROM] = Decode(Received(Head(channel)))
           /\ \A s \in Structs \ {FROM} : mem'[s] = mem[s] /\ data'[s] = data[s]
           /\ data' \in [Structs -> Rows] /\ mem' \in [Structs -> Rows]
<1>1. /\ channel # <<>>
      /\ mem' = [mem EXCEPT ![FROM] = Received(Head(channel))]
      /\ data' = [data EXCEPT ![FROM] = Decode(Received(Head(channel)))]
  BY DEF OnPlcWrite
<1>2. QED BY <1>1, ReceivedType, CodedType, MuxTypeParts, WritableStructs

\* Only four steps change the mirror.
LEMMA MirrorSteps ==
    ASSUME [Next]_vars
    PROVE  \/ UNCHANGED <<mem, data>>
           \/ \E m \in Mutations : Mutation(m) /\ FirstFault(m) = "none"
           \/ \E j \in Jobs : FinishJob(j) /\ ~\E s \in wanted[j] : TagFault(s, FALSE)
           \/ HeartBeat /\ ~TagFault(TO, FALSE)
           \/ OnPlcWrite /\ ~Panic("slice") /\ ~Panic("as_schema")
<1>1. \A site : Panic(site) => UNCHANGED <<mem, data>>
  BY DEF Panic, memory
<1>2. ASSUME NEW a \in Clients, Session(a) PROVE UNCHANGED <<mem, data>>
  BY <1>1, <1>2 DEF Session, Register, Unregister, Subscription, memory
<1>3. ASSUME NEW m \in Mutations, Mutation(m), FirstFault(m) # "none" PROVE UNCHANGED <<mem, data>>
  BY <1>1, <1>3 DEF Mutation
<1>4. ASSUME NEW a \in Clients, NEW names \in Resolves, Resolve(a, names)
      PROVE  UNCHANGED <<mem, data>>
  BY <1>1, <1>4 DEF Resolve, memory
<1>5. ASSUME NEW j \in Jobs, FinishJob(j), \E s \in wanted[j] : TagFault(s, FALSE)
      PROVE  UNCHANGED <<mem, data>>
  BY <1>1, <1>5 DEF FinishJob
<1>6. ASSUME NEW j \in Jobs, JobFails(j) PROVE UNCHANGED <<mem, data>>
  BY <1>1, <1>6 DEF JobFails, memory
<1>7. ASSUME HeartBeat, TagFault(TO, FALSE) PROVE UNCHANGED <<mem, data>>
  BY <1>1, <1>7 DEF HeartBeat
<1>8. StreamEnds \/ PlcServes \/ ClientStops \/ UNCHANGED vars => UNCHANGED <<mem, data>>
  BY DEF StreamEnds, PlcServes, ClientStops, vars, memory
<1>9. ASSUME NEW p \in PlcPushes, PlcPush(p) PROVE UNCHANGED <<mem, data>>
  BY <1>9 DEF PlcPush, memory
<1>10. QED BY <1>1, <1>2, <1>3, <1>4, <1>5, <1>6, <1>7, <1>8, <1>9 DEF Next

LEMMA JsonInit == Init => JsonMatchesBytes
<1>1. Zero \in Rows
  BY FieldsType DEF Zero, Rows, Values
<1>2. QED BY <1>1, CodedType DEF Init, JsonMatchesBytes

LEMMA JsonNext ==
    ASSUME MuxTypeInv, JsonMatchesBytes, [Next]_vars
    PROVE  JsonMatchesBytes'
<1> SUFFICES ASSUME NEW s \in Structs PROVE Encode(data'[s]) = Encode(mem'[s])
  BY DEF JsonMatchesBytes, Encode
<1>1. Encode(data[s]) = Encode(mem[s])
  BY DEF JsonMatchesBytes
<1>2. CASE UNCHANGED <<mem, data>>
  BY <1>1, <1>2
<1>3. ASSUME NEW m \in Mutations, Mutation(m), FirstFault(m) = "none"
      PROVE  Encode(data'[s]) = Encode(mem'[s])
  <2>1. CASE s \in DOMAIN m
    BY <1>3, <2>1, MutationMemory, CodedType
  <2>2. CASE s \notin DOMAIN m
    BY <1>1, <1>3, <2>2, MutationMemory
  <2>3. QED BY <2>1, <2>2
<1>4. ASSUME NEW j \in Jobs, FinishJob(j), ~\E t \in wanted[j] : TagFault(t, FALSE)
      PROVE  Encode(data'[s]) = Encode(mem'[s])
  <2>1. CASE s \in wanted[j]
    <3>1. Loaded(j, s) \in Rows /\ mem'[s] = Loaded(j, s) /\ data'[s] = Decode(Loaded(j, s))
      BY <1>4, <2>1, FinishMemory
    <3>2. QED BY <3>1, CodedType
  <2>2. CASE s \notin wanted[j]
    BY <1>1, <1>4, <2>2, FinishMemory
  <2>3. QED BY <2>1, <2>2
<1>5. ASSUME HeartBeat, ~TagFault(TO, FALSE) PROVE Encode(data'[s]) = Encode(mem'[s])
  <2>1. CASE s = TO
    <3>1. data'[s] = Decode(mem'[s]) /\ mem'[s] \in Rows
      BY <1>5, <2>1, HeartBeatMemory
    <3>2. QED BY <3>1, CodedType
  <2>2. CASE s # TO
    BY <1>1, <1>5, <2>2, HeartBeatMemory
  <2>3. QED BY <2>1, <2>2
<1>6. ASSUME OnPlcWrite, ~Panic("slice"), ~Panic("as_schema")
      PROVE  Encode(data'[s]) = Encode(mem'[s])
  <2>1. CASE s = FROM
    <3>1. data'[s] = Decode(mem'[s]) /\ mem'[s] \in Rows
      BY <1>6, <2>1, OnPlcWriteMemory
    <3>2. QED BY <3>1, CodedType
  <2>2. CASE s # FROM
    BY <1>1, <1>6, <2>2, OnPlcWriteMemory
  <2>3. QED BY <2>1, <2>2
<1>7. QED BY <1>2, <1>3, <1>4, <1>5, <1>6, MirrorSteps

\* The bytes and the JSON of a structure never part: the mutation that clamps
\* only the bytes, the answer of a read, the heartbeat and the PLC's writes all
\* leave the two equal up to the subranges of the fields.
THEOREM JsonAndBytesAgree == Spec => []JsonMatchesBytes
<1>1. MuxTypeInv /\ JsonMatchesBytes /\ [Next]_vars => (MuxTypeInv /\ JsonMatchesBytes)'
  BY MuxTypeNext, JsonNext
<1>2. Init => MuxTypeInv /\ JsonMatchesBytes
  BY MuxTypeInit, JsonInit
<1>3. QED BY <1>1, <1>2, PTL DEF Spec

-----------------------------------------------------------------------------
\* What the sessions are told.

\* A step that gives structures in S new JSON, and tells the sessions.
Updates(S, inner) ==
    /\ Notify(S, data', inner) /\ UNCHANGED sessions
    /\ \A s \in Structs \ S : data'[s] = data[s]

LEMMA UpdateSteps ==
    ASSUME MuxTypeInv
    PROVE  /\ \A m \in Mutations : Mutation(m) /\ FirstFault(m) = "none" =>
                 DOMAIN m \in SUBSET Structs /\ Updates(DOMAIN m, TRUE)
           /\ \A j \in Jobs : FinishJob(j) /\ (~\E t \in wanted[j] : TagFault(t, FALSE)) =>
                 wanted[j] \in SUBSET Structs /\ Updates(wanted[j], FALSE)
           /\ HeartBeat /\ ~TagFault(TO, FALSE) => {TO} \in SUBSET Structs /\ Updates({TO}, FALSE)
           /\ OnPlcWrite /\ ~Panic("slice") /\ ~Panic("as_schema") =>
                 {FROM} \in SUBSET Structs /\ Updates({FROM}, FALSE)
<1>1. ASSUME NEW m \in Mutations, Mutation(m), FirstFault(m) = "none"
      PROVE  DOMAIN m \in SUBSET Structs /\ Updates(DOMAIN m, TRUE)
  <2>1. Notify(DOMAIN m, data', TRUE) /\ UNCHANGED sessions
    BY <1>1 DEF Mutation
  <2>2. DOMAIN m \subseteq Structs /\ \A s \in Structs \ DOMAIN m : data'[s] = data[s]
    BY <1>1, MutationMemory, WritableStructs
  <2>3. QED BY <2>1, <2>2 DEF Updates
<1>2. ASSUME NEW j \in Jobs, FinishJob(j), ~\E t \in wanted[j] : TagFault(t, FALSE)
      PROVE  wanted[j] \in SUBSET Structs /\ Updates(wanted[j], FALSE)
  <2>1. Notify(wanted[j], data', FALSE) /\ UNCHANGED sessions
    BY <1>2 DEF FinishJob
  <2>2. wanted[j] \subseteq Structs /\ \A s \in Structs \ wanted[j] : data'[s] = data[s]
    BY <1>2, FinishMemory, MuxTypeParts, WritableStructs
  <2>3. QED BY <2>1, <2>2 DEF Updates
<1>3. ASSUME HeartBeat, ~TagFault(TO, FALSE) PROVE {TO} \in SUBSET Structs /\ Updates({TO}, FALSE)
  <2>1. Notify({TO}, data', FALSE) /\ UNCHANGED sessions
    BY <1>3 DEF HeartBeat
  <2>2. \A s \in Structs \ {TO} : data'[s] = data[s]
    BY <1>3, HeartBeatMemory
  <2>3. QED BY <2>1, <2>2, WritableStructs DEF Updates
<1>4. ASSUME OnPlcWrite, ~Panic("slice"), ~Panic("as_schema")
      PROVE  {FROM} \in SUBSET Structs /\ Updates({FROM}, FALSE)
  <2>1. Notify({FROM}, data', FALSE) /\ UNCHANGED sessions
    BY <1>4 DEF OnPlcWrite
  <2>2. \A s \in Structs \ {FROM} : data'[s] = data[s]
    BY <1>4, OnPlcWriteMemory
  <2>3. QED BY <2>1, <2>2, WritableStructs DEF Updates
<1>5. QED BY <1>1, <1>2, <1>3, <1>4

\* Whatever else a step does, it leaves the JSON and what was told of it alone.
LEMMA SessionSteps ==
    ASSUME MuxTypeInv, [Next]_vars
    PROVE  \/ \E S \in SUBSET Structs, inner \in BOOLEAN : Updates(S, inner)
           \/ UNCHANGED <<data, told, subscription_map, session>>
           \/ \E a \in Clients :
                 /\ UNCHANGED <<data, told, subscription_map>>
                 /\ \/ session[a] = "new" /\ session' = [session EXCEPT ![a] = "open"]
                    \/ session[a] = "open" /\ session' = [session EXCEPT ![a] = "closed"]
           \/ \E a \in Clients :
                 /\ UNCHANGED <<data, session>>
                 /\ told' = [told EXCEPT ![a] = [t \in Structs |-> [c \in Fields |-> Untold]]]
                 /\ DOMAIN subscription_map' = DOMAIN subscription_map \cup {a}
                 /\ \A b \in DOMAIN subscription_map \ {a} :
                        subscription_map'[b] = subscription_map[b]
<1> DEFINE Kept == UNCHANGED <<data, told, subscription_map, session>>
           Opens(a) == /\ UNCHANGED <<data, told, subscription_map>>
                       /\ \/ session[a] = "new" /\ session' = [session EXCEPT ![a] = "open"]
                          \/ session[a] = "open" /\ session' = [session EXCEPT ![a] = "closed"]
           Subscribes(a) ==
              /\ UNCHANGED <<data, session>>
              /\ told' = [told EXCEPT ![a] = [t \in Structs |-> [c \in Fields |-> Untold]]]
              /\ DOMAIN subscription_map' = DOMAIN subscription_map \cup {a}
              /\ \A b \in DOMAIN subscription_map \ {a} :
                     subscription_map'[b] = subscription_map[b]
           Tells == \E S \in SUBSET Structs, inner \in BOOLEAN : Updates(S, inner)
<1> SUFFICES Tells \/ Kept \/ (\E a \in Clients : Opens(a)) \/ \E a \in Clients : Subscribes(a)
  OBVIOUS
<1>1. \A site : Panic(site) => Kept
  BY DEF Panic, memory, sessions
<1>2. ASSUME NEW a \in Clients, Session(a) PROVE Kept \/ Opens(a) \/ Subscribes(a)
  <2>1. ASSUME Register(a) \/ Unregister(a) PROVE Opens(a)
    BY <2>1 DEF Register, Unregister, memory
  <2>2. ASSUME NEW s \in Schemas, Subscription(a, s), ~Panic("merge_schemas")
        PROVE  Subscribes(a)
    BY <2>2 DEF Subscription, memory
  <2> HIDE DEF Kept, Opens, Subscribes
  <2>3. QED BY <1>1, <1>2, <2>1, <2>2 DEF Session
<1>3. ASSUME NEW m \in Mutations, Mutation(m), FirstFault(m) # "none" PROVE Kept
  BY <1>1, <1>3 DEF Mutation
<1>4. ASSUME NEW a \in Clients, NEW names \in Resolves, Resolve(a, names) PROVE Kept
  BY <1>1, <1>4 DEF Resolve, memory, sessions
<1>5. ASSUME NEW j \in Jobs, FinishJob(j), \E s \in wanted[j] : TagFault(s, FALSE) PROVE Kept
  BY <1>1, <1>5 DEF FinishJob
<1>6. ASSUME NEW j \in Jobs, JobFails(j) PROVE Kept
  BY <1>1, <1>6 DEF JobFails, memory, sessions
<1>7. ASSUME HeartBeat, TagFault(TO, FALSE) PROVE Kept
  BY <1>1, <1>7 DEF HeartBeat
<1>8. ASSUME OnPlcWrite, Panic("slice") \/ Panic("as_schema") PROVE Kept
  BY <1>1, <1>8
<1>9. StreamEnds \/ PlcServes \/ ClientStops \/ UNCHANGED vars => Kept
  BY DEF StreamEnds, PlcServes, ClientStops, vars, memory, sessions
<1>10. ASSUME NEW p \in PlcPushes, PlcPush(p) PROVE Kept
  BY <1>10 DEF PlcPush, memory, sessions
<1>11. TRUE \in BOOLEAN /\ FALSE \in BOOLEAN
  OBVIOUS
<1>12. /\ \A m \in Mutations : Mutation(m) => Kept \/ Tells
       /\ \A j \in Jobs : FinishJob(j) => Kept \/ Tells
       /\ HeartBeat => Kept \/ Tells
       /\ OnPlcWrite => Kept \/ Tells
  <2> HIDE DEF Kept
  <2>1. ASSUME NEW m \in Mutations, Mutation(m) PROVE Kept \/ Tells
    BY <1>3, <1>11, <2>1, UpdateSteps
  <2>2. ASSUME NEW j \in Jobs, FinishJob(j) PROVE Kept \/ Tells
    BY <1>5, <1>11, <2>2, UpdateSteps
  <2>3. ASSUME HeartBeat PROVE Kept \/ Tells
    BY <1>7, <1>11, <2>3, UpdateSteps
  <2>4. ASSUME OnPlcWrite PROVE Kept \/ Tells
    BY <1>8, <1>11, <2>4, UpdateSteps
  <2>5. QED BY <2>1, <2>2, <2>3, <2>4
<1> HIDE DEF Kept, Opens, Subscribes, Tells
<1>13. QED BY <1>2, <1>4, <1>6, <1>9, <1>10, <1>12 DEF Next

\* A notice carries every field of its node once one of them differs.
LEMMA NotifyTells ==
    ASSUME NEW S, NEW new, NEW inner, Notify(S, new, inner),
           NEW a \in Clients, NEW s \in Structs, NEW c \in Fields
    PROVE  /\ told'[a][s][c] \in {told[a][s][c], new[s][c]} \/ told'[a][s] = told[a][s]
           /\ s \notin S => told'[a][s] = told[a][s]
           /\ s \in S /\ SubscribedTo(a, s, c) /\ new[s][c] # data[s][c] =>
                  told'[a][s][c] = new[s][c]
<1>1. told'[a] = IF a \in DOMAIN subscription_map /\ session[a] = "open"
                 THEN [t \in Structs |->
                        IF t \in S
                        THEN [d \in Fields |-> IF d \in ToldFields(a, t, data[t], new[t], inner)
                                               THEN new[t][d] ELSE told[a][t][d]]
                        ELSE told[a][t]]
                 ELSE told[a]
  BY DEF Notify
<1>2. s \notin S => told'[a][s] = told[a][s]
  BY <1>1
<1>3. told'[a][s][c] \in {told[a][s][c], new[s][c]} \/ told'[a][s] = told[a][s]
  BY <1>1
<1>4. ASSUME s \in S, SubscribedTo(a, s, c), new[s][c] # data[s][c]
      PROVE  told'[a][s][c] = new[s][c]
  <2>1. a \in DOMAIN subscription_map /\ session[a] = "open"
    BY <1>4 DEF SubscribedTo
  <2>2. PICK i \in DOMAIN subscription_map[a] :
            /\ subscription_map[a][i].kind \in {"obj", "tag"}
            /\ subscription_map[a][i].name = s /\ c \in Carried(subscription_map[a][i], Fields)
    BY <1>4 DEF SubscribedTo
  <2> DEFINE n == subscription_map[a][i]
  <2>3. Shown(n) = s
    BY <2>2 DEF Shown
  <2>4. Differs(n, data[s], new[s], inner)
    BY <1>4, <2>2 DEF Differs
  <2>5. c \in ToldFields(a, s, data[s], new[s], inner)
    BY <2>2, <2>3, <2>4 DEF ToldFields
  <2>6. QED BY <1>1, <1>4, <2>1, <2>5
<1>5. QED BY <1>2, <1>3, <1>4

LEMMA ChangeToldStep ==
    ASSUME MuxTypeInv, [Next]_vars
    PROVE  \A a \in Clients, s \in Structs, c \in Fields :
              SubscribedTo(a, s, c) /\ data'[s][c] # data[s][c] => told'[a][s][c] = data'[s][c]
<1> SUFFICES ASSUME NEW a \in Clients, NEW s \in Structs, NEW c \in Fields,
                    SubscribedTo(a, s, c), data'[s][c] # data[s][c]
             PROVE  told'[a][s][c] = data'[s][c]
  OBVIOUS
<1>1. PICK S \in SUBSET Structs, inner \in BOOLEAN : Updates(S, inner)
  BY SessionSteps
<1>2. s \in S
  BY <1>1 DEF Updates
<1>3. QED BY <1>1, <1>2, NotifyTells DEF Updates

\* No change of a field that an open session subscribed to goes untold, whichever
\* handler made it: a mutation of another session, the answer of a read, the
\* heartbeat or a write of the PLC.
THEOREM EveryChangeIsTold == Spec => ChangeIsTold
<1>1. MuxTypeInv /\ [Next]_vars =>
        \A a \in Clients, s \in Structs, c \in Fields :
            SubscribedTo(a, s, c) /\ data'[s][c] # data[s][c] => told'[a][s][c] = data'[s][c]
  BY ChangeToldStep
<1>2. QED BY <1>1, MuxTypes, PTL DEF Spec, ChangeIsTold

LEMMA ViewInit == Init => ViewCurrent
BY DEF Init, ViewCurrent, SubscribedTo

LEMMA ViewNext ==
    ASSUME MuxTypeInv, ViewCurrent, [Next]_vars
    PROVE  ViewCurrent'
<1> SUFFICES ASSUME NEW a \in Clients, NEW s \in Structs, NEW c \in Fields,
                    SubscribedTo(a, s, c)'
             PROVE  told'[a][s][c] \in {Untold, data'[s][c]}
  BY DEF ViewCurrent
<1>1. SubscribedTo(a, s, c) => told[a][s][c] \in {Untold, data[s][c]}
  BY DEF ViewCurrent
<1>2. ASSUME NEW S \in SUBSET Structs, NEW inner \in BOOLEAN, Updates(S, inner)
      PROVE  told'[a][s][c] \in {Untold, data'[s][c]}
  <2>1. SubscribedTo(a, s, c)
    BY <1>2 DEF Updates, SubscribedTo, sessions
  <2>2. Notify(S, data', inner) /\ (s \notin S => data'[s] = data[s])
    BY <1>2 DEF Updates
  <2>3. CASE s \notin S
    BY <1>1, <2>1, <2>2, <2>3, NotifyTells
  <2>4. CASE s \in S
    BY <1>1, <2>1, <2>2, <2>4, NotifyTells
  <2>5. QED BY <2>3, <2>4
<1>3. CASE UNCHANGED <<data, told, subscription_map, session>>
  BY <1>1, <1>3 DEF SubscribedTo
<1>4. ASSUME NEW b \in Clients, UNCHANGED <<data, told, subscription_map>>,
             \/ session[b] = "new" /\ session' = [session EXCEPT ![b] = "open"]
             \/ session[b] = "open" /\ session' = [session EXCEPT ![b] = "closed"]
      PROVE  told'[a][s][c] \in {Untold, data'[s][c]}
  <2>1. /\ session \in [Clients -> {"new", "open", "closed"}]
        /\ session[b] = "new" => b \notin DOMAIN subscription_map
    BY DEF MuxTypeInv, TypeOK, SessionTypeOK, OpenedFirst
  <2>2. a \in DOMAIN subscription_map /\ session'[a] = "open"
    BY <1>4 DEF SubscribedTo
  <2>3. session[a] = "open"
    BY <1>4, <2>1, <2>2
  <2>4. SubscribedTo(a, s, c)
    BY <1>4, <2>3 DEF SubscribedTo
  <2>5. QED BY <1>1, <1>4, <2>4
<1>5. ASSUME NEW b \in Clients, UNCHANGED <<data, session>>,
             told' = [told EXCEPT ![b] = [t \in Structs |-> [d \in Fields |-> Untold]]],
             DOMAIN subscription_map' = DOMAIN subscription_map \cup {b},
             \A e \in DOMAIN subscription_map \ {b} : subscription_map'[e] = subscription_map[e]
      PROVE  told'[a][s][c] \in {Untold, data'[s][c]}
  <2>1. DOMAIN told = Clients
    BY ToldType
  <2>2. CASE a = b
    BY <1>5, <2>1, <2>2
  <2>3. CASE a # b
    <3>1. a \in DOMAIN subscription_map /\ subscription_map'[a] = subscription_map[a]
      BY <1>5, <2>3 DEF SubscribedTo
    <3>2. SubscribedTo(a, s, c)
      BY <1>5, <3>1 DEF SubscribedTo
    <3>3. QED BY <1>1, <1>5, <2>1, <2>3, <3>2
  <2>4. QED BY <2>2, <2>3
<1>6. QED BY <1>2, <1>3, <1>4, <1>5, SessionSteps

\* An open session never shows a value of a field it subscribed to that the mirror
\* no longer holds, whatever it subscribed to before, and whoever else changed it.
THEOREM SessionsShowTheMirror == Spec => []ViewCurrent
<1>1. MuxTypeInv /\ ViewCurrent /\ [Next]_vars => (MuxTypeInv /\ ViewCurrent)'
  BY MuxTypeNext, ViewNext
<1>2. Init => MuxTypeInv /\ ViewCurrent
  BY MuxTypeInit, ViewInit
<1>3. QED BY <1>1, <1>2, PTL DEF Spec

-----------------------------------------------------------------------------
\* What a structure will hold when a queue of requests is executed.

Writes(r, s, c) == r.kind = "write" /\ r.of = s /\ c \in DOMAIN r.patch
After(q, v, s, c) ==
    LET D == {i \in DOMAIN q : Writes(q[i], s, c)}
    IN  IF D = {} THEN v ELSE q[SX!Max(D)].patch[c]

LEMMA ExpectedIs ==
    ASSUME NEW s, NEW c
    PROVE  /\ Expected(s, c) = After(pipe, plc[s][c], s, c)
           /\ Expected(s, c)' = After(pipe', plc'[s][c], s, c)
BY DEF Expected, WritersOf, After, Writes

LEMMA AfterNone ==
    ASSUME NEW q, NEW v, NEW s, NEW c, \A i \in DOMAIN q : ~Writes(q[i], s, c)
    PROVE  After(q, v, s, c) = v
BY DEF After

LEMMA AfterAt ==
    ASSUME NEW q \in Seq(Request), NEW v, NEW s, NEW c, NEW k \in DOMAIN q, Writes(q[k], s, c),
           \A i \in DOMAIN q : Writes(q[i], s, c) => i <= k
    PROVE  After(q, v, s, c) = q[k].patch[c]
<1> DEFINE D == {i \in DOMAIN q : Writes(q[i], s, c)}
<1>1. D \subseteq Nat /\ k \in D /\ \A i \in D : k >= i
  <2>1. DOMAIN q \subseteq Nat
    OBVIOUS
  <2>2. QED BY <2>1
<1>2. After(q, v, s, c) = IF D = {} THEN v ELSE q[SX!Max(D)].patch[c]
  BY DEF After
<1> HIDE DEF D
<1>3. SX!Max(D) = k
  BY <1>1, MaxIs
<1>4. QED BY <1>1, <1>2, <1>3

LEMMA LastWriter ==
    ASSUME NEW q \in Seq(Request), NEW s, NEW c
    PROVE  \/ \A i \in DOMAIN q : ~Writes(q[i], s, c)
           \/ \E k \in DOMAIN q : /\ Writes(q[k], s, c)
                                  /\ \A i \in DOMAIN q : Writes(q[i], s, c) => i <= k
<1> DEFINE D == {i \in DOMAIN q : Writes(q[i], s, c)}
<1>1. D \subseteq 1..Len(q) /\ Len(q) \in Nat
  OBVIOUS
<1>2. CASE D = {}
  BY <1>2
<1>3. CASE D # {}
  <2>1. PICK k \in D : \A i \in D : k >= i
    <3> HIDE DEF D
    <3>1. QED BY <1>1, <1>3, MaxExists
  <2>2. \A i \in D : i <= k
    BY <1>1, <2>1
  <2>3. QED BY <2>1, <2>2
<1>4. QED BY <1>2, <1>3

LEMMA Joined ==
    ASSUME NEW q \in Seq(Request), NEW W \in Seq(Request)
    PROVE  /\ q \o W \in Seq(Request) /\ Len(q \o W) = Len(q) + Len(W)
           /\ \A i \in DOMAIN q : i \in DOMAIN (q \o W) /\ (q \o W)[i] = q[i]
           /\ \A i \in DOMAIN W : /\ Len(q) + i \in DOMAIN (q \o W) /\ (q \o W)[Len(q) + i] = W[i]
                                  /\ \A k \in DOMAIN q : k < Len(q) + i
           /\ \A i \in DOMAIN (q \o W) : i \in DOMAIN q \/ \E k \in DOMAIN W : i = Len(q) + k
<1>1. Len(q) \in Nat /\ Len(W) \in Nat /\ DOMAIN q = 1..Len(q) /\ DOMAIN W = 1..Len(W)
  OBVIOUS
<1>2. q \o W \in Seq(Request) /\ Len(q \o W) = Len(q) + Len(W) /\ DOMAIN (q \o W) = 1..(Len(q) + Len(W))
  OBVIOUS
<1>3. \A i \in 1..(Len(q) + Len(W)) : (q \o W)[i] = IF i <= Len(q) THEN q[i] ELSE W[i - Len(q)]
  OBVIOUS
<1>4. \A i \in DOMAIN q : i \in DOMAIN (q \o W) /\ (q \o W)[i] = q[i]
  BY <1>1, <1>2, <1>3
<1>5. ASSUME NEW i \in DOMAIN W
      PROVE  /\ Len(q) + i \in DOMAIN (q \o W) /\ (q \o W)[Len(q) + i] = W[i]
             /\ \A k \in DOMAIN q : k < Len(q) + i
  <2>1. i \in Nat /\ ~(Len(q) + i <= Len(q)) /\ Len(q) + i \in 1..(Len(q) + Len(W))
        /\ (Len(q) + i) - Len(q) = i
    BY <1>1
  <2>2. \A k \in DOMAIN q : k < Len(q) + i
    BY <1>1
  <2>3. QED BY <1>2, <1>3, <2>1, <2>2
<1>6. ASSUME NEW i \in DOMAIN (q \o W), i \notin DOMAIN q
      PROVE  \E k \in DOMAIN W : i = Len(q) + k
  <2>1. i - Len(q) \in DOMAIN W /\ i = Len(q) + (i - Len(q))
    BY <1>1, <1>2, <1>6
  <2>2. QED BY <2>1
<1>7. QED BY <1>2, <1>4, <1>5, <1>6

LEMMA AfterAppendNone ==
    ASSUME NEW q \in Seq(Request), NEW W \in Seq(Request), NEW v, NEW s, NEW c,
           \A i \in DOMAIN W : ~Writes(W[i], s, c)
    PROVE  After(q \o W, v, s, c) = After(q, v, s, c)
<1>1. CASE \A i \in DOMAIN q : ~Writes(q[i], s, c)
  <2>1. \A i \in DOMAIN (q \o W) : ~Writes((q \o W)[i], s, c)
    BY <1>1, Joined
  <2>2. After(q \o W, v, s, c) = v
    BY <2>1, AfterNone
  <2>3. After(q, v, s, c) = v
    BY <1>1, AfterNone
  <2>4. QED BY <2>2, <2>3
<1>2. ASSUME NEW k \in DOMAIN q, Writes(q[k], s, c),
             \A i \in DOMAIN q : Writes(q[i], s, c) => i <= k
      PROVE  After(q \o W, v, s, c) = After(q, v, s, c)
  <2>1. /\ q \o W \in Seq(Request) /\ k \in DOMAIN (q \o W) /\ (q \o W)[k] = q[k]
        /\ \A i \in DOMAIN (q \o W) : Writes((q \o W)[i], s, c) => i <= k
    BY <1>2, Joined
  <2>2. After(q \o W, v, s, c) = (q \o W)[k].patch[c]
    <3> DEFINE z == q \o W
    <3>1. z \in Seq(Request) /\ k \in DOMAIN z /\ Writes(z[k], s, c)
          /\ \A i \in DOMAIN z : Writes(z[i], s, c) => i <= k
      BY <1>2, <2>1
    <3> HIDE DEF z
    <3>2. After(z, v, s, c) = z[k].patch[c]
      BY <3>1, AfterAt
    <3>3. QED BY <3>2 DEF z
  <2>3. After(q, v, s, c) = q[k].patch[c]
    BY <1>2, AfterAt
  <2>4. QED BY <2>1, <2>2, <2>3
<1>3. QED BY <1>1, <1>2, LastWriter

LEMMA AfterAppend ==
    ASSUME NEW q \in Seq(Request), NEW W \in Seq(Request), NEW v, NEW s, NEW c,
           NEW k \in DOMAIN W, Writes(W[k], s, c),
           \A i \in DOMAIN W : Writes(W[i], s, c) => i = k
    PROVE  After(q \o W, v, s, c) = W[k].patch[c]
<1> DEFINE z == q \o W
           n == Len(q) + k
<1>1. z \in Seq(Request) /\ n \in DOMAIN z /\ z[n] = W[k]
  BY Joined
<1>2. \A i \in DOMAIN z : Writes(z[i], s, c) => i <= n
  <2> SUFFICES ASSUME NEW i \in DOMAIN z, Writes(z[i], s, c) PROVE i <= n
    OBVIOUS
  <2>1. CASE i \in DOMAIN q
    <3>1. i < n /\ i \in Nat /\ n \in Nat
      BY <2>1, Joined
    <3>2. QED BY <3>1
  <2>2. ASSUME NEW h \in DOMAIN W, i = Len(q) + h PROVE i <= n
    <3>1. z[i] = W[h]
      BY <2>2, Joined
    <3>2. h = k
      BY <3>1
    <3>3. i = n /\ n \in Nat
      BY <2>2, <3>2
    <3>4. QED BY <3>3
  <2>3. i \in DOMAIN q \/ \E h \in DOMAIN W : i = Len(q) + h
    BY Joined
  <2>4. QED BY <2>1, <2>2, <2>3
<1> HIDE DEF z, n
<1>3. After(z, v, s, c) = z[n].patch[c]
  BY <1>1, <1>2, AfterAt
<1>4. QED BY <1>1, <1>3 DEF z

LEMMA AfterTail ==
    ASSUME NEW q \in Seq(Request), q # <<>>, NEW v, NEW s, NEW c
    PROVE  /\ ~Writes(Head(q), s, c) => After(Tail(q), v, s, c) = After(q, v, s, c)
           /\ Writes(Head(q), s, c) =>
                 After(Tail(q), Head(q).patch[c], s, c) = After(q, v, s, c)
<1> DEFINE z == Tail(q)
<1>1. /\ z \in Seq(Request) /\ DOMAIN q = 1..Len(q) /\ DOMAIN z = 1..(Len(q) - 1)
      /\ Len(q) \in Nat \ {0} /\ \A i \in DOMAIN z : z[i] = q[i + 1]
      /\ Head(q) = q[1] /\ 1 \in DOMAIN q
  OBVIOUS
<1> HIDE DEF z
<1>2. \A i \in DOMAIN z : i + 1 \in DOMAIN q
  BY <1>1
<1>3. \A i \in DOMAIN q : i = 1 \/ (i - 1 \in DOMAIN z /\ z[i - 1] = q[i])
  <2> SUFFICES ASSUME NEW i \in DOMAIN q, i # 1 PROVE i - 1 \in DOMAIN z /\ z[i - 1] = q[i]
    OBVIOUS
  <2>1. i \in Nat /\ i - 1 \in DOMAIN z /\ (i - 1) + 1 = i
    BY <1>1
  <2>2. QED BY <1>1, <2>1
<1>4. CASE \A i \in DOMAIN z : ~Writes(z[i], s, c)
  <2>1. \A w : After(z, w, s, c) = w
    BY <1>4, AfterNone
  <2>2. \A i \in DOMAIN q : Writes(q[i], s, c) => i = 1
    BY <1>3, <1>4
  <2>3. CASE Writes(Head(q), s, c)
    <3>1. Writes(q[1], s, c) /\ \A i \in DOMAIN q : Writes(q[i], s, c) => i <= 1
      BY <1>1, <2>2, <2>3
    <3>2. After(q, v, s, c) = q[1].patch[c]
      BY <1>1, <3>1, AfterAt, SMTT(30)
    <3>3. QED BY <1>1, <2>1, <2>3, <3>2 DEF z
  <2>4. CASE ~Writes(Head(q), s, c)
    <3>1. \A i \in DOMAIN q : ~Writes(q[i], s, c)
      BY <1>1, <2>2, <2>4
    <3>2. QED BY <2>1, <2>4, <3>1, AfterNone DEF z
  <2>5. QED BY <2>3, <2>4
<1>5. ASSUME NEW k \in DOMAIN z, Writes(z[k], s, c),
             \A i \in DOMAIN z : Writes(z[i], s, c) => i <= k
      PROVE  \A w : After(z, w, s, c) = After(q, v, s, c)
  <2>1. ASSUME NEW w PROVE After(z, w, s, c) = z[k].patch[c]
    <3>1. z \in Seq(Request) /\ k \in DOMAIN z /\ Writes(z[k], s, c)
          /\ \A i \in DOMAIN z : Writes(z[i], s, c) => i <= k
      BY <1>1, <1>5
    <3>2. QED BY <3>1, AfterAt
  <2>2. k + 1 \in DOMAIN q /\ q[k + 1] = z[k] /\ k \in Nat
    BY <1>1, <1>2
  <2>3. ASSUME NEW i \in DOMAIN q, Writes(q[i], s, c) PROVE i <= k + 1
    <3>1. i \in Nat
      BY <1>1
    <3>2. i = 1 \/ i - 1 <= k
      BY <1>3, <1>5, <2>3
    <3>3. QED BY <2>2, <3>1, <3>2
  <2>4. After(q, v, s, c) = q[k + 1].patch[c]
    BY <1>5, <2>2, <2>3, AfterAt
  <2>5. QED BY <2>1, <2>2, <2>4
<1>6. QED BY <1>1, <1>4, <1>5, LastWriter DEF z

-----------------------------------------------------------------------------
\* The mirror is what the PLC will hold.  For that to be inductive the answers
\* that have arrived, and the reads that are out, must be the last word too.

\* An answer is a whole structure or nothing, and only what was asked for arrives.
AnswersWhole == sample \in [Jobs -> [Structs -> Rows \cup {NoData}]]
JobsTidy == \A j \in Jobs : arrived[j] \subseteq wanted[j] /\ overtaken[j] \subseteq wanted[j]

\* The reads on their way are those of a job that waits for them, one of each.
ReadsAwaited ==
    \A i \in DOMAIN pipe : pipe[i].kind = "read" =>
        /\ pipe[i].of \in wanted[pipe[i].job] \ arrived[pipe[i].job]
        /\ \A k \in DOMAIN pipe : pipe[k].kind = "read" /\ pipe[k].of = pipe[i].of
                                  /\ pipe[k].job = pipe[i].job => k = i

\* A read that no write followed is the last word on its structure.
ReadsLast ==
    \A i \in DOMAIN pipe : pipe[i].kind = "read" /\ pipe[i].of \notin overtaken[pipe[i].job] =>
        \A k \in DOMAIN pipe : k > i => ~(pipe[k].kind = "write" /\ pipe[k].of = pipe[i].of)

\* The answer that no write followed is what the PLC will hold.
AnswersCurrent ==
    clientUp => \A j \in Jobs : \A s \in arrived[j] \ overtaken[j] :
        sample[j][s] # NoData => \A c \in Fields : sample[j][s][c] = Expected(s, c)

NothingSentInVain == ~clientUp => pipe = <<>>

MirrorInv ==
    /\ MuxTypeInv /\ AnswersWhole /\ JobsTidy /\ ReadsAwaited /\ ReadsLast
    /\ AnswersCurrent /\ NothingSentInVain /\ MirrorCurrent

LEMMA MirrorInit == Init => MirrorInv
<1> SUFFICES ASSUME Init PROVE MirrorInv
  OBVIOUS
<1>1. MuxTypeInv
  BY MuxTypeInit
<1>2. AnswersWhole /\ JobsTidy /\ NothingSentInVain /\ MirrorCurrent /\ AnswersCurrent
  BY DEF Init, AnswersWhole, JobsTidy, NothingSentInVain, MirrorCurrent, AnswersCurrent
<1>3. /\ DOMAIN pipe = {1, 2} /\ pipe[1] = Read(TO, TO) /\ pipe[2] = Read(RETAIN, RETAIN)
  BY DEF Init
<1>4. TO # RETAIN /\ Read(TO, TO).of = TO /\ Read(RETAIN, RETAIN).of = RETAIN
      /\ Read(TO, TO).job = TO /\ Read(RETAIN, RETAIN).job = RETAIN
      /\ Read(TO, TO).kind = "read" /\ Read(RETAIN, RETAIN).kind = "read"
  BY KeysApart DEF Read
<1>5. ReadsLast
  BY <1>3, <1>4 DEF ReadsLast
<1>6. \A j \in {TO, RETAIN} : j \in wanted[j] \ arrived[j]
  BY DEF Init, Jobs, Writable
<1>7. ReadsAwaited
  BY <1>3, <1>4, <1>6 DEF ReadsAwaited
<1>8. QED BY <1>1, <1>2, <1>5, <1>7 DEF MirrorInv

\* Steps that touch neither the writable structures nor the requests.
LEMMA MirrorKept ==
    ASSUME MirrorInv, MuxTypeInv', UNCHANGED <<jobs, overtaken, suspect, clientUp, pipe>>,
           \A s \in Writable : mem'[s] = mem[s] /\ plc'[s] = plc[s]
    PROVE  MirrorInv'
<1>1. \A s \in Writable, c \in Fields : Expected(s, c)' = Expected(s, c)
  BY ExpectedIs
<1>2. MirrorCurrent'
  BY <1>1 DEF MirrorCurrent, MirrorInv
<1>3. \A j \in Jobs : arrived[j] \subseteq Writable
  BY MuxTypeParts DEF MirrorInv
<1>4. AnswersCurrent'
  BY <1>1, <1>3 DEF AnswersCurrent, MirrorInv, jobs
<1>5. QED BY <1>2, <1>4 DEF MirrorInv, AnswersWhole, JobsTidy, ReadsAwaited, ReadsLast,
                           NothingSentInVain, jobs

\* Steps that write to the structures in S, one request for each.
LEMMA MirrorWrite ==
    ASSUME MirrorInv, MuxTypeInv', NEW S, NEW W \in Seq(Request),
           pipe' = Send(W), Overtake(S), UNCHANGED <<jobs, clientUp, plc, suspect>>,
           \A i \in DOMAIN W : W[i].kind = "write" /\ W[i].of \in S,
           \A s \in S : \E k \in DOMAIN W :
              /\ \A i \in DOMAIN W : W[i].of = s <=> i = k
              /\ \A c \in Fields : mem'[s][c] = IF c \in DOMAIN W[k].patch THEN W[k].patch[c]
                                                                         ELSE mem[s][c],
           \A s \in Writable \ S : mem'[s] = mem[s]
    PROVE  MirrorInv'
<1>1. overtaken' = [j \in Jobs |-> overtaken[j] \cup (wanted[j] \cap S)]
  BY DEF Overtake
<1>2. AnswersWhole' /\ JobsTidy'
  BY <1>1 DEF MirrorInv, AnswersWhole, JobsTidy, jobs
<1>3. CASE ~clientUp
  <2>1. pipe' = <<>> /\ ~clientUp'
    BY <1>3 DEF Send, MirrorInv, NothingSentInVain
  <2>2. ReadsAwaited' /\ ReadsLast' /\ NothingSentInVain'
    BY <2>1 DEF ReadsAwaited, ReadsLast, NothingSentInVain
  <2>3. MirrorCurrent' /\ AnswersCurrent'
    BY <2>1 DEF MirrorCurrent, AnswersCurrent
  <2>4. QED BY <1>2, <2>2, <2>3 DEF MirrorInv
<1>4. CASE clientUp
  <2>1. pipe' = pipe \o W /\ clientUp' /\ pipe \in Seq(Request)
    BY <1>4, MuxTypeParts DEF Send, MirrorInv
  <2>2. /\ \A i \in DOMAIN pipe : i \in DOMAIN pipe' /\ pipe'[i] = pipe[i]
        /\ \A i \in DOMAIN pipe' : \/ i \in DOMAIN pipe
                                   \/ \E k \in DOMAIN W : i = Len(pipe) + k /\ pipe'[i] = W[k]
    BY <2>1, Joined
  <2>3. \A i \in DOMAIN pipe' : pipe'[i].kind = "read" => i \in DOMAIN pipe
    <3>1. \A k \in DOMAIN W : W[k].kind # "read"
      OBVIOUS
    <3>2. QED BY <2>2, <3>1
  <2>4. ReadsAwaited'
    <3> SUFFICES ASSUME NEW i \in DOMAIN pipe', pipe'[i].kind = "read"
                 PROVE  /\ pipe'[i].of \in wanted'[pipe'[i].job] \ arrived'[pipe'[i].job]
                        /\ \A k \in DOMAIN pipe' :
                              pipe'[k].kind = "read" /\ pipe'[k].of = pipe'[i].of
                              /\ pipe'[k].job = pipe'[i].job => k = i
      BY DEF ReadsAwaited
    <3>1. i \in DOMAIN pipe /\ pipe'[i] = pipe[i] /\ wanted' = wanted /\ arrived' = arrived
      BY <2>2, <2>3 DEF jobs
    <3>2. QED BY <2>2, <2>3, <3>1 DEF MirrorInv, ReadsAwaited
  <2>5. ReadsLast'
    <3> SUFFICES ASSUME NEW i \in DOMAIN pipe', pipe'[i].kind = "read",
                        pipe'[i].of \notin overtaken'[pipe'[i].job],
                        NEW k \in DOMAIN pipe', k > i, pipe'[k].kind = "write",
                        pipe'[k].of = pipe'[i].of
                 PROVE  FALSE
      BY DEF ReadsLast
    <3>1. i \in DOMAIN pipe /\ pipe'[i] = pipe[i]
      BY <2>2, <2>3
    <3>2. pipe[i].job \in Jobs /\ pipe[i].of \in wanted[pipe[i].job]
      <4>1. pipe[i] \in Request
        BY <2>1, <3>1
      <4>2. QED BY <3>1, <4>1 DEF MirrorInv, ReadsAwaited, Request
    <3>3. pipe[i].of \notin overtaken[pipe[i].job] /\ pipe[i].of \notin S
      BY <1>1, <3>1, <3>2
    <3>4. CASE k \in DOMAIN pipe
      BY <2>2, <3>1, <3>3, <3>4 DEF MirrorInv, ReadsLast
    <3>5. CASE k \notin DOMAIN pipe
      BY <2>2, <3>1, <3>3, <3>5
    <3>6. QED BY <3>4, <3>5
  <2>6. ASSUME NEW s, s \notin S, NEW c \in Fields PROVE Expected(s, c)' = Expected(s, c)
    <3>1. \A i \in DOMAIN W : ~Writes(W[i], s, c)
      BY <2>6 DEF Writes
    <3>2. QED BY <2>1, <3>1, AfterAppendNone, ExpectedIs
  <2>7. AnswersCurrent'
    <3> SUFFICES ASSUME NEW j \in Jobs, NEW s \in arrived'[j] \ overtaken'[j],
                        sample'[j][s] # NoData, NEW c \in Fields
                 PROVE  sample'[j][s][c] = Expected(s, c)'
      BY DEF AnswersCurrent
    <3>1. s \in wanted[j] /\ s \notin S /\ s \in arrived[j] \ overtaken[j]
      BY <1>1 DEF MirrorInv, JobsTidy, jobs
    <3>2. QED BY <1>4, <2>6, <3>1 DEF MirrorInv, AnswersCurrent, jobs
  <2>8. MirrorCurrent'
    <3> SUFFICES ASSUME NEW s \in Writable \ suspect, NEW c \in Fields
                 PROVE  mem'[s][c] = Expected(s, c)'
      BY DEF MirrorCurrent
    <3>1. mem[s][c] = Expected(s, c)
      BY <1>4 DEF MirrorInv, MirrorCurrent
    <3>2. CASE s \notin S
      BY <2>6, <3>1, <3>2
    <3>3. CASE s \in S
      <4>1. PICK k \in DOMAIN W :
              /\ \A i \in DOMAIN W : W[i].of = s <=> i = k
              /\ \A d \in Fields : mem'[s][d] = IF d \in DOMAIN W[k].patch THEN W[k].patch[d]
                                                                         ELSE mem[s][d]
        BY <3>3
      <4>2. CASE c \in DOMAIN W[k].patch
        <5>1. Writes(W[k], s, c) /\ \A i \in DOMAIN W : Writes(W[i], s, c) => i = k
          BY <4>1, <4>2 DEF Writes
        <5>2. After(pipe \o W, plc[s][c], s, c) = W[k].patch[c]
          BY <2>1, <5>1, AfterAppend
        <5>3. QED BY <2>1, <4>1, <4>2, <5>2, ExpectedIs
      <4>3. CASE c \notin DOMAIN W[k].patch
        <5>1. \A i \in DOMAIN W : ~Writes(W[i], s, c)
          BY <4>1, <4>3 DEF Writes
        <5>2. After(pipe \o W, plc[s][c], s, c) = After(pipe, plc[s][c], s, c)
          BY <2>1, <5>1, AfterAppendNone
        <5>3. QED BY <2>1, <3>1, <4>1, <4>3, <5>2, ExpectedIs
      <4>4. QED BY <4>2, <4>3
    <3>4. QED BY <3>2, <3>3
  <2>9. QED BY <1>2, <2>1, <2>4, <2>5, <2>7, <2>8 DEF MirrorInv, NothingSentInVain
<1>5. QED BY <1>3, <1>4

LEMMA MirrorMutation ==
    ASSUME MirrorInv, NEW m \in Mutations, Mutation(m), FirstFault(m) = "none"
    PROVE  MirrorInv'
<1> DEFINE W == MutationWrites(m)
           S == DOMAIN m
<1>1. MuxTypeInv /\ MuxTypeInv'
  BY MutationType DEF MirrorInv
<1>2. pipe' = Send(W) /\ Overtake(S) /\ UNCHANGED <<jobs, clientUp, plc, suspect>>
  BY DEF Mutation
<1>3. /\ S \subseteq Writable
      /\ \A s \in S : Merged(s, m[s]) \in Rows /\ mem'[s] = Encode(Merged(s, m[s]))
      /\ \A s \in Writable \ S : mem'[s] = mem[s]
  BY <1>1, MutationMemory, WritableStructs
<1>4. \A s \in S : LET w == MutationWrite(s, m[s]) IN
         /\ w.kind = "write" /\ w.of = s
         /\ \A c \in Fields : mem'[s][c] = IF c \in DOMAIN w.patch THEN w.patch[c] ELSE mem[s][c]
  <2> SUFFICES ASSUME NEW s \in S
               PROVE  LET w == MutationWrite(s, m[s]) IN
                      /\ w.kind = "write" /\ w.of = s
                      /\ \A c \in Fields : mem'[s][c] = IF c \in DOMAIN w.patch THEN w.patch[c]
                                                                              ELSE mem[s][c]
    OBVIOUS
  <2>1. s \in Writable /\ mem[s] \in Rows /\ Merged(s, m[s]) \in Rows
    BY <1>1, <1>3, MuxTypeParts, WritableStructs
  <2>2. QED BY <1>3, <2>1, MutationWriteParts
<1>5. /\ W \in Seq(Request)
      /\ \A i \in DOMAIN W : W[i].of \in S /\ W[i] = MutationWrite(W[i].of, m[W[i].of])
      /\ \A s \in S : \E i \in DOMAIN W : \A k \in DOMAIN W : W[k].of = s <=> k = i
  BY <1>1, MutationRequests
<1> HIDE DEF W, S
<1>6. \A i \in DOMAIN W : W[i].kind = "write" /\ W[i].of \in S
  BY <1>4, <1>5
<1>7. ASSUME NEW s \in S
      PROVE  \E k \in DOMAIN W :
                /\ \A i \in DOMAIN W : W[i].of = s <=> i = k
                /\ \A c \in Fields : mem'[s][c] = IF c \in DOMAIN W[k].patch THEN W[k].patch[c]
                                                                           ELSE mem[s][c]
  <2>1. PICK k \in DOMAIN W : \A i \in DOMAIN W : W[i].of = s <=> i = k
    BY <1>5
  <2>2. W[k] = MutationWrite(s, m[s])
    BY <1>5, <2>1
  <2>3. \A c \in Fields : mem'[s][c] = IF c \in DOMAIN W[k].patch THEN W[k].patch[c] ELSE mem[s][c]
    BY <1>4, <2>2
  <2>4. QED BY <2>1, <2>3
<1>8. QED BY <1>1, <1>2, <1>3, <1>5, <1>6, <1>7, MirrorWrite

LEMMA MirrorHeartBeat ==
    ASSUME MirrorInv, HeartBeat, ~TagFault(TO, FALSE)
    PROVE  MirrorInv'
<1> DEFINE w == Write(TO, [c \in {Ctr} |-> count])
           W == <<w>>
<1>1. MuxTypeInv /\ MuxTypeInv'
  BY HeartBeatType DEF MirrorInv
<1>2. pipe' = Send(W) /\ Overtake({TO}) /\ UNCHANGED <<jobs, clientUp, plc, suspect>>
  BY DEF HeartBeat
<1>3. /\ mem'[TO] = [mem[TO] EXCEPT ![Ctr] = count] /\ w \in Request
      /\ \A s \in Writable \ {TO} : mem'[s] = mem[s]
      /\ mem[TO] \in [Fields -> Values]
  BY <1>1, HeartBeatMemory, MuxTypeParts, WritableStructs DEF Rows
<1>4. w.kind = "write" /\ w.of = TO /\ w.patch = [c \in {Ctr} |-> count]
  BY DEF Write
<1>5. \A c \in Fields : mem'[TO][c] = IF c \in DOMAIN w.patch THEN w.patch[c] ELSE mem[TO][c]
  <2> HIDE DEF w
  <2>1. QED BY <1>3, <1>4
<1> HIDE DEF w
<1>6. W \in Seq(Request) /\ DOMAIN W = {1} /\ W[1] = w
  BY <1>3
<1> HIDE DEF W
<1>7. \A i \in DOMAIN W : W[i].kind = "write" /\ W[i].of \in {TO}
  BY <1>4, <1>6
<1>8. \A s \in {TO} : \E k \in DOMAIN W :
         /\ \A i \in DOMAIN W : W[i].of = s <=> i = k
         /\ \A c \in Fields : mem'[s][c] = IF c \in DOMAIN W[k].patch THEN W[k].patch[c]
                                                                    ELSE mem[s][c]
  BY <1>4, <1>5, <1>6
<1>9. QED BY <1>1, <1>2, <1>3, <1>6, <1>7, <1>8, MirrorWrite

LEMMA MirrorResolve ==
    ASSUME MirrorInv, NEW a \in Clients, NEW names \in Resolves, Resolve(a, names),
           \A i \in DOMAIN names : names[i] \in Writable
    PROVE  MirrorInv'
<1> DEFINE R == [i \in DOMAIN names |-> Read(a, names[i])]
           N == {names[i] : i \in DOMAIN names}
<1>1. MuxTypeInv /\ MuxTypeInv' /\ a \in Jobs
  BY ResolveType DEF MirrorInv, Jobs
<1>2. /\ wanted[a] = {} /\ clientUp
      /\ wanted' = [wanted EXCEPT ![a] = N] /\ pipe' = Send(R)
      /\ UNCHANGED <<memory, arrived, sample, clientUp, plc, history>>
  BY DEF Resolve
<1>3. /\ R \in Seq(Request) /\ DOMAIN R = DOMAIN names
      /\ \A i \in DOMAIN R : R[i].kind = "read" /\ R[i].job = a /\ R[i].of = names[i]
  BY ResolveReads
<1>4. \A i, k \in DOMAIN names : names[i] = names[k] => i = k
  BY MuxAssumption
<1>5. /\ \A i \in DOMAIN R : R[i].of \in N
      /\ \A i, k \in DOMAIN R : R[i].of = R[k].of => i = k
  BY <1>3, <1>4
<1> HIDE DEF R, N
<1>6. arrived[a] = {} /\ overtaken[a] = {} /\ wanted \in [Jobs -> SUBSET Writable]
  BY <1>1, <1>2, MuxTypeParts DEF MirrorInv, JobsTidy
<1>7. /\ wanted'[a] = N /\ \A j \in Jobs \ {a} : wanted'[j] = wanted[j]
      /\ arrived' = arrived /\ overtaken' = overtaken
  BY <1>1, <1>2, <1>6 DEF history
<1>8. AnswersWhole' /\ JobsTidy'
  BY <1>2, <1>6, <1>7 DEF MirrorInv, AnswersWhole, JobsTidy
<1>9. pipe' = pipe \o R /\ pipe \in Seq(Request)
  BY <1>1, <1>2, MuxTypeParts DEF Send
<1>10. /\ \A i \in DOMAIN pipe : /\ i \in DOMAIN pipe' /\ pipe'[i] = pipe[i] /\ i \in Nat
                                 /\ \A k \in DOMAIN R : i < Len(pipe) + k
       /\ \A i \in DOMAIN pipe' : \/ i \in DOMAIN pipe
                                  \/ \E k \in DOMAIN R : i = Len(pipe) + k /\ pipe'[i] = R[k]
  BY <1>3, <1>9, Joined
<1>11. \A i \in DOMAIN pipe : pipe[i].kind = "read" => pipe[i].job \in Jobs \ {a}
  <2> SUFFICES ASSUME NEW i \in DOMAIN pipe, pipe[i].kind = "read"
               PROVE  pipe[i].job \in Jobs \ {a}
    OBVIOUS
  <2>1. pipe[i] \in Request
    BY <1>9
  <2>2. pipe[i].job \in Jobs /\ pipe[i].of \in wanted[pipe[i].job]
    BY <2>1 DEF Request, MirrorInv, ReadsAwaited
  <2>3. QED BY <1>2, <2>2
<1>12. ReadsAwaited'
  <2> SUFFICES ASSUME NEW i \in DOMAIN pipe', pipe'[i].kind = "read"
               PROVE  /\ pipe'[i].of \in wanted'[pipe'[i].job] \ arrived'[pipe'[i].job]
                      /\ \A k \in DOMAIN pipe' :
                            pipe'[k].kind = "read" /\ pipe'[k].of = pipe'[i].of
                            /\ pipe'[k].job = pipe'[i].job => k = i
    BY DEF ReadsAwaited
  <2>1. CASE i \in DOMAIN pipe
    <3>1. pipe'[i] = pipe[i] /\ pipe[i].job \in Jobs \ {a}
      BY <1>10, <1>11, <2>1
    <3>2. pipe'[i].of \in wanted'[pipe'[i].job] \ arrived'[pipe'[i].job]
      BY <1>7, <2>1, <3>1 DEF MirrorInv, ReadsAwaited
    <3>3. ASSUME NEW k \in DOMAIN pipe', pipe'[k].kind = "read", pipe'[k].of = pipe'[i].of,
                 pipe'[k].job = pipe'[i].job
          PROVE  k = i
      <4>1. k \in DOMAIN pipe
        BY <1>3, <1>10, <3>1, <3>3
      <4>2. QED BY <1>10, <2>1, <3>1, <3>3, <4>1 DEF MirrorInv, ReadsAwaited
    <3>4. QED BY <3>2, <3>3
  <2>2. ASSUME NEW h \in DOMAIN R, i = Len(pipe) + h, pipe'[i] = R[h]
        PROVE  /\ pipe'[i].of \in wanted'[pipe'[i].job] \ arrived'[pipe'[i].job]
               /\ \A k \in DOMAIN pipe' :
                     pipe'[k].kind = "read" /\ pipe'[k].of = pipe'[i].of
                     /\ pipe'[k].job = pipe'[i].job => k = i
    <3>1. pipe'[i].job = a /\ pipe'[i].of \in N
      BY <1>3, <1>5, <2>2
    <3>2. pipe'[i].of \in wanted'[pipe'[i].job] \ arrived'[pipe'[i].job]
      BY <1>6, <1>7, <3>1
    <3>3. ASSUME NEW k \in DOMAIN pipe', pipe'[k].kind = "read", pipe'[k].of = pipe'[i].of,
                 pipe'[k].job = pipe'[i].job
          PROVE  k = i
      <4>1. k \notin DOMAIN pipe
        BY <1>10, <1>11, <3>1, <3>3
      <4>2. PICK g \in DOMAIN R : k = Len(pipe) + g /\ pipe'[k] = R[g]
        BY <1>10, <4>1
      <4>3. g = h
        BY <1>5, <2>2, <3>3, <4>2
      <4>4. QED BY <2>2, <4>2, <4>3
    <3>4. QED BY <3>2, <3>3
  <2>3. QED BY <1>10, <2>1, <2>2
<1>13. ReadsLast'
  <2> SUFFICES ASSUME NEW i \in DOMAIN pipe', pipe'[i].kind = "read",
                      pipe'[i].of \notin overtaken'[pipe'[i].job],
                      NEW k \in DOMAIN pipe', k > i, pipe'[k].kind = "write",
                      pipe'[k].of = pipe'[i].of
               PROVE  FALSE
    BY DEF ReadsLast
  <2>1. k \in DOMAIN pipe /\ pipe'[k] = pipe[k]
    BY <1>3, <1>10
  <2>2. i \in DOMAIN pipe
    <3>1. ASSUME NEW h \in DOMAIN R, i = Len(pipe) + h PROVE FALSE
      <4>1. k < i /\ k \in Nat
        BY <1>10, <2>1, <3>1
      <4>2. Len(pipe) \in Nat /\ h \in Nat
        BY <1>3, <1>9
      <4>3. QED BY <3>1, <4>1, <4>2
    <3>2. QED BY <1>10, <3>1
  <2>3. QED BY <1>7, <1>10, <2>1, <2>2 DEF MirrorInv, ReadsLast
<1>14. \A s, c : Expected(s, c)' = Expected(s, c)
  <2> SUFFICES ASSUME NEW s, NEW c PROVE Expected(s, c)' = Expected(s, c)
    OBVIOUS
  <2>1. \A i \in DOMAIN R : ~Writes(R[i], s, c)
    BY <1>3 DEF Writes
  <2>2. After(pipe \o R, plc[s][c], s, c) = After(pipe, plc[s][c], s, c)
    BY <1>3, <1>9, <2>1, AfterAppendNone
  <2>3. QED BY <1>2, <1>9, <2>2, ExpectedIs
<1>15. AnswersCurrent' /\ MirrorCurrent'
  BY <1>2, <1>14 DEF MirrorInv, AnswersCurrent, MirrorCurrent, memory, history
<1>16. QED BY <1>1, <1>2, <1>8, <1>12, <1>13, <1>15 DEF MirrorInv, NothingSentInVain

\* The job that ends has no reads on their way.
LEMMA MirrorFinish ==
    ASSUME MirrorInv, NEW j \in Jobs, FinishJob(j), ~\E s \in wanted[j] : TagFault(s, FALSE)
    PROVE  MirrorInv'
<1>1. MuxTypeInv /\ MuxTypeInv'
  BY FinishJobType DEF MirrorInv
<1>2. /\ arrived[j] = wanted[j]
      /\ suspect' = {s \in Structs : IF s \in wanted[j] /\ sample[j][s] # NoData
                                     THEN s \in overtaken[j] ELSE s \in suspect}
      /\ wanted' = [wanted EXCEPT ![j] = {}]
      /\ arrived' = [arrived EXCEPT ![j] = {}]
      /\ sample' = [sample EXCEPT ![j] = [s \in Structs |-> NoData]]
      /\ overtaken' = [overtaken EXCEPT ![j] = {}]
      /\ UNCHANGED <<clientUp, pipe, plc>>
  BY DEF FinishJob
<1>3. /\ wanted \in [Jobs -> SUBSET Writable] /\ arrived \in [Jobs -> SUBSET Writable]
      /\ overtaken \in [Jobs -> SUBSET Writable] /\ pipe \in Seq(Request)
      /\ sample \in [Jobs -> [Structs -> Rows \cup {NoData}]]
      /\ mem \in [Structs -> Rows]
  BY <1>1, MuxTypeParts DEF MirrorInv, AnswersWhole
<1>4. /\ wanted'[j] = {} /\ arrived'[j] = {} /\ overtaken'[j] = {}
      /\ \A i \in Jobs \ {j} : /\ wanted'[i] = wanted[i] /\ arrived'[i] = arrived[i]
                               /\ overtaken'[i] = overtaken[i] /\ sample'[i] = sample[i]
  BY <1>2, <1>3
<1>5. AnswersWhole' /\ JobsTidy'
  BY <1>2, <1>3, <1>4 DEF MirrorInv, AnswersWhole, JobsTidy
<1>6. \A i \in DOMAIN pipe : pipe[i].kind = "read" => pipe[i].job \in Jobs \ {j}
  <2> SUFFICES ASSUME NEW i \in DOMAIN pipe, pipe[i].kind = "read"
               PROVE  pipe[i].job \in Jobs \ {j}
    OBVIOUS
  <2>1. pipe[i] \in Request
    BY <1>3
  <2>2. pipe[i].job \in Jobs /\ pipe[i].of \in wanted[pipe[i].job] \ arrived[pipe[i].job]
    BY <2>1 DEF Request, MirrorInv, ReadsAwaited
  <2>3. QED BY <1>2, <2>2
<1>7. ReadsAwaited' /\ ReadsLast' /\ NothingSentInVain'
  BY <1>2, <1>4, <1>6 DEF MirrorInv, ReadsAwaited, ReadsLast, NothingSentInVain
<1>8. \A s, c : Expected(s, c)' = Expected(s, c)
  BY <1>2, ExpectedIs
<1>9. AnswersCurrent'
  BY <1>2, <1>4, <1>8 DEF MirrorInv, AnswersCurrent
<1>10. MirrorCurrent'
  <2> SUFFICES ASSUME clientUp, NEW s \in Writable \ suspect', NEW c \in Fields
               PROVE  mem'[s][c] = Expected(s, c)
    BY <1>2, <1>8 DEF MirrorCurrent
  <2>1. s \in Structs
    BY WritableStructs
  <2>2. CASE s \in wanted[j] /\ sample[j][s] # NoData
    <3>1. s \in arrived[j] \ overtaken[j]
      BY <1>2, <2>1, <2>2
    <3>2. sample[j][s][c] = Expected(s, c)
      BY <2>2, <3>1 DEF MirrorInv, AnswersCurrent
    <3>3. mem'[s] = Apply(mem[s], sample[j][s]) /\ sample[j][s] \in [Fields -> Values]
      <4>1. sample[j][s] \in Rows
        BY <1>3, <2>1, <2>2
      <4>2. mem'[s] = Loaded(j, s)
        BY <1>1, <2>2, FinishMemory
      <4>3. QED BY <4>1, <4>2 DEF Loaded, Rows
    <3>4. mem'[s][c] = sample[j][s][c]
      BY <3>3 DEF Apply
    <3>5. QED BY <3>2, <3>4
  <2>3. CASE s \in wanted[j] /\ sample[j][s] = NoData
    <3>1. mem'[s] = Apply(mem[s], NoData) /\ s \notin suspect
      BY <1>1, <1>2, <2>1, <2>3, FinishMemory DEF Loaded
    <3>2. mem'[s][c] = mem[s][c]
      BY <3>1 DEF Apply, NoData
    <3>3. QED BY <3>1, <3>2 DEF MirrorInv, MirrorCurrent
  <2>4. CASE s \notin wanted[j]
    <3>1. mem'[s] = mem[s] /\ s \notin suspect
      BY <1>1, <1>2, <2>1, <2>4, FinishMemory
    <3>2. QED BY <3>1 DEF MirrorInv, MirrorCurrent
  <2>5. QED BY <2>2, <2>3, <2>4
<1>11. QED BY <1>1, <1>5, <1>7, <1>9, <1>10 DEF MirrorInv

LEMMA MirrorFails ==
    ASSUME MirrorInv, NEW j \in Jobs, JobFails(j), ~Panic("handle_request")
    PROVE  MirrorInv'
<1>1. MuxTypeInv /\ MuxTypeInv'
  BY JobFailsType DEF MirrorInv
<1>2. /\ ~clientUp
      /\ wanted' = [wanted EXCEPT ![j] = {}]
      /\ arrived' = [arrived EXCEPT ![j] = {}]
      /\ sample' = [sample EXCEPT ![j] = [s \in Structs |-> NoData]]
      /\ overtaken' = [overtaken EXCEPT ![j] = {}]
      /\ UNCHANGED <<clientUp, pipe>>
  BY DEF JobFails
<1>3. AnswersWhole' /\ JobsTidy'
  <2>1. wanted \in [Jobs -> SUBSET Writable] /\ overtaken \in [Jobs -> SUBSET Writable]
        /\ arrived \in [Jobs -> SUBSET Writable]
    BY <1>1, MuxTypeParts
  <2>2. QED BY <1>2, <2>1 DEF MirrorInv, AnswersWhole, JobsTidy
<1>4. pipe' = <<>> /\ ~clientUp'
  BY <1>2 DEF MirrorInv, NothingSentInVain
<1>5. QED BY <1>1, <1>3, <1>4 DEF MirrorInv, ReadsAwaited, ReadsLast, AnswersCurrent,
                                 NothingSentInVain, MirrorCurrent

LEMMA MirrorStops == ASSUME MirrorInv, ClientStops PROVE MirrorInv'
<1>1. MuxTypeInv' /\ pipe' = <<>> /\ ~clientUp' /\ UNCHANGED <<jobs, overtaken>>
  BY StopType DEF MirrorInv, ClientStops, history
<1>2. QED BY <1>1 DEF MirrorInv, AnswersWhole, JobsTidy, ReadsAwaited, ReadsLast, AnswersCurrent,
                      NothingSentInVain, MirrorCurrent, jobs

\* The PLC executes a write: what is expected of it stays as it was.
LEMMA MirrorServes ==
    ASSUME MirrorInv, PlcServes
    PROVE  MirrorInv'
<1> DEFINE r == Head(pipe)
<1>1. MuxTypeInv /\ MuxTypeInv'
  BY PlcServesType DEF MirrorInv
<1>2. /\ clientUp /\ clientUp' /\ pipe # <<>> /\ pipe' = Tail(pipe)
      /\ UNCHANGED <<mem, overtaken, suspect>>
  BY DEF PlcServes, memory
<1>3. /\ pipe \in Seq(Request) /\ r \in Request /\ 1 \in DOMAIN pipe /\ r = pipe[1]
      /\ \A i \in DOMAIN pipe' : /\ i \in Nat /\ i + 1 \in DOMAIN pipe /\ i + 1 # 1
                                 /\ i + 1 > 1 /\ pipe'[i] = pipe[i + 1]
      /\ \A i, k \in DOMAIN pipe' : (i + 1 = k + 1 => i = k) /\ (k > i => k + 1 > i + 1)
  <2>1. pipe \in Seq(Request) /\ pipe # <<>>
    BY <1>1, <1>2, MuxTypeParts
  <2>2. QED BY <1>2, <2>1
<1> HIDE DEF r
<1>4. ReadsLast'
  <2> SUFFICES ASSUME NEW i \in DOMAIN pipe', pipe'[i].kind = "read",
                      pipe'[i].of \notin overtaken[pipe'[i].job],
                      NEW k \in DOMAIN pipe', k > i, pipe'[k].kind = "write",
                      pipe'[k].of = pipe'[i].of
               PROVE  FALSE
    BY <1>2 DEF ReadsLast
  <2>1. /\ i + 1 \in DOMAIN pipe /\ pipe'[i] = pipe[i + 1]
        /\ k + 1 \in DOMAIN pipe /\ pipe'[k] = pipe[k + 1] /\ k + 1 > i + 1
    BY <1>3
  <2>2. QED BY <2>1 DEF MirrorInv, ReadsLast
<1>5. ASSUME wanted' = wanted,
             \A i \in DOMAIN pipe' : pipe'[i].kind = "read" =>
                 pipe'[i].of \notin arrived'[pipe'[i].job]
      PROVE  ReadsAwaited'
  <2> SUFFICES ASSUME NEW i \in DOMAIN pipe', pipe'[i].kind = "read"
               PROVE  /\ pipe'[i].of \in wanted'[pipe'[i].job] \ arrived'[pipe'[i].job]
                      /\ \A k \in DOMAIN pipe' :
                            pipe'[k].kind = "read" /\ pipe'[k].of = pipe'[i].of
                            /\ pipe'[k].job = pipe'[i].job => k = i
    BY DEF ReadsAwaited
  <2>1. i + 1 \in DOMAIN pipe /\ pipe'[i] = pipe[i + 1]
    BY <1>3
  <2>2. ASSUME NEW k \in DOMAIN pipe', pipe'[k].kind = "read", pipe'[k].of = pipe'[i].of,
               pipe'[k].job = pipe'[i].job
        PROVE  k = i
    <3>1. k + 1 \in DOMAIN pipe /\ pipe'[k] = pipe[k + 1]
      BY <1>3
    <3>2. k + 1 = i + 1
      BY <2>1, <2>2, <3>1 DEF MirrorInv, ReadsAwaited
    <3>3. QED BY <1>3, <3>2
  <2>3. QED BY <1>5, <2>1, <2>2 DEF MirrorInv, ReadsAwaited
<1>6. CASE r.kind = "write"
  <2>1. plc' = [plc EXCEPT ![r.of] = Apply(@, r.patch)] /\ UNCHANGED jobs
    BY <1>6 DEF PlcServes, r
  <2>2. \A i \in DOMAIN pipe' : pipe'[i].kind = "read" =>
           pipe'[i].of \notin arrived'[pipe'[i].job]
    BY <1>3, <2>1 DEF MirrorInv, ReadsAwaited, jobs
  <2>3. ASSUME NEW s \in Structs, NEW c \in Fields PROVE Expected(s, c)' = Expected(s, c)
    <3>1. plc \in [Structs -> Rows]
      BY <1>1, MuxTypeParts
    <3>2. CASE Writes(r, s, c)
      <4>1. plc'[s][c] = r.patch[c]
        BY <2>1, <3>1, <3>2 DEF Writes, Apply
      <4>2. After(Tail(pipe), r.patch[c], s, c) = After(pipe, plc[s][c], s, c)
        BY <1>2, <1>3, <3>2, AfterTail DEF r
      <4>3. QED BY <1>2, <4>1, <4>2, ExpectedIs
    <3>3. CASE ~Writes(r, s, c)
      <4>1. plc'[s][c] = plc[s][c]
        BY <1>6, <2>1, <3>1, <3>3 DEF Writes, Apply
      <4>2. After(Tail(pipe), plc[s][c], s, c) = After(pipe, plc[s][c], s, c)
        BY <1>2, <1>3, <3>3, AfterTail DEF r
      <4>3. QED BY <1>2, <4>1, <4>2, ExpectedIs
    <3>4. QED BY <3>2, <3>3
  <2>4. \A i \in Jobs : arrived[i] \subseteq Structs
    BY <1>1, MuxTypeParts, WritableStructs
  <2>5. MirrorCurrent' /\ AnswersCurrent'
    BY <1>2, <2>1, <2>3, <2>4, WritableStructs
    DEF MirrorInv, MirrorCurrent, AnswersCurrent, jobs
  <2>6. ReadsAwaited'
    BY <1>5, <2>1, <2>2 DEF jobs
  <2>7. QED BY <1>1, <1>2, <1>4, <2>1, <2>5, <2>6 DEF MirrorInv, AnswersWhole, JobsTidy,
                                                    NothingSentInVain, jobs
<1>7. CASE r.kind = "read"
  <2>1. (Answered(r) \/ AnswerLost(r)) /\ UNCHANGED plc
    BY <1>7 DEF PlcServes, r
  <2>2. r.of \in Writable /\ r.of \in Structs /\ r.job \in Jobs
        /\ r.of \in wanted[r.job] \ arrived[r.job]
    BY <1>3, <1>7, WritableStructs DEF Request, MirrorInv, ReadsAwaited
  <2>3. \A s, c : Expected(s, c)' = Expected(s, c)
    <3> SUFFICES ASSUME NEW s, NEW c PROVE Expected(s, c)' = Expected(s, c)
      OBVIOUS
    <3>1. ~Writes(r, s, c)
      BY <1>7 DEF Writes
    <3>2. After(Tail(pipe), plc[s][c], s, c) = After(pipe, plc[s][c], s, c)
      BY <1>2, <1>3, <3>1, AfterTail DEF r
    <3>3. QED BY <1>2, <2>1, <3>2, ExpectedIs
  <2>4. MirrorCurrent'
    BY <1>2, <2>3 DEF MirrorInv, MirrorCurrent
  <2>5. CASE AnswerLost(r)
    <3>1. UNCHANGED jobs
      BY <2>5 DEF AnswerLost
    <3>2. \A i \in DOMAIN pipe' : pipe'[i].kind = "read" =>
             pipe'[i].of \notin arrived'[pipe'[i].job]
      BY <1>3, <3>1 DEF MirrorInv, ReadsAwaited, jobs
    <3>3. ReadsAwaited'
      BY <1>5, <3>1, <3>2 DEF jobs
    <3>4. AnswersCurrent'
      BY <1>2, <2>3, <3>1 DEF MirrorInv, AnswersCurrent, jobs
    <3>5. QED BY <1>1, <1>2, <1>4, <2>4, <3>1, <3>3, <3>4
              DEF MirrorInv, AnswersWhole, JobsTidy, NothingSentInVain, jobs
  <2>6. CASE Answered(r)
    <3>1. /\ arrived' = [arrived EXCEPT ![r.job] = @ \cup {r.of}] /\ wanted' = wanted
          /\ \E d \in {plc[r.of], NoData} : sample' = [sample EXCEPT ![r.job][r.of] = d]
      BY <2>6 DEF Answered
    <3>2. PICK d \in {plc[r.of], NoData} : sample' = [sample EXCEPT ![r.job][r.of] = d]
      BY <3>1
    <3>3. /\ sample \in [Jobs -> [Structs -> Rows \cup {NoData}]] /\ plc[r.of] \in Rows
          /\ arrived \in [Jobs -> SUBSET Writable]
      BY <1>1, <2>2, MuxTypeParts DEF MirrorInv, AnswersWhole
    <3>4. AnswersWhole'
      BY <2>2, <3>2, <3>3 DEF AnswersWhole
    <3>5. JobsTidy'
      BY <1>2, <2>2, <3>1, <3>3 DEF MirrorInv, JobsTidy
    <3>6. ASSUME NEW i \in DOMAIN pipe', pipe'[i].kind = "read"
          PROVE  pipe'[i].of \notin arrived'[pipe'[i].job]
      <4>1. i + 1 \in DOMAIN pipe /\ i + 1 # 1 /\ pipe'[i] = pipe[i + 1]
        BY <1>3
      <4>2. pipe'[i].of \notin arrived[pipe'[i].job]
        BY <3>6, <4>1 DEF MirrorInv, ReadsAwaited
      <4>3. ~(pipe'[i].of = r.of /\ pipe'[i].job = r.job)
        <5>1. \A k \in DOMAIN pipe : pipe[k].kind = "read" /\ pipe[k].of = r.of
                                     /\ pipe[k].job = r.job => k = 1
          BY <1>3, <1>7 DEF MirrorInv, ReadsAwaited
        <5>2. QED BY <3>6, <4>1, <5>1
      <4>4. pipe'[i].job \in Jobs
        <5>1. pipe'[i] \in Request
          BY <1>3, <4>1
        <5>2. QED BY <3>6, <5>1 DEF Request
      <4>5. QED BY <3>1, <3>3, <4>2, <4>3, <4>4
    <3>7. ReadsAwaited'
      BY <1>5, <3>1, <3>6
    <3>8. AnswersCurrent'
      <4> SUFFICES ASSUME NEW i \in Jobs, NEW s \in arrived'[i] \ overtaken[i],
                          sample'[i][s] # NoData, NEW c \in Fields
                   PROVE  sample'[i][s][c] = Expected(s, c)
        BY <1>2, <2>3 DEF AnswersCurrent
      <4>1. CASE i = r.job /\ s = r.of
        <5>1. sample'[i][s] = d /\ d = plc[s]
          BY <2>2, <3>2, <3>3, <4>1
        <5>2. \A k \in DOMAIN pipe : k > 1 => ~(pipe[k].kind = "write" /\ pipe[k].of = s)
          BY <1>3, <1>7, <4>1 DEF MirrorInv, ReadsLast
        <5>3. \A k \in DOMAIN pipe : k = 1 \/ k > 1
          BY <1>3
        <5>4. \A k \in DOMAIN pipe : ~Writes(pipe[k], s, c)
          BY <1>3, <1>7, <5>2, <5>3 DEF Writes
        <5>5. Expected(s, c) = plc[s][c]
          BY <5>4, AfterNone, ExpectedIs
        <5>6. QED BY <5>1, <5>5
      <4>2. CASE ~(i = r.job /\ s = r.of)
        <5>1. s \in arrived[i] /\ s \in Structs
          BY <2>2, <3>1, <3>3, <4>2, WritableStructs
        <5>2. sample'[i][s] = sample[i][s]
          BY <2>2, <3>2, <3>3, <4>2, <5>1
        <5>3. QED BY <1>2, <5>1, <5>2 DEF MirrorInv, AnswersCurrent
      <4>3. QED BY <4>1, <4>2
    <3>9. QED BY <1>1, <1>2, <1>4, <2>4, <3>4, <3>5, <3>7, <3>8 DEF MirrorInv, NothingSentInVain
  <2>7. QED BY <2>1, <2>5, <2>6
<1>8. QED BY <1>3, <1>6, <1>7 DEF Request

LEMMA MirrorNext == MirrorInv /\ [Next]_vars => MirrorInv'
<1> SUFFICES ASSUME MirrorInv, [Next]_vars PROVE MirrorInv'
  OBVIOUS
<1>1. MuxTypeInv /\ MuxTypeInv'
  BY MuxTypeNext DEF MirrorInv
<1>2. \A site : Panic(site) => MirrorInv'
  <2> SUFFICES ASSUME NEW site, Panic(site) PROVE MirrorInv'
    OBVIOUS
  <2>1. UNCHANGED <<mem, plc, jobs, overtaken, suspect, clientUp, pipe>>
    BY DEF Panic, memory, history
  <2>2. QED BY <1>1, <2>1, MirrorKept
<1>3. ASSUME NEW a \in Clients, Session(a) PROVE MirrorInv'
  <2>1. CASE \A site : ~Panic(site)
    <3>1. UNCHANGED <<mem, plc, jobs, overtaken, suspect, clientUp, pipe>>
      BY <1>3, <2>1 DEF Session, Register, Unregister, Subscription, memory, history
    <3>2. QED BY <1>1, <3>1, MirrorKept
  <2>2. QED BY <1>2, <2>1
<1>4. ASSUME NEW m \in Mutations, Mutation(m) PROVE MirrorInv'
  <2>1. CASE FirstFault(m) # "none"
    BY <1>2, <1>4, <2>1 DEF Mutation
  <2>2. QED BY <1>4, <2>1, MirrorMutation
<1>5. ASSUME NEW a \in Clients, NEW names \in Resolves, Resolve(a, names) PROVE MirrorInv'
  <2>1. CASE \E i \in DOMAIN names : names[i] \notin Writable
    BY <1>2, <1>5, <2>1 DEF Resolve
  <2>2. QED BY <1>5, <2>1, MirrorResolve
<1>6. ASSUME NEW j \in Jobs, FinishJob(j) PROVE MirrorInv'
  <2>1. CASE \E s \in wanted[j] : TagFault(s, FALSE)
    BY <1>2, <1>6, <2>1 DEF FinishJob
  <2>2. QED BY <1>6, <2>1, MirrorFinish
<1>7. ASSUME NEW j \in Jobs, JobFails(j) PROVE MirrorInv'
  BY <1>2, <1>7, MirrorFails
<1>8. ASSUME HeartBeat PROVE MirrorInv'
  <2>1. CASE TagFault(TO, FALSE)
    BY <1>2, <1>8, <2>1 DEF HeartBeat
  <2>2. QED BY <1>8, <2>1, MirrorHeartBeat
<1>9. ASSUME OnPlcWrite PROVE MirrorInv'
  <2>1. CASE Panic("slice") \/ Panic("as_schema")
    BY <1>2, <2>1
  <2>2. CASE ~(Panic("slice") \/ Panic("as_schema"))
    <3>1. UNCHANGED <<plc, jobs, overtaken, suspect, clientUp, pipe>>
      BY <1>9, <2>2 DEF OnPlcWrite, history
    <3>2. \A s \in Writable : mem'[s] = mem[s]
      BY <1>1, <1>9, <2>2, OnPlcWriteMemory, WritableStructs
    <3>3. QED BY <1>1, <3>1, <3>2, MirrorKept
  <2>3. QED BY <2>1, <2>2
<1>10. ASSUME NEW p \in PlcPushes, PlcPush(p) PROVE MirrorInv'
  <2>1. /\ UNCHANGED <<mem, jobs, overtaken, suspect, clientUp, pipe>>
        /\ \A s \in Structs \ {FROM} : plc'[s] = plc[s]
    BY <1>1, <1>10, MuxTypeParts DEF PlcPush, memory
  <2>2. QED BY <1>1, <2>1, MirrorKept, WritableStructs
<1>11. ASSUME StreamEnds \/ UNCHANGED vars PROVE MirrorInv'
  <2>1. UNCHANGED <<mem, plc, jobs, overtaken, suspect, clientUp, pipe>>
    BY <1>11 DEF StreamEnds, vars, memory, history
  <2>2. QED BY <1>1, <2>1, MirrorKept
<1>12. QED BY <1>3, <1>4, <1>5, <1>6, <1>7, <1>8, <1>9, <1>10, <1>11, MirrorServes, MirrorStops
           DEF Next

LEMMA Mirrors == Spec => []MirrorInv
BY MirrorInit, MirrorNext, PTL DEF Spec

\* The mirror of a structure is what the PLC's memory will be when the requests on
\* their way are executed, for any number of sessions that mutate and resolve it
\* at once and however slow the PLC is, unless handle_future copied an answer
\* over it that a write had overtaken.
THEOREM MirrorIsCurrent == Spec => []MirrorCurrent
BY Mirrors, PTL DEF MirrorInv

\* The prefix of a mutation repeats what the PLC has or will have.
LEMMA MutationKeeps ==
    ASSUME MirrorInv, MirrorInv', JsonMatchesBytes, NEW m \in Mutations,
           NEW s \in (DOMAIN m \cap Writable) \ suspect, Mutation(m), clientUp,
           status' = "running", NEW c \in Fields \ DOMAIN m[s]
    PROVE  Expected(s, c)' \in {Expected(s, c), Limit[c]}
<1>1. MuxTypeInv
  BY DEF MirrorInv
<1>2. FirstFault(m) = "none"
  BY DEF Mutation, Panic
<1>3. clientUp' /\ suspect' = suspect /\ s \in Structs
  BY <1>2, WritableStructs DEF Mutation
<1>4. mem'[s][c] = Expected(s, c)' /\ mem[s][c] = Expected(s, c)
  BY <1>3 DEF MirrorInv, MirrorCurrent
<1>5. mem'[s] = Encode(Merged(s, m[s])) /\ Merged(s, m[s]) \in Rows
  BY <1>1, <1>2, MutationMemory
<1>6. mem[s] \in Rows /\ data[s] \in Rows
  BY <1>1, <1>3, MuxTypeParts
<1>7. Merged(s, m[s])[c] = data[s][c]
  BY DEF Merged, Apply
<1>8. mem'[s][c] = Encode(data[s])[c]
  BY <1>5, <1>6, <1>7, CodedType
<1>9. Encode(data[s]) = Encode(mem[s])
  BY <1>3 DEF JsonMatchesBytes
<1>10. Encode(mem[s])[c] \in {mem[s][c], Limit[c]}
  BY <1>6, CodedType
<1>11. QED BY <1>4, <1>8, <1>9, <1>10

\* A mutation changes the fields of the PLC that it names and no others: what it
\* repeats below the last byte that differs is what the PLC holds by then, but
\* for a number that the bytes cannot hold.
THEOREM MutationsKeepOthers == Spec => MutationKeepsOthers
<1>1. MirrorInv /\ MirrorInv' /\ JsonMatchesBytes /\ [Next]_vars =>
        \A m \in Mutations : \A s \in (DOMAIN m \cap Writable) \ suspect :
            Mutation(m) /\ clientUp /\ status' = "running" =>
                \A c \in Fields \ DOMAIN m[s] : Expected(s, c)' \in {Expected(s, c), Limit[c]}
  BY MutationKeeps
<1>2. QED BY <1>1, Mirrors, JsonAndBytesAgree, PTL DEF Spec, MutationKeepsOthers

-----------------------------------------------------------------------------
\* ST_ADS_FROM_BC, which only the PLC writes.

\* What a field holds when the writes in a channel have been taken.
Latest(q, v, c) ==
    LET D == {i \in DOMAIN q : c \in Taken(q[i])}
    IN  IF D = {} THEN v ELSE q[SX!Max(D)].bytes[c]

LEMMA LatestNone ==
    ASSUME NEW q, NEW v, NEW c, \A i \in DOMAIN q : c \notin Taken(q[i])
    PROVE  Latest(q, v, c) = v
BY DEF Latest

LEMMA LatestAt ==
    ASSUME NEW q \in Seq(PlcPushes), NEW v, NEW c, NEW k \in DOMAIN q, c \in Taken(q[k]),
           \A i \in DOMAIN q : c \in Taken(q[i]) => i <= k
    PROVE  Latest(q, v, c) = q[k].bytes[c]
<1> DEFINE D == {i \in DOMAIN q : c \in Taken(q[i])}
<1>1. D \subseteq Nat /\ k \in D /\ \A i \in D : k >= i
  <2>1. DOMAIN q \subseteq Nat
    OBVIOUS
  <2>2. QED BY <2>1
<1>2. Latest(q, v, c) = IF D = {} THEN v ELSE q[SX!Max(D)].bytes[c]
  BY DEF Latest
<1> HIDE DEF D
<1>3. SX!Max(D) = k
  BY <1>1, MaxIs
<1>4. QED BY <1>1, <1>2, <1>3

LEMMA LastTaker ==
    ASSUME NEW q \in Seq(PlcPushes), NEW c
    PROVE  \/ \A i \in DOMAIN q : c \notin Taken(q[i])
           \/ \E k \in DOMAIN q : /\ c \in Taken(q[k])
                                  /\ \A i \in DOMAIN q : c \in Taken(q[i]) => i <= k
<1> DEFINE D == {i \in DOMAIN q : c \in Taken(q[i])}
<1>1. D \subseteq 1..Len(q) /\ Len(q) \in Nat
  OBVIOUS
<1>2. CASE D = {}
  BY <1>2
<1>3. CASE D # {}
  <2>1. PICK k \in D : \A i \in D : k >= i
    <3> HIDE DEF D
    <3>1. QED BY <1>1, <1>3, MaxExists
  <2>2. \A i \in D : i <= k
    BY <1>1, <2>1
  <2>3. QED BY <2>1, <2>2
<1>4. QED BY <1>2, <1>3

LEMMA LatestAppend ==
    ASSUME NEW q \in Seq(PlcPushes), NEW p \in PlcPushes, NEW v, NEW c
    PROVE  /\ c \in Taken(p) => Latest(Append(q, p), v, c) = p.bytes[c]
           /\ c \notin Taken(p) => Latest(Append(q, p), v, c) = Latest(q, v, c)
<1> DEFINE z == Append(q, p)
<1>1. /\ z \in Seq(PlcPushes) /\ Len(q) \in Nat /\ DOMAIN q = 1..Len(q)
      /\ DOMAIN z = 1..(Len(q) + 1) /\ z[Len(q) + 1] = p /\ \A i \in DOMAIN q : z[i] = q[i]
  OBVIOUS
<1> HIDE DEF z
<1>2. CASE c \in Taken(p)
  <2>1. Len(q) + 1 \in DOMAIN z /\ \A i \in DOMAIN z : i <= Len(q) + 1
    BY <1>1
  <2>2. Latest(z, v, c) = z[Len(q) + 1].bytes[c]
    BY <1>1, <1>2, <2>1, LatestAt
  <2>3. QED BY <1>1, <1>2, <2>2 DEF z
<1>3. ASSUME c \notin Taken(p), \A i \in DOMAIN q : c \notin Taken(q[i])
      PROVE  Latest(z, v, c) = Latest(q, v, c)
  <2>1. \A i \in DOMAIN z : i \in DOMAIN q \/ i = Len(q) + 1
    BY <1>1
  <2>2. \A i \in DOMAIN z : c \notin Taken(z[i])
    BY <1>1, <1>3, <2>1
  <2>3. QED BY <1>3, <2>2, LatestNone
<1>4. ASSUME c \notin Taken(p), NEW k \in DOMAIN q, c \in Taken(q[k]),
             \A i \in DOMAIN q : c \in Taken(q[i]) => i <= k
      PROVE  Latest(z, v, c) = Latest(q, v, c)
  <2>1. \A i \in DOMAIN z : i \in DOMAIN q \/ i = Len(q) + 1
    BY <1>1
  <2>2. k \in DOMAIN z /\ c \in Taken(z[k]) /\ z[k] = q[k]
    BY <1>1, <1>4
  <2>3. \A i \in DOMAIN z : c \in Taken(z[i]) => i <= k
    BY <1>1, <1>4, <2>1
  <2>4. Latest(z, v, c) = z[k].bytes[c]
    BY <1>1, <2>2, <2>3, LatestAt
  <2>5. Latest(q, v, c) = q[k].bytes[c]
    BY <1>4, LatestAt
  <2>6. QED BY <2>2, <2>4, <2>5
<1>5. QED BY <1>2, <1>3, <1>4, LastTaker DEF z

LEMMA LatestTail ==
    ASSUME NEW q \in Seq(PlcPushes), q # <<>>, NEW v, NEW c
    PROVE  /\ c \notin Taken(Head(q)) => Latest(Tail(q), v, c) = Latest(q, v, c)
           /\ c \in Taken(Head(q)) => Latest(Tail(q), Head(q).bytes[c], c) = Latest(q, v, c)
<1> DEFINE z == Tail(q)
<1>1. /\ z \in Seq(PlcPushes) /\ DOMAIN q = 1..Len(q) /\ DOMAIN z = 1..(Len(q) - 1)
      /\ Len(q) \in Nat \ {0} /\ \A i \in DOMAIN z : z[i] = q[i + 1]
      /\ Head(q) = q[1] /\ 1 \in DOMAIN q
  OBVIOUS
<1> HIDE DEF z
<1>2. \A i \in DOMAIN z : i + 1 \in DOMAIN q
  BY <1>1
<1>3. \A i \in DOMAIN q : i = 1 \/ (i - 1 \in DOMAIN z /\ z[i - 1] = q[i])
  <2> SUFFICES ASSUME NEW i \in DOMAIN q, i # 1 PROVE i - 1 \in DOMAIN z /\ z[i - 1] = q[i]
    OBVIOUS
  <2>1. i \in Nat /\ i - 1 \in DOMAIN z /\ (i - 1) + 1 = i
    BY <1>1
  <2>2. QED BY <1>1, <2>1
<1>4. CASE \A i \in DOMAIN z : c \notin Taken(z[i])
  <2>1. \A w : Latest(z, w, c) = w
    BY <1>4, LatestNone
  <2>2. \A i \in DOMAIN q : c \in Taken(q[i]) => i = 1
    BY <1>3, <1>4
  <2>3. CASE c \in Taken(Head(q))
    <3>1. c \in Taken(q[1]) /\ \A i \in DOMAIN q : c \in Taken(q[i]) => i <= 1
      BY <1>1, <2>2, <2>3
    <3>2. Latest(q, v, c) = q[1].bytes[c]
      BY <1>1, <3>1, LatestAt, SMTT(30)
    <3>3. QED BY <1>1, <2>1, <2>3, <3>2 DEF z
  <2>4. CASE c \notin Taken(Head(q))
    <3>1. \A i \in DOMAIN q : c \notin Taken(q[i])
      BY <1>1, <2>2, <2>4
    <3>2. QED BY <2>1, <2>4, <3>1, LatestNone DEF z
  <2>5. QED BY <2>3, <2>4
<1>5. ASSUME NEW k \in DOMAIN z, c \in Taken(z[k]),
             \A i \in DOMAIN z : c \in Taken(z[i]) => i <= k
      PROVE  \A w : Latest(z, w, c) = Latest(q, v, c)
  <2>1. ASSUME NEW w PROVE Latest(z, w, c) = z[k].bytes[c]
    <3>1. z \in Seq(PlcPushes) /\ k \in DOMAIN z /\ c \in Taken(z[k])
          /\ \A i \in DOMAIN z : c \in Taken(z[i]) => i <= k
      BY <1>1, <1>5
    <3>2. QED BY <3>1, LatestAt
  <2>2. k + 1 \in DOMAIN q /\ q[k + 1] = z[k] /\ k \in Nat
    BY <1>1, <1>2
  <2>3. ASSUME NEW i \in DOMAIN q, c \in Taken(q[i]) PROVE i <= k + 1
    <3>1. i \in Nat
      BY <1>1
    <3>2. i = 1 \/ i - 1 <= k
      BY <1>3, <1>5, <2>3
    <3>3. QED BY <2>2, <3>1, <3>2
  <2>4. Latest(q, v, c) = q[k + 1].bytes[c]
    BY <1>5, <2>2, <2>3, LatestAt
  <2>5. QED BY <2>1, <2>2, <2>4
<1>6. QED BY <1>1, <1>4, <1>5, LastTaker DEF z

LEMMA FromBcIs ==
    /\ FromBcCurrent <=> \A c \in Fields \ behind : plc[FROM][c] = Latest(channel, mem[FROM][c], c)
    /\ FromBcCurrent' <=>
          \A c \in Fields \ behind' : plc'[FROM][c] = Latest(channel', mem'[FROM][c], c)
BY DEF FromBcCurrent, TakersOf, Latest

\* Steps that leave ST_ADS_FROM_BC and the channel alone.
LEMMA FromBcKept ==
    ASSUME MuxTypeInv, FromBcCurrent, mem'[FROM] = mem[FROM], plc'[FROM] = plc[FROM],
           UNCHANGED <<channel, behind>>
    PROVE  FromBcCurrent'
BY FromBcIs

\* What a write puts in its place it took, and wrote to the same field.
LEMMA PlacedParts ==
    ASSUME NEW p \in PlcPushes, NEW c \in Fields
    PROVE  /\ c \in Placed(p) => c \in Taken(p) /\ p.bytes[c] = p.bytes[c - p.off]
           /\ c \in Taken(p) => c \in Pushed(p)
<1>1. c \in Nat /\ p.off \in Nat /\ Len(p.bytes) \in Nat
  BY FieldsType, PushParts
<1>2. QED BY <1>1 DEF Placed, Taken, Pushed

LEMMA FromBcPush ==
    ASSUME MuxTypeInv, FromBcCurrent, NEW p \in PlcPushes, PlcPush(p)
    PROVE  FromBcCurrent'
<1> SUFFICES ASSUME NEW c \in Fields \ behind'
             PROVE  plc'[FROM][c] = Latest(channel', mem'[FROM][c], c)
  BY FromBcIs
<1>1. plc \in [Structs -> Rows] /\ channel \in Seq(PlcPushes) /\ FROM \in Structs
  BY MuxTypeParts, WritableStructs
<1>2. plc'[FROM] = [d \in Fields |-> IF d \in Pushed(p) THEN p.bytes[d - p.off] ELSE plc[FROM][d]]
      /\ mem' = mem
  BY <1>1 DEF PlcPush, memory
<1>3. \/ channel' = Append(channel, p) /\ behind' = (behind \cup Pushed(p)) \ Placed(p)
      \/ channel' = channel /\ behind' = behind \cup Pushed(p)
  BY DEF PlcPush
<1>4. CASE c \in Pushed(p)
  <2>1. channel' = Append(channel, p) /\ c \in Placed(p)
    BY <1>3, <1>4
  <2>2. c \in Taken(p) /\ p.bytes[c] = p.bytes[c - p.off]
    BY <2>1, PlacedParts
  <2>3. plc'[FROM][c] = p.bytes[c]
    BY <1>2, <1>4, <2>2
  <2>4. QED BY <1>1, <2>1, <2>2, <2>3, LatestAppend
<1>5. CASE c \notin Pushed(p)
  <2>1. c \notin Taken(p) /\ c \notin Placed(p)
    BY <1>5, PlacedParts
  <2>2. c \notin behind /\ (channel' = Append(channel, p) \/ channel' = channel)
    BY <1>3, <2>1
  <2>3. plc'[FROM][c] = plc[FROM][c]
    BY <1>2, <1>5
  <2>4. plc[FROM][c] = Latest(channel, mem[FROM][c], c)
    BY <2>2, FromBcIs
  <2>5. Latest(Append(channel, p), mem[FROM][c], c) = Latest(channel, mem[FROM][c], c)
    BY <1>1, <2>1, LatestAppend
  <2>6. Latest(channel', mem[FROM][c], c) = Latest(channel, mem[FROM][c], c)
    BY <2>2, <2>5
  <2>7. QED BY <1>2, <2>3, <2>4, <2>6
<1>6. QED BY <1>4, <1>5

LEMMA FromBcWrite ==
    ASSUME MuxTypeInv, FromBcCurrent, OnPlcWrite, ~Panic("slice"), ~Panic("as_schema")
    PROVE  FromBcCurrent'
<1> DEFINE w == Head(channel)
<1> SUFFICES ASSUME NEW c \in Fields \ behind'
             PROVE  plc'[FROM][c] = Latest(channel', mem'[FROM][c], c)
  BY FromBcIs
<1>1. channel # <<>> /\ channel' = Tail(channel) /\ UNCHANGED <<plc, behind>>
  BY DEF OnPlcWrite, history
<1>2. channel \in Seq(PlcPushes) /\ mem'[FROM] = Received(w)
  BY <1>1, MuxTypeParts, OnPlcWriteMemory
<1>3. plc[FROM][c] = Latest(channel, mem[FROM][c], c)
  BY <1>1, FromBcIs
<1>4. mem'[FROM][c] = IF c \in Taken(w) THEN w.bytes[c] ELSE mem[FROM][c]
  BY <1>2 DEF Received
<1>5. QED BY <1>1, <1>2, <1>3, <1>4, LatestTail

LEMMA FromBcNext ==
    ASSUME MuxTypeInv, FromBcCurrent, [Next]_vars
    PROVE  FromBcCurrent'
<1>1. /\ mem \in [Structs -> Rows] /\ plc \in [Structs -> Rows] /\ FROM \in Structs \ Writable
      /\ \A j \in Jobs : FROM \notin wanted[j]
  BY MuxTypeParts, WritableStructs
<1>2. \A site : Panic(site) => FromBcCurrent'
  <2>1. \A site : Panic(site) => UNCHANGED <<mem, plc, channel, behind>>
    BY DEF Panic, memory, history
  <2>2. QED BY <2>1, FromBcKept
<1>3. ASSUME NEW a \in Clients, Session(a) PROVE FromBcCurrent'
  <2>1. CASE \A site : ~Panic(site)
    <3>1. UNCHANGED <<mem, plc, channel, behind>>
      BY <1>3, <2>1 DEF Session, Register, Unregister, Subscription, memory, history
    <3>2. QED BY <3>1, FromBcKept
  <2>2. QED BY <1>2, <2>1
<1>4. ASSUME NEW m \in Mutations, Mutation(m) PROVE FromBcCurrent'
  <2>1. CASE FirstFault(m) # "none"
    BY <1>2, <1>4, <2>1 DEF Mutation
  <2>2. CASE FirstFault(m) = "none"
    <3>1. mem'[FROM] = mem[FROM]
      BY <1>1, <1>4, <2>2, MutationMemory
    <3>2. UNCHANGED <<plc, channel, behind>>
      BY <1>4, <2>2 DEF Mutation
    <3>3. QED BY <3>1, <3>2, FromBcKept
  <2>3. QED BY <2>1, <2>2
<1>5. ASSUME NEW a \in Clients, NEW names \in Resolves, Resolve(a, names) PROVE FromBcCurrent'
  <2>1. CASE \A site : ~Panic(site)
    <3>1. UNCHANGED <<mem, plc, channel, behind>>
      BY <1>5, <2>1 DEF Resolve, memory, history
    <3>2. QED BY <3>1, FromBcKept
  <2>2. QED BY <1>2, <2>1
<1>6. ASSUME NEW j \in Jobs, FinishJob(j) PROVE FromBcCurrent'
  <2>1. CASE \E s \in wanted[j] : TagFault(s, FALSE)
    BY <1>2, <1>6, <2>1 DEF FinishJob
  <2>2. CASE ~\E s \in wanted[j] : TagFault(s, FALSE)
    <3>1. mem'[FROM] = mem[FROM]
      BY <1>1, <1>6, <2>2, FinishMemory
    <3>2. UNCHANGED <<plc, channel, behind>>
      BY <1>6, <2>2 DEF FinishJob
    <3>3. QED BY <3>1, <3>2, FromBcKept
  <2>3. QED BY <2>1, <2>2
<1>7. ASSUME NEW j \in Jobs, JobFails(j) PROVE FromBcCurrent'
  <2>1. CASE \A site : ~Panic(site)
    <3>1. UNCHANGED <<mem, plc, channel, behind>>
      BY <1>7, <2>1 DEF JobFails, memory
    <3>2. QED BY <3>1, FromBcKept
  <2>2. QED BY <1>2, <2>1
<1>8. ASSUME HeartBeat PROVE FromBcCurrent'
  <2>1. CASE TagFault(TO, FALSE)
    BY <1>2, <1>8, <2>1 DEF HeartBeat
  <2>2. CASE ~TagFault(TO, FALSE)
    <3>1. mem'[FROM] = mem[FROM]
      BY <1>8, <2>2, HeartBeatMemory, KeysApart
    <3>2. UNCHANGED <<plc, channel, behind>>
      BY <1>8, <2>2 DEF HeartBeat
    <3>3. QED BY <3>1, <3>2, FromBcKept
  <2>3. QED BY <2>1, <2>2
<1>9. ASSUME OnPlcWrite PROVE FromBcCurrent'
  BY <1>2, <1>9, FromBcWrite
<1>10. ASSUME PlcServes PROVE FromBcCurrent'
  <2>1. pipe # <<>> /\ UNCHANGED <<mem, channel, behind>>
    BY <1>10 DEF PlcServes, memory
  <2>2. Head(pipe) \in Request
    BY <2>1, MuxTypeParts
  <2>3. plc'[FROM] = plc[FROM]
    <3>1. \/ plc' = plc
          \/ /\ Head(pipe).kind = "write"
             /\ plc' = [plc EXCEPT ![Head(pipe).of] = Apply(@, Head(pipe).patch)]
      BY <1>10 DEF PlcServes
    <3>2. Head(pipe).of # FROM
      BY <1>1, <2>2 DEF Request
    <3>3. QED BY <1>1, <3>1, <3>2
  <2>4. QED BY <2>1, <2>3, FromBcKept
<1>11. ASSUME StreamEnds \/ ClientStops \/ UNCHANGED vars PROVE FromBcCurrent'
  <2>1. UNCHANGED <<mem, plc, channel, behind>>
    BY <1>11 DEF StreamEnds, ClientStops, vars, memory, history
  <2>2. QED BY <2>1, FromBcKept
<1>12. QED BY <1>3, <1>4, <1>5, <1>6, <1>7, <1>8, <1>9, <1>10, <1>11, FromBcPush DEF Next

\* What the multiplexer holds, or has queued, of a field of ST_ADS_FROM_BC is what
\* the PLC holds, for writes of any offset and length, however full the channel
\* gets and whenever the client stops; but for the fields whose last write was
\* dropped, or got another byte of it than the PLC put there: handle takes
\* data[off..] to [off..len] (ws_ads.rs:134-135), the PLC wrote it from off on.
THEOREM FromBcIsCurrent == Spec => []FromBcCurrent
<1>1. MuxTypeInv /\ FromBcCurrent /\ [Next]_vars => (MuxTypeInv /\ FromBcCurrent)'
  BY MuxTypeNext, FromBcNext
<1>2. Init => MuxTypeInv /\ FromBcCurrent
  BY MuxTypeInit DEF Init, FromBcCurrent
<1>3. QED BY <1>1, <1>2, PTL DEF Spec
=============================================================================
