------------------------ MODULE AdsPrimitivesProofs ------------------------
(***************************************************************************)
(* Proofs about AdsPrimitives: what to_writer makes of a JSON leaf and     *)
(* as_data_struct of its bytes, one after the other in both orders, for    *)
(* every type but Other, any width and any number of values of a byte; and *)
(* what a slice that is written into a row of bytes leaves of it.          *)
(***************************************************************************)
EXTENDS AdsPrimitives, WellFoundedInduction, SequenceTheorems, TLAPS

\* A set with 0 and the successor of each of its numbers has all of them.
LEMMA Counting ==
    ASSUME NEW T, 0 \in T, \A n \in Nat : n \in T => n + 1 \in T
    PROVE  Nat \subseteq T
<1> SUFFICES ASSUME Nat \ T # {} PROVE FALSE
  OBVIOUS
<1> DEFINE Rel == {ss \in Nat \X Nat : ss[1] < ss[2]}
           Rest == Nat \ T
<1>1. IsWellFoundedOn(Rel, Nat)
  BY NatLessThanWellFounded DEF OpToRel
<1>2. Rest \subseteq Nat /\ Rest # {}
  OBVIOUS
<1>3. PICK z \in Rest : \A y \in Rest : ~(<<y, z>> \in Rel)
  <2> HIDE DEF Rest, Rel
  <2>1. QED BY <1>1, <1>2, WFMin
<1>4. \A y \in Rest : ~(y < z)
  BY <1>3
<1>5. z \in Nat /\ z # 0 /\ z \notin T
  OBVIOUS
<1>6. z - 1 \in Nat /\ z - 1 < z /\ (z - 1) + 1 = z
  BY <1>5
<1>7. z - 1 \notin T
  BY <1>5, <1>6
<1>8. QED BY <1>4, <1>6, <1>7

\* f begins with c and goes on by g, up to n.
Follows(f, n, c, g) == f[0] = c /\ \A i \in 0..(n - 1) : f[i + 1] = g[i][f[i]]

LEMMA FollowsOnce ==
    ASSUME NEW n \in Nat, NEW c, NEW g, NEW f, NEW h, Follows(f, n, c, g), Follows(h, n, c, g)
    PROVE  f[n] = h[n]
<1> DEFINE T == {i \in Nat : i <= n => f[i] = h[i]}
<1>1. 0 \in T
  BY DEF Follows
<1>2. ASSUME NEW i \in Nat, i \in T PROVE i + 1 \in T
  <2>1. CASE i + 1 <= n
    <3>1. i \in 0..(n - 1) /\ f[i] = h[i]
      BY <1>2, <2>1
    <3>2. QED BY <3>1 DEF Follows
  <2>2. CASE ~(i + 1 <= n)
    BY <2>2
  <2>3. QED BY <2>1, <2>2
<1>3. Nat \subseteq T
  <2> HIDE DEF T
  <2>1. QED BY <1>1, <1>2, Counting
<1>4. QED BY <1>3

LEMMA FollowsUpTo ==
    ASSUME NEW S, NEW c \in S, NEW g \in [Nat -> [S -> S]]
    PROVE  \A n \in Nat : \E f \in [Nat -> S] : Follows(f, n, c, g)
<1> DEFINE T == {n \in Nat : \E f \in [Nat -> S] : Follows(f, n, c, g)}
<1>1. 0 \in T
  <2>1. [i \in Nat |-> c] \in [Nat -> S] /\ Follows([i \in Nat |-> c], 0, c, g)
    BY DEF Follows
  <2>2. QED BY <2>1
<1>2. ASSUME NEW n \in Nat, n \in T PROVE n + 1 \in T
  <2>1. PICK f \in [Nat -> S] : Follows(f, n, c, g)
    BY <1>2
  <2> DEFINE h == [f EXCEPT ![n + 1] = g[n][f[n]]]
  <2>2. h \in [Nat -> S]
    OBVIOUS
  <2>3. h[0] = c /\ h[n + 1] = g[n][h[n]] /\ \A i \in 0..n : h[i] = f[i]
    BY <2>1 DEF Follows
  <2>4. ASSUME NEW i \in 0..n PROVE h[i + 1] = g[i][h[i]]
    <3>1. CASE i = n
      BY <2>3, <3>1
    <3>2. CASE i # n
      <4>1. i \in 0..(n - 1) /\ i + 1 \in 0..n
        BY <3>2
      <4>2. f[i + 1] = g[i][f[i]]
        BY <2>1, <4>1 DEF Follows
      <4>3. QED BY <2>3, <4>1, <4>2
    <3>3. QED BY <3>1, <3>2
  <2>5. Follows(h, n + 1, c, g)
    <3>1. (n + 1) - 1 = n
      OBVIOUS
    <3> HIDE DEF h
    <3>2. QED BY <2>3, <2>4, <3>1 DEF Follows
  <2> HIDE DEF h
  <2>6. QED BY <2>2, <2>5
<1>3. Nat \subseteq T
  <2> HIDE DEF T
  <2>1. QED BY <1>1, <1>2, Counting
<1>4. QED BY <1>3

Runs(f, c, g) == f[0] = c /\ \A i \in Nat : f[i + 1] = g[i][f[i]]

LEMMA Recursion ==
    ASSUME NEW S, NEW c \in S, NEW g \in [Nat -> [S -> S]]
    PROVE  \E f \in [Nat -> S] : Runs(f, c, g)
<1> DEFINE To(n) == CHOOSE f \in [Nat -> S] : Follows(f, n, c, g)
           F == [n \in Nat |-> To(n)[n]]
<1>1. \A n \in Nat : To(n) \in [Nat -> S] /\ Follows(To(n), n, c, g)
  BY FollowsUpTo
<1> HIDE DEF To
<1>2. F \in [Nat -> S]
  BY <1>1
<1>3. F[0] = c
  BY <1>1 DEF Follows
<1>4. ASSUME NEW n \in Nat PROVE F[n + 1] = g[n][F[n]]
  <2>1. Follows(To(n + 1), n, c, g) /\ To(n + 1)[n + 1] = g[n][To(n + 1)[n]]
    BY <1>1 DEF Follows
  <2>2. To(n + 1)[n] = To(n)[n]
    BY <1>1, <2>1, FollowsOnce
  <2>3. QED BY <2>1, <2>2
<1>5. QED BY <1>2, <1>3, <1>4 DEF Runs
-----------------------------------------------------------------------------
\* Powers.

LEMMA PowerFacts ==
    ASSUME NEW b \in Nat, b > 0
    PROVE  /\ Power(b, 0) = 1
           /\ \A n \in Nat : /\ Power(b, n) \in Nat /\ Power(b, n) > 0
                             /\ Power(b, n + 1) = b * Power(b, n)
<1> DEFINE p[i \in Nat] == IF i = 0 THEN 1 ELSE b * p[i - 1]
           Def(f) == f = [i \in Nat |-> IF i = 0 THEN 1 ELSE b * f[i - 1]]
           Pos == Nat \ {0}
           g == [i \in Nat |-> [x \in Pos |-> b * x]]
<1>1. g \in [Nat -> [Pos -> Pos]]
  <2>1. \A x \in Pos : b * x \in Pos
    OBVIOUS
  <2>2. QED BY <2>1
<1>2. PICK f \in [Nat -> Pos] : f[0] = 1 /\ \A i \in Nat : f[i + 1] = g[i][f[i]]
  <2>1. PICK c \in Pos : c = 1
    OBVIOUS
  <2> HIDE DEF g, Pos, p, Def
  <2>2. \E f \in [Nat -> Pos] : Runs(f, c, g)
    BY <1>1, <2>1, Recursion
  <2>3. QED BY <2>1, <2>2 DEF Runs
<1>3. \A i \in Nat : f[i] = IF i = 0 THEN 1 ELSE b * f[i - 1]
  <2>1. ASSUME NEW i \in Nat, i # 0 PROVE f[i] = b * f[i - 1]
    <3>1. i - 1 \in Nat /\ (i - 1) + 1 = i
      BY <2>1
    <3>2. f[i] = g[i - 1][f[i - 1]] /\ f[i - 1] \in Pos
      BY <1>2, <3>1
    <3>3. QED BY <3>1, <3>2
  <2>2. QED BY <1>2, <2>1
<1>4. Def(f)
  <2>1. f = [i \in Nat |-> f[i]]
    BY <1>2
  <2>2. QED BY <1>3, <2>1
<1>5. p = CHOOSE h : Def(h)
  OBVIOUS
<1>6. Def(p)
  BY <1>4, <1>5
<1>7. \A i \in Nat : p[i] = IF i = 0 THEN 1 ELSE b * p[i - 1]
  <2> HIDE DEF p
  <2>1. p = [i \in Nat |-> IF i = 0 THEN 1 ELSE b * p[i - 1]]
    BY <1>6
  <2>2. QED BY <2>1
<1>8. \A n : Power(b, n) = p[n]
  BY DEF Power
<1> HIDE DEF p
<1>9. \A n \in Nat : p[n + 1] = b * p[n]
  <2>1. ASSUME NEW n \in Nat PROVE n + 1 \in Nat /\ n + 1 # 0 /\ (n + 1) - 1 = n
    OBVIOUS
  <2>2. QED BY <1>7, <2>1
<1>10. p[0] = 1
  BY <1>7
<1> DEFINE T == {n \in Nat : p[n] \in Pos}
<1>11. Nat \subseteq T
  <2>1. 0 \in T
    BY <1>10
  <2>2. ASSUME NEW n \in Nat, n \in T PROVE n + 1 \in T
    <3>1. p[n] \in Pos /\ b * p[n] \in Pos
      BY <2>2
    <3>2. QED BY <1>9, <3>1
  <2> HIDE DEF T
  <2>3. QED BY <2>1, <2>2, Counting
<1>12. \A n \in Nat : p[n] \in Nat /\ p[n] > 0
  BY <1>11
<1>13. QED BY <1>8, <1>9, <1>10, <1>12

LEMMA BaseFacts == Base \in Nat /\ Base > 1 /\ Base % 2 = 0
BY PrimitiveAssumption

LEMMA PowFacts ==
    /\ Pow(0) = 1
    /\ \A w \in Nat : /\ Pow(w) \in Nat /\ Pow(w) > 0
                      /\ Pow(w + 1) = Base * Pow(w)
<1>1. Base \in Nat /\ Base > 0
  BY BaseFacts
<1>2. /\ Power(Base, 0) = 1
      /\ \A n \in Nat : /\ Power(Base, n) \in Nat /\ Power(Base, n) > 0
                        /\ Power(Base, n + 1) = Base * Power(Base, n)
  BY <1>1, PowerFacts
<1>3. QED BY <1>2 DEF Pow

-----------------------------------------------------------------------------
\* Numbers as bytes.

\* What Number has found in the first i bytes.
LEMMA NumberParts ==
    ASSUME NEW w \in Nat, NEW b \in [1..w -> Byte]
    PROVE  \E u \in [0..w -> Nat] :
              /\ u[0] = 0 /\ u[w] = Number(b)
              /\ \A i \in 0..(w - 1) : u[i + 1] = u[i] + b[i + 1] * Pow(i)
<1> DEFINE upTo[i \in 0..Len(b)] == IF i = 0 THEN 0 ELSE upTo[i - 1] + b[i] * Pow(i - 1)
           Def(f) == f = [i \in 0..Len(b) |-> IF i = 0 THEN 0 ELSE f[i - 1] + b[i] * Pow(i - 1)]
           g == [i \in Nat |-> [x \in Nat |-> IF i + 1 \in 1..w THEN x + b[i + 1] * Pow(i) ELSE x]]
<1>1. Len(b) = w /\ \A i \in 1..w : b[i] \in Nat
  <2>1. Byte \subseteq Nat
    BY BaseFacts DEF Byte
  <2>2. \A i \in 1..w : b[i] \in Nat
    BY <2>1
  <2>3. Len(b) = w
    <3> HIDE DEF Byte
    <3>1. QED OBVIOUS
  <2>4. QED BY <2>2, <2>3
<1>2. g \in [Nat -> [Nat -> Nat]]
  <2>1. ASSUME NEW i \in Nat, NEW x \in Nat
        PROVE (IF i + 1 \in 1..w THEN x + b[i + 1] * Pow(i) ELSE x) \in Nat
    <3>1. CASE i + 1 \in 1..w
      <4>1. b[i + 1] \in Nat /\ Pow(i) \in Nat
        BY <1>1, <3>1, PowFacts
      <4>2. b[i + 1] * Pow(i) \in Nat
        BY <4>1
      <4>3. QED BY <3>1, <4>2
    <3>2. QED BY <3>1
  <2>2. QED BY <2>1
<1>3. PICK f \in [Nat -> Nat] : f[0] = 0 /\ \A i \in Nat : f[i + 1] = g[i][f[i]]
  <2>1. PICK c \in Nat : c = 0
    OBVIOUS
  <2> HIDE DEF g, upTo, Def
  <2>2. \E f \in [Nat -> Nat] : Runs(f, c, g)
    BY <1>2, <2>1, Recursion
  <2>3. QED BY <2>1, <2>2 DEF Runs
<1>4. PICK u \in [0..w -> Nat] :
          u[0] = 0 /\ \A i \in 0..(w - 1) : u[i + 1] = u[i] + b[i + 1] * Pow(i)
  <2> DEFINE h == [i \in 0..w |-> f[i]]
  <2>1. h \in [0..w -> Nat] /\ h[0] = 0
    BY <1>3
  <2>2. ASSUME NEW i \in 0..(w - 1) PROVE h[i + 1] = h[i] + b[i + 1] * Pow(i)
    <3>1. i \in Nat /\ i + 1 \in 1..w /\ i \in 0..w /\ i + 1 \in 0..w
      OBVIOUS
    <3>2. f[i + 1] = g[i][f[i]] /\ f[i] \in Nat
      BY <1>3, <3>1
    <3>3. g[i][f[i]] = f[i] + b[i + 1] * Pow(i)
      BY <3>1, <3>2
    <3>4. QED BY <3>1, <3>2, <3>3
  <2> HIDE DEF h
  <2>3. QED BY <2>1, <2>2
<1> HIDE DEF g
<1>6. Def(u)
  <2>1. ASSUME NEW i \in 1..w PROVE u[i] = u[i - 1] + b[i] * Pow(i - 1)
    <3>1. i - 1 \in 0..(w - 1) /\ (i - 1) + 1 = i
      OBVIOUS
    <3>2. QED BY <1>4, <3>1
  <2>2. u = [i \in 0..w |-> u[i]]
    BY <1>4
  <2>3. \A i \in 0..w : i # 0 => i \in 1..w
    OBVIOUS
  <2>4. \A i \in 0..w : u[i] = IF i = 0 THEN 0 ELSE u[i - 1] + b[i] * Pow(i - 1)
    BY <1>4, <2>1, <2>3
  <2>5. QED BY <1>1, <2>2, <2>4
<1>7. Number(b) = upTo[Len(b)]
  BY DEF Number
<1>8. upTo = CHOOSE h : Def(h)
  OBVIOUS
<1>9. Def(upTo)
  BY <1>6, <1>8
<1>10. PICK v : /\ v[Len(b)] = Number(b)
                /\ \A i \in 0..w : v[i] = IF i = 0 THEN 0 ELSE v[i - 1] + b[i] * Pow(i - 1)
  <2> HIDE DEF upTo
  <2>1. upTo = [i \in 0..w |-> IF i = 0 THEN 0 ELSE upTo[i - 1] + b[i] * Pow(i - 1)]
    BY <1>1, <1>9
  <2>2. \A i \in 0..w : upTo[i] = IF i = 0 THEN 0 ELSE upTo[i - 1] + b[i] * Pow(i - 1)
    BY <2>1
  <2>3. QED BY <1>7, <2>2
<1> HIDE DEF upTo, Def
<1> DEFINE T == {i \in Nat : i <= w => v[i] = u[i]}
<1>11. Nat \subseteq T
  <2>1. 0 \in T
    <3>1. 0 \in 0..w
      OBVIOUS
    <3>2. v[0] = 0 /\ u[0] = 0
      BY <1>4, <1>10, <3>1
    <3>3. QED BY <3>2
  <2>2. ASSUME NEW i \in Nat, i \in T PROVE i + 1 \in T
    <3>1. CASE i + 1 <= w
      <4>1. i \in 0..(w - 1) /\ i + 1 \in 0..w /\ i + 1 # 0 /\ (i + 1) - 1 = i /\ v[i] = u[i]
        BY <2>2, <3>1
      <4>2. v[i + 1] = v[i] + b[i + 1] * Pow(i)
        BY <1>10, <4>1
      <4>3. v[i + 1] = u[i + 1]
        BY <1>4, <4>1, <4>2
      <4>4. QED BY <4>3
    <3>2. QED BY <3>1
  <2> HIDE DEF T
  <2>3. QED BY <2>1, <2>2, Counting
<1>12. u[w] = Number(b)
  <2>1. w \in T
    BY <1>11
  <2>2. v[w] = u[w]
    BY <2>1
  <2>3. QED BY <1>1, <1>10, <2>2
<1>13. QED BY <1>4, <1>12

LEMMA Divided ==
    ASSUME NEW n \in Int, NEW b \in Nat, b > 0
    PROVE  /\ n = (b * (n \div b)) + (n % b)
           /\ n % b \in 0..(b - 1) /\ n \div b \in Int
           /\ n >= 0 => n \div b >= 0
OBVIOUS

LEMMA Quotient ==
    ASSUME NEW b \in Nat, b > 0, NEW q \in Int, NEW r \in 0..(b - 1), NEW n \in Int, n = (b * q) + r
    PROVE  n \div b = q /\ n % b = r
OBVIOUS

\* The next digit of a number.
LEMMA NextDigit ==
    ASSUME NEW n \in Nat, NEW P \in Nat, P > 0, NEW B \in Nat, B > 0
    PROVE  n % (B * P) = (n % P) + ((n \div P) % B) * P
<1> DEFINE q == n \div P
           r == n % P
           e == q \div B
           d == q % B
<1>1. n = (P * q) + r /\ r \in 0..(P - 1) /\ q \in Nat
  BY Divided
<1>2. q = (B * e) + d /\ d \in 0..(B - 1) /\ e \in Nat
  <2> HIDE DEF q
  <2>1. QED BY <1>1, Divided
<1> HIDE DEF q, r, e, d
<1>3. B * P \in Nat /\ B * P > 0 /\ d * P \in Nat
  BY <1>2
<1>4. P * q = ((B * P) * e) + (d * P)
  <2>1. P * ((B * e) + d) = ((B * P) * e) + (d * P)
    BY <1>2
  <2>2. QED BY <1>2, <2>1
<1>5. n = ((B * P) * e) + (r + d * P)
  <2>1. (B * P) * e \in Int
    BY <1>2, <1>3
  <2>2. QED BY <1>1, <1>3, <1>4, <2>1
<1>6. r + d * P \in 0..((B * P) - 1)
  <2>1. d * P <= (B - 1) * P
    BY <1>2
  <2>2. (B - 1) * P = (B * P) - P
    OBVIOUS
  <2>3. QED BY <1>1, <1>3, <2>1, <2>2
<1>7. n % (B * P) = r + d * P
  <2> DEFINE c == B * P
  <2>1. c \in Nat /\ c > 0 /\ n = (c * e) + (r + d * P) /\ r + d * P \in 0..(c - 1)
    BY <1>3, <1>5, <1>6
  <2> HIDE DEF c
  <2>2. n % c = r + d * P
    BY <1>2, <2>1, Quotient
  <2>3. QED BY <2>2 DEF c
<1>8. QED BY <1>7 DEF r, d, q

LEMMA BytesType ==
    ASSUME NEW n \in Int, NEW w \in Nat
    PROVE  Bytes(n, w) \in [1..w -> Byte]
<1>1. ASSUME NEW i \in 1..w PROVE (n \div Pow(i - 1)) % Base \in Byte
  <2>1. i - 1 \in Nat
    OBVIOUS
  <2>2. Pow(i - 1) \in Nat /\ Pow(i - 1) > 0
    BY <2>1, PowFacts
  <2>3. n \div Pow(i - 1) \in Int
    BY <2>2, Divided
  <2>4. QED BY <2>3, BaseFacts, Divided DEF Byte
<1>2. QED BY <1>1 DEF Bytes

\* The bytes of a number are read as what of it fits.
LEMMA NumberOfBytes ==
    ASSUME NEW n \in Nat, NEW w \in Nat
    PROVE  Number(Bytes(n, w)) = n % Pow(w)
<1> DEFINE b == Bytes(n, w)
<1>1. b \in [1..w -> Byte] /\ \A i \in 0..(w - 1) : b[i + 1] = (n \div Pow(i)) % Base
  <2>1. b \in [1..w -> Byte]
    BY BytesType
  <2>2. \A i \in 0..(w - 1) : i + 1 \in 1..w /\ (i + 1) - 1 = i
    OBVIOUS
  <2>3. QED BY <2>1, <2>2 DEF Bytes
<1> HIDE DEF b
<1>2. PICK u \in [0..w -> Nat] :
          /\ u[0] = 0 /\ u[w] = Number(b)
          /\ \A i \in 0..(w - 1) : u[i + 1] = u[i] + b[i + 1] * Pow(i)
  BY <1>1, NumberParts
<1> DEFINE T == {i \in Nat : i <= w => u[i] = n % Pow(i)}
<1>3. Nat \subseteq T
  <2>1. 0 \in T
    <3>1. n % 1 = 0
      OBVIOUS
    <3>2. QED BY <1>2, <3>1, PowFacts
  <2>2. ASSUME NEW i \in Nat, i \in T PROVE i + 1 \in T
    <3>1. CASE i + 1 <= w
      <4>1. i \in 0..(w - 1) /\ u[i] = n % Pow(i)
        BY <2>2, <3>1
      <4>2. u[i + 1] = u[i] + ((n \div Pow(i)) % Base) * Pow(i)
        BY <1>1, <1>2, <4>1
      <4>3. n % (Base * Pow(i)) = (n % Pow(i)) + ((n \div Pow(i)) % Base) * Pow(i)
        <5>1. Pow(i) \in Nat /\ Pow(i) > 0
          BY PowFacts
        <5>2. Base \in Nat /\ Base > 0
          BY BaseFacts
        <5>3. QED BY <5>1, <5>2, NextDigit
      <4>4. QED BY <4>1, <4>2, <4>3, PowFacts
    <3>2. QED BY <3>1
  <2> HIDE DEF T
  <2>3. QED BY <2>1, <2>2, Counting
<1>4. QED BY <1>2, <1>3 DEF b

\* The bytes that were read are written again.
LEMMA BytesOfNumber ==
    ASSUME NEW w \in Nat, NEW b \in [1..w -> Byte]
    PROVE  Number(b) \in 0..(Pow(w) - 1) /\ Bytes(Number(b), w) = b
<1>1. PICK u \in [0..w -> Nat] :
          /\ u[0] = 0 /\ u[w] = Number(b)
          /\ \A i \in 0..(w - 1) : u[i + 1] = u[i] + b[i + 1] * Pow(i)
  BY NumberParts
<1>2. \A i \in 1..w : b[i] \in 0..(Base - 1)
  BY DEF Byte
<1> DEFINE T == {i \in Nat : i <= w => u[i] < Pow(i)}
<1>3. Nat \subseteq T
  <2>1. 0 \in T
    BY <1>1, PowFacts
  <2>2. ASSUME NEW i \in Nat, i \in T PROVE i + 1 \in T
    <3>1. CASE i + 1 <= w
      <4>1. i \in 0..(w - 1) /\ i \in 0..w /\ i + 1 \in 1..w /\ u[i] < Pow(i)
        BY <2>2, <3>1
      <4>2. PICK P \in Nat : P = Pow(i) /\ Pow(i + 1) = Base * P /\ P > 0
        BY PowFacts
      <4>3. PICK d \in 0..(Base - 1) : d = b[i + 1]
        BY <1>2, <4>1
      <4>4. u[i + 1] = u[i] + d * P /\ u[i] \in Nat /\ u[i] < P
        BY <1>1, <4>1, <4>2, <4>3
      <4>5. d * P <= (Base - 1) * P /\ (Base - 1) * P = (Base * P) - P
        <5>1. d <= Base - 1 /\ d \in Nat /\ Base - 1 \in Nat
          BY <4>3, BaseFacts
        <5>2. \A x, y \in Nat : x <= y => x * P <= y * P
          OBVIOUS
        <5>3. (Base - 1) * P = (Base * P) - P
          BY BaseFacts
        <5>4. QED BY <5>1, <5>2, <5>3
      <4>6. d * P \in Int /\ Base * P \in Int
        <5>1. \A x, y \in Int : x * y \in Int
          OBVIOUS
        <5>2. d \in Int /\ P \in Int /\ Base \in Int
          BY BaseFacts
        <5>3. QED BY <5>1, <5>2
      <4>7. u[i + 1] < Pow(i + 1)
        <5>1. PICK x \in Int, y \in Int : x = d * P /\ y = Base * P
          BY <4>6
        <5>2. x <= y - P /\ u[i + 1] = u[i] + x /\ Pow(i + 1) = y
          BY <4>2, <4>4, <4>5, <5>1
        <5>3. \A h \in Nat : h < P => h + x < y
          BY <5>2
        <5>4. QED BY <4>4, <5>2, <5>3
      <4>8. QED BY <4>7
    <3>2. QED BY <3>1
  <2> HIDE DEF T
  <2>3. QED BY <2>1, <2>2, Counting
<1>4. Number(b) \in 0..(Pow(w) - 1)
  <2>1. u[w] < Pow(w) /\ u[w] \in Nat /\ Pow(w) \in Nat
    BY <1>1, <1>3, PowFacts
  <2>2. QED BY <1>1, <2>1
\* The digits behind the first i add a multiple of Pow(i).
<1>5. ASSUME NEW i \in 0..w
      PROVE  \E m \in Nat : u[w] = u[i] + Pow(i) * m
  <2> DEFINE S == {j \in Nat : i + j <= w => \E m \in Nat : u[i + j] = u[i] + Pow(i) * m /\
                                 \E e \in Nat : Pow(i + j) = Pow(i) * e}
  <2>1. 0 \in S
    <3>1. i + 0 = i /\ i \in Nat /\ u[i] \in Nat
      BY <1>1
    <3>4. Pow(i) \in Nat
      BY <3>1, PowFacts
    <3>2. u[i] = u[i] + Pow(i) * 0 /\ Pow(i) = Pow(i) * 1
      BY <3>1, <3>4
    <3>3. QED BY <3>1, <3>2
  <2>2. ASSUME NEW j \in Nat, j \in S PROVE j + 1 \in S
    <3>1. CASE i + (j + 1) <= w
      <4>1. i + j \in 0..(w - 1) /\ i + (j + 1) = (i + j) + 1 /\ i + j <= w
            /\ i + j \in Nat /\ (i + j) + 1 \in 1..w /\ i \in Nat
        BY <3>1
      <4>2. PICK m \in Nat : u[i + j] = u[i] + Pow(i) * m /\
                                 \E e \in Nat : Pow(i + j) = Pow(i) * e
        BY <2>2, <4>1
      <4>3. PICK e \in Nat : Pow(i + j) = Pow(i) * e
        BY <4>2
      <4>4. PICK P \in Nat : P = Pow(i)
        BY <4>1, PowFacts
      <4>5. PICK d \in Nat : d = b[(i + j) + 1]
        BY <1>2, <4>1, BaseFacts
      <4>6. u[(i + j) + 1] = u[i + j] + d * (P * e)
        BY <1>1, <4>1, <4>3, <4>4, <4>5
      <4>7. Pow((i + j) + 1) = Base * (P * e)
        BY <4>1, <4>3, <4>4, PowFacts
      <4>8. PICK x \in Nat : x = u[i]
        BY <1>1
      <4>9. (x + P * m) + d * (P * e) = x + P * (m + d * e) /\ m + d * e \in Nat
        <5>1. d * e \in Nat /\ P * m \in Nat
          OBVIOUS
        <5>2. d * (P * e) = P * (d * e)
          OBVIOUS
        <5>3. P * (m + d * e) = P * m + P * (d * e)
          BY <5>1
        <5>4. P * (d * e) \in Nat
          BY <5>1
        <5>5. QED BY <5>1, <5>2, <5>3, <5>4
      <4>10. Base * (P * e) = P * (Base * e) /\ Base * e \in Nat
        BY BaseFacts
      <4>11. u[(i + j) + 1] = u[i] + Pow(i) * (m + d * e)
        BY <4>2, <4>4, <4>6, <4>8, <4>9
      <4>12. Pow((i + j) + 1) = Pow(i) * (Base * e)
        BY <4>4, <4>7, <4>10
      <4>13. \E k \in Nat : u[i + (j + 1)] = u[i] + Pow(i) * k
                            /\ \E f \in Nat : Pow(i + (j + 1)) = Pow(i) * f
        BY <4>1, <4>9, <4>10, <4>11, <4>12
      <4>14. QED BY <4>13
    <3>2. QED BY <3>1
  <2>3. Nat \subseteq S
    <3> HIDE DEF S
    <3>1. QED BY <2>1, <2>2, Counting
  <2>4. w - i \in Nat /\ i + (w - i) = w
    OBVIOUS
  <2>5. w - i \in S
    BY <2>3, <2>4
  <2>6. QED BY <2>4, <2>5
<1>6. ASSUME NEW i \in 1..w PROVE (Number(b) \div Pow(i - 1)) % Base = b[i]
  <2>1. i - 1 \in 0..(w - 1) /\ (i - 1) + 1 = i /\ i \in 0..w /\ i - 1 \in 0..w /\ i - 1 \in Nat /\ i - 1 <= w
    OBVIOUS
  <2>2. PICK m \in Nat : u[w] = u[i] + Pow(i) * m
    BY <1>5, <2>1
  <2>3. PICK P \in Nat : P = Pow(i - 1) /\ P > 0 /\ Pow(i) = Base * P
    BY <2>1, PowFacts
  <2>4. PICK d \in 0..(Base - 1) : d = b[i]
    BY <1>2
  <2>5. PICK r \in Nat : r = u[i - 1] /\ r < P
    BY <1>1, <1>3, <2>1, <2>3
  <2>6. u[i] = r + d * P
    BY <1>1, <2>1, <2>3, <2>4, <2>5
  <2>7. (r + d * P) + (Base * P) * m = (P * (d + Base * m)) + r /\ d + Base * m \in Nat
    <3>1. Base * m \in Nat /\ d \in Nat
      BY BaseFacts
    <3>2. P * (d + Base * m) = P * d + P * (Base * m)
      BY <3>1
    <3>3. (Base * P) * m = P * (Base * m) /\ d * P = P * d
      BY <3>1, BaseFacts
    <3>4. P * d \in Nat /\ P * (Base * m) \in Nat
      BY <3>1
    <3>5. PICK x \in Nat, y \in Nat : x = P * d /\ y = P * (Base * m)
      BY <3>4
    <3>6. (r + d * P) + (Base * P) * m = (r + x) + y /\ P * (d + Base * m) = x + y
      BY <3>2, <3>3, <3>5
    <3>7. (r + x) + y = (x + y) + r
      OBVIOUS
    <3>8. QED BY <3>1, <3>6, <3>7
  <2>8. Number(b) = (P * (d + Base * m)) + r
    BY <1>1, <2>2, <2>3, <2>6, <2>7
  <2>9. Number(b) \div P = d + Base * m
    <3>1. r \in 0..(P - 1)
      BY <2>3, <2>5
    <3>5. PICK N \in Int : N = Number(b)
      BY <1>4, PowFacts
    <3> DEFINE q == d + Base * m
    <3>2. N = (P * q) + r /\ q \in Int
      BY <2>7, <2>8, <3>5
    <3> HIDE DEF q
    <3>3. N \div P = q
      BY <2>3, <3>1, <3>2, Quotient
    <3>4. QED BY <3>3, <3>5 DEF q
  <2>10. (d + Base * m) % Base = d
    <3>1. PICK x \in Nat : x = Base * m
      BY BaseFacts
    <3>2. PICK y \in Int : y = d + x
      OBVIOUS
    <3>3. y = (Base * m) + d
      BY <3>1, <3>2
    <3>4. Base \in Nat /\ Base > 0 /\ m \in Int
      BY BaseFacts
    <3>5. y % Base = d
      BY <3>3, <3>4, Quotient, Zenon
    <3>6. QED BY <3>1, <3>2, <3>5
  <2>11. QED BY <2>3, <2>4, <2>9, <2>10
<1>7. Bytes(Number(b), w) = b
  <2>1. b = [i \in 1..w |-> b[i]]
    OBVIOUS
  <2>2. QED BY <1>6, <2>1 DEF Bytes
<1>8. QED BY <1>4, <1>7

-----------------------------------------------------------------------------
\* The leaves of a structure and the values of JSON.

IntLeaf(p) ==
    \E w \in Nat \ {0}, signed \in BOOLEAN :
        \E lo, hi \in Least(w, signed)..Greatest(w, signed) :
            lo <= hi /\ p = IntType(w, signed, lo, hi)
RealLeaf(p) == \E w \in {4, 8}, m \in Nat \ {0} : p = RealType(w, 2 * m)
StringLeaf(p) == \E len \in Nat : p = StringType(len)
EnumLeaf(p) ==
    /\ p = [k |-> "enum", keys |-> p.keys]
    /\ p.keys \in Seq(Least(2, TRUE)..Greatest(2, TRUE)) /\ p.keys # <<>>
Leaf(p) == p = BoolType \/ IntLeaf(p) \/ RealLeaf(p) \/ StringLeaf(p) \/ EnumLeaf(p)

LeafWidth(p) == IF p.k = "enum" THEN 2 ELSE Width(p)
WriteLeaf(p, v) == IF p.k = "enum" THEN WriteEnum(v, p.keys) ELSE WritePrimitive(p, v)
ReadLeaf(p, b) == ReadPrimitive(IF p.k = "enum" THEN EnumType ELSE p, b)

Texts == {t \in Seq(Byte) : ValidUtf8(t)}
Values ==
    {Num(n) : n \in Int} \cup {Frac(n) : n \in Int} \cup {Text(t) : t \in Texts}
        \cup {Flag(b) : b \in BOOLEAN} \cup {Null}

-----------------------------------------------------------------------------
\* Integers.

LEMMA Halves ==
    ASSUME NEW w \in Nat, w # 0
    PROVE  \E h \in Nat : h > 0 /\ Pow(w) = 2 * h /\ Pow(w) \div 2 = h
<1>1. w - 1 \in Nat /\ (w - 1) + 1 = w
  OBVIOUS
<1>2. PICK P \in Nat : P > 0 /\ Pow(w) = Base * P
  BY <1>1, PowFacts
<1>3. PICK c \in Nat : Base = 2 * c /\ c > 0
  <2>1. Base = 2 * (Base \div 2) /\ Base \div 2 \in Nat /\ Base \div 2 > 0
    BY BaseFacts
  <2>2. QED BY <2>1
<1>4. c * P \in Nat /\ c * P > 0 /\ (2 * c) * P = 2 * (c * P)
  BY <1>2, <1>3
<1>5. PICK h \in Nat : h = c * P
  BY <1>4
<1>6. Pow(w) = 2 * h /\ h > 0
  BY <1>2, <1>3, <1>4, <1>5
<1>7. (2 * h) \div 2 = h
  OBVIOUS
<1>8. QED BY <1>6, <1>7

\* An integer type has the numbers -h..h-1 or 0..2h-1.
LEMMA IntParts ==
    ASSUME NEW p, IntLeaf(p)
    PROVE  /\ p.k = "int" /\ p.w \in Nat /\ p.w > 0 /\ p.signed \in BOOLEAN
           /\ p.lo \in Int /\ p.hi \in Int /\ p.lo <= p.hi
           /\ \E h \in Nat :
                /\ h > 0 /\ Pow(p.w) = 2 * h /\ Pow(p.w) \div 2 = h
                /\ Least(p.w, p.signed) = IF p.signed THEN -h ELSE 0
                /\ Greatest(p.w, p.signed) = IF p.signed THEN h - 1 ELSE 2 * h - 1
           /\ Least(p.w, p.signed) <= p.lo /\ p.hi <= Greatest(p.w, p.signed)
<1>1. PICK w \in Nat \ {0}, signed \in BOOLEAN :
          \E lo, hi \in Least(w, signed)..Greatest(w, signed) :
              lo <= hi /\ p = IntType(w, signed, lo, hi)
  BY DEF IntLeaf
<1>2. PICK lo \in Least(w, signed)..Greatest(w, signed),
           hi \in Least(w, signed)..Greatest(w, signed) :
              lo <= hi /\ p = IntType(w, signed, lo, hi)
  BY <1>1
<1>3. p.k = "int" /\ p.w = w /\ p.signed = signed /\ p.lo = lo /\ p.hi = hi
  BY <1>2 DEF IntType
<1>4. PICK h \in Nat : h > 0 /\ Pow(w) = 2 * h /\ Pow(w) \div 2 = h
  BY Halves
<1>5. /\ Least(w, signed) = IF signed THEN -h ELSE 0
      /\ Greatest(w, signed) = IF signed THEN h - 1 ELSE 2 * h - 1
  BY <1>4 DEF Least, Greatest
<1>6. /\ lo \in Int /\ hi \in Int
      /\ Least(w, signed) <= lo /\ hi <= Greatest(w, signed)
  BY <1>5
<1>7. QED BY <1>2, <1>3, <1>4, <1>5, <1>6

\* Two's complement: a number of h or more stands for a negative one.
LEMMA TwosComplement ==
    ASSUME NEW h \in Nat, h > 0, NEW n \in Int
    PROVE  /\ n \in -h..(2 * h - 1) => n % (2 * h) = IF n < 0 THEN n + 2 * h ELSE n
           /\ n % (2 * h) \in 0..(2 * h - 1)
<1> DEFINE c == 2 * h
<1>1. c \in Nat /\ c > 0
  OBVIOUS
<1>2. n % c \in 0..(c - 1)
  <2> HIDE DEF c
  <2>1. QED BY <1>1, Divided
<1>3. CASE n \in 0..(c - 1)
  <2>1. n = (c * 0) + n
    OBVIOUS
  <2>2. n % c = n
    <3> HIDE DEF c
    <3>1. QED BY <1>1, <1>3, <2>1, Quotient
  <2>3. QED BY <1>2, <1>3, <2>2
<1>4. CASE n \in -h..(-1)
  <2>1. n = (c * (-1)) + (n + c) /\ n + c \in 0..(c - 1)
    BY <1>4
  <2>2. n % c = n + c
    <3> HIDE DEF c
    <3>1. -1 \in Int
      OBVIOUS
    <3>2. QED BY <1>1, <2>1, <3>1, Quotient
  <2>3. QED BY <1>2, <1>4, <2>2
<1>5. QED BY <1>2, <1>3, <1>4

LEMMA SignedOf ==
    ASSUME NEW p, IntLeaf(p), NEW n \in 0..(Pow(p.w) - 1)
    PROVE  LET x == IF p.signed THEN Signed(n, p.w) ELSE n
           IN  /\ x \in Least(p.w, p.signed)..Greatest(p.w, p.signed)
               /\ x % Pow(p.w) = n
<1> DEFINE x == IF p.signed THEN Signed(n, p.w) ELSE n
<1>1. PICK h \in Nat :
          /\ h > 0 /\ Pow(p.w) = 2 * h /\ Pow(p.w) \div 2 = h
          /\ Least(p.w, p.signed) = IF p.signed THEN -h ELSE 0
          /\ Greatest(p.w, p.signed) = IF p.signed THEN h - 1 ELSE 2 * h - 1
  BY IntParts
<1>2. p.signed \in BOOLEAN /\ n \in 0..(2 * h - 1)
  BY <1>1, IntParts
<1>3. x = IF p.signed /\ n >= h THEN n - 2 * h ELSE n
  BY <1>1, <1>2 DEF Signed
<1> HIDE DEF x
<1>4. x \in -h..(2 * h - 1) /\ (IF x < 0 THEN x + 2 * h ELSE x) = n
  BY <1>1, <1>2, <1>3
<1>5. x \in Least(p.w, p.signed)..Greatest(p.w, p.signed)
  BY <1>1, <1>2, <1>3
<1>6. x % (2 * h) = n
  <2>1. x \in Int
    BY <1>4
  <2>2. x % (2 * h) = IF x < 0 THEN x + 2 * h ELSE x
    BY <1>1, <1>4, <2>1, TwosComplement
  <2>3. QED BY <1>4, <2>2
<1>7. QED BY <1>1, <1>5, <1>6 DEF x

\* `as` gives a number of the type, the same one if it is of the type already.
LEMMA CutInto ==
    ASSUME NEW p, IntLeaf(p), NEW v \in Int
    PROVE  /\ Cut(v, p) \in Least(p.w, p.signed)..Greatest(p.w, p.signed)
           /\ v \in Least(p.w, p.signed)..Greatest(p.w, p.signed) => Cut(v, p) = v
<1>1. PICK h \in Nat :
          /\ h > 0 /\ Pow(p.w) = 2 * h /\ Pow(p.w) \div 2 = h
          /\ Least(p.w, p.signed) = IF p.signed THEN -h ELSE 0
          /\ Greatest(p.w, p.signed) = IF p.signed THEN h - 1 ELSE 2 * h - 1
  BY IntParts
<1>2. PICK n \in 0..(2 * h - 1) : n = v % (2 * h)
  BY <1>1, TwosComplement
<1>3. Cut(v, p) = IF p.signed /\ n >= h THEN n - 2 * h ELSE n
  BY <1>1, <1>2 DEF Cut, Signed
<1>4. p.signed \in BOOLEAN
  BY IntParts
<1>5. Cut(v, p) \in Least(p.w, p.signed)..Greatest(p.w, p.signed)
  BY <1>1, <1>3, <1>4
<1>6. ASSUME v \in Least(p.w, p.signed)..Greatest(p.w, p.signed) PROVE Cut(v, p) = v
  <2>1. v \in -h..(2 * h - 1)
    BY <1>1, <1>4, <1>6
  <2>2. n = IF v < 0 THEN v + 2 * h ELSE v
    BY <1>1, <1>2, <2>1, TwosComplement
  <2>3. QED BY <1>1, <1>3, <1>4, <1>6, <2>2
<1>7. QED BY <1>5, <1>6

\* What is written of a number of the type is read as that number.
LEMMA RawOfBytes ==
    ASSUME NEW p, IntLeaf(p), NEW x \in Least(p.w, p.signed)..Greatest(p.w, p.signed)
    PROVE  LET b == Bytes(x % Pow(p.w), p.w)
           IN  b \in [1..p.w -> Byte] /\ Raw(p, b) = x
<1>1. PICK h \in Nat :
          /\ h > 0 /\ Pow(p.w) = 2 * h /\ Pow(p.w) \div 2 = h
          /\ Least(p.w, p.signed) = IF p.signed THEN -h ELSE 0
          /\ Greatest(p.w, p.signed) = IF p.signed THEN h - 1 ELSE 2 * h - 1
  BY IntParts
<1>2. p.signed \in BOOLEAN /\ p.w \in Nat
  BY IntParts
<1>3. x \in Int /\ x \in -h..(2 * h - 1)
  BY <1>1, <1>2
<1>4. PICK n \in 0..(2 * h - 1) : n = x % Pow(p.w) /\ n = IF x < 0 THEN x + 2 * h ELSE x
  BY <1>1, <1>3, TwosComplement
<1>5. n % (2 * h) = n
  <2>1. n \in Int /\ n \in -h..(2 * h - 1) /\ ~(n < 0)
    BY <1>1
  <2>2. n % (2 * h) = IF n < 0 THEN n + 2 * h ELSE n
    BY <1>1, <2>1, TwosComplement
  <2>3. QED BY <2>1, <2>2
<1>6. Bytes(n, p.w) \in [1..p.w -> Byte] /\ Number(Bytes(n, p.w)) = n
  <2>1. n \in Nat /\ n \in Int
    OBVIOUS
  <2>2. QED BY <1>1, <1>2, <1>5, <2>1, BytesType, NumberOfBytes
<1>7. Raw(p, Bytes(n, p.w)) = x
  BY <1>1, <1>2, <1>4, <1>6 DEF Raw, Signed
<1>8. QED BY <1>4, <1>6, <1>7

LEMMA RawType ==
    ASSUME NEW p, IntLeaf(p), NEW b \in [1..p.w -> Byte]
    PROVE  /\ Raw(p, b) \in Least(p.w, p.signed)..Greatest(p.w, p.signed)
           /\ Raw(p, b) \in Int
           /\ Bytes(Raw(p, b) % Pow(p.w), p.w) = b
<1>1. p.w \in Nat
  BY IntParts
<1>2. PICK n \in 0..(Pow(p.w) - 1) : n = Number(b)
  BY <1>1, BytesOfNumber
<1>3. Raw(p, b) \in Least(p.w, p.signed)..Greatest(p.w, p.signed) /\ Raw(p, b) % Pow(p.w) = n
  BY <1>2, SignedOf DEF Raw
<1>4. QED BY <1>1, <1>2, <1>3, BytesOfNumber

LEMMA ClampInto ==
    ASSUME NEW p, p.lo \in Int, p.hi \in Int, p.lo <= p.hi, NEW n \in Int
    PROVE  /\ Clamp(n, p) \in p.lo..p.hi
           /\ n \in p.lo..p.hi => Clamp(n, p) = n
BY DEF Clamp

LEMMA SquareOrder ==
    ASSUME NEW x \in Int, NEW y \in Int
    PROVE  /\ 0 <= x /\ x <= y => x * x <= y * y
           /\ 0 <= x /\ x < y => x * x < y * y
           /\ (-x) * (-x) = x * x
<1>1. ASSUME 0 <= x, x <= y PROVE x * x <= y * y
  <2>1. x * x <= x * y /\ x * y <= y * y
    BY <1>1
  <2>2. x * x \in Int /\ x * y \in Int /\ y * y \in Int
    OBVIOUS
  <2>3. QED BY <2>1, <2>2
<1>2. ASSUME 0 <= x, x < y PROVE x * x < y * y
  <2>1. x * x <= x * y /\ x * y < y * y
    BY <1>2
  <2>2. x * x \in Int /\ x * y \in Int /\ y * y \in Int
    OBVIOUS
  <2>3. QED BY <2>1, <2>2
<1>3. (-x) * (-x) = x * x
  OBVIOUS
<1>4. QED BY <1>1, <1>2, <1>3

\* The value of a subrange that is nearest to n is what n is clamped to.
LEMMA NearestIsClamp ==
    ASSUME NEW p, p.lo \in Int, p.hi \in Int, p.lo <= p.hi, NEW n \in Int
    PROVE  Nearest(n, p) = Clamp(n, p)
<1> DEFINE c == Clamp(n, p)
           Near(x) == \A i \in p.lo..p.hi : (x - n) * (x - n) <= (i - n) * (i - n)
<1>1. c \in p.lo..p.hi
  BY ClampInto
<1>2. ASSUME NEW i \in p.lo..p.hi, i # c
      PROVE  (c - n) * (c - n) < (i - n) * (i - n)
  <2>1. i \in Int /\ c \in Int
    BY <1>1
  <2>2. CASE n < p.lo
    <3>1. c = p.lo /\ 0 <= c - n /\ c - n < i - n
      BY <1>2, <2>2 DEF Clamp
    <3>2. c - n \in Int /\ i - n \in Int
      BY <2>1
    <3> HIDE DEF c
    <3>3. QED BY <3>1, <3>2, SquareOrder
  <2>3. CASE n > p.hi
    <3>1. c = p.hi /\ 0 <= n - c /\ n - c < n - i
      BY <1>2, <2>3 DEF Clamp
    <3>2. n - c \in Int /\ n - i \in Int /\ c - n = -(n - c) /\ i - n = -(n - i)
      BY <2>1
    <3> HIDE DEF c
    <3>3. (n - c) * (n - c) < (n - i) * (n - i)
      BY <3>1, <3>2, SquareOrder
    <3>4. (c - n) * (c - n) = (n - c) * (n - c) /\ (i - n) * (i - n) = (n - i) * (n - i)
      BY <3>2, SquareOrder
    <3>5. QED BY <3>3, <3>4
  <2>4. CASE n \in p.lo..p.hi
    <3>1. c = n /\ i - n \in Int /\ i - n # 0
      BY <1>2, <2>1, <2>4 DEF Clamp
    <3>2. PICK d \in Int : d = i - n /\ d # 0
      BY <3>1
    <3>3. d * d > 0
      BY <3>2
    <3>4. (c - n) * (c - n) = 0
      BY <3>1
    <3>5. QED BY <3>2, <3>3, <3>4
  <2>5. QED BY <2>2, <2>3, <2>4
<1>3. \A i \in p.lo..p.hi : (i - n) * (i - n) \in Int
  OBVIOUS
<1> HIDE DEF c
<1>4. Near(c)
  BY <1>1, <1>2, <1>3
<1>5. ASSUME NEW x \in p.lo..p.hi, Near(x) PROVE x = c
  BY <1>1, <1>2, <1>3, <1>5
<1>6. Nearest(n, p) = CHOOSE x \in p.lo..p.hi : Near(x)
  BY DEF Nearest
<1> HIDE DEF Near
<1>7. QED BY <1>1, <1>4, <1>5, <1>6 DEF c

-----------------------------------------------------------------------------
\* Integers and enums as leaves.

LEMMA WholeRow ==
    ASSUME NEW w \in Nat, NEW b \in [1..w -> Byte]
    PROVE  b \in Seq(Byte) /\ Len(b) = w /\ SubSeq(b, 1, w) = b
<1>1. b \in Seq(Byte) /\ Len(b) = w
  OBVIOUS
<1>2. SubSeq(b, 1, w) = [i \in 1..w |-> b[i]]
  BY <1>1
<1>3. QED BY <1>1, <1>2

LEMMA NotBadByte ==
    ASSUME NEW w \in Nat, NEW b \in [1..w -> Byte]
    PROVE  b # <<BadByte>>
<1>1. SUFFICES ASSUME b = <<BadByte>> PROVE FALSE
  OBVIOUS
<1>2. DOMAIN b = 1..1 /\ b[1] = BadByte /\ DOMAIN b = 1..w
  BY <1>1
<1>3. BadByte \in Byte
  BY <1>2
<1>4. QED BY <1>3 DEF BadByte, Byte

\* A type's own limits, or a subrange of them, fit (T::from_i64).
LEMMA IntFits ==
    ASSUME NEW p, IntLeaf(p)
    PROVE  RangeFits(p)
<1>1. /\ p.lo \in Int /\ p.hi \in Int /\ p.lo <= p.hi
      /\ Least(p.w, p.signed) \in Int /\ Greatest(p.w, p.signed) \in Int
      /\ Least(p.w, p.signed) <= p.lo /\ p.hi <= Greatest(p.w, p.signed)
  BY IntParts
<1>2. /\ p.lo \in Least(p.w, p.signed)..Greatest(p.w, p.signed)
      /\ p.hi \in Least(p.w, p.signed)..Greatest(p.w, p.signed)
  BY <1>1
<1>3. QED BY <1>2 DEF RangeFits

LEMMA IntRead ==
    ASSUME NEW p, IntLeaf(p), NEW b \in [1..p.w -> Byte]
    PROVE  /\ ReadPrimitive(p, b) = Num(Clamp(Raw(p, b), p))
           /\ Raw(p, b) \in p.lo..p.hi => ReadPrimitive(p, b) = Num(Raw(p, b))
<1>1. p.k = "int" /\ p.w \in Nat /\ p.lo \in Int /\ p.hi \in Int /\ p.lo <= p.hi
  BY IntParts
<1>2. Len(b) = p.w /\ SubSeq(b, 1, p.w) = b
  BY <1>1, WholeRow
<1>3. ReadPrimitive(p, b) = Num(Clamp(Raw(p, b), p))
  <2>1. Width(p) = p.w
    BY <1>1 DEF Width
  <2>2. ~(Len(b) < Width(p))
    BY <1>1, <1>2, <2>1
  <2>3. ReadPrimitive(p, b) = ReadInt(b, p)
    BY <1>1, <1>2, <2>2 DEF ReadPrimitive
  <2>4. QED BY <2>3, IntFits DEF ReadInt, Raw
<1>4. Raw(p, b) \in Int
  BY RawType
<1>5. QED BY <1>1, <1>3, <1>4, ClampInto

\* What WriteInt makes of any number.
LEMMA IntWritten ==
    ASSUME NEW p, IntLeaf(p), NEW v \in Int
    PROVE  /\ WriteInt(v, p) \in [1..p.w -> Byte]
           /\ Raw(p, WriteInt(v, p)) = Clamp(Cut(v, p), p)
           /\ Raw(p, WriteInt(v, p)) \in p.lo..p.hi
<1>1. /\ p.w \in Nat /\ p.lo \in Int /\ p.hi \in Int /\ p.lo <= p.hi
      /\ Least(p.w, p.signed) <= p.lo /\ p.hi <= Greatest(p.w, p.signed)
      /\ Least(p.w, p.signed) \in Int /\ Greatest(p.w, p.signed) \in Int
  BY IntParts
<1>2. Cut(v, p) \in Int
  BY <1>1, CutInto
<1>3. PICK x \in p.lo..p.hi : x = Clamp(Cut(v, p), p)
  BY <1>1, <1>2, ClampInto
<1>4. x \in Least(p.w, p.signed)..Greatest(p.w, p.signed)
  BY <1>1
<1>5. WriteInt(v, p) = Bytes(x % Pow(p.w), p.w)
  BY <1>3, IntFits DEF WriteInt
<1>6. QED BY <1>3, <1>4, <1>5, RawOfBytes

LEMMA IntKept ==
    ASSUME NEW p, IntLeaf(p), NEW b \in [1..p.w -> Byte], Raw(p, b) \in p.lo..p.hi
    PROVE  WriteInt(Raw(p, b), p) = b
<1>1. p.w \in Nat /\ p.lo \in Int /\ p.hi \in Int /\ p.lo <= p.hi
  BY IntParts
<1>2. PICK x \in Int : x = Raw(p, b) /\ x \in Least(p.w, p.signed)..Greatest(p.w, p.signed)
  BY RawType
<1>3. Cut(x, p) = x
  BY <1>2, CutInto
<1>4. Clamp(x, p) = x
  BY <1>1, <1>2, ClampInto
<1>5. QED BY <1>2, <1>3, <1>4, RawType, IntFits DEF WriteInt

LEMMA IntLeafKept ==
    ASSUME NEW p, IntLeaf(p), NEW b \in [1..p.w -> Byte], Raw(p, b) \in p.lo..p.hi
    PROVE  WritePrimitive(p, ReadPrimitive(p, b)) = b
<1>1. p.k = "int" /\ p.w \in Nat /\ p.signed \in BOOLEAN
  BY IntParts
<1>2. ReadPrimitive(p, b) = Num(Raw(p, b))
  BY IntRead
<1>3. p.signed \/ Raw(p, b) >= 0
  <2>1. ~p.signed => Least(p.w, p.signed) = 0
    BY DEF Least
  <2>2. Raw(p, b) \in Least(p.w, p.signed)..Greatest(p.w, p.signed) /\ Raw(p, b) \in Int
    BY RawType
  <2>3. QED BY <2>1, <2>2
<1>4. WritePrimitive(p, Num(Raw(p, b))) = WriteInt(Raw(p, b), p)
  BY <1>1, <1>3 DEF WritePrimitive, Num, IsInteger
<1>5. QED BY <1>2, <1>4, IntKept

LEMMA IntLeafWritten ==
    ASSUME NEW p, IntLeaf(p), NEW v \in Values, WritePrimitive(p, v) # <<BadByte>>
    PROVE  /\ v.k = "num" /\ v.of \in Int
           /\ WritePrimitive(p, v) = WriteInt(v.of, p)
<1>1. p.k = "int"
  BY IntParts
<1>2. IsInteger(v, p)
  BY <1>1 DEF WritePrimitive
<1>3. v.k = "num" /\ v.of \in Int
  BY <1>2 DEF IsInteger, Values, Num, Frac, Text, Flag, Null
<1>4. WritePrimitive(p, v) = WriteInt(v.of, p)
  BY <1>1, <1>2, <1>3 DEF WritePrimitive
<1>5. QED BY <1>3, <1>4

LEMMA IntBecomes ==
    ASSUME NEW p, IntLeaf(p), NEW v \in Values, WritePrimitive(p, v) # <<BadByte>>
    PROVE  /\ WritePrimitive(p, v) \in [1..p.w -> Byte]
           /\ Becomes(p, v, WritePrimitive(p, v))
<1>1. p.k = "int" /\ p.lo \in Int /\ p.hi \in Int /\ p.lo <= p.hi
  BY IntParts
<1>2. PICK n \in Int : n = v.of /\ WritePrimitive(p, v) = WriteInt(n, p)
  BY IntLeafWritten
<1>3. /\ WriteInt(n, p) \in [1..p.w -> Byte]
      /\ Raw(p, WriteInt(n, p)) = Clamp(Cut(n, p), p)
      /\ Raw(p, WriteInt(n, p)) \in p.lo..p.hi
  BY IntWritten
<1>4. ASSUME n \in Least(p.w, p.signed)..Greatest(p.w, p.signed)
      PROVE  Raw(p, WriteInt(n, p)) = Nearest(n, p)
  <2>1. Cut(n, p) = n
    BY <1>4, CutInto
  <2>2. QED BY <1>1, <1>3, <2>1, NearestIsClamp
<1>5. Becomes(p, v, WriteInt(n, p))
  BY <1>1, <1>2, <1>3, <1>4 DEF Becomes
<1>6. QED BY <1>2, <1>3, <1>5

\* An enum is an INT.
LEMMA EnumInt ==
    /\ IntLeaf(EnumType) /\ EnumType.w = 2 /\ EnumType.signed = TRUE
    /\ EnumType.lo = Least(2, TRUE) /\ EnumType.hi = Greatest(2, TRUE)
<1>1. PICK w \in Nat \ {0} : w = 2
  OBVIOUS
<1>2. PICK h \in Nat : h > 0 /\ Pow(w) \div 2 = h
  BY Halves
<1>3. Least(w, TRUE) = -h /\ Greatest(w, TRUE) = h - 1
  BY <1>2 DEF Least, Greatest
<1>4. EnumType = IntType(w, TRUE, Least(w, TRUE), Greatest(w, TRUE))
  BY <1>1 DEF EnumType, WholeInt
<1>5. /\ Least(w, TRUE) \in Least(w, TRUE)..Greatest(w, TRUE)
      /\ Greatest(w, TRUE) \in Least(w, TRUE)..Greatest(w, TRUE)
      /\ Least(w, TRUE) <= Greatest(w, TRUE)
  <2>1. -h \in -h..(h - 1) /\ h - 1 \in -h..(h - 1) /\ -h <= h - 1
    BY <1>2
  <2>2. QED BY <1>3, <2>1
<1>6. IntLeaf(EnumType)
  BY <1>4, <1>5 DEF IntLeaf
<1>7. /\ EnumType.w = w /\ EnumType.signed = TRUE
      /\ EnumType.lo = Least(w, TRUE) /\ EnumType.hi = Greatest(w, TRUE)
  BY <1>4 DEF IntType
<1>8. QED BY <1>1, <1>6, <1>7

Int16 == EnumType.lo..EnumType.hi

LEMMA EnumNumbers ==
    ASSUME NEW n \in Int16
    PROVE  /\ n \in Int /\ Cut(n, EnumType) = n
           /\ WriteInt(n, EnumType) \in [1..2 -> Byte]
           /\ Raw(EnumType, WriteInt(n, EnumType)) = n
<1>1. EnumType.lo \in Int /\ EnumType.hi \in Int /\ EnumType.lo <= EnumType.hi
  BY EnumInt, IntParts
<1>2. n \in Int
  BY <1>1 DEF Int16
<1>3. Cut(n, EnumType) = n
  BY <1>2, EnumInt, CutInto DEF Int16
<1>4. Clamp(n, EnumType) = n
  BY <1>1, <1>2, ClampInto DEF Int16
<1>5. QED BY <1>2, <1>3, <1>4, EnumInt, IntWritten

LEMMA EnumRead ==
    ASSUME NEW b \in [1..2 -> Byte]
    PROVE  /\ Raw(EnumType, b) \in Int16
           /\ ReadPrimitive(EnumType, b) = Num(Raw(EnumType, b))
           /\ WriteInt(Raw(EnumType, b), EnumType) = b
<1>1. Raw(EnumType, b) \in Int16
  BY EnumInt, RawType DEF Int16
<1>2. QED BY <1>1, EnumInt, IntRead, IntKept DEF Int16

LEMMA EnumParts ==
    ASSUME NEW p, EnumLeaf(p)
    PROVE  /\ p.k = "enum" /\ p.keys \in Seq(Int16) /\ Len(p.keys) \in Nat /\ Len(p.keys) > 0
           /\ SX!ToSet(p.keys) \subseteq Int16
           /\ p.keys[1] \in SX!ToSet(p.keys) /\ p.keys[Len(p.keys)] \in SX!ToSet(p.keys)
<1>1. p.k = "enum"
  BY DEF EnumLeaf
<1>2. p.keys \in Seq(Int16) /\ p.keys # <<>>
  BY EnumInt DEF EnumLeaf, Int16
<1> DEFINE s == p.keys
<1>3. SX!ToSet(s) = {s[i] : i \in DOMAIN s}
  BY DEF SX!ToSet
<1> HIDE DEF Int16
<1>4. Len(s) \in Nat /\ Len(s) > 0 /\ DOMAIN s = 1..Len(s) /\ \A i \in 1..Len(s) : s[i] \in Int16
  BY <1>2
<1>5. QED BY <1>1, <1>2, <1>3, <1>4

LEMMA EnumKeyParts ==
    ASSUME NEW p, EnumLeaf(p), NEW n \in Int16
    PROVE  LET keys == SX!ToSet(p.keys)
               e == EnumKey(n, p.keys)
           IN  /\ e \in Int16
               /\ n \in keys => e = n
               /\ e \in keys \/ (e = n /\ \E i, j \in keys : i < n /\ n < j)
               /\ EnumKey(e, p.keys) = e
<1> DEFINE keys == SX!ToSet(p.keys)
           e == EnumKey(n, p.keys)
           a == p.keys[1]
           z == p.keys[Len(p.keys)]
<1>1. keys \subseteq Int16 /\ a \in keys /\ z \in keys
  BY EnumParts
<1>2. Int16 \subseteq Int
  BY EnumNumbers
<1>3. e = IF n \in keys THEN n ELSE IF n < a THEN a ELSE IF n > z THEN z ELSE n
  BY DEF EnumKey, EnumKeyOrKept
<1>4. EnumKey(e, p.keys) = IF e \in keys THEN e ELSE IF e < a THEN a ELSE IF e > z THEN z ELSE e
  BY DEF EnumKey, EnumKeyOrKept
<1> HIDE DEF keys, e, a, z
<1>5. QED
  <2>1. CASE e \in keys
    BY <1>1, <1>3, <1>4, <2>1 DEF keys, e
  <2>2. CASE e \notin keys
    <3>1. e = n /\ n \notin keys /\ ~(n < a) /\ ~(n > z)
      BY <1>1, <1>3, <2>2
    <3>2. a < n /\ n < z
      BY <1>1, <1>2, <3>1
    <3>3. \E i, j \in keys : i < n /\ n < j
      BY <1>1, <3>2
    <3>4. EnumKey(e, p.keys) = e
      BY <1>4, <2>2, <3>1
    <3>5. QED BY <3>1, <3>3, <3>4 DEF keys, e
  <2>3. QED BY <2>1, <2>2

LEMMA EnumLeafWritten ==
    ASSUME NEW p, EnumLeaf(p), NEW v \in Values, WriteEnum(v, p.keys) # <<BadByte>>
    PROVE  \E n \in Int16 :
              /\ v.of \in Int /\ n = Cut(v.of, EnumType)
              /\ v.k = "num" /\ (n \in SX!ToSet(p.keys) \/ Len(p.keys) > 1)
              /\ v.of \in Int16 => v.of = n
              /\ WriteEnum(v, p.keys) = WriteInt(EnumKey(n, p.keys), EnumType)
<1>1. v.k = "num" /\ (Cut(v.of, EnumType) \in SX!ToSet(p.keys) \/ Len(p.keys) > 1)
  BY DEF WriteEnum
<1>2. v.of \in Int
  BY <1>1 DEF Values, Num, Frac, Text, Flag, Null
<1>3. /\ Cut(v.of, EnumType) \in Int16
      /\ v.of \in Int16 => v.of = Cut(v.of, EnumType)
  BY <1>2, EnumInt, CutInto DEF Int16
<1>4. WriteEnum(v, p.keys) = WriteInt(EnumKey(Cut(v.of, EnumType), p.keys), EnumType)
  BY <1>1 DEF WriteEnum
<1>5. QED BY <1>1, <1>2, <1>3, <1>4

LEMMA EnumBecomes ==
    ASSUME NEW p, EnumLeaf(p), NEW v \in Values, WriteEnum(v, p.keys) # <<BadByte>>
    PROVE  /\ WriteEnum(v, p.keys) \in [1..2 -> Byte]
           /\ Becomes(p, v, WriteEnum(v, p.keys))
<1> DEFINE keys == SX!ToSet(p.keys)
<1>1. PICK n \in Int16 :
          /\ v.of \in Int /\ n = Cut(v.of, EnumType)
          /\ v.k = "num" /\ (n \in SX!ToSet(p.keys) \/ Len(p.keys) > 1)
          /\ v.of \in Int16 => v.of = n
          /\ WriteEnum(v, p.keys) = WriteInt(EnumKey(n, p.keys), EnumType)
  BY EnumLeafWritten
<1>2. PICK e \in Int16 : e = EnumKey(n, p.keys)
  BY EnumKeyParts
<1>3. /\ n \in keys => e = n
      /\ e \in keys \/ (e = n /\ \E i, j \in keys : i < n /\ n < j)
  BY <1>2, EnumKeyParts
<1>4. PICK b \in [1..2 -> Byte] : b = WriteEnum(v, p.keys) /\ Raw(EnumType, b) = e
  BY <1>1, <1>2, EnumNumbers
<1>5. p.k = "enum" /\ keys \subseteq Int16
  BY EnumParts
<1> HIDE DEF keys
<1>6. \/ e \in keys /\ (v.of \in keys => e = v.of)
      \/ e = n /\ \E i, j \in keys : i < e /\ e < j
  BY <1>1, <1>3, <1>5
<1>7. Becomes(p, v, b)
  BY <1>1, <1>4, <1>5, <1>6 DEF Becomes, keys
<1>8. QED BY <1>4, <1>7

LEMMA EnumKept ==
    ASSUME NEW p, EnumLeaf(p), NEW b \in [1..2 -> Byte], NEW e \in Int16, Raw(EnumType, b) = e,
           EnumKey(e, p.keys) = e, e \in SX!ToSet(p.keys) \/ Len(p.keys) > 1
    PROVE  WriteEnum(ReadPrimitive(EnumType, b), p.keys) = b
<1>1. ReadPrimitive(EnumType, b) = Num(e) /\ WriteInt(e, EnumType) = b
  BY EnumRead
<1>2. Cut(e, EnumType) = e
  BY EnumNumbers
<1>3. WriteEnum(Num(e), p.keys) = WriteInt(e, EnumType)
  BY <1>2 DEF WriteEnum, Num
<1>4. QED BY <1>1, <1>3

-----------------------------------------------------------------------------
\* Strings.

LEMMA StringParts ==
    ASSUME NEW p, StringLeaf(p)
    PROVE  p.k = "string" /\ p.len \in Nat /\ Width(p) = p.len + 1
<1>1. PICK len \in Nat : p = StringType(len)
  BY DEF StringLeaf
<1>2. p.k = "string" /\ p.len = len
  BY <1>1 DEF StringType
<1>3. QED BY <1>2 DEF Width

\* A string is read up to its first NUL.
LEMMA StringRead ==
    ASSUME NEW p, StringLeaf(p), NEW b \in [1..(p.len + 1) -> Byte], NEW n \in 0..p.len,
           b[n + 1] = 0, \A i \in 1..n : b[i] # 0
    PROVE  ReadPrimitive(p, b) =
              IF ValidUtf8(SubSeq(b, 1, n)) THEN Text(SubSeq(b, 1, n)) ELSE Bad
<1>1. p.k = "string" /\ p.len \in Nat /\ Width(p) = p.len + 1 /\ p.len + 1 \in Nat
  BY StringParts
<1>2. Len(b) = p.len + 1 /\ SubSeq(b, 1, p.len + 1) = b
  BY <1>1, WholeRow
<1>3. ReadPrimitive(p, b) = ReadString(b, p.len)
  <2>1. ~(Len(b) < Width(p))
    BY <1>1, <1>2
  <2>2. ReadPrimitive(p, b) = ReadString(SubSeq(b, 1, p.len + 1), p.len)
    BY <1>1, <2>1 DEF ReadPrimitive
  <2>3. QED BY <1>2, <2>2
<1> DEFINE I == {i \in 1..Len(b) : b[i] = 0}
<1>4. n + 1 \in I /\ \A i \in I : n + 1 <= i
  BY <1>1, <1>2
<1>5. SX!Min(I) = n + 1
  <2>1. SX!Min(I) \in I /\ \A i \in I : SX!Min(I) <= i
    BY <1>4 DEF SX!Min
  <2>2. QED BY <1>4, <2>1
<1>6. SX!SelectInSeq(b, LAMBDA x : x = 0) = n + 1
  BY <1>4, <1>5 DEF SX!SelectInSeq
<1>7. n + 1 # 0 /\ (n + 1) - 1 = n
  BY <1>1
<1> HIDE DEF I
<1>8. QED BY <1>3, <1>6, <1>7 DEF ReadString

LEMMA StringKept ==
    ASSUME NEW p, StringLeaf(p), NEW b \in [1..(p.len + 1) -> Byte], Clean(p, b)
    PROVE  WritePrimitive(p, ReadPrimitive(p, b)) = b
<1>1. p.k = "string" /\ p.len \in Nat
  BY StringParts
<1>2. PICK n \in 0..p.len :
          /\ \A i \in DOMAIN b : b[i] = 0 <=> i > n
          /\ ValidUtf8(SubSeq(b, 1, n))
  BY <1>1 DEF Clean
<1>3. DOMAIN b = 1..(p.len + 1) /\ b \in Seq(Byte) /\ Len(b) = p.len + 1
  BY <1>1, WholeRow
<1>4. b[n + 1] = 0 /\ \A i \in 1..n : b[i] # 0
  BY <1>1, <1>2, <1>3
<1> DEFINE s == SubSeq(b, 1, n)
<1>5. ReadPrimitive(p, b) = Text(s)
  BY <1>2, <1>4, StringRead
<1>6. Len(s) = n /\ \A i \in 1..n : s[i] = b[i]
  BY <1>1, <1>3
<1> HIDE DEF s
<1>7. WritePrimitive(p, Text(s)) = WriteString(s, p.len)
  BY <1>1 DEF WritePrimitive, Text
<1>8. \A i \in 1..(p.len + 1) : (IF i <= p.len /\ i <= Len(s) THEN s[i] ELSE 0) = b[i]
  BY <1>1, <1>2, <1>3, <1>6
<1>9. WriteString(s, p.len) = [i \in 1..(p.len + 1) |-> b[i]]
  BY <1>8 DEF WriteString
<1>10. QED BY <1>5, <1>7, <1>9

LEMMA StringLeafWritten ==
    ASSUME NEW p, StringLeaf(p), NEW v \in Values, WritePrimitive(p, v) # <<BadByte>>
    PROVE  /\ v.k = "text" /\ v.of \in Texts
           /\ WritePrimitive(p, v) = WriteString(v.of, p.len)
<1>1. p.k = "string"
  BY StringParts
<1>2. v.k = "text"
  BY <1>1 DEF WritePrimitive
<1>3. v.of \in Texts
  BY <1>2 DEF Values, Num, Frac, Text, Flag, Null
<1>4. QED BY <1>1, <1>2, <1>3 DEF WritePrimitive

LEMMA WrittenText ==
    ASSUME NEW len \in Nat, NEW t \in Seq(Byte)
    PROVE  /\ WriteString(t, len) \in [1..(len + 1) -> Byte]
           /\ \A i \in 1..(len + 1) :
                 WriteString(t, len)[i] = IF i <= len /\ i <= Len(t) THEN t[i] ELSE 0
<1>1. 0 \in Byte
  BY BaseFacts DEF Byte
<1>2. \A i \in 1..(len + 1) : i <= Len(t) => t[i] \in Byte
  <2> HIDE DEF Byte
  <2>1. QED OBVIOUS
<1>3. QED BY <1>1, <1>2 DEF WriteString

LEMMA StringBecomes ==
    ASSUME NEW p, StringLeaf(p), NEW v \in Values, WritePrimitive(p, v) # <<BadByte>>
    PROVE  /\ WritePrimitive(p, v) \in [1..(p.len + 1) -> Byte]
           /\ Becomes(p, v, WritePrimitive(p, v))
<1>1. p.k = "string" /\ p.len \in Nat
  BY StringParts
<1>2. v.of \in Seq(Byte) /\ WritePrimitive(p, v) = WriteString(v.of, p.len)
  BY StringLeafWritten DEF Texts
<1>3. PICK b \in [1..(p.len + 1) -> Byte] : b = WriteString(v.of, p.len)
  BY <1>1, <1>2, WrittenText
<1>7. \A i \in 1..(p.len + 1) : b[i] = IF i <= p.len /\ i <= Len(v.of) THEN v.of[i] ELSE 0
  BY <1>1, <1>2, <1>3, WrittenText
<1>4. DOMAIN b = 1..(p.len + 1)
  OBVIOUS
<1>5. Becomes(p, v, b)
  BY <1>1, <1>4, <1>7 DEF Becomes
<1>6. QED BY <1>2, <1>3, <1>5

\* The first NUL of what was written lies behind the text or at one of its own.
LEMMA WrittenTextEnds ==
    ASSUME NEW len \in Nat, NEW t \in Seq(Byte)
    PROVE  \E n \in 0..len :
              /\ WriteString(t, len)[n + 1] = 0
              /\ \A i \in 1..n : WriteString(t, len)[i] # 0
              /\ n <= Len(t)
              /\ (\A i \in DOMAIN t : t[i] # 0) /\ Len(t) <= len => n = Len(t)
              /\ (\A i \in DOMAIN t : t[i] # 0) /\ Len(t) > len => n = len
<1> DEFINE w == WriteString(t, len)
           D == {i \in Nat : i <= len /\ w[i + 1] = 0}
           Rel == {ss \in Nat \X Nat : ss[1] < ss[2]}
<1>1. \A i \in 1..(len + 1) : w[i] = IF i <= len /\ i <= Len(t) THEN t[i] ELSE 0
  BY WrittenText
<1>2. Len(t) \in Nat /\ DOMAIN t = 1..Len(t)
  OBVIOUS
<1> HIDE DEF w
<1>3. D \subseteq Nat /\ len \in D
  <2>1. w[len + 1] = 0
    BY <1>1
  <2>2. QED BY <2>1
<1>4. PICK n \in D : \A i \in D : n <= i
  <2>1. IsWellFoundedOn(Rel, Nat)
    BY NatLessThanWellFounded DEF OpToRel
  <2>2. PICK n \in D : \A y \in D : ~(<<y, n>> \in Rel)
    <3> HIDE DEF D, Rel
    <3>1. QED BY <1>3, <2>1, WFMin
  <2>3. \A y \in D : ~(y < n)
    BY <2>2
  <2>4. QED BY <2>3
<1>5. n \in Nat /\ n <= len /\ n \in 0..len /\ w[n + 1] = 0
  OBVIOUS
<1>6. ASSUME NEW i \in 1..n PROVE w[i] # 0
  <2>1. i - 1 \in Nat /\ i - 1 < n /\ (i - 1) + 1 = i /\ i - 1 <= len
    BY <1>5
  <2>2. i - 1 \notin D
    <3>1. n \in Nat /\ ~(n <= i - 1)
      BY <1>5, <2>1
    <3> HIDE DEF D
    <3>2. QED BY <1>4, <3>1
  <2>3. QED BY <2>1, <2>2
<1>7. n <= Len(t)
  <2>1. SUFFICES ASSUME Len(t) < n PROVE FALSE
    BY <1>2, <1>5
  <2>2. Len(t) \in D
    <3>1. Len(t) + 1 \in 1..(len + 1) /\ ~(Len(t) + 1 <= Len(t)) /\ Len(t) <= len
      BY <1>2, <1>5, <2>1
    <3>2. w[Len(t) + 1] = 0
      BY <1>1, <3>1
    <3>3. QED BY <1>2, <3>1, <3>2
  <2>3. QED BY <1>2, <1>4, <1>5, <2>1, <2>2
<1>8. ASSUME \A i \in DOMAIN t : t[i] # 0, n < len PROVE ~(n < Len(t))
  <2>1. SUFFICES ASSUME n < Len(t) PROVE FALSE
    OBVIOUS
  <2>2. n + 1 \in 1..(len + 1) /\ n + 1 <= len /\ n + 1 <= Len(t) /\ n + 1 \in DOMAIN t
    BY <1>2, <1>5, <1>8, <2>1
  <2>3. w[n + 1] = t[n + 1]
    BY <1>1, <2>2
  <2>4. QED BY <1>5, <1>8, <2>2, <2>3
<1>9. ASSUME \A i \in DOMAIN t : t[i] # 0
      PROVE  (Len(t) <= len => n = Len(t)) /\ (Len(t) > len => n = len)
  <2> HIDE DEF D, w
  <2>1. n < len => ~(n < Len(t))
    BY <1>8, <1>9
  <2>2. n \in Nat /\ n <= len
    BY <1>5, Zenon
  <2>3. PICK k \in Nat : k = Len(t)
    BY <1>2, Zenon
  <2>4. (k <= len => n = k) /\ (k > len => n = len)
    BY <1>7, <2>1, <2>2, <2>3
  <2>5. QED BY <2>3, <2>4
<1>10. QED BY <1>5, <1>6, <1>7, <1>9 DEF w

\* A text that fits is read up to its first NUL, if it has one.
LEMMA TextReadable ==
    ASSUME NEW p, StringLeaf(p), NEW t \in Texts, Len(t) <= p.len
    PROVE  ReadPrimitive(p, WriteString(t, p.len)) # Bad
<1>1. p.len \in Nat /\ t \in Seq(Byte) /\ Len(t) \in Nat /\ DOMAIN t = 1..Len(t)
  BY StringParts DEF Texts
<1>2. PICK b \in [1..(p.len + 1) -> Byte] : b = WriteString(t, p.len)
  BY <1>1, WrittenText
<1>12. \A i \in 1..(p.len + 1) : b[i] = IF i <= p.len /\ i <= Len(t) THEN t[i] ELSE 0
  BY <1>1, <1>2, WrittenText
<1>3. PICK n \in 0..p.len : b[n + 1] = 0 /\ (\A i \in 1..n : b[i] # 0) /\ n <= Len(t)
  BY <1>1, <1>2, WrittenTextEnds
<1> DEFINE s == SubSeq(b, 1, n)
<1>4. Len(s) = n /\ DOMAIN s = 1..n /\ \A i \in 1..n : s[i] = b[i]
  <2>1. b \in Seq(Byte) /\ Len(b) = p.len + 1
    BY <1>1, WholeRow
  <2> HIDE DEF Byte
  <2>2. QED BY <1>1, <2>1
<1>5. \A i \in 1..n : s[i] = t[i]
  BY <1>1, <1>12, <1>3, <1>4
<1> HIDE DEF s
<1>6. ValidUtf8(t) /\ 0 \notin Continuation
  BY PrimitiveAssumption DEF Texts
<1>7. ASSUME NEW i \in 1..n
      PROVE  /\ s[i] \in Lead => i < n /\ s[i + 1] \in Continuation
             /\ s[i] \in Continuation => i > 1 /\ s[i - 1] \in Lead
  <2>1. i \in DOMAIN t /\ s[i] = t[i]
    BY <1>1, <1>3, <1>5
  <2>2. ASSUME s[i] \in Lead PROVE i < n /\ s[i + 1] \in Continuation
    <3>1. i < Len(t) /\ t[i + 1] \in Continuation
      BY <1>6, <2>1, <2>2 DEF ValidUtf8
    <3>2. i + 1 \in 1..(p.len + 1) /\ i + 1 <= p.len /\ i + 1 <= Len(t)
      BY <1>1, <1>3, <3>1
    <3>3. b[i + 1] = t[i + 1]
      BY <1>12, <3>2
    <3>4. i # n
      <4>1. b[i + 1] # 0
        BY <1>6, <3>1, <3>3
      <4>2. QED BY <1>3, <4>1
    <3>5. i < n /\ i + 1 \in 1..n
      BY <1>3, <3>4
    <3>6. QED BY <1>5, <3>1, <3>5
  <2>3. ASSUME s[i] \in Continuation PROVE i > 1 /\ s[i - 1] \in Lead
    <3>1. i > 1 /\ t[i - 1] \in Lead
      BY <1>6, <2>1, <2>3 DEF ValidUtf8
    <3>2. i - 1 \in 1..n
      BY <1>3, <3>1
    <3>3. QED BY <1>5, <3>1, <3>2
  <2>4. QED BY <2>2, <2>3
<1>8. ValidUtf8(s)
  BY <1>4, <1>7 DEF ValidUtf8
<1>9. ReadPrimitive(p, b) = Text(s)
  BY <1>3, <1>8, StringRead DEF s
<1>10. Text(s) # Bad
  BY DEF Text, Bad
<1>11. QED BY <1>2, <1>9, <1>10

\* A text without NUL that is readable where it was written is clean there.
LEMMA TextClean ==
    ASSUME NEW p, StringLeaf(p), NEW t \in Texts, \A i \in DOMAIN t : t[i] # 0,
           ReadPrimitive(p, WriteString(t, p.len)) # Bad
    PROVE  Clean(p, WriteString(t, p.len))
<1>1. /\ p.k = "string" /\ p.len \in Nat
      /\ t \in Seq(Byte) /\ Len(t) \in Nat /\ DOMAIN t = 1..Len(t)
  BY StringParts DEF Texts
<1>2. PICK b \in [1..(p.len + 1) -> Byte] : b = WriteString(t, p.len)
  BY <1>1, WrittenText
<1>12. \A i \in 1..(p.len + 1) : b[i] = IF i <= p.len /\ i <= Len(t) THEN t[i] ELSE 0
  BY <1>1, <1>2, WrittenText, Zenon
<1>13. PICK n \in 0..p.len :
          /\ WriteString(t, p.len)[n + 1] = 0
          /\ \A i \in 1..n : WriteString(t, p.len)[i] # 0
          /\ n <= Len(t)
          /\ (\A i \in DOMAIN t : t[i] # 0) /\ Len(t) <= p.len => n = Len(t)
          /\ (\A i \in DOMAIN t : t[i] # 0) /\ Len(t) > p.len => n = p.len
  BY <1>1, WrittenTextEnds, Zenon
<1>3. /\ b[n + 1] = 0 /\ (\A i \in 1..n : b[i] # 0) /\ n <= Len(t)
      /\ Len(t) <= p.len => n = Len(t)
      /\ Len(t) > p.len => n = p.len
  BY <1>2, <1>13
<1>4. \A i \in 1..(p.len + 1) : b[i] = 0 <=> i > n
  <2> TAKE i \in 1..(p.len + 1)
  <2>1. CASE i \in 1..n
    BY <1>3, <2>1
  <2>2. CASE i = n + 1
    BY <1>3, <2>2
  <2>3. CASE i > n + 1
    <3>3. PICK k \in Nat, l \in Nat : k = Len(t) /\ l = p.len
      BY <1>1, Zenon
    <3>4. ~(i <= l /\ i <= k)
      BY <1>3, <2>3, <3>3
    <3>1. ~(i <= p.len /\ i <= Len(t))
      BY <3>3, <3>4
    <3>2. b[i] = 0
      BY <1>12, <3>1
    <3>5. i > n
      BY <2>3
    <3>6. QED BY <3>2, <3>5, Zenon
  <2>4. QED BY <2>1, <2>2, <2>3
<1>5. ValidUtf8(SubSeq(b, 1, n))
  BY <1>2, <1>3, StringRead
<1>6. DOMAIN b = 1..(p.len + 1)
  OBVIOUS
<1>7. Clean(p, b)
  BY <1>1, <1>4, <1>5, <1>6 DEF Clean
<1>8. QED BY <1>2, <1>7
-----------------------------------------------------------------------------
\* REAL and LREAL.

LEMMA TwoPowers ==
    \A n \in Nat : /\ Power(2, n) \in Nat /\ Power(2, n) > n
                   /\ Power(2, 0) = 1 /\ Power(2, n + 1) = 2 * Power(2, n)
<1>1. PICK b \in Nat : b = 2 /\ b > 0
  OBVIOUS
<1>2. /\ Power(b, 0) = 1
      /\ \A n \in Nat : /\ Power(b, n) \in Nat /\ Power(b, n) > 0
                        /\ Power(b, n + 1) = b * Power(b, n)
  BY <1>1, PowerFacts
<1>3. /\ Power(2, 0) = 1
      /\ \A n \in Nat : /\ Power(2, n) \in Nat /\ Power(2, n + 1) = 2 * Power(2, n)
  BY <1>1, <1>2
<1> DEFINE T == {n \in Nat : Power(2, n) > n}
<1>4. Nat \subseteq T
  <2>1. 0 \in T
    BY <1>3
  <2>2. ASSUME NEW n \in Nat, n \in T PROVE n + 1 \in T
    <3>1. PICK x \in Nat : x = Power(2, n) /\ x > n /\ Power(2, n + 1) = 2 * x
      BY <1>3, <2>2
    <3>2. 2 * x > n + 1
      BY <3>1
    <3>3. QED BY <3>1, <3>2
  <2> HIDE DEF T
  <2>3. QED BY <2>1, <2>2, Counting
<1>5. QED BY <1>3, <1>4

LEMMA TwoSplit ==
    ASSUME NEW i \in Nat
    PROVE  \A j \in Nat : Power(2, i + j) = Power(2, i) * Power(2, j)
<1> DEFINE T == {j \in Nat : Power(2, i + j) = Power(2, i) * Power(2, j)}
<1>1. PICK P \in Nat : P = Power(2, i)
  BY TwoPowers
<1>2. 0 \in T
  <2>1. i + 0 = i /\ P * 1 = P
    BY <1>1
  <2>2. QED BY <1>1, <2>1, TwoPowers
<1>3. ASSUME NEW j \in Nat, j \in T PROVE j + 1 \in T
  <2>1. i + j \in Nat /\ i + (j + 1) = (i + j) + 1
    OBVIOUS
  <2>2. PICK Q \in Nat : Q = Power(2, j) /\ Power(2, j + 1) = 2 * Q
    BY TwoPowers
  <2>3. Power(2, (i + j) + 1) = 2 * (P * Q)
    <3>1. Power(2, i + j) = P * Q
      BY <1>1, <1>3, <2>2
    <3>2. QED BY <2>1, <3>1, TwoPowers
  <2>4. 2 * (P * Q) = P * (2 * Q)
    BY <1>1, <2>2
  <2>5. QED BY <1>1, <2>1, <2>2, <2>3, <2>4
<1>4. Nat \subseteq T
  <2> HIDE DEF T
  <2>1. QED BY <1>2, <1>3, Counting
<1>5. QED BY <1>4

\* n loses its last k digits: down units are left of it, and a rest.
Loses(n, M, k, unit, down, rest) ==
    /\ unit = Power(2, k) /\ unit > 0 /\ rest < unit
    /\ n = (unit * down) + rest
    /\ down < M
    /\ k = 0 \/ n \div Power(2, k - 1) >= M
    /\ Rounded(n, M) = unit * IF 2 * rest > unit \/ (2 * rest = unit /\ down % 2 = 1)
                              THEN down + 1 ELSE down

LEMMA RoundedParts ==
    ASSUME NEW n \in Nat, NEW M \in Nat, M > 0
    PROVE  \E k, unit, down, rest \in Nat : Loses(n, M, k, unit, down, rest)
<1> DEFINE D == {i \in Nat : n \div Power(2, i) < M}
           Rel == {ss \in Nat \X Nat : ss[1] < ss[2]}
           Cuts(i) == /\ n \div Power(2, i) < M
                      /\ i = 0 \/ n \div Power(2, i - 1) >= M
<1>1. D \subseteq Nat /\ n \in D
  <2>1. PICK P \in Nat : P = Power(2, n) /\ P > n
    BY TwoPowers
  <2>2. n \div P = 0
    BY <2>1
  <2>3. QED BY <2>1, <2>2
<1>2. PICK i \in D : \A j \in D : i <= j
  <2>1. IsWellFoundedOn(Rel, Nat)
    BY NatLessThanWellFounded DEF OpToRel
  <2>2. PICK i \in D : \A y \in D : ~(<<y, i>> \in Rel)
    <3> HIDE DEF D, Rel
    <3>1. QED BY <1>1, <2>1, WFMin
  <2>3. \A y \in D : ~(y < i)
    BY <2>2
  <2>4. QED BY <2>3
<1>3. i \in 0..n
  BY <1>1, <1>2
<1>4. Cuts(i)
  <2>1. n \div Power(2, i) < M
    OBVIOUS
  <2>2. CASE i # 0
    <3>1. i - 1 \in Nat /\ ~(i <= i - 1)
      BY <1>3, <2>2
    <3>2. i - 1 \notin D
      <4> HIDE DEF D
      <4>1. QED BY <1>2, <3>1
    <3>3. PICK P \in Nat : P = Power(2, i - 1) /\ P > 0
      BY <3>1, TwoPowers
    <3>4. n \div P \in Int
      BY <3>3
    <3>5. QED BY <2>1, <3>1, <3>2, <3>3, <3>4
  <2>3. QED BY <2>1, <2>2
<1> DEFINE k == CHOOSE j \in 0..n : Cuts(j)
<1>5. k \in 0..n /\ Cuts(k)
  <2> HIDE DEF Cuts
  <2>1. QED BY <1>3, <1>4
<1> DEFINE unit == Power(2, k)
           down == n \div unit
           rest == n % unit
<1>6. Rounded(n, M) = unit * IF 2 * rest > unit \/ (2 * rest = unit /\ down % 2 = 1)
                             THEN down + 1 ELSE down
  BY DEF Rounded
<1> HIDE DEF D, k
<1>7. k \in Nat /\ unit \in Nat /\ unit > 0
  BY <1>5, TwoPowers
<1> HIDE DEF unit
<1>8. n = (unit * down) + rest /\ rest \in 0..(unit - 1) /\ down \in Nat
  BY <1>7, Divided
<1>9. unit = Power(2, k) /\ down < M /\ (k = 0 \/ n \div Power(2, k - 1) >= M)
  BY <1>5 DEF unit
<1> HIDE DEF down, rest
<1>10. rest \in Nat /\ rest < unit
  BY <1>7, <1>8
<1>11. Loses(n, M, k, unit, down, rest)
  BY <1>6, <1>7, <1>8, <1>9, <1>10 DEF Loses
<1>12. QED BY <1>7, <1>8, <1>10, <1>11

\* A number whose last k digits are 0 anyway is kept.
LEMMA NothingToRound ==
    ASSUME NEW n \in Nat, NEW k \in Nat, NEW unit \in Nat, NEW down \in Nat, NEW rest \in Nat,
           unit > 0, rest < unit, n = (unit * down) + rest, NEW q \in Int, n = unit * q
    PROVE  /\ n = unit * down
           /\ ~(2 * rest > unit \/ (2 * rest = unit /\ down % 2 = 1))
<1>1. n \div unit = q /\ n % unit = 0
  <2>1. n = (unit * q) + 0 /\ 0 \in 0..(unit - 1)
    OBVIOUS
  <2>2. QED BY <2>1, Quotient
<1>2. n % unit = rest
  <2>1. rest \in 0..(unit - 1)
    OBVIOUS
  <2>2. QED BY <2>1, Quotient
<1>3. rest = 0
  BY <1>1, <1>2
<1>4. QED BY <1>3

LEMMA RoundedType ==
    ASSUME NEW n \in Nat, NEW M \in Nat, M > 0
    PROVE  /\ Rounded(n, M) \in Nat
           /\ \E k \in Nat, d \in 0..M : Rounded(n, M) = Power(2, k) * d
<1>1. PICK k \in Nat, unit \in Nat, down \in Nat, rest \in Nat : Loses(n, M, k, unit, down, rest)
  BY RoundedParts
<1>2. PICK d \in 0..M : Rounded(n, M) = unit * d /\ unit = Power(2, k)
  <2>1. down \in 0..M /\ down + 1 \in 0..M
    BY <1>1 DEF Loses
  <2>2. Rounded(n, M) \in {unit * down, unit * (down + 1)} /\ unit = Power(2, k)
    BY <1>1 DEF Loses
  <2>3. QED BY <2>1, <2>2
<1>3. unit * d \in Nat
  OBVIOUS
<1>4. QED BY <1>1, <1>2, <1>3

\* A number of few digits, and those behind it 0, is exact.
LEMMA ExactIsKept ==
    ASSUME NEW m \in Nat, m > 0, NEW e \in Nat, NEW d \in 0..(2 * m), NEW n \in Nat,
           n = Power(2, e) * d
    PROVE  Rounded(n, 2 * m) = n
<1>1. PICK M \in Nat : M = 2 * m /\ M > 0
  OBVIOUS
<1>6. PICK k \in Nat, unit \in Nat, down \in Nat, rest \in Nat : Loses(n, M, k, unit, down, rest)
  BY <1>1, RoundedParts
<1>2. /\ unit = Power(2, k) /\ unit > 0 /\ rest < unit
      /\ n = (unit * down) + rest
      /\ down < M
      /\ k = 0 \/ n \div Power(2, k - 1) >= M
      /\ Rounded(n, M) = unit * IF 2 * rest > unit \/ (2 * rest = unit /\ down % 2 = 1)
                                THEN down + 1 ELSE down
  BY <1>6 DEF Loses
<1>3. PICK q \in Int : n = unit * q
  <2>1. CASE k <= e
    <3>1. PICK j \in Nat : k + j = e
      <4>1. e - k \in Nat /\ k + (e - k) = e
        BY <2>1
      <4>2. QED BY <4>1
    <3>5. Power(2, k + j) = Power(2, k) * Power(2, j)
      BY TwoSplit
    <3>2. PICK R \in Nat : R = Power(2, j) /\ Power(2, e) = unit * R
      BY <1>2, <3>1, <3>5, TwoPowers
    <3>3. n = unit * (R * d) /\ R * d \in Int
      <4>1. d \in Nat
        OBVIOUS
      <4>2. (unit * R) * d = unit * (R * d)
        BY <4>1
      <4>3. QED BY <3>2, <4>1, <4>2
    <3>4. QED BY <3>3
  <2>2. CASE ~(k <= e)
    <3>1. k # 0 /\ k - 1 \in Nat /\ (k - 1) + 1 = k
      BY <2>2
    <3>9. PICK j \in Nat : e + j = k - 1
      <4>1. (k - 1) - e \in Nat /\ e + ((k - 1) - e) = k - 1
        BY <2>2
      <4>2. QED BY <4>1
    <3>2. PICK E \in Nat : E = Power(2, e) /\ E > 0
      BY TwoPowers
    <3>10. Power(2, e + j) = Power(2, e) * Power(2, j)
      BY TwoSplit
    <3>13. Power(2, j) \in Nat /\ Power(2, j) > j /\ Power(2, j) > 0
      BY TwoPowers
    <3>3. PICK R \in Nat : R = Power(2, j) /\ R > 0 /\ Power(2, k - 1) = E * R
      BY <3>9, <3>10, <3>2, <3>13
    <3>4. PICK H \in Nat : H = Power(2, k - 1) /\ H > 0 /\ unit = 2 * H /\ H = E * R
      <4>1. Power(2, k - 1) > 0 /\ Power(2, (k - 1) + 1) = 2 * Power(2, k - 1)
            /\ Power(2, k - 1) \in Nat
        BY <3>1, TwoPowers
      <4>2. QED BY <1>2, <3>1, <3>3, <4>1
    <3>5. n >= H * M
      <4>1. PICK f \in Int : f = n \div H /\ f >= M
        BY <1>2, <3>1, <3>4
      <4>2. n = (H * f) + (n % H) /\ n % H >= 0
        <5>1. n \in Int
          OBVIOUS
        <5>2. n = (H * (n \div H)) + (n % H) /\ n % H \in 0..(H - 1)
          BY <3>4, <5>1, Divided
        <5>3. QED BY <4>1, <5>2
      <4>3. H * f >= H * M
        BY <1>1, <3>4, <4>1
      <4>4. H * f \in Int /\ H * M \in Int /\ n % H \in Int
        BY <3>4, <4>1
      <4>5. QED BY <4>2, <4>3, <4>4
    <3>6. n <= H * M
      <4>1. d \in Nat /\ d <= M
        BY <1>1
      <4>2. n = E * d /\ E * d <= E * M
        BY <1>1, <3>2, <4>1
      <4>3. E * M <= H * M
        <5>1. E <= E * R
          BY <3>2, <3>3
        <5>2. E <= H
          BY <3>4, <5>1
        <5>3. QED BY <1>1, <5>2
      <4>4. E * M \in Int /\ H * M \in Int /\ E * d \in Int
        BY <4>1
      <4>5. QED BY <4>2, <4>3, <4>4
    <3>7. n = unit * m
      <4>1. H * M \in Int /\ H * (2 * m) = (2 * H) * m
        BY <1>1
      <4>2. QED BY <1>1, <3>4, <3>5, <3>6, <4>1
    <3>8. PICK q \in Int : q = m
      OBVIOUS
    <3>11. n = unit * q
      BY <3>7, <3>8
    <3>12. QED BY <3>11
  <2>3. QED BY <2>1, <2>2
<1>4. n = unit * down /\ ~(2 * rest > unit \/ (2 * rest = unit /\ down % 2 = 1))
  BY <1>2, <1>3, NothingToRound
<1>5. QED BY <1>1, <1>2, <1>4

\* A float is not rounded again.
LEMMA RoundedTwice ==
    ASSUME NEW n \in Nat, NEW m \in Nat, m > 0
    PROVE  /\ Rounded(n, 2 * m) \in Nat
           /\ Rounded(Rounded(n, 2 * m), 2 * m) = Rounded(n, 2 * m)
<1>1. PICK M \in Nat : M = 2 * m /\ M > 0
  OBVIOUS
<1>2. PICK r \in Nat : r = Rounded(n, M)
  BY <1>1, RoundedType
<1>3. PICK k \in Nat, d \in 0..M : r = Power(2, k) * d
  BY <1>1, <1>2, RoundedType
<1>4. Rounded(r, 2 * m) = r
  BY <1>1, <1>3, ExactIsKept
<1>5. QED BY <1>1, <1>2, <1>4

LEMMA RealParts ==
    ASSUME NEW p, RealLeaf(p)
    PROVE  /\ p.k = "real" /\ p.w \in {4, 8} /\ Width(p) = p.w
           /\ \E m \in Nat : m > 0 /\ p.mantissa = 2 * m
<1>1. PICK w \in {4, 8}, m \in Nat \ {0} : p = RealType(w, 2 * m)
  BY DEF RealLeaf
<1>2. p.k = "real" /\ p.w = w /\ p.mantissa = 2 * m
  BY <1>1 DEF RealType
<1>3. Width(p) = p.w
  BY <1>2 DEF Width
<1>4. m > 0 /\ m \in Nat
  OBVIOUS
<1>5. QED BY <1>2, <1>3, <1>4

LEMMA RealRead ==
    ASSUME NEW p, RealLeaf(p), NEW b \in [1..p.w -> Byte]
    PROVE  ReadPrimitive(p, b) = ReadReal(b, p)
<1>1. p.k = "real" /\ p.w \in Nat /\ Width(p) = p.w
  BY RealParts
<1>2. Len(b) = p.w /\ SubSeq(b, 1, p.w) = b
  BY <1>1, WholeRow
<1>3. ~(Len(b) < Width(p))
  BY <1>1, <1>2
<1>4. ReadPrimitive(p, b) = ReadReal(SubSeq(b, 1, p.w), p)
  BY <1>1, <1>3 DEF ReadPrimitive
<1>5. QED BY <1>2, <1>4

\* The bit pattern of a number that is written.
LEMMA RealLeafWritten ==
    ASSUME NEW p, RealLeaf(p), NEW v \in Values, WritePrimitive(p, v) # <<BadByte>>
    PROVE  \E f \in 0..(Pow(p.w) - 1) :
              /\ f = Rounded(v.of, p.mantissa) /\ Rounded(f, p.mantissa) = f
              /\ WritePrimitive(p, v) = Bytes(f, p.w)
              /\ Bytes(f, p.w) \in [1..p.w -> Byte] /\ Number(Bytes(f, p.w)) = f
<1>1. p.k = "real" /\ p.w \in Nat
  BY RealParts
<1>2. PICK m \in Nat : m > 0 /\ p.mantissa = 2 * m
  BY RealParts
<1>3. v.k \in {"num", "frac"}
  BY <1>1 DEF WritePrimitive
<1>4. v.of \in Int
  BY <1>3 DEF Values, Num, Frac, Text, Flag, Null
<1>5. PICK n \in Int : n = v.of /\ WritePrimitive(p, v) = WriteReal(n, p)
  BY <1>1, <1>3, <1>4 DEF WritePrimitive
<1>6. n >= 0
  BY <1>5 DEF WriteReal
<1>7. PICK f \in Nat : f = Rounded(n, p.mantissa) /\ Rounded(f, p.mantissa) = f
  BY <1>2, <1>6, RoundedTwice
<1>8. PICK P \in Nat : P = Pow(p.w) /\ P > 0
  BY <1>1, PowFacts
<1>9. WriteReal(n, p) = IF f < 0 \/ f >= P THEN <<BadByte>> ELSE Bytes(f, p.w)
  BY <1>6, <1>7, <1>8 DEF WriteReal
<1>10. f < P /\ WritePrimitive(p, v) = Bytes(f, p.w)
  BY <1>5, <1>8, <1>9
<1>11. f \in 0..(Pow(p.w) - 1) /\ f % P = f
  BY <1>8, <1>10
<1>12. Bytes(f, p.w) \in [1..p.w -> Byte] /\ Number(Bytes(f, p.w)) = f
  <2>1. f \in Int
    OBVIOUS
  <2>2. Number(Bytes(f, p.w)) = f % Pow(p.w)
    BY <1>1, NumberOfBytes
  <2>3. QED BY <1>1, <1>8, <1>11, <2>1, <2>2, BytesType
<1>13. QED BY <1>5, <1>7, <1>10, <1>11, <1>12

LEMMA RealBecomes ==
    ASSUME NEW p, RealLeaf(p), NEW v \in Values, WritePrimitive(p, v) # <<BadByte>>
    PROVE  /\ WritePrimitive(p, v) \in [1..p.w -> Byte]
           /\ Becomes(p, v, WritePrimitive(p, v))
<1>1. p.k = "real"
  BY RealParts
<1>2. PICK f \in 0..(Pow(p.w) - 1) :
          /\ f = Rounded(v.of, p.mantissa)
          /\ WritePrimitive(p, v) = Bytes(f, p.w)
          /\ Bytes(f, p.w) \in [1..p.w -> Byte] /\ Number(Bytes(f, p.w)) = f
  BY RealLeafWritten
<1>3. Becomes(p, v, Bytes(f, p.w))
  BY <1>1, <1>2 DEF Becomes
<1>4. QED BY <1>2, <1>3

LEMMA RealKept ==
    ASSUME NEW p, RealLeaf(p), NEW b \in [1..p.w -> Byte], Clean(p, b)
    PROVE  WritePrimitive(p, ReadPrimitive(p, b)) = b
<1>1. p.k = "real" /\ p.w \in Nat
  BY RealParts
<1>2. PICK n \in 0..(Pow(p.w) - 1) : n = Number(b) /\ Bytes(n, p.w) = b
  BY <1>1, BytesOfNumber
<1>3. Rounded(n, p.mantissa) = n /\ ReadReal(b, p) # Bad
  BY <1>1, <1>2 DEF Clean
<1>4. ReadPrimitive(p, b) = Num(n)
  <2>1. ReadReal(b, p) = Num(n)
    BY <1>2, <1>3 DEF ReadReal
  <2>2. QED BY <2>1, RealRead
<1>5. WritePrimitive(p, Num(n)) = WriteReal(n, p)
  BY <1>1 DEF WritePrimitive, Num
<1>6. PICK P \in Nat : P = Pow(p.w) /\ P > 0
  BY <1>1, PowFacts
<1>7. n \in Nat /\ ~(n < 0) /\ ~(n >= P)
  BY <1>2, <1>6
<1>8. WriteReal(n, p) = Bytes(n, p.w)
  BY <1>3, <1>6, <1>7 DEF WriteReal
<1>9. QED BY <1>2, <1>4, <1>5, <1>8

\* A REAL has no pattern without an i64.
LEMMA FourOfEight == Pow(4) <= Pow(8) \div 2 /\ Pow(4) \in Nat /\ Pow(8) \div 2 \in Nat
<1>1. PICK w \in Nat : w = 4
  OBVIOUS
<1>2. PICK z \in Nat : z = 8 /\ z # 0 /\ z = (((w + 1) + 1) + 1) + 1
  BY <1>1
<1>3. ASSUME NEW n \in Nat PROVE Pow(n) \in Nat /\ Pow(n + 1) \in Nat /\ 2 * Pow(n) <= Pow(n + 1)
  <2>1. PICK P \in Nat : P = Pow(n) /\ Pow(n + 1) = Base * P
    BY PowFacts
  <2>2. PICK B \in Nat : B = Base /\ B >= 2
    BY BaseFacts
  <2>3. 2 * P <= B * P /\ B * P \in Nat
    BY <2>2
  <2>4. QED BY <2>1, <2>2, <2>3
<1>4. w + 1 \in Nat /\ (w + 1) + 1 \in Nat /\ ((w + 1) + 1) + 1 \in Nat
  OBVIOUS
<1>5. PICK a, b, c, d, e \in Nat :
          /\ a = Pow(w) /\ e = Pow(z)
          /\ 2 * a <= b /\ 2 * b <= c /\ 2 * c <= d /\ 2 * d <= e
  BY <1>2, <1>3, <1>4
<1>6. PICK h \in Nat : Pow(z) = 2 * h /\ Pow(z) \div 2 = h
  BY <1>2, Halves
<1>7. a <= h
  BY <1>5, <1>6
<1>8. QED BY <1>1, <1>2, <1>5, <1>6, <1>7

LEMMA RealReadable ==
    ASSUME NEW p, RealLeaf(p), NEW v \in Values, WritePrimitive(p, v) # <<BadByte>>
    PROVE  /\ ReadPrimitive(p, WritePrimitive(p, v)) = Bad =>
                 p.w = 8 /\ Rounded(v.of, p.mantissa) >= Pow(8) \div 2
           /\ ReadPrimitive(p, WritePrimitive(p, v)) # Bad => Clean(p, WritePrimitive(p, v))
<1>1. p.k = "real" /\ p.w \in {4, 8}
  BY RealParts
<1>2. PICK f \in 0..(Pow(p.w) - 1) :
          /\ f = Rounded(v.of, p.mantissa) /\ Rounded(f, p.mantissa) = f
          /\ WritePrimitive(p, v) = Bytes(f, p.w)
          /\ Bytes(f, p.w) \in [1..p.w -> Byte] /\ Number(Bytes(f, p.w)) = f
  BY RealLeafWritten
<1>3. PICK b \in [1..p.w -> Byte] : b = WritePrimitive(p, v) /\ Number(b) = f
  BY <1>2
<1>4. ReadPrimitive(p, b) = IF f >= Pow(8) \div 2 THEN Bad ELSE Num(f)
  <2>1. ReadReal(b, p) = IF f >= Pow(8) \div 2 THEN Bad ELSE Num(f)
    BY <1>2, <1>3 DEF ReadReal
  <2>2. QED BY <2>1, RealRead
<1>5. ASSUME ReadPrimitive(p, b) = Bad PROVE p.w = 8 /\ f >= Pow(8) \div 2
  <2>1. f >= Pow(8) \div 2
    BY <1>4, <1>5 DEF Num, Bad
  <2>2. p.w # 4
    <3>1. SUFFICES ASSUME p.w = 4 PROVE FALSE
      OBVIOUS
    <3>2. PICK P \in Nat, H \in Nat : P = Pow(4) /\ H = Pow(8) \div 2 /\ P <= H
      BY FourOfEight
    <3>3. f \in 0..(P - 1) /\ f >= H
      BY <2>1, <3>1, <3>2
    <3>4. QED BY <3>2, <3>3
  <2>3. QED BY <1>1, <2>1, <2>2
<1>6. ASSUME ReadPrimitive(p, b) # Bad PROVE Clean(p, b)
  <2>1. ReadReal(b, p) # Bad
    BY <1>6, RealRead
  <2>2. QED BY <1>1, <1>2, <1>3, <2>1 DEF Clean
<1>7. QED BY <1>2, <1>3, <1>5, <1>6

-----------------------------------------------------------------------------
\* BOOL.

LEMMA BoolRead ==
    ASSUME NEW b \in [1..1 -> Byte]
    PROVE  ReadPrimitive(BoolType, b) = Flag(b[1] >= 1)
<1>1. BoolType.k = "bool" /\ Width(BoolType) = 1
  BY DEF BoolType, Width
<1>2. Len(b) = 1
  BY WholeRow
<1>3. ~(Len(b) < Width(BoolType))
  BY <1>1, <1>2
<1>4. QED BY <1>1, <1>3 DEF ReadPrimitive

LEMMA BoolWritten ==
    ASSUME NEW x \in BOOLEAN
    PROVE  /\ WritePrimitive(BoolType, Flag(x)) = <<IF x THEN 1 ELSE 0>>
           /\ WritePrimitive(BoolType, Flag(x)) \in [1..1 -> Byte]
<1>1. BoolType.k = "bool" /\ Flag(x).k = "flag" /\ Flag(x).of = x
  BY DEF BoolType, Flag
<1>2. WritePrimitive(BoolType, Flag(x)) = <<IF x THEN 1 ELSE 0>>
  BY <1>1 DEF WritePrimitive
<1>3. (IF x THEN 1 ELSE 0) \in Byte
  BY BaseFacts DEF Byte
<1>4. QED BY <1>2, <1>3

LEMMA BoolLeafWritten ==
    ASSUME NEW v \in Values, WritePrimitive(BoolType, v) # <<BadByte>>
    PROVE  \E x \in BOOLEAN : v = Flag(x)
<1>1. BoolType.k = "bool"
  BY DEF BoolType
<1>2. v.k = "flag"
  BY <1>1 DEF WritePrimitive
<1>3. QED BY <1>2 DEF Values, Num, Frac, Text, Flag, Null

LEMMA BoolKept ==
    ASSUME NEW b \in [1..1 -> Byte], b[1] <= 1
    PROVE  WritePrimitive(BoolType, ReadPrimitive(BoolType, b)) = b
<1>1. PICK n \in {0, 1} : n = b[1]
  BY BaseFacts DEF Byte
<1>2. PICK x \in BOOLEAN : (x <=> b[1] >= 1) /\ ReadPrimitive(BoolType, b) = Flag(x)
  <2>1. CASE b[1] >= 1
    BY <2>1, BoolRead
  <2>2. CASE ~(b[1] >= 1)
    <3>1. (b[1] >= 1) = FALSE
      BY <2>2
    <3>2. ReadPrimitive(BoolType, b) = Flag(FALSE)
      BY <3>1, BoolRead, Zenon
    <3>3. QED BY <2>2, <3>2
  <2>3. QED BY <2>1, <2>2
<1>6. (IF x THEN 1 ELSE 0) = b[1]
  BY <1>1, <1>2
<1>3. WritePrimitive(BoolType, Flag(x)) = <<b[1]>>
  BY <1>6, BoolWritten
<1>4. b = <<b[1]>>
  <2>1. b \in Seq(Byte) /\ Len(b) = 1
    BY WholeRow
  <2>2. QED BY <2>1
<1>5. QED BY <1>2, <1>3, <1>4

-----------------------------------------------------------------------------
\* All leaves.

LEMMA LeafKinds ==
    ASSUME NEW p, Leaf(p)
    PROVE  \/ /\ p = BoolType /\ p.k = "bool"
              /\ LeafWidth(p) = 1
           \/ /\ IntLeaf(p) /\ p.k = "int"
              /\ LeafWidth(p) = p.w
           \/ /\ RealLeaf(p) /\ p.k = "real"
              /\ LeafWidth(p) = p.w
           \/ /\ StringLeaf(p) /\ p.k = "string"
              /\ LeafWidth(p) = p.len + 1
           \/ /\ EnumLeaf(p) /\ p.k = "enum"
              /\ LeafWidth(p) = 2
<1>1. CASE p = BoolType
  <2>1. p.k = "bool"
    BY <1>1 DEF BoolType
  <2>2. QED BY <1>1, <2>1 DEF LeafWidth, Width
<1>2. CASE IntLeaf(p)
  <2>1. p.k = "int"
    BY <1>2, IntParts
  <2>2. QED BY <1>2, <2>1 DEF LeafWidth, Width
<1>3. CASE RealLeaf(p)
  <2>1. p.k = "real" /\ Width(p) = p.w
    BY <1>3, RealParts
  <2>2. QED BY <1>3, <2>1 DEF LeafWidth
<1>4. CASE StringLeaf(p)
  <2>1. p.k = "string" /\ Width(p) = p.len + 1
    BY <1>4, StringParts
  <2>2. QED BY <1>4, <2>1 DEF LeafWidth
<1>5. CASE EnumLeaf(p)
  <2>1. p.k = "enum"
    BY <1>5, EnumParts
  <2>2. QED BY <1>5, <2>1 DEF LeafWidth
<1>6. QED BY <1>1, <1>2, <1>3, <1>4, <1>5 DEF Leaf

LEMMA PrimitiveLeaf ==
    ASSUME NEW p, p.k # "enum"
    PROVE  /\ \A v : WriteLeaf(p, v) = WritePrimitive(p, v)
           /\ \A b : ReadLeaf(p, b) = ReadPrimitive(p, b)
BY DEF WriteLeaf, ReadLeaf

LEMMA EnumAsLeaf ==
    ASSUME NEW p, p.k = "enum"
    PROVE  /\ \A v : WriteLeaf(p, v) = WriteEnum(v, p.keys)
           /\ \A b : ReadLeaf(p, b) = ReadPrimitive(EnumType, b)
BY DEF WriteLeaf, ReadLeaf

\* A value of any type, sent back as it was read, is written byte for byte as
\* it was: what a browser does not change keeps its bytes (as_data_struct, then
\* to_writer).
THEOREM CleanLeafKept ==
    ASSUME NEW p, Leaf(p), NEW b \in [1..LeafWidth(p) -> Byte], Clean(p, b)
    PROVE  WriteLeaf(p, ReadLeaf(p, b)) = b
<1>1. CASE p = BoolType /\ p.k = "bool" /\ LeafWidth(p) = 1
  <2>1. b \in [1..1 -> Byte] /\ b[1] <= 1
    BY <1>1 DEF Clean
  <2>2. WritePrimitive(p, ReadPrimitive(p, b)) = b
    BY <1>1, <2>1, BoolKept
  <2>3. QED BY <1>1, <2>2, PrimitiveLeaf
<1>2. CASE IntLeaf(p) /\ p.k = "int" /\ LeafWidth(p) = p.w
  <2>1. b \in [1..p.w -> Byte] /\ Raw(p, b) \in p.lo..p.hi
    BY <1>2 DEF Clean
  <2>2. WritePrimitive(p, ReadPrimitive(p, b)) = b
    BY <1>2, <2>1, IntLeafKept
  <2>3. QED BY <1>2, <2>2, PrimitiveLeaf
<1>3. CASE RealLeaf(p) /\ p.k = "real" /\ LeafWidth(p) = p.w
  BY <1>3, RealKept, PrimitiveLeaf
<1>4. CASE StringLeaf(p) /\ p.k = "string" /\ LeafWidth(p) = p.len + 1
  BY <1>4, StringKept, PrimitiveLeaf
<1>5. CASE EnumLeaf(p) /\ p.k = "enum" /\ LeafWidth(p) = 2
  <2>1. b \in [1..2 -> Byte] /\ Raw(EnumType, b) \in SX!ToSet(p.keys)
    BY <1>5 DEF Clean
  <2>2. PICK e \in Int16 : e = Raw(EnumType, b)
    BY <2>1, EnumRead
  <2>3. EnumKey(e, p.keys) = e
    BY <2>1, <2>2 DEF EnumKey
  <2>4. WriteEnum(ReadPrimitive(EnumType, b), p.keys) = b
    BY <1>5, <2>1, <2>2, <2>3, EnumKept
  <2>5. QED BY <1>5, <2>4, EnumAsLeaf
<1>6. QED BY <1>1, <1>2, <1>3, <1>4, <1>5, LeafKinds

\* What is written of a JSON value that a type takes fills the field and is the
\* value meant: the nearest of the subrange, a key of the enum or what is left
\* between two, the text as far as it fits, the number as exact as the float
\* has it (to_writer, write_ads_number and write_ads_string).
THEOREM WrittenLeafBecomes ==
    ASSUME NEW p, Leaf(p), NEW v \in Values, WriteLeaf(p, v) # <<BadByte>>
    PROVE  /\ WriteLeaf(p, v) \in [1..LeafWidth(p) -> Byte]
           /\ Becomes(p, v, WriteLeaf(p, v))
<1>1. CASE p = BoolType /\ p.k = "bool" /\ LeafWidth(p) = 1
  <2>1. PICK x \in BOOLEAN : v = Flag(x)
    BY <1>1, BoolLeafWritten, PrimitiveLeaf
  <2>2. /\ WritePrimitive(p, v) = <<IF v.of THEN 1 ELSE 0>>
        /\ WritePrimitive(p, v) \in [1..1 -> Byte]
    BY <1>1, <2>1, BoolWritten DEF Flag
  <2>3. Becomes(p, v, WritePrimitive(p, v))
    BY <1>1, <2>2 DEF Becomes
  <2>4. QED BY <1>1, <2>2, <2>3, PrimitiveLeaf
<1>2. CASE IntLeaf(p) /\ p.k = "int" /\ LeafWidth(p) = p.w
  BY <1>2, IntBecomes, PrimitiveLeaf
<1>3. CASE RealLeaf(p) /\ p.k = "real" /\ LeafWidth(p) = p.w
  BY <1>3, RealBecomes, PrimitiveLeaf
<1>4. CASE StringLeaf(p) /\ p.k = "string" /\ LeafWidth(p) = p.len + 1
  BY <1>4, StringBecomes, PrimitiveLeaf
<1>5. CASE EnumLeaf(p) /\ p.k = "enum" /\ LeafWidth(p) = 2
  BY <1>5, EnumBecomes, EnumAsLeaf
<1>6. QED BY <1>1, <1>2, <1>3, <1>4, <1>5, LeafKinds

\* Only two values make a field unreadable: a text that is longer than the
\* STRING, cut inside a character, and a number that rounds to an LREAL
\* pattern without an i64 (read_exact_string and read_ads_number).
THEOREM WrittenIsReadable ==
    ASSUME NEW p, Leaf(p), NEW v \in Values, WriteLeaf(p, v) # <<BadByte>>,
           ReadLeaf(p, WriteLeaf(p, v)) = Bad
    PROVE  \/ p.k = "string" /\ v.k = "text" /\ Len(v.of) > p.len
           \/ p.k = "real" /\ p.w = 8 /\ Rounded(v.of, p.mantissa) >= Pow(8) \div 2
<1>1. CASE p = BoolType /\ p.k = "bool" /\ LeafWidth(p) = 1
  <2>1. PICK x \in BOOLEAN : v = Flag(x)
    BY <1>1, BoolLeafWritten, PrimitiveLeaf
  <2>2. PICK b \in [1..1 -> Byte] : b = WritePrimitive(p, v)
    BY <1>1, <2>1, BoolWritten
  <2>3. ReadPrimitive(p, b) # Bad
    BY <1>1, BoolRead DEF Flag, Bad
  <2>4. QED BY <1>1, <2>2, <2>3, PrimitiveLeaf
<1>2. CASE IntLeaf(p) /\ p.k = "int" /\ LeafWidth(p) = p.w
  <2>1. PICK b \in [1..p.w -> Byte] : b = WritePrimitive(p, v)
    BY <1>2, IntBecomes, PrimitiveLeaf
  <2>2. ReadPrimitive(p, b) # Bad
    BY <1>2, IntRead DEF Num, Bad
  <2>3. QED BY <1>2, <2>1, <2>2, PrimitiveLeaf
<1>3. CASE RealLeaf(p) /\ p.k = "real" /\ LeafWidth(p) = p.w
  BY <1>3, RealReadable, PrimitiveLeaf
<1>4. CASE StringLeaf(p) /\ p.k = "string" /\ LeafWidth(p) = p.len + 1
  <2>1. v.k = "text" /\ v.of \in Texts /\ WritePrimitive(p, v) = WriteString(v.of, p.len)
    BY <1>4, StringLeafWritten, PrimitiveLeaf
  <2>2. ReadPrimitive(p, WriteString(v.of, p.len)) = Bad
    BY <1>4, <2>1, PrimitiveLeaf
  <2>3. ~(Len(v.of) <= p.len)
    BY <1>4, <2>1, <2>2, TextReadable
  <2>4. Len(v.of) \in Nat /\ p.len \in Nat
    BY <1>4, <2>1, StringParts DEF Texts
  <2>5. QED BY <1>4, <2>1, <2>3, <2>4
<1>5. CASE EnumLeaf(p) /\ p.k = "enum" /\ LeafWidth(p) = 2
  <2>1. PICK b \in [1..2 -> Byte] : b = WriteEnum(v, p.keys)
    BY <1>5, EnumBecomes, EnumAsLeaf
  <2>2. ReadPrimitive(EnumType, b) # Bad
    BY EnumRead DEF Num, Bad
  <2>3. QED BY <1>5, <2>1, <2>2, EnumAsLeaf
<1>6. QED BY <1>1, <1>2, <1>3, <1>4, <1>5, LeafKinds

\* What was written is a fixed point: read and written again it stays as it is,
\* if it is readable at all and no text hides something behind a NUL.  So the
\* next mutation of another field leaves it alone.
THEOREM RewrittenLeaf ==
    ASSUME NEW p, Leaf(p), NEW v \in Values, WriteLeaf(p, v) # <<BadByte>>,
           ReadLeaf(p, WriteLeaf(p, v)) # Bad,
           p.k = "string" => \A i \in DOMAIN v.of : v.of[i] # 0
    PROVE  WriteLeaf(p, ReadLeaf(p, WriteLeaf(p, v))) = WriteLeaf(p, v)
<1>1. PICK b \in [1..LeafWidth(p) -> Byte] : b = WriteLeaf(p, v) /\ Becomes(p, v, b)
  BY WrittenLeafBecomes
<1>2. CASE p = BoolType /\ p.k = "bool" /\ LeafWidth(p) = 1
  <2>1. b = <<IF v.of THEN 1 ELSE 0>>
    BY <1>1, <1>2 DEF Becomes
  <2>2. Clean(p, b)
    BY <1>2, <2>1 DEF Clean
  <2>3. QED BY <1>1, <2>2, CleanLeafKept
<1>3. CASE IntLeaf(p) /\ p.k = "int" /\ LeafWidth(p) = p.w
  <2>1. Clean(p, b)
    BY <1>1, <1>3 DEF Becomes, Clean
  <2>2. QED BY <1>1, <2>1, CleanLeafKept
<1>4. CASE RealLeaf(p) /\ p.k = "real" /\ LeafWidth(p) = p.w
  <2>1. Clean(p, b)
    BY <1>1, <1>4, RealReadable, PrimitiveLeaf
  <2>2. QED BY <1>1, <2>1, CleanLeafKept
<1>5. CASE StringLeaf(p) /\ p.k = "string" /\ LeafWidth(p) = p.len + 1
  <2>1. v.of \in Texts /\ b = WriteString(v.of, p.len)
    BY <1>1, <1>5, StringLeafWritten, PrimitiveLeaf
  <2>2. ReadPrimitive(p, WriteString(v.of, p.len)) # Bad
    BY <1>1, <1>5, <2>1, PrimitiveLeaf
  <2>3. Clean(p, b)
    BY <1>5, <2>1, <2>2, TextClean
  <2>4. QED BY <1>1, <2>3, CleanLeafKept
<1>6. CASE EnumLeaf(p) /\ p.k = "enum" /\ LeafWidth(p) = 2
  <2>1. b = WriteEnum(v, p.keys) /\ WriteEnum(v, p.keys) # <<BadByte>>
    BY <1>1, <1>6, EnumAsLeaf
  <2>2. PICK n \in Int16 :
            /\ v.of \in Int /\ n = Cut(v.of, EnumType)
            /\ v.k = "num" /\ (n \in SX!ToSet(p.keys) \/ Len(p.keys) > 1)
            /\ v.of \in Int16 => v.of = n
            /\ WriteEnum(v, p.keys) = WriteInt(EnumKey(n, p.keys), EnumType)
    BY <1>6, <2>1, EnumLeafWritten
  <2>3. PICK e \in Int16 : e = EnumKey(n, p.keys)
    BY <1>6, EnumKeyParts
  <2>4. /\ n \in SX!ToSet(p.keys) => e = n
        /\ EnumKey(e, p.keys) = e
    BY <1>6, <2>3, EnumKeyParts
  <2>5. Raw(EnumType, b) = e
    BY <2>1, <2>2, <2>3, EnumNumbers
  <2>6. WriteEnum(ReadPrimitive(EnumType, b), p.keys) = b
    BY <1>1, <1>6, <2>2, <2>4, <2>5, EnumKept
  <2>7. QED BY <1>1, <1>6, <2>6, EnumAsLeaf
<1>7. QED BY <1>2, <1>3, <1>4, <1>5, <1>6, LeafKinds

-----------------------------------------------------------------------------
\* Rows of bytes.

LEMMA Slice ==
    ASSUME NEW w \in Nat, NEW b \in [1..w -> Byte], NEW m \in 0..w, NEW n \in 0..w
    PROVE  /\ SubSeq(b, m + 1, n) \in Seq(Byte)
           /\ Len(SubSeq(b, m + 1, n)) = IF m < n THEN n - m ELSE 0
           /\ \A i \in 1..(n - m) : SubSeq(b, m + 1, n)[i] = b[m + i]
<1>1. b \in Seq(Byte) /\ Len(b) = w
  BY WholeRow
<1> HIDE DEF Byte
<1>2. SubSeq(b, m + 1, n) \in Seq(Byte) /\ Len(SubSeq(b, m + 1, n)) = IF m < n THEN n - m ELSE 0
  BY <1>1
<1>3. ASSUME NEW i \in 1..(n - m) PROVE SubSeq(b, m + 1, n)[i] = b[m + i]
  <2>1. i \in 1..(n - (m + 1) + 1) /\ (m + 1) + i - 1 = m + i
    OBVIOUS
  <2>2. QED BY <1>1, <2>1
<1>4. QED BY <1>2, <1>3

LEMMA Joined ==
    ASSUME NEW m \in Nat, NEW n \in Nat, NEW s \in Seq(Byte), NEW t \in Seq(Byte),
           Len(s) = m, Len(t) = n
    PROVE  /\ s \o t \in [1..(m + n) -> Byte] /\ s \o t \in Seq(Byte) /\ Len(s \o t) = m + n
           /\ \A i \in 1..(m + n) : (s \o t)[i] = IF i <= m THEN s[i] ELSE t[i - m]
<1> HIDE DEF Byte
<1>1. /\ s \o t \in Seq(Byte)
      /\ Len(s \o t) = m + n
      /\ \A i \in 1..(m + n) : (s \o t)[i] = IF i <= m THEN s[i] ELSE t[i - m]
  BY ConcatProperties
<1>2. QED BY <1>1, LenProperties

\* Of n bytes laid into a row of w bytes.
Laid(row, w, at, bytes, n) ==
    /\ Overlay(row, at, bytes) \in [1..w -> Byte]
    /\ \A i \in 1..w : Overlay(row, at, bytes)[i] =
          IF at < i /\ i <= at + n THEN bytes[i - at] ELSE row[i]

LEMMA OverlayBytes ==
    ASSUME NEW w \in Nat, NEW row \in [1..w -> Byte], NEW n \in Nat, NEW bytes \in [1..n -> Byte],
           NEW at \in Nat, at + n <= w
    PROVE  Laid(row, w, at, bytes, n)
<1> SUFFICES
        /\ Overlay(row, at, bytes) \in [1..w -> Byte]
        /\ \A i \in 1..w : Overlay(row, at, bytes)[i] =
              IF at < i /\ i <= at + n THEN bytes[i - at] ELSE row[i]
  BY DEF Laid
<1> DEFINE a == SubSeq(row, 1, at)
           c == From(row, at + Len(bytes))
<1>1. bytes \in Seq(Byte) /\ Len(bytes) = n
  BY WholeRow
<1>2. a \in Seq(Byte) /\ Len(a) = at /\ \A i \in 1..at : a[i] = row[i]
  <2>1. 0 \in 0..w /\ at \in 0..w /\ 0 + 1 = 1 /\ at - 0 = at /\ \A i \in 1..at : 0 + i = i
    OBVIOUS
  <2>2. /\ SubSeq(row, 0 + 1, at) \in Seq(Byte)
        /\ Len(SubSeq(row, 0 + 1, at)) = IF 0 < at THEN at - 0 ELSE 0
        /\ \A i \in 1..(at - 0) : SubSeq(row, 0 + 1, at)[i] = row[0 + i]
    BY <2>1, Slice
  <2> HIDE DEF Byte
  <2>3. QED BY <2>1, <2>2
<1>3. /\ c \in Seq(Byte) /\ Len(c) = w - (at + n)
      /\ \A i \in 1..(w - (at + n)) : c[i] = row[(at + n) + i]
  <2>1. at + n \in 0..w /\ w \in 0..w /\ Len(row) = w
    BY WholeRow
  <2>2. /\ SubSeq(row, (at + n) + 1, w) \in Seq(Byte)
        /\ Len(SubSeq(row, (at + n) + 1, w)) = IF at + n < w THEN w - (at + n) ELSE 0
        /\ \A i \in 1..(w - (at + n)) : SubSeq(row, (at + n) + 1, w)[i] = row[(at + n) + i]
    BY <2>1, Slice
  <2>3. c = SubSeq(row, (at + n) + 1, w)
    BY <1>1, <2>1 DEF From
  <2> HIDE DEF Byte, c
  <2>4. QED BY <2>1, <2>2, <2>3
<1>4. Overlay(row, at, bytes) = (a \o bytes) \o c
  BY DEF Overlay
<1> HIDE DEF a, c, Byte
<1>5. PICK d \in Seq(Byte) : d = a \o bytes /\ Len(d) = at + n
  <2>1. a \o bytes \in Seq(Byte) /\ Len(a \o bytes) = at + n
    BY <1>1, <1>2, Joined
  <2>2. QED BY <2>1
<1>6. \A i \in 1..(at + n) : d[i] = IF i <= at THEN a[i] ELSE bytes[i - at]
  <2>1. /\ a \in Seq(Byte) /\ Len(a) = at
        /\ bytes \in Seq(Byte) /\ Len(bytes) = n
    BY <1>1, <1>2
  <2>2. \A i \in 1..(Len(a) + Len(bytes)) :
            (a \o bytes)[i] = IF i <= Len(a) THEN a[i] ELSE bytes[i - Len(a)]
    BY <2>1, ConcatProperties
  <2>3. QED BY <1>5, <2>1, <2>2
<1>7. PICK r \in Nat : r = w - (at + n) /\ (at + n) + r = w
  OBVIOUS
<1>8. /\ d \o c \in [1..w -> Byte]
      /\ \A i \in 1..w : (d \o c)[i] = IF i <= at + n THEN d[i] ELSE c[i - (at + n)]
  <2>1. at + n \in Nat /\ Len(c) = r
    BY <1>3, <1>7
  <2>2. PICK e \in Nat : e = at + n
    OBVIOUS
  <2>3. c \in Seq(Byte) /\ Len(c) = r /\ Len(d) = e
    BY <1>3, <1>5, <2>1, <2>2
  <2>4. d \o c \in [1..(e + r) -> Byte]
    BY <2>3, Joined
  <2>5. \A i \in 1..(e + r) : (d \o c)[i] = IF i <= e THEN d[i] ELSE c[i - e]
    <3>1. \A i \in 1..(Len(d) + Len(c)) :
              (d \o c)[i] = IF i <= Len(d) THEN d[i] ELSE c[i - Len(d)]
      BY <2>3, ConcatProperties
    <3>2. QED BY <2>3, <3>1
  <2>6. QED BY <1>7, <2>2, <2>4, <2>5
<1>9. ASSUME NEW i \in 1..w
      PROVE  (d \o c)[i] = IF at < i /\ i <= at + n THEN bytes[i - at] ELSE row[i]
  <2>1. CASE i <= at
    <3>1. i \in 1..at /\ i \in 1..(at + n) /\ i <= at + n /\ ~(at < i)
      BY <2>1
    <3>2. QED BY <1>2, <1>6, <1>8, <3>1
  <2>2. CASE at < i /\ i <= at + n
    <3>1. i \in 1..(at + n) /\ ~(i <= at)
      BY <2>2
    <3>2. QED BY <1>6, <1>8, <2>2, <3>1
  <2>3. CASE ~(i <= at + n)
    <3>1. i - (at + n) \in 1..(w - (at + n)) /\ (at + n) + (i - (at + n)) = i
      BY <2>3
    <3>2. QED BY <1>3, <1>8, <2>3, <3>1
  <2>4. i <= at \/ (at < i /\ i <= at + n) \/ ~(i <= at + n)
    OBVIOUS
  <2>5. QED BY <2>1, <2>2, <2>3, <2>4
<1>10. QED BY <1>4, <1>5, <1>8, <1>9

\* Bytes written into a row lie at their place, and every other byte of the row
\* is as it was: a heartbeat, an answer that is shorter than the structure and
\* the prefix that a mutation sends disturb nothing beside them
\* (clone_from_slice in handle_future and in the handlers).
THEOREM OverlayKeepsTheRest ==
    ASSUME NEW w \in Nat, NEW row \in [1..w -> Byte], NEW n \in Nat, NEW bytes \in [1..n -> Byte],
           NEW at \in Nat, at + n <= w
    PROVE  /\ Overlay(row, at, bytes) \in [1..w -> Byte]
           /\ \A i \in 1..w : Overlay(row, at, bytes)[i] =
                 IF at < i /\ i <= at + n THEN bytes[i - at] ELSE row[i]
<1>1. Laid(row, w, at, bytes, n)
  BY OverlayBytes
<1>2. QED BY <1>1 DEF Laid

\* Bytes laid at the beginning of a row.
LEMMA OverlayHead ==
    ASSUME NEW w \in Nat, NEW row \in [1..w -> Byte], NEW n \in Nat, NEW bytes \in [1..n -> Byte],
           n <= w
    PROVE  /\ Overlay(row, 0, bytes) \in [1..w -> Byte]
           /\ \A i \in 1..w : Overlay(row, 0, bytes)[i] = IF i <= n THEN bytes[i] ELSE row[i]
<1>1. PICK at \in Nat : at = 0
  OBVIOUS
<1>2. at + n <= w
  BY <1>1
<1>3. /\ Overlay(row, at, bytes) \in [1..w -> Byte]
      /\ \A i \in 1..w : Overlay(row, at, bytes)[i] =
            IF at < i /\ i <= at + n THEN bytes[i - at] ELSE row[i]
  <2>1. Laid(row, w, at, bytes, n)
    BY <1>2, OverlayBytes
  <2>2. QED BY <2>1 DEF Laid
<1>4. ASSUME NEW i \in 1..w
      PROVE  Overlay(row, at, bytes)[i] = IF i <= n THEN bytes[i] ELSE row[i]
  <2>1. at < i /\ at + n = n /\ i - at = i
    BY <1>1
  <2>2. QED BY <1>3, <2>1
<1>5. QED BY <1>1, <1>3, <1>4

LEMMA LastChangeParts ==
    ASSUME NEW w \in Nat, NEW old \in [1..w -> Byte], NEW new \in [1..w -> Byte]
    PROVE  /\ LastChange(old, new) \in 0..w
           /\ \A i \in 1..w : i > LastChange(old, new) => old[i] = new[i]
           /\ old # new => LastChange(old, new) \in 1..w
                           /\ old[LastChange(old, new)] # new[LastChange(old, new)]
<1> DEFINE differs == [i \in DOMAIN SX!Zip(new, old) |-> old[i] # new[i]]
           I == {i \in 1..Len(differs) : differs[i]}
<1>1. Len(old) = w /\ Len(new) = w
  BY WholeRow
<1>2. DOMAIN SX!Zip(new, old) = 1..w
  BY <1>1 DEF SX!Zip
<1>3. differs = [i \in 1..w |-> old[i] # new[i]]
  BY <1>2
<1>4. Len(differs) = w
  <2> HIDE DEF differs
  <2>1. differs \in [1..w -> BOOLEAN]
    BY <1>3
  <2>2. QED BY <2>1
<1>5. I = {i \in 1..w : old[i] # new[i]}
  BY <1>3, <1>4
<1>6. LastChange(old, new) =
        LET differ == IF I # {} THEN SX!Max(I) ELSE 0 IN IF differ = 0 THEN w ELSE differ
  BY <1>1 DEF LastChange, SX!SelectLastInSeq
<1> HIDE DEF differs, I
<1>7. CASE I = {}
  <2>1. LastChange(old, new) = w
    BY <1>6, <1>7
  <2>2. \A i \in 1..w : old[i] = new[i]
    BY <1>5, <1>7
  <2>3. old = new
    BY <2>2
  <2>4. QED BY <2>1, <2>2, <2>3
<1>8. CASE I # {}
  <2>1. PICK z \in I : \A i \in I : z >= i
    <3> DEFINE R == {w - i : i \in I}
               Rel == {ss \in Nat \X Nat : ss[1] < ss[2]}
    <3>1. IsWellFoundedOn(Rel, Nat)
      BY NatLessThanWellFounded DEF OpToRel
    <3>2. I \subseteq 1..w /\ R \subseteq Nat /\ R # {}
      BY <1>5, <1>8
    <3>3. PICK r \in R : \A y \in R : ~(<<y, r>> \in Rel)
      <4> HIDE DEF R, Rel
      <4>1. QED BY <3>1, <3>2, WFMin
    <3>4. \A y \in R : ~(y < r)
      BY <3>2, <3>3
    <3>5. PICK z \in I : r = w - z
      OBVIOUS
    <3>6. \A i \in I : ~(w - i < w - z)
      BY <3>4, <3>5
    <3>7. \A i \in I : z >= i
      BY <3>2, <3>6
    <3>8. QED BY <3>7
  <2>2. SX!Max(I) \in I /\ \A i \in I : SX!Max(I) >= i
    BY <2>1 DEF SX!Max
  <2>3. PICK m \in 1..w : m = SX!Max(I) /\ old[m] # new[m] /\ \A i \in I : m >= i
    BY <1>5, <2>2
  <2>4. LastChange(old, new) = m
    BY <1>6, <1>8, <2>3
  <2>5. ASSUME NEW i \in 1..w, i > m PROVE old[i] = new[i]
    <3>1. i \notin I
      BY <2>3, <2>5
    <3>2. QED BY <1>5, <3>1
  <2>6. QED BY <2>3, <2>4, <2>5
<1>9. QED BY <1>7, <1>8

\* The prefix of a structure that ends at the last byte that changes is enough:
\* written over the old bytes it gives the new ones, and one byte less would
\* not.  So after a mutation the PLC and the server hold the same bytes as if
\* the whole structure had been sent (rposition in Handler<WsToAdsClient>).
THEOREM PrefixIsEnough ==
    ASSUME NEW w \in Nat, NEW old \in [1..w -> Byte], NEW new \in [1..w -> Byte]
    PROVE  LET n == LastChange(old, new)
           IN  /\ Overlay(old, 0, SubSeq(new, 1, n)) = new
               /\ old # new => \A k \in 0..(n - 1) : Overlay(old, 0, SubSeq(new, 1, k)) # new
<1> DEFINE n == LastChange(old, new)
<1>1. /\ n \in 0..w
      /\ \A i \in 1..w : i > n => old[i] = new[i]
      /\ old # new => n \in 1..w /\ old[n] # new[n]
  BY LastChangeParts
<1>2. ASSUME NEW k \in 0..w
      PROVE  /\ Overlay(old, 0, SubSeq(new, 1, k)) \in [1..w -> Byte]
             /\ \A i \in 1..w : Overlay(old, 0, SubSeq(new, 1, k))[i] = IF i <= k THEN new[i] ELSE old[i]
  <2> DEFINE s == SubSeq(new, 1, k)
  <2>1. s \in [1..k -> Byte] /\ \A i \in 1..k : s[i] = new[i]
    <3>1. 0 \in 0..w /\ k \in Nat /\ 0 + 1 = 1 /\ k - 0 = k /\ \A i \in 1..k : 0 + i = i
      OBVIOUS
    <3>2. /\ SubSeq(new, 0 + 1, k) \in Seq(Byte)
          /\ Len(SubSeq(new, 0 + 1, k)) = IF 0 < k THEN k - 0 ELSE 0
          /\ \A i \in 1..(k - 0) : SubSeq(new, 0 + 1, k)[i] = new[0 + i]
      BY <3>1, Slice
    <3> HIDE DEF Byte
    <3>3. s \in Seq(Byte) /\ Len(s) = k /\ \A i \in 1..k : s[i] = new[i]
      BY <3>1, <3>2
    <3>4. QED BY <3>3, LenProperties
  <2> HIDE DEF s
  <2>2. k \in Nat /\ 0 \in Nat /\ 0 + k <= w
    OBVIOUS
  <2>3. /\ Overlay(old, 0, s) \in [1..w -> Byte]
        /\ \A i \in 1..w : Overlay(old, 0, s)[i] = IF i <= k THEN s[i] ELSE old[i]
    BY <2>1, <2>2, OverlayHead
  <2>4. ASSUME NEW i \in 1..w PROVE Overlay(old, 0, s)[i] = IF i <= k THEN new[i] ELSE old[i]
    BY <2>1, <2>3
  <2>5. QED BY <2>3, <2>4 DEF s
<1> HIDE DEF n
<1>3. Overlay(old, 0, SubSeq(new, 1, n)) = new
  <2>1. PICK o \in [1..w -> Byte] : /\ o = Overlay(old, 0, SubSeq(new, 1, n))
                                    /\ \A i \in 1..w : o[i] = IF i <= n THEN new[i] ELSE old[i]
    BY <1>1, <1>2
  <2>2. \A i \in 1..w : o[i] = new[i]
    BY <1>1, <2>1
  <2>3. QED BY <2>1, <2>2
<1>4. ASSUME old # new, NEW k \in 0..(n - 1)
      PROVE  Overlay(old, 0, SubSeq(new, 1, k)) # new
  <2>1. k \in 0..w /\ n \in 1..w /\ ~(n <= k) /\ old[n] # new[n]
    BY <1>1, <1>4
  <2>2. Overlay(old, 0, SubSeq(new, 1, k))[n] = old[n]
    BY <1>2, <2>1
  <2>3. QED BY <2>1, <2>2
<1>5. QED BY <1>3, <1>4 DEF n
=============================================================================
