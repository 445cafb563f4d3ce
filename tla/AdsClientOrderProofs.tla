------------------------ MODULE AdsClientOrderProofs ------------------------
(***************************************************************************)
(* What AdsClient keeps in order, for every set of requests and ids, every *)
(* bound and every collision of ids: the writes of the PLC on their way to *)
(* the multiplexer, and the requests of the multiplexer on their way to    *)
(* the PLC.  Then the pipe that the client, the connection and the PLC are *)
(* together, when no ids collide.                                          *)
(***************************************************************************)
EXTENDS AdsClientProofs

-----------------------------------------------------------------------------
\* The writes of the PLC.  ForwardedInOrder speaks of the multiplexer and the
\* channel; it is kept because the connection behind them is in order too, and
\* the PLC's next write is newer than all that is on its way.

IsWrite(p) == p.cmd = "WriteReq"
Ascending(s) == \A i, j \in 1..Len(s) : i < j => s[i] < s[j]

\* Of writes a the multiplexer took, writes c in the channel and frames b of the
\* PLC, which has sent n writes.
Relayed(a, c, b, n) ==
    /\ Ascending(a) /\ Ascending(c)
    /\ \A i \in 1..Len(a), j \in 1..Len(c) : a[i] < c[j]
    /\ \A i, j \in 1..Len(b) : i < j /\ IsWrite(b[i]) /\ IsWrite(b[j]) => b[i].of < b[j].of
    /\ \A j \in 1..Len(b) : IsWrite(b[j]) =>
          /\ \A i \in 1..Len(a) : a[i] < b[j].of
          /\ \A i \in 1..Len(c) : c[i] < b[j].of
    /\ \A i \in 1..Len(a) : a[i] <= n
    /\ \A i \in 1..Len(c) : c[i] <= n
    /\ \A i \in 1..Len(b) : IsWrite(b[i]) => b[i].of <= n

RelayInv == Relayed(forwarded, channel, fromPlc, plcSent)

\* Frames leave the connection, and the channel may be emptied.
LEMMA RelayedDrop ==
    ASSUME NEW a, NEW c, NEW b, NEW d, NEW n, NEW k \in Nat, Relayed(a, c, b, n),
           Len(b) \in Nat, Shifted(b, d, k)
    PROVE  Relayed(a, c, d, n)
<1>1. \A i \in 1..Len(d) : i \in Nat /\ i + k \in 1..Len(b) /\ d[i] = b[i + k]
  BY DEF Shifted
<1>2. \A i, j \in 1..Len(d) : i < j /\ IsWrite(d[i]) /\ IsWrite(d[j]) => d[i].of < d[j].of
  <2>1. \A i, j \in 1..Len(d) : i < j => i + k < j + k
    BY <1>1
  <2>2. QED
    BY <1>1, <2>1 DEF Relayed
<1>3. QED
  BY <1>1, <1>2 DEF Relayed

LEMMA RelayedClose ==
    ASSUME NEW a, NEW c, NEW b, NEW n, Relayed(a, c, b, n)
    PROVE  Relayed(a, <<>>, b, n)
BY DEF Relayed, Ascending

\* A frame that is no write joins the connection.
LEMMA RelayedJoin ==
    ASSUME NEW S, NEW a, NEW c, NEW b \in Seq(S), NEW n, NEW p, Relayed(a, c, b, n), ~IsWrite(p)
    PROVE  Relayed(a, c, Append(b, p), n)
BY AppendFacts DEF Relayed

\* The PLC's next write joins the connection.
LEMMA RelayedSend ==
    ASSUME NEW S, NEW a, NEW c, NEW b \in Seq(S), NEW n \in Nat, NEW p,
           \A i \in 1..Len(a) : a[i] \in Nat, \A i \in 1..Len(c) : c[i] \in Nat,
           \A i \in 1..Len(b) : IsWrite(b[i]) => b[i].of \in Nat,
           Relayed(a, c, b, n), IsWrite(p), p.of = n + 1
    PROVE  Relayed(a, c, Append(b, p), n + 1)
<1> DEFINE d == Append(b, p)
<1>1. /\ Len(b) \in Nat /\ Len(d) = Len(b) + 1
      /\ \A i \in 1..Len(d) :
            \/ i \in 1..Len(b) /\ d[i] = b[i]
            \/ i = Len(b) + 1 /\ d[i] = p
  BY AppendFacts
<1>2. /\ \A i \in 1..Len(a) : a[i] \in Nat /\ a[i] <= n
      /\ \A i \in 1..Len(c) : c[i] \in Nat /\ c[i] <= n
      /\ \A i \in 1..Len(b) : IsWrite(b[i]) => b[i].of \in Nat /\ b[i].of <= n
  BY DEF Relayed
<1> HIDE DEF d
<1>3. \A x \in Nat : x <= n => x < n + 1 /\ x <= n + 1
  OBVIOUS
<1>4. ASSUME NEW i \in 1..Len(d), NEW j \in 1..Len(d), i < j, IsWrite(d[i]), IsWrite(d[j])
      PROVE  d[i].of < d[j].of
  <2>1. i \in 1..Len(b) /\ d[i] = b[i]
    BY <1>1, <1>4
  <2>2. CASE j \in 1..Len(b) /\ d[j] = b[j]
    BY <1>4, <2>1, <2>2 DEF Relayed
  <2>3. CASE d[j] = p
    BY <1>2, <1>3, <1>4, <2>1, <2>3
  <2>4. QED
    BY <1>1, <2>2, <2>3
<1>5. ASSUME NEW j \in 1..Len(d), IsWrite(d[j])
      PROVE  /\ \A i \in 1..Len(a) : a[i] < d[j].of
             /\ \A i \in 1..Len(c) : c[i] < d[j].of
             /\ d[j].of <= n + 1
  <2>1. CASE j \in 1..Len(b) /\ d[j] = b[j]
    BY <1>2, <1>3, <1>5, <2>1 DEF Relayed
  <2>2. CASE d[j] = p
    BY <1>2, <1>3, <2>2
  <2>3. QED
    BY <1>1, <2>1, <2>2
<1>6. /\ \A i \in 1..Len(a) : a[i] <= n + 1
      /\ \A i \in 1..Len(c) : c[i] <= n + 1
  BY <1>2, <1>3
<1>7. Relayed(a, c, d, n + 1)
  BY <1>4, <1>5, <1>6 DEF Relayed
<1>8. QED
  BY <1>7 DEF d

\* The oldest frame is a write, and joins the channel.
LEMMA RelayedPass ==
    ASSUME NEW S, NEW a, NEW c \in Seq(S), NEW b, NEW d, NEW n, NEW k \in Nat, k >= 1,
           Relayed(a, c, b, n), Len(b) \in Nat, Len(b) >= 1, IsWrite(b[1]), Shifted(b, d, k)
    PROVE  Relayed(a, Append(c, b[1].of), d, n)
<1> DEFINE e == Append(c, b[1].of)
<1>1. /\ Len(c) \in Nat /\ Len(e) = Len(c) + 1
      /\ \A i \in 1..Len(e) :
            \/ i \in 1..Len(c) /\ e[i] = c[i]
            \/ i = Len(c) + 1 /\ e[i] = b[1].of
  BY AppendFacts
<1>2. \A i \in 1..Len(d) : i + k \in 1..Len(b) /\ 1 < i + k /\ d[i] = b[i + k]
  BY DEF Shifted
<1>3. Relayed(a, c, d, n)
  BY RelayedDrop
<1> HIDE DEF e
<1>4. Ascending(e)
  BY <1>1, SMTT(30) DEF Relayed, Ascending
<1>5. \A i \in 1..Len(a), j \in 1..Len(e) : a[i] < e[j]
  BY <1>1 DEF Relayed
<1>6. \A j \in 1..Len(d) : IsWrite(d[j]) => b[1].of < d[j].of
  BY <1>2, SMTT(30) DEF Relayed
<1>7. \A j \in 1..Len(d) : IsWrite(d[j]) =>
          /\ \A i \in 1..Len(a) : a[i] < d[j].of
          /\ \A i \in 1..Len(e) : e[i] < d[j].of
  BY <1>1, <1>3, <1>6 DEF Relayed
<1>8. \A i \in 1..Len(e) : e[i] <= n
  BY <1>1 DEF Relayed
<1>9. Relayed(a, e, d, n)
  BY <1>3, <1>4, <1>5, <1>7, <1>8 DEF Relayed
<1>10. QED
  BY <1>9 DEF e

\* The multiplexer takes the oldest write of the channel.
LEMMA RelayedTake ==
    ASSUME NEW S, NEW T, NEW a \in Seq(S), NEW c \in Seq(T), NEW b, NEW n, Relayed(a, c, b, n),
           c # <<>>
    PROVE  Relayed(Append(a, Head(c)), Tail(c), b, n)
<1> DEFINE d == Append(a, Head(c))
           e == Tail(c)
<1>1. /\ Len(c) \in Nat /\ Len(e) = Len(c) - 1 /\ Len(c) >= 1 /\ Head(c) = c[1]
      /\ \A i \in 1..Len(e) : i \in Nat /\ 1 < i + 1 /\ i + 1 \in 1..Len(c) /\ e[i] = c[i + 1]
  BY TailFacts
<1>2. /\ Len(a) \in Nat /\ Len(d) = Len(a) + 1
      /\ \A i \in 1..Len(d) :
            \/ i \in 1..Len(a) /\ d[i] = a[i]
            \/ i = Len(a) + 1 /\ d[i] = c[1]
  BY <1>1, AppendFacts
<1>3. 1 \in 1..Len(c)
  BY <1>1
<1> HIDE DEF d, e
<1>4. Ascending(d)
  BY <1>2, <1>3 DEF Relayed, Ascending
<1>5. Ascending(e)
  <2>1. \A i, j \in 1..Len(e) : i < j => i + 1 < j + 1
    BY <1>1
  <2>2. QED
    BY <1>1, <2>1 DEF Relayed, Ascending
<1>6. \A i \in 1..Len(d), j \in 1..Len(e) : d[i] < e[j]
  BY <1>1, <1>2, <1>3 DEF Relayed, Ascending
<1>7. \A j \in 1..Len(b) : IsWrite(b[j]) =>
          /\ \A i \in 1..Len(d) : d[i] < b[j].of
          /\ \A i \in 1..Len(e) : e[i] < b[j].of
  BY <1>1, <1>2, <1>3 DEF Relayed
<1>8. /\ \A i \in 1..Len(d) : d[i] <= n
      /\ \A i \in 1..Len(e) : e[i] <= n
  BY <1>1, <1>2, <1>3 DEF Relayed
<1>9. Relayed(d, e, b, n)
  BY <1>4, <1>5, <1>6, <1>7, <1>8 DEF Relayed
<1>10. QED
  BY <1>9 DEF d, e

LEMMA RelayInit == Init => RelayInv
BY DEF Init, RelayInv, Relayed, Ascending

LEMMA RelayNext == TypeOK /\ RelayInv /\ [Next]_vars => RelayInv'
<1> SUFFICES ASSUME TypeOK, RelayInv, [Next]_vars
             PROVE  Relayed(forwarded', channel', fromPlc', plcSent')
  BY DEF RelayInv
<1>0. /\ Relayed(forwarded, channel, fromPlc, plcSent)
      /\ forwarded \in Seq(PlcWrites) /\ channel \in Seq(PlcWrites) /\ fromPlc \in Seq(InPacket)
      /\ Len(fromPlc) \in Nat /\ plcSent \in Nat
  BY DEF RelayInv, TypeOK, QueueTypeOK, CallerTypeOK, PlcTypeOK
<1>1. CASE UNCHANGED <<forwarded, channel, fromPlc, plcSent>>
  BY <1>0, <1>1
<1>2. CASE TakeWrite
  BY <1>0, <1>2, RelayedTake DEF TakeWrite, plcEnd
<1>3. CASE MuxStops \/ HandleRegister
  BY <1>0, <1>3, RelayedClose DEF MuxStops, HandleRegister, plcEnd
<1>4. ASSUME NEW k \in 1..MaxBatch, OnPacketButReadRes(k) \/ OnReadRes(k)
      PROVE  Relayed(forwarded', channel', fromPlc', plcSent')
  <2>1. PICK cmd \in {"ReadReq", "ReadRes", "WriteReq", "WriteRes"} :
          Decoded(k, cmd) /\ (OnWriteReq(k) => cmd = "WriteReq")
    BY <1>4 DEF OnPacketButReadRes, OnReadReq, OnReadRes, OnWriteReq, OnWriteRes
  <2>2. Shifted(fromPlc, fromPlc', k) /\ Len(fromPlc) >= 1 /\ k \in Nat /\ k >= 1
        /\ (OnWriteReq(k) => IsWrite(fromPlc[1]))
    BY <2>1, DecodedFrame, ClientAssumption DEF Shifted, IsWrite
  <2>3. UNCHANGED <<forwarded, plcSent>>
    BY <1>4 DEF OnPacketButReadRes, OnReadReq, OnReadRes, OnWriteReq, OnWriteRes, muxEnd, plcEnd
  <2>4. \/ channel' = channel
        \/ OnWriteReq(k) /\ channel' = Append(channel, fromPlc[1].of)
    BY <1>4 DEF OnPacketButReadRes, OnReadReq, OnReadRes, OnWriteReq, OnWriteRes, TrySend
  <2>5. CASE channel' = channel
    BY <1>0, <2>2, <2>3, <2>5, RelayedDrop
  <2>6. CASE OnWriteReq(k) /\ channel' = Append(channel, fromPlc[1].of)
    BY <1>0, <2>2, <2>3, <2>6, RelayedPass
  <2>7. QED
    BY <2>4, <2>5, <2>6
<1>5. CASE ConnectionLost
  BY <1>0, <1>5 DEF ConnectionLost, plcEnd, Relayed
<1>6. ASSUME NEW p, ~IsWrite(p), fromPlc' = Append(fromPlc, p),
             UNCHANGED <<forwarded, channel, plcSent>>
      PROVE  Relayed(forwarded', channel', fromPlc', plcSent')
  BY <1>0, <1>6, RelayedJoin
<1>7. CASE PlcAnswersRead \/ PlcAnswersWrite
  BY <1>6, <1>7 DEF PlcAnswersRead, PlcAnswersWrite, muxEnd, IsWrite
<1>8. CASE \E q \in PlcReads : PlcSendsRead(q)
  BY <1>6, <1>8 DEF PlcSendsRead, muxEnd, IsWrite
<1>9. CASE PlcSendsWrite
  <2> DEFINE p == [cmd |-> "WriteReq", of |-> plcSent + 1]
  <2>1. IsWrite(p) /\ p.of = plcSent + 1
    BY DEF IsWrite
  <2>2. fromPlc' = Append(fromPlc, p) /\ plcSent' = plcSent + 1 /\ UNCHANGED <<forwarded, channel>>
    BY <1>9 DEF PlcSendsWrite, muxEnd
  <2>3. \A i \in 1..Len(fromPlc) : IsWrite(fromPlc[i]) => fromPlc[i].of \in Nat
    BY <1>0, InFields DEF IsWrite, PlcWrites
  <2>4. /\ \A i \in 1..Len(forwarded) : forwarded[i] \in Nat
        /\ \A i \in 1..Len(channel) : channel[i] \in Nat
    <3>1. \A w \in PlcWrites : w \in Nat
      BY ClientAssumption DEF PlcWrites
    <3>2. QED
      BY <1>0, <3>1
  <2> HIDE DEF p
  <2>5. QED
    BY <1>0, <2>1, <2>2, <2>3, <2>4, RelayedSend
<1>10. QED
  BY <1>1, <1>2, <1>3, <1>4, <1>5, <1>7, <1>8, <1>9
  DEF Next, vars, muxEnd, plcEnd, HandleMessage, OnPacket, OnPacketButReadRes, PlcServe, IssueRead,
      IssueWrite, HandleUnregister, HandleReadReq, HandleWriteReq, PlcTakesResponse

\* The multiplexer takes the PLC's writes from the channel in the PLC's order
\* and none twice, whatever the channel, the decoder and the end of the
\* connection drop; no assumption on the ids.
THEOREM WritesForwardedInOrder == Spec => []ForwardedInOrder
<1>1. Init => TypeOK /\ RelayInv
  BY InitType, RelayInit
<1>2. TypeOK /\ RelayInv /\ [Next]_vars => TypeOK' /\ RelayInv'
  BY NextType, RelayNext
<1>3. TypeOK /\ RelayInv => ForwardedInOrder
  <2> SUFFICES ASSUME TypeOK, RelayInv PROVE ForwardedInOrder
    OBVIOUS
  <2> DEFINE all == forwarded \o channel
  <2>1. /\ forwarded \in Seq(PlcWrites) /\ channel \in Seq(PlcWrites)
        /\ Relayed(forwarded, channel, fromPlc, plcSent)
    BY DEF TypeOK, QueueTypeOK, CallerTypeOK, RelayInv
  <2>2. /\ Len(forwarded) \in Nat /\ Len(channel) \in Nat
        /\ DOMAIN all = 1..(Len(forwarded) + Len(channel))
        /\ \A i \in DOMAIN all :
              \/ i \in 1..Len(forwarded) /\ all[i] = forwarded[i]
              \/ i - Len(forwarded) \in 1..Len(channel) /\ all[i] = channel[i - Len(forwarded)]
    BY <2>1
  <2> HIDE DEF all
  <2>3. \A i, j \in DOMAIN all : i < j => all[i] < all[j]
    BY <2>1, <2>2 DEF Relayed, Ascending
  <2>4. QED
    BY <2>3 DEF ForwardedInOrder, all
<1>4. QED
  BY <1>1, <1>2, <1>3, PTL DEF Spec

-----------------------------------------------------------------------------
\* The multiplexer's requests.  Each request on its way has a number, its place
\* in `issued`: those in the mailbox follow those on the wire, which follow
\* those the PLC has served.

ReqOut(a) == {i \in 1..Len(a) : a[i].cmd \in {"ReadReq", "WriteReq"}}
ReqIn(b) == {i \in 1..Len(b) : b[i].kind \in {"read", "write"}}

\* f counts the elements of s at the positions in R, from lo to hi, and those
\* elements are requests lo+1 to hi of v.
Numbered(s, R, v, f, lo, hi) ==
    /\ f[0] = lo /\ f[Len(s)] = hi
    /\ \A i \in 0..Len(s) : f[i] \in Nat
    /\ \A i, j \in 0..Len(s) : i <= j => f[i] <= f[j]
    /\ \A i \in 1..Len(s) : f[i] = f[i - 1] + (IF i \in R THEN 1 ELSE 0)
    /\ \A i \in R : v[f[i]] = s[i].of

Numbers(s, R, v, lo, hi) == \E f : Numbered(s, R, v, f, lo, hi)

OnTheirWay ==
    \E mid \in Nat :
        /\ Numbers(toPlc, ReqOut(toPlc), issued, Len(served), mid)
        /\ Numbers(mailbox, ReqIn(mailbox), issued, mid, Len(issued))

OrderInv == PlcSeesIssueOrder /\ (state = "running" => OnTheirWay)

\* t is s with x appended, and Q what R becomes when x is counted (or not).
Appended(s, t, x) ==
    /\ Len(s) \in Nat /\ Len(t) = Len(s) + 1
    /\ \A i \in 1..Len(s) : t[i] = s[i]
    /\ t[Len(t)] = x

LEMMA NumbersAppend ==
    ASSUME NEW s, NEW t, NEW x, NEW R, NEW Q, NEW v, NEW w, NEW lo \in Nat, NEW hi \in Nat,
           Numbers(s, R, v, lo, hi), Appended(s, t, x),
           R \subseteq 1..Len(s), Q \subseteq 1..Len(t), Q \cap 1..Len(s) = R,
           \A n \in 1..hi : w[n] = v[n], Len(t) \in Q => w[hi + 1] = x.of
    PROVE  Numbers(t, Q, w, lo, hi + (IF Len(t) \in Q THEN 1 ELSE 0))
<1>1. PICK f : Numbered(s, R, v, f, lo, hi)
  BY DEF Numbers
<1> DEFINE l == Len(s)
           top == hi + (IF Len(t) \in Q THEN 1 ELSE 0)
           g == [i \in 0..Len(t) |-> IF i = Len(t) THEN top ELSE f[i]]
<1>2. l \in Nat /\ Len(t) = l + 1 /\ t[l + 1] = x /\ \A i \in 1..l : t[i] = s[i]
  BY DEF Appended
<1>3. /\ f[0] = lo /\ f[l] = hi
      /\ \A i \in 0..l : f[i] \in Nat
      /\ \A i, j \in 0..l : i <= j => f[i] <= f[j]
      /\ \A i \in 1..l : f[i] = f[i - 1] + (IF i \in R THEN 1 ELSE 0)
      /\ \A i \in R : v[f[i]] = s[i].of
  BY <1>1 DEF Numbered
<1>4. top \in Nat /\ hi <= top /\ (l + 1 \in Q => top = hi + 1) /\ (l + 1 \notin Q => top = hi)
  BY <1>2
<1>5. g[l + 1] = top /\ \A i \in 0..l : g[i] = f[i]
  <2>1. l + 1 \in 0..(l + 1) /\ \A i \in 0..l : i \in 0..(l + 1) /\ i # l + 1
    BY <1>2
  <2>2. QED
    BY <1>2, <2>1
<1> HIDE DEF l, top, g
<1>6. \A i \in 0..l : f[i] \in Nat /\ f[i] <= hi
  <2>1. l \in 0..l /\ \A i \in 0..l : i <= l
    BY <1>2
  <2>2. QED
    BY <1>3, <2>1
<1>7. /\ \A i \in 0..(l + 1) : g[i] \in Nat
      /\ \A i, j \in 0..(l + 1) : i <= j => g[i] <= g[j]
  <2>1. \A i \in 0..(l + 1) : i = l + 1 \/ i \in 0..l
    BY <1>2
  <2>2. \A i \in 0..l : ~(l + 1 <= i) /\ f[i] <= top
    BY <1>2, <1>4, <1>6
  <2>3. QED
    BY <1>3, <1>4, <1>5, <1>6, <2>1, <2>2
<1>8. ASSUME NEW i \in 1..(l + 1) PROVE g[i] = g[i - 1] + (IF i \in Q THEN 1 ELSE 0)
  <2>1. CASE i = l + 1
    <3>1. g[i - 1] = hi
      BY <1>2, <1>3, <1>5, <2>1
    <3>2. QED
      BY <1>4, <1>5, <2>1, <3>1
  <2>2. CASE i \in 1..l
    <3>1. i \in 0..l /\ i - 1 \in 0..l
      BY <1>2, <2>2
    <3>2. i \in Q <=> i \in R
      BY <2>2 DEF l
    <3>3. QED
      BY <1>3, <1>5, <2>2, <3>1, <3>2
  <2>3. QED
    BY <1>2, <2>1, <2>2
<1>9. ASSUME NEW i \in Q PROVE w[g[i]] = t[i].of
  <2>1. CASE i = l + 1
    BY <1>2, <1>4, <1>5, <2>1
  <2>2. CASE i \in 1..l
    <3>1. i \in R /\ i \in 0..l /\ i - 1 \in 0..l
      BY <1>2, <2>2 DEF l
    <3>2. g[i] = f[i] /\ t[i] = s[i] /\ v[f[i]] = s[i].of
      BY <1>2, <1>3, <1>5, <2>2, <3>1
    <3>3. f[i] \in 1..hi
      <4>1. f[i] = f[i - 1] + 1 /\ f[i - 1] \in Nat /\ f[i] <= hi
        BY <1>3, <1>6, <2>2, <3>1
      <4>2. QED
        BY <4>1
    <3>4. QED
      BY <3>2, <3>3
  <2>3. QED
    BY <1>2, <2>1, <2>2
<1>10. Numbered(t, Q, w, g, lo, top)
  <2>1. g[0] = lo
    BY <1>2, <1>3, <1>5
  <2>2. QED
    BY <1>2, <1>5, <1>7, <1>8, <1>9, <2>1 DEF Numbered
<1>11. QED
  BY <1>10 DEF Numbers, top

\* The oldest element leaves; when it is counted it is request lo + 1.
LEMMA NumbersTail ==
    ASSUME NEW s, NEW t, NEW R, NEW Q, NEW v, NEW lo \in Nat, NEW hi \in Nat,
           Numbers(s, R, v, lo, hi), Shifted(s, t, 1), Len(s) \in Nat, Len(s) >= 1,
           R \subseteq 1..Len(s), Q \subseteq 1..Len(t),
           \A i \in 1..Len(t) : i \in Q <=> i + 1 \in R
    PROVE  Numbers(t, Q, v, lo + (IF 1 \in R THEN 1 ELSE 0), hi)
<1>1. PICK f : Numbered(s, R, v, f, lo, hi)
  BY DEF Numbers
<1> DEFINE l == Len(t)
           from == lo + (IF 1 \in R THEN 1 ELSE 0)
           g == [i \in 0..Len(t) |-> f[i + 1]]
<1>2. l \in Nat /\ Len(s) = l + 1 /\ \A i \in 1..l : t[i] = s[i + 1]
  BY DEF Shifted
<1>3. /\ f[0] = lo /\ f[l + 1] = hi
      /\ \A i \in 0..(l + 1) : f[i] \in Nat
      /\ \A i, j \in 0..(l + 1) : i <= j => f[i] <= f[j]
      /\ \A i \in 1..(l + 1) : f[i] = f[i - 1] + (IF i \in R THEN 1 ELSE 0)
      /\ \A i \in R : v[f[i]] = s[i].of
  BY <1>1, <1>2 DEF Numbered
<1>4. \A i \in 0..l : g[i] = f[i + 1]
  OBVIOUS
<1>5. Q \subseteq 1..l /\ \A i \in 1..l : i \in Q <=> i + 1 \in R
  OBVIOUS
<1> HIDE DEF l, g
<1>6. f[1] = from /\ from \in Nat /\ from <= hi
  <2>1. 1 \in 1..(l + 1) /\ 1 \in 0..(l + 1) /\ l + 1 \in 0..(l + 1) /\ 1 <= l + 1
    BY <1>2
  <2>2. QED
    BY <1>3, <2>1
<1>7. \A i \in 0..l : i \in Nat /\ i + 1 \in 0..(l + 1) /\ i + 1 \in 1..(l + 1)
  BY <1>2
<1>8. g[0] = from /\ g[l] = hi
  BY <1>2, <1>3, <1>4, <1>6
<1>9. /\ \A i \in 0..l : g[i] \in Nat
      /\ \A i, j \in 0..l : i <= j => g[i] <= g[j]
  <2>1. \A i, j \in 0..l : i <= j => i + 1 <= j + 1
    BY <1>7
  <2>2. QED
    BY <1>3, <1>4, <1>7, <2>1
<1>10. ASSUME NEW i \in 1..l PROVE g[i] = g[i - 1] + (IF i \in Q THEN 1 ELSE 0)
  <2>1. i \in 0..l /\ i - 1 \in 0..l /\ (i - 1) + 1 = i /\ (i + 1) - 1 = i
    BY <1>2
  <2>2. g[i] = f[i + 1] /\ g[i - 1] = f[i]
    BY <1>4, <2>1
  <2>3. f[i + 1] = f[i] + (IF i + 1 \in R THEN 1 ELSE 0)
    BY <1>3, <1>7, <2>1
  <2>4. QED
    BY <1>5, <2>2, <2>3
<1>11. ASSUME NEW i \in Q PROVE v[g[i]] = t[i].of
  <2>1. i \in 1..l /\ i \in 0..l /\ i + 1 \in R
    BY <1>2, <1>5
  <2>2. QED
    BY <1>2, <1>3, <1>4, <2>1
<1>12. Numbered(t, Q, v, g, from, hi)
  BY <1>8, <1>9, <1>10, <1>11 DEF Numbered, l
<1>13. QED
  BY <1>12 DEF Numbers

LEMMA NumbersFirst ==
    ASSUME NEW s, NEW R, NEW v, NEW lo \in Nat, NEW hi \in Nat,
           Numbers(s, R, v, lo, hi), Len(s) \in Nat, Len(s) >= 1, 1 \in R
    PROVE  lo + 1 <= hi /\ v[lo + 1] = s[1].of
<1>1. PICK f : Numbered(s, R, v, f, lo, hi)
  BY DEF Numbers
<1>2. 1 \in 1..Len(s) /\ 1 \in 0..Len(s) /\ Len(s) \in 0..Len(s)
  OBVIOUS
<1>3. f[1] = lo + 1 /\ f[1] <= hi /\ v[f[1]] = s[1].of
  BY <1>1, <1>2 DEF Numbered
<1>4. QED
  BY <1>3

LEMMA NumbersKept ==
    ASSUME NEW s, NEW R, NEW v, NEW w, NEW lo \in Nat, NEW hi \in Nat, Len(s) \in Nat,
           Numbers(s, R, v, lo, hi), R \subseteq 1..Len(s), \A n \in 1..hi : w[n] = v[n]
    PROVE  Numbers(s, R, w, lo, hi) /\ lo <= hi
<1>1. PICK f : Numbered(s, R, v, f, lo, hi)
  BY DEF Numbers
<1>2. /\ f[0] = lo /\ f[Len(s)] = hi
      /\ \A i \in 0..Len(s) : f[i] \in Nat
      /\ \A i, j \in 0..Len(s) : i <= j => f[i] <= f[j]
      /\ \A i \in 1..Len(s) : f[i] = f[i - 1] + (IF i \in R THEN 1 ELSE 0)
      /\ \A i \in R : v[f[i]] = s[i].of
  BY <1>1 DEF Numbered
<1>3. ASSUME NEW i \in R PROVE w[f[i]] = s[i].of
  <2>1. i \in 1..Len(s) /\ i \in 0..Len(s) /\ i - 1 \in 0..Len(s) /\ i <= Len(s)
        /\ Len(s) \in 0..Len(s)
    OBVIOUS
  <2>2. f[i] = f[i - 1] + 1 /\ f[i - 1] \in Nat /\ f[i] <= hi
    BY <1>2, <2>1
  <2>3. f[i] \in 1..hi
    BY <2>2
  <2>4. QED
    BY <1>2, <2>3
<1>4. lo <= hi
  <2>1. 0 \in 0..Len(s) /\ Len(s) \in 0..Len(s) /\ 0 <= Len(s)
    OBVIOUS
  <2>2. QED
    BY <1>2, <2>1
<1>5. Numbered(s, R, w, f, lo, hi)
  BY <1>2, <1>3 DEF Numbered
<1>6. QED
  BY <1>4, <1>5 DEF Numbers

\* The same of the frames to the PLC and of the actor's mailbox.
LEMMA WireAppend ==
    ASSUME NEW S, NEW a \in Seq(S), NEW p, NEW v, NEW w, NEW lo \in Nat, NEW hi \in Nat,
           Numbers(a, ReqOut(a), v, lo, hi), \A n \in 1..hi : w[n] = v[n]
    PROVE  LET t == Append(a, p) IN
           IF p.cmd \in {"ReadReq", "WriteReq"}
           THEN w[hi + 1] = p.of => Numbers(t, ReqOut(t), w, lo, hi + 1)
           ELSE Numbers(t, ReqOut(t), w, lo, hi)
<1> DEFINE t == Append(a, p)
<1>1. Len(a) \in Nat /\ Len(t) = Len(a) + 1 /\ t[Len(t)] = p
      /\ \A i \in 1..Len(a) : t[i] = a[i]
  OBVIOUS
<1> HIDE DEF t
<1>2. Appended(a, t, p)
  BY <1>1 DEF Appended
<1>3. /\ ReqOut(a) \subseteq 1..Len(a) /\ ReqOut(t) \subseteq 1..Len(t)
      /\ ReqOut(t) \cap 1..Len(a) = ReqOut(a)
      /\ Len(t) \in ReqOut(t) <=> p.cmd \in {"ReadReq", "WriteReq"}
  BY <1>1 DEF ReqOut
<1>4. CASE p.cmd \in {"ReadReq", "WriteReq"}
  <2>1. ASSUME w[hi + 1] = p.of PROVE Numbers(t, ReqOut(t), w, lo, hi + 1)
    BY <1>2, <1>3, <1>4, <2>1, NumbersAppend
  <2>2. QED
    BY <1>4, <2>1 DEF t
<1>5. CASE p.cmd \notin {"ReadReq", "WriteReq"}
  <2>1. Numbers(t, ReqOut(t), w, lo, hi + 0)
    BY <1>2, <1>3, <1>5, NumbersAppend
  <2>2. QED
    BY <1>5, <2>1 DEF t
<1>6. QED
  BY <1>4, <1>5

LEMMA WireTail ==
    ASSUME NEW S, NEW a \in Seq(S), NEW v, NEW lo \in Nat, NEW hi \in Nat,
           Numbers(a, ReqOut(a), v, lo, hi), a # <<>>
    PROVE  LET t == Tail(a) IN
           IF Head(a).cmd \in {"ReadReq", "WriteReq"}
           THEN Numbers(t, ReqOut(t), v, lo + 1, hi) /\ lo + 1 <= hi /\ v[lo + 1] = Head(a).of
           ELSE Numbers(t, ReqOut(t), v, lo, hi)
<1> DEFINE t == Tail(a)
<1>1. /\ Len(a) \in Nat /\ Len(a) >= 1 /\ Head(a) = a[1]
      /\ Shifted(a, t, 1)
  BY TailFacts DEF Shifted
<1> HIDE DEF t
<1>2. /\ ReqOut(a) \subseteq 1..Len(a) /\ ReqOut(t) \subseteq 1..Len(t)
      /\ \A i \in 1..Len(t) : i \in ReqOut(t) <=> i + 1 \in ReqOut(a)
      /\ 1 \in ReqOut(a) <=> Head(a).cmd \in {"ReadReq", "WriteReq"}
  BY <1>1, SMTT(30) DEF ReqOut, Shifted
<1>3. CASE Head(a).cmd \in {"ReadReq", "WriteReq"}
  <2>1. Numbers(t, ReqOut(t), v, lo + 1, hi)
    BY <1>1, <1>2, <1>3, NumbersTail
  <2>2. lo + 1 <= hi /\ v[lo + 1] = a[1].of
    BY <1>1, <1>2, <1>3, NumbersFirst
  <2>3. QED
    BY <1>1, <1>3, <2>1, <2>2 DEF t
<1>4. CASE Head(a).cmd \notin {"ReadReq", "WriteReq"}
  <2>1. Numbers(t, ReqOut(t), v, lo + 0, hi)
    BY <1>1, <1>2, <1>4, NumbersTail
  <2>2. QED
    BY <1>4, <2>1 DEF t
<1>5. QED
  BY <1>3, <1>4

LEMMA BoxAppend ==
    ASSUME NEW S, NEW b \in Seq(S), NEW m, NEW v, NEW w, NEW lo \in Nat, NEW hi \in Nat,
           Numbers(b, ReqIn(b), v, lo, hi), \A n \in 1..hi : w[n] = v[n]
    PROVE  LET t == Append(b, m) IN
           IF m.kind \in {"read", "write"}
           THEN w[hi + 1] = m.of => Numbers(t, ReqIn(t), w, lo, hi + 1)
           ELSE Numbers(t, ReqIn(t), w, lo, hi)
<1> DEFINE t == Append(b, m)
<1>1. Len(b) \in Nat /\ Len(t) = Len(b) + 1 /\ t[Len(t)] = m
      /\ \A i \in 1..Len(b) : t[i] = b[i]
  OBVIOUS
<1> HIDE DEF t
<1>2. Appended(b, t, m)
  BY <1>1 DEF Appended
<1>3. /\ ReqIn(b) \subseteq 1..Len(b) /\ ReqIn(t) \subseteq 1..Len(t)
      /\ ReqIn(t) \cap 1..Len(b) = ReqIn(b)
      /\ Len(t) \in ReqIn(t) <=> m.kind \in {"read", "write"}
  BY <1>1 DEF ReqIn
<1>4. CASE m.kind \in {"read", "write"}
  <2>1. ASSUME w[hi + 1] = m.of PROVE Numbers(t, ReqIn(t), w, lo, hi + 1)
    BY <1>2, <1>3, <1>4, <2>1, NumbersAppend
  <2>2. QED
    BY <1>4, <2>1 DEF t
<1>5. CASE m.kind \notin {"read", "write"}
  <2>1. Numbers(t, ReqIn(t), w, lo, hi + 0)
    BY <1>2, <1>3, <1>5, NumbersAppend
  <2>2. QED
    BY <1>5, <2>1 DEF t
<1>6. QED
  BY <1>4, <1>5

LEMMA BoxTail ==
    ASSUME NEW S, NEW b \in Seq(S), NEW v, NEW lo \in Nat, NEW hi \in Nat,
           Numbers(b, ReqIn(b), v, lo, hi), b # <<>>
    PROVE  LET t == Tail(b) IN
           IF Head(b).kind \in {"read", "write"}
           THEN Numbers(t, ReqIn(t), v, lo + 1, hi) /\ lo + 1 <= hi /\ v[lo + 1] = Head(b).of
           ELSE Numbers(t, ReqIn(t), v, lo, hi)
<1> DEFINE t == Tail(b)
<1>1. /\ Len(b) \in Nat /\ Len(b) >= 1 /\ Head(b) = b[1]
      /\ Shifted(b, t, 1)
  BY TailFacts DEF Shifted
<1> HIDE DEF t
<1>2. /\ ReqIn(b) \subseteq 1..Len(b) /\ ReqIn(t) \subseteq 1..Len(t)
      /\ \A i \in 1..Len(t) : i \in ReqIn(t) <=> i + 1 \in ReqIn(b)
      /\ 1 \in ReqIn(b) <=> Head(b).kind \in {"read", "write"}
  BY <1>1, SMTT(30) DEF ReqIn, Shifted
<1>3. CASE Head(b).kind \in {"read", "write"}
  <2>1. Numbers(t, ReqIn(t), v, lo + 1, hi)
    BY <1>1, <1>2, <1>3, NumbersTail
  <2>2. lo + 1 <= hi /\ v[lo + 1] = b[1].of
    BY <1>1, <1>2, <1>3, NumbersFirst
  <2>3. QED
    BY <1>1, <1>3, <2>1, <2>2 DEF t
<1>4. CASE Head(b).kind \notin {"read", "write"}
  <2>1. Numbers(t, ReqIn(t), v, lo + 0, hi)
    BY <1>1, <1>2, <1>4, NumbersTail
  <2>2. QED
    BY <1>4, <2>1 DEF t
<1>5. QED
  BY <1>3, <1>4

\* Nothing starts a client that stopped.
LEMMA StillRunning == [Next]_vars /\ state' = "running" => state = "running"
BY DEF Next, vars, actor, HandleMessage, OnPacket, PlcServe, IssueRead, IssueWrite,
       TakeWrite, MuxStops, HandleRegister, HandleUnregister, HandleReadReq, HandleWriteReq,
       NextMessage, OnReadReq, OnReadRes, OnWriteReq, OnWriteRes, Decoded, ConnectionLost,
       PlcAnswersRead, PlcAnswersWrite, PlcTakesResponse, PlcReceives, PlcSendsWrite, PlcSendsRead

LEMMA OrderInit == Init => OrderInv
<1> SUFFICES ASSUME Init PROVE OrderInv
  OBVIOUS
<1>1. PlcSeesIssueOrder
  BY DEF Init, PlcSeesIssueOrder
<1> DEFINE f == [i \in {0, 1} |-> 0]
<1>2. /\ Len(toPlc) = 0 /\ Len(served) = 0 /\ Len(issued) = 0
      /\ Len(mailbox) = 1 /\ mailbox[1].kind = "register"
  BY DEF Init
<1>3. ReqOut(toPlc) = {} /\ ReqIn(mailbox) = {}
  BY <1>2 DEF ReqOut, ReqIn
<1>4. f[0] = 0 /\ f[1] = 0
  OBVIOUS
<1> HIDE DEF f
<1>5. Numbered(toPlc, {}, issued, f, 0, 0) /\ Numbered(mailbox, {}, issued, f, 0, 0)
  BY <1>2, <1>4 DEF Numbered
<1>6. OnTheirWay
  BY <1>2, <1>3, <1>5 DEF OnTheirWay, Numbers
<1>7. QED
  BY <1>1, <1>6 DEF OrderInv

\* The queues have a number at which the wire ends and the mailbox begins.
LEMMA OrderNext == TypeOK /\ OrderInv /\ [Next]_vars => OrderInv'
<1> SUFFICES ASSUME TypeOK, OrderInv, [Next]_vars PROVE OrderInv'
  OBVIOUS
<1>0. /\ mailbox \in Seq(Message) /\ toPlc \in Seq(OutPacket)
      /\ issued \in Seq(Requests) /\ served \in Seq(Requests)
      /\ Len(issued) \in Nat /\ Len(served) \in Nat /\ Len(toPlc) \in Nat /\ Len(mailbox) \in Nat
      /\ Len(served) <= Len(issued) /\ \A i \in 1..Len(served) : served[i] = issued[i]
      /\ DOMAIN served = 1..Len(served)
  BY DEF TypeOK, QueueTypeOK, CallerTypeOK, PlcTypeOK, OrderInv, PlcSeesIssueOrder
<1>1. CASE UNCHANGED <<issued, served>> /\ state' # "running"
  BY <1>1 DEF OrderInv, PlcSeesIssueOrder
<1>2. CASE state' = "running"
  <2>1. state = "running"
    BY <1>2, StillRunning
  <2>2. PICK mid \in Nat : /\ Numbers(toPlc, ReqOut(toPlc), issued, Len(served), mid)
                           /\ Numbers(mailbox, ReqIn(mailbox), issued, mid, Len(issued))
    BY <2>1 DEF OrderInv, OnTheirWay
  <2>3. mid <= Len(issued)
    BY <1>0, <2>2, NumbersKept DEF ReqIn
  <2>4. CASE UNCHANGED <<issued, served, toPlc, mailbox>>
    BY <2>1, <2>4 DEF OrderInv, PlcSeesIssueOrder, OnTheirWay
  <2>5. ASSUME NEW m, m.kind \in {"read", "write"}, mailbox' = Append(mailbox, m),
               issued' = Append(issued, m.of), UNCHANGED <<served, toPlc>>
        PROVE  OrderInv'
    <3>1. Len(issued') = Len(issued) + 1 /\ issued'[Len(issued) + 1] = m.of
          /\ \A n \in 1..Len(issued) : issued'[n] = issued[n]
      BY <1>0, <2>5
    <3>2. Numbers(mailbox', ReqIn(mailbox'), issued', mid, Len(issued'))
      BY <1>0, <2>2, <2>5, <3>1, BoxAppend, ZenonT(60)
    <3>3. Numbers(toPlc', ReqOut(toPlc'), issued', Len(served'), mid)
      <4>1. \A n \in 1..mid : issued'[n] = issued[n]
        BY <1>0, <2>3, <3>1
      <4>2. Numbers(toPlc, ReqOut(toPlc), issued', Len(served), mid)
        BY <1>0, <2>2, <4>1, NumbersKept DEF ReqOut
      <4>3. QED
        BY <2>5, <4>2
    <3>4. PlcSeesIssueOrder'
      BY <1>0, <2>5, <3>1 DEF PlcSeesIssueOrder
    <3>5. QED
      BY <3>2, <3>3, <3>4 DEF OrderInv, OnTheirWay
  <2>6. ASSUME NEW m, m.kind \notin {"read", "write"}, mailbox' = Append(mailbox, m),
               UNCHANGED <<issued, served, toPlc>>
        PROVE  OrderInv'
    <3>1. Numbers(mailbox', ReqIn(mailbox'), issued, mid, Len(issued))
      BY <1>0, <2>2, <2>6, BoxAppend
    <3>2. QED
      BY <2>2, <2>6, <3>1 DEF OrderInv, PlcSeesIssueOrder, OnTheirWay
  <2>7. CASE /\ mailbox # <<>> /\ Head(mailbox).kind \notin {"read", "write"}
             /\ mailbox' = Tail(mailbox) /\ UNCHANGED <<issued, served, toPlc>>
    <3>1. Numbers(mailbox', ReqIn(mailbox'), issued, mid, Len(issued))
      BY <1>0, <2>2, <2>7, BoxTail
    <3>2. QED
      BY <2>2, <2>7, <3>1 DEF OrderInv, PlcSeesIssueOrder, OnTheirWay
  <2>8. ASSUME mailbox # <<>>, Head(mailbox).kind \in {"read", "write"}, mailbox' = Tail(mailbox),
               NEW p, p.cmd \in {"ReadReq", "WriteReq"}, p.of = Head(mailbox).of,
               toPlc' = Append(toPlc, p), UNCHANGED <<issued, served>>
        PROVE  OrderInv'
    <3>1. /\ Numbers(mailbox', ReqIn(mailbox'), issued, mid + 1, Len(issued))
          /\ issued[mid + 1] = p.of
      BY <1>0, <2>2, <2>8, BoxTail
    <3>2. Numbers(toPlc', ReqOut(toPlc'), issued, Len(served), mid + 1)
      BY <1>0, <2>2, <2>8, <3>1, WireAppend
    <3>3. QED
      BY <2>2, <2>8, <3>1, <3>2 DEF OrderInv, PlcSeesIssueOrder, OnTheirWay
  <2>9. ASSUME NEW p, p.cmd \notin {"ReadReq", "WriteReq"}, toPlc' = Append(toPlc, p),
               UNCHANGED <<issued, served, mailbox>>
        PROVE  OrderInv'
    <3>1. Numbers(toPlc', ReqOut(toPlc'), issued, Len(served), mid)
      BY <1>0, <2>2, <2>9, WireAppend
    <3>2. QED
      BY <2>2, <2>9, <3>1 DEF OrderInv, PlcSeesIssueOrder, OnTheirWay
  <2>10. CASE PlcTakesResponse
    <3>1. toPlc # <<>> /\ Head(toPlc).cmd \notin {"ReadReq", "WriteReq"} /\ toPlc' = Tail(toPlc)
          /\ UNCHANGED <<issued, served, mailbox>>
      BY <2>10 DEF PlcTakesResponse, PlcReceives, muxEnd, plcEnd
    <3>2. Numbers(toPlc', ReqOut(toPlc'), issued, Len(served), mid)
      BY <1>0, <2>2, <3>1, WireTail
    <3>3. QED
      BY <2>2, <3>1, <3>2 DEF OrderInv, PlcSeesIssueOrder, OnTheirWay
  <2>11. CASE PlcAnswersRead \/ PlcAnswersWrite
    <3>1. /\ toPlc # <<>> /\ Head(toPlc).cmd \in {"ReadReq", "WriteReq"} /\ toPlc' = Tail(toPlc)
          /\ served' = Append(served, Head(toPlc).of) /\ UNCHANGED <<issued, mailbox>>
      BY <2>11 DEF PlcAnswersRead, PlcAnswersWrite, PlcReceives, muxEnd, plcEnd
    <3>2. /\ Numbers(toPlc', ReqOut(toPlc'), issued, Len(served) + 1, mid)
          /\ Len(served) + 1 <= mid /\ issued[Len(served) + 1] = Head(toPlc).of
      BY <1>0, <2>2, <3>1, WireTail
    <3>3. Len(served') = Len(served) + 1 /\ DOMAIN served' = 1..(Len(served) + 1)
          /\ \A i \in 1..(Len(served) + 1) : served'[i] =
                IF i \in 1..Len(served) THEN served[i] ELSE Head(toPlc).of
      BY <1>0, <3>1
    <3>4. PlcSeesIssueOrder'
      <4>1. \A i \in 1..(Len(served) + 1) : i \in 1..Len(served) \/ i = Len(served) + 1
        BY <1>0
      <4>2. Len(served) + 1 <= Len(issued)
        BY <1>0, <2>3, <3>2
      <4>3. QED
        BY <1>0, <3>1, <3>2, <3>3, <4>1, <4>2 DEF PlcSeesIssueOrder
    <3>5. QED
      BY <2>2, <3>1, <3>2, <3>3, <3>4 DEF OrderInv, OnTheirWay
  <2>12. CASE HandleReadReq
    <3>1. PICK inv : toPlc' = Append(toPlc, [cmd |-> "ReadReq", inv |-> inv, of |-> Head(mailbox).of])
      BY <2>12 DEF HandleReadReq, Written
    <3>2. mailbox # <<>> /\ Head(mailbox).kind = "read" /\ mailbox' = Tail(mailbox)
          /\ UNCHANGED <<issued, served>>
      BY <2>12 DEF HandleReadReq, NextMessage, plcEnd
    <3>3. QED
      BY <2>8, <3>1, <3>2
  <2>13. CASE HandleWriteReq
    BY <2>8, <2>13 DEF HandleWriteReq, NextMessage, Written, muxEnd, plcEnd
  <2>14. CASE HandleRegister \/ HandleUnregister
    BY <2>7, <2>14 DEF HandleRegister, HandleUnregister, NextMessage, muxEnd, plcEnd
  <2>15. ASSUME NEW r \in Reads, IssueRead(r) PROVE OrderInv'
    BY <2>1, <2>5, <2>15 DEF IssueRead, plcEnd
  <2>16. ASSUME NEW w \in Writes, IssueWrite(w) PROVE OrderInv'
    BY <2>5, <2>16 DEF IssueWrite, plcEnd
  <2>17. CASE MuxStops
    BY <2>1, <2>6, <2>17 DEF MuxStops, plcEnd
  <2>18. ASSUME NEW k \in 1..MaxBatch, OnPacket(k) PROVE OrderInv'
    <3>1. UNCHANGED <<issued, served, mailbox>>
      BY <2>18 DEF OnPacket, OnReadReq, OnReadRes, OnWriteReq, OnWriteRes, muxEnd, plcEnd
    <3>2. CASE UNCHANGED toPlc
      BY <2>4, <3>1, <3>2
    <3>3. CASE OnReadReq(k) \/ OnWriteReq(k)
      BY <2>9, <3>1, <3>3 DEF OnReadReq, OnWriteReq, Written
    <3>4. QED
      BY <2>18, <3>2, <3>3 DEF OnPacket, OnReadRes, OnWriteRes
  <2>19. QED
    BY <1>2, <2>4, <2>10, <2>11, <2>12, <2>13, <2>14, <2>15, <2>16, <2>17, <2>18
    DEF Next, vars, muxEnd, plcEnd, HandleMessage, PlcServe, TakeWrite, ConnectionLost,
        PlcSendsWrite, PlcSendsRead
<1>3. QED
  <2>1. ASSUME state' # "running" PROVE UNCHANGED <<issued, served>>
    BY <2>1
    DEF Next, vars, actor, muxEnd, plcEnd, HandleMessage, OnPacket, PlcServe, IssueRead, IssueWrite,
        TakeWrite, MuxStops, HandleRegister, HandleUnregister, HandleReadReq, HandleWriteReq,
        NextMessage, OnReadReq, OnReadRes, OnWriteReq, OnWriteRes, Decoded, ConnectionLost,
        PlcAnswersRead, PlcAnswersWrite, PlcTakesResponse, PlcReceives, PlcSendsWrite, PlcSendsRead
  <2>2. QED
    BY <1>1, <1>2, <2>1

\* The PLC executes the multiplexer's reads and writes in the order they were
\* issued, whatever they wait behind and wherever the connection ends; no
\* assumption on the ids, and none that requests differ.
THEOREM RequestsServedInOrder == Spec => []PlcSeesIssueOrder
<1>1. Init => TypeOK /\ OrderInv
  BY InitType, OrderInit
<1>2. TypeOK /\ OrderInv /\ [Next]_vars => TypeOK' /\ OrderInv'
  BY NextType, OrderNext
<1>3. OrderInv => PlcSeesIssueOrder
  BY DEF OrderInv
<1>4. QED
  BY <1>1, <1>2, <1>3, PTL DEF Spec
-----------------------------------------------------------------------------
\* The pipe.  What is on its way to the PLC is the part of `issued` behind what
\* was served, so its facts are those of suffixes of a sequence.

LEMMA SeqEqual ==
    ASSUME NEW S, NEW s \in Seq(S), NEW t \in Seq(S), Len(s) = Len(t),
           \A i \in 1..Len(s) : s[i] = t[i]
    PROVE  s = t
OBVIOUS

LEMMA SuffixAppend ==
    ASSUME NEW S, NEW s \in Seq(S), NEW x \in S, NEW n \in 0..Len(s)
    PROVE  SubSeq(Append(s, x), n + 1, Len(Append(s, x))) = Append(SubSeq(s, n + 1, Len(s)), x)
<1> DEFINE a == Append(s, x)
           l == SubSeq(a, n + 1, Len(a))
           t == SubSeq(s, n + 1, Len(s))
           r == Append(t, x)
<1>1. /\ a \in Seq(S) /\ Len(a) = Len(s) + 1 /\ Len(s) \in Nat
      /\ \A i \in 1..Len(s) : a[i] = s[i]
      /\ a[Len(s) + 1] = x
  OBVIOUS
<1>2. t \in Seq(S) /\ Len(t) = Len(s) - n /\ \A i \in 1..Len(t) : t[i] = s[i + n]
  BY <1>1, SuffixType
<1> HIDE DEF a
<1>3. l \in Seq(S) /\ Len(l) = Len(s) + 1 - n /\ \A i \in 1..Len(l) : l[i] = a[i + n]
  BY <1>1, SuffixType
<1> HIDE DEF t
<1>4. r \in Seq(S) /\ Len(r) = Len(s) - n + 1 /\ r[Len(s) - n + 1] = x
      /\ \A i \in 1..(Len(s) - n) : r[i] = t[i]
  BY <1>1, <1>2
<1> HIDE DEF l, r
<1>5. Len(l) = Len(r)
  BY <1>1, <1>3, <1>4
<1>6. ASSUME NEW i \in 1..Len(l) PROVE l[i] = r[i]
  <2>1. i \in Nat /\ (i \in 1..(Len(s) - n) \/ i = Len(s) - n + 1) /\ n \in Nat
    BY <1>1, <1>3
  <2>2. CASE i \in 1..(Len(s) - n)
    <3>1. i + n \in 1..Len(s)
      BY <1>1, <2>1, <2>2
    <3>2. l[i] = s[i + n]
      <4>1. l[i] = a[i + n]
        BY <1>3
      <4>2. QED
        BY <1>1, <3>1, <4>1
    <3>3. r[i] = s[i + n]
      BY <1>2, <1>4, <2>2
    <3>4. QED
      BY <3>2, <3>3
  <2>3. CASE i = Len(s) - n + 1
    <3>1. i + n = Len(s) + 1
      BY <1>1, <2>1, <2>3
    <3>2. l[i] = a[i + n]
      BY <1>3
    <3>3. a[i + n] = x
      BY <1>1, <3>1
    <3>4. r[i] = x
      BY <1>4, <2>3
    <3>5. QED
      BY <3>2, <3>3, <3>4
  <2>4. QED
    BY <2>1, <2>2, <2>3
<1>7. l = r
  BY <1>3, <1>4, <1>5, <1>6, SeqEqual
<1>8. QED
  BY <1>7 DEF l, r, t, a

LEMMA SuffixTail ==
    ASSUME NEW S, NEW s \in Seq(S), NEW n \in Nat, n < Len(s)
    PROVE  /\ SubSeq(s, n + 1, Len(s)) # <<>>
           /\ Head(SubSeq(s, n + 1, Len(s))) = s[n + 1]
           /\ Tail(SubSeq(s, n + 1, Len(s))) = SubSeq(s, n + 2, Len(s))
<1> DEFINE t == SubSeq(s, n + 1, Len(s))
           u == SubSeq(s, n + 2, Len(s))
<1>1. t \in Seq(S) /\ Len(t) = Len(s) - n /\ \A i \in 1..Len(t) : t[i] = s[i + n]
  BY SuffixType
<1>2. u \in Seq(S) /\ Len(u) = Len(s) - (n + 1) /\ \A i \in 1..Len(u) : u[i] = s[i + n + 1]
  OBVIOUS
<1>3. Len(s) \in Nat
  OBVIOUS
<1> HIDE DEF t, u
<1>4. t # <<>> /\ Len(t) >= 1
  BY <1>1, <1>3
<1>5. Head(t) = s[n + 1]
  BY <1>1, <1>3, <1>4
<1>6. Tail(t) \in Seq(S) /\ Len(Tail(t)) = Len(t) - 1 /\ \A i \in 1..Len(Tail(t)) : Tail(t)[i] = t[i + 1]
  BY <1>1, <1>4
<1>7. \A i \in 1..Len(u) : i + 1 \in 1..Len(t) /\ t[i + 1] = s[i + n + 1]
  BY <1>1, <1>2, <1>3
<1>8. Tail(t) = u
  <2>1. Len(Tail(t)) = Len(u)
    BY <1>1, <1>2, <1>3, <1>6
  <2>2. \A i \in 1..Len(Tail(t)) : Tail(t)[i] = u[i]
    BY <1>2, <1>6, <1>7, <2>1
  <2>3. QED
    BY <1>2, <1>6, <2>1, <2>2, SeqEqual
<1>9. QED
  BY <1>4, <1>5, <1>8 DEF t, u

\* A request is issued once, and a read is answered only after the PLC executed it.
PipeInv ==
    /\ \A i, j \in 1..Len(issued) : i # j => issued[i] # issued[j]
    /\ \A i \in 1..Len(issued) : issued[i] \in Reads => reply[issued[i]] # "unsent"
    /\ \A a \in answers : a[2] \in Served
    /\ \A i \in 1..Len(fromPlc) : fromPlc[i].cmd = "ReadRes" => fromPlc[i].of \in Served

LEMMA PipeInit == Init => PipeInv
BY DEF Init, PipeInv

\* The PLC's executions only add to what it served.
LEMMA ServedStep ==
    ASSUME TypeOK, [Next]_vars
    PROVE  served' = served \/ \E q \in Requests : served' = Append(served, q)
<1>1. CASE PlcAnswersRead \/ PlcAnswersWrite
  <2>1. served' = Append(served, Head(toPlc).of)
    BY <1>1 DEF PlcAnswersRead, PlcAnswersWrite
  <2>2. Head(toPlc).of \in Requests
    BY <1>1, ReceivedFrame, OutFields DEF PlcAnswersRead, PlcAnswersWrite, Requests
  <2>3. QED
    BY <2>1, <2>2
<1>2. CASE UNCHANGED served
  BY <1>2
<1>3. QED
  BY <1>1, <1>2
  DEF Next, vars, plcEnd, IssueRead, IssueWrite, TakeWrite, MuxStops, HandleMessage,
      OnPacket, PlcServe, HandleRegister, HandleUnregister, HandleReadReq, HandleWriteReq, OnReadReq,
      OnReadRes, OnWriteReq, OnWriteRes, ConnectionLost, PlcTakesResponse,
      PlcSendsWrite, PlcSendsRead

\* A request that was never issued is appended to those that were.
LEMMA IssuedOnce ==
    ASSUME NEW S, NEW s \in Seq(S), NEW q,
           \A i, j \in 1..Len(s) : i # j => s[i] # s[j],
           \A i \in 1..Len(s) : s[i] # q
    PROVE  LET t == Append(s, q) IN \A i, j \in 1..Len(t) : i # j => t[i] # t[j]
<1> DEFINE t == Append(s, q)
<1>1. /\ Len(s) \in Nat /\ Len(t) = Len(s) + 1
      /\ \A i \in 1..Len(t) :
            \/ i \in 1..Len(s) /\ t[i] = s[i]
            \/ i = Len(s) + 1 /\ t[i] = q
  BY AppendFacts
<1> HIDE DEF t
<1>2. \A i, j \in 1..Len(t) : i # j => t[i] # t[j]
  BY <1>1
<1>3. QED
  BY <1>2 DEF t

LEMMA PipeNext == TypeOK /\ PipeInv /\ [Next]_vars => PipeInv'
<1> SUFFICES ASSUME TypeOK, PipeInv, [Next]_vars PROVE PipeInv'
  OBVIOUS
<1>0. /\ issued \in Seq(Requests) /\ served \in Seq(Requests) /\ fromPlc \in Seq(InPacket)
      /\ Len(fromPlc) \in Nat /\ DOMAIN issued = 1..Len(issued)
      /\ reply \in [Reads -> {"unsent", "waiting", "ok", "canceled", "closed"}]
  BY DEF TypeOK, QueueTypeOK, CallerTypeOK, PlcTypeOK
<1>1. Served \subseteq Served'
  <2>1. served' = served \/ \E q \in Requests : served' = Append(served, q)
    BY ServedStep
  <2>2. \A i \in DOMAIN served : i \in DOMAIN served' /\ served'[i] = served[i]
    BY <1>0, <2>1, SMTT(30)
  <2>3. QED
    BY <2>2 DEF Served
<1> DEFINE
    Once == \A i, j \in 1..Len(issued') : i # j => issued'[i] # issued'[j]
    Sent == \A i \in 1..Len(issued') : issued'[i] \in Reads => reply'[issued'[i]] # "unsent"
    Done == \A a \in answers' : a[2] \in Served'
    Behind == \A i \in 1..Len(fromPlc') : fromPlc'[i].cmd = "ReadRes" => fromPlc'[i].of \in Served'
<1> HIDE DEF Once, Sent, Done, Behind
<1>2. Once /\ Sent
  <2>1. CASE UNCHANGED <<issued, reply>>
    BY <2>1 DEF PipeInv, Once, Sent
  <2>2. ASSUME NEW r \in Reads, IssueRead(r) PROVE Once /\ Sent
    <3>1. CASE state = "running"
      <4>1. /\ issued' = Append(issued, r) /\ reply' = [reply EXCEPT ![r] = "waiting"]
            /\ reply[r] = "unsent"
        BY <2>2, <3>1 DEF IssueRead
      <4>2. \A i \in 1..Len(issued) : issued[i] # r
        BY <4>1 DEF PipeInv
      <4>3. Once
        BY <1>0, <4>1, <4>2, IssuedOnce DEF PipeInv, Once
      <4>4. \A q \in Reads : reply[q] # "unsent" => reply'[q] # "unsent"
        BY <1>0, <4>1
      <4>5. reply'[r] # "unsent"
        BY <1>0, <4>1
      <4>6. \A i \in 1..Len(issued') : \/ i \in 1..Len(issued) /\ issued'[i] = issued[i]
                                       \/ issued'[i] = r
        BY <1>0, <4>1, AppendFacts
      <4>7. Sent
        BY <4>4, <4>5, <4>6 DEF PipeInv, Sent
      <4>8. QED
        BY <4>3, <4>7
    <3>2. CASE state # "running"
      <4>1. UNCHANGED issued /\ reply' = [reply EXCEPT ![r] = "closed"]
        BY <2>2, <3>2 DEF IssueRead
      <4>2. \A q \in Reads : reply[q] # "unsent" => reply'[q] # "unsent"
        BY <1>0, <4>1
      <4>3. QED
        BY <4>1, <4>2 DEF PipeInv, Once, Sent
    <3>3. QED
      BY <3>1, <3>2
  <2>3. ASSUME NEW w \in Writes, IssueWrite(w) PROVE Once /\ Sent
    <3>1. /\ issued' = Append(issued, w) /\ UNCHANGED reply
          /\ \A i \in 1..Len(issued) : issued[i] # w
      BY <1>0, <2>3 DEF IssueWrite
    <3>2. Once
      BY <1>0, <3>1, IssuedOnce DEF PipeInv, Once
    <3>3. \A i \in 1..Len(issued') : \/ i \in 1..Len(issued) /\ issued'[i] = issued[i]
                                     \/ issued'[i] = w
      BY <1>0, <3>1, AppendFacts
    <3>4. w \notin Reads
      BY ClientAssumption
    <3>5. Sent
      BY <3>1, <3>3, <3>4 DEF PipeInv, Sent
    <3>6. QED
      BY <3>2, <3>5
  <2>4. ASSUME UNCHANGED issued, \A q \in Reads : reply[q] # "unsent" => reply'[q] # "unsent"
        PROVE  Once /\ Sent
    BY <2>4 DEF PipeInv, Once, Sent
  <2>5. CASE HandleReadReq
    <3>1. UNCHANGED issued /\ \A q \in Reads : reply[q] # "unsent" => reply'[q] # "unsent"
      BY <1>0, <2>5 DEF HandleReadReq
    <3>2. QED
      BY <2>4, <3>1
  <2>6. ASSUME NEW k \in 1..MaxBatch, OnReadRes(k) PROVE Once /\ Sent
    <3>1. UNCHANGED issued /\ \A q \in Reads : reply[q] # "unsent" => reply'[q] # "unsent"
      BY <1>0, <2>6 DEF OnReadRes
    <3>2. QED
      BY <2>4, <3>1
  <2>7. CASE ConnectionLost
    <3>1. UNCHANGED issued /\ \A q \in Reads : reply[q] # "unsent" => reply'[q] # "unsent"
      BY <1>0, <2>7 DEF ConnectionLost
    <3>2. QED
      BY <2>4, <3>1
  <2>8. QED
    BY <2>1, <2>2, <2>3, <2>5, <2>6, <2>7
    DEF Next, vars, muxEnd, HandleMessage, OnPacket, PlcServe, TakeWrite, MuxStops,
        HandleRegister, HandleUnregister, HandleWriteReq, OnReadReq, OnWriteReq, OnWriteRes,
        PlcAnswersRead, PlcAnswersWrite, PlcTakesResponse, PlcSendsWrite, PlcSendsRead
<1>3. Done
  <2>1. CASE UNCHANGED answers
    BY <1>1, <2>1 DEF PipeInv, Done
  <2>2. ASSUME NEW k \in 1..MaxBatch, OnReadRes(k) PROVE Done
    <3>1. fromPlc[1].of \in Served
      BY <2>2, DecodedFrame DEF OnReadRes, PipeInv
    <3>2. \A a \in answers' : a \in answers \/ a[2] = fromPlc[1].of
      BY <2>2 DEF OnReadRes
    <3>3. QED
      BY <1>1, <3>1, <3>2 DEF PipeInv, Done
  <2>3. QED
    BY <2>1, <2>2
    DEF Next, vars, muxEnd, HandleMessage, OnPacket, PlcServe, IssueRead, IssueWrite, TakeWrite,
        MuxStops, HandleRegister, HandleUnregister, HandleReadReq, HandleWriteReq, OnReadReq,
        OnWriteReq, OnWriteRes, ConnectionLost, PlcAnswersRead, PlcAnswersWrite, PlcTakesResponse,
        PlcSendsWrite, PlcSendsRead
<1>4. Behind
  <2>1. CASE UNCHANGED fromPlc
    BY <1>1, <2>1 DEF PipeInv, Behind
  <2>2. ASSUME NEW k \in 1..MaxBatch, OnPacket(k) PROVE Behind
    <3>1. \A i \in 1..Len(fromPlc') : \E j \in 1..Len(fromPlc) : fromPlc'[i] = fromPlc[j]
      BY <2>2, DecodedFrame DEF OnPacket, OnReadReq, OnReadRes, OnWriteReq, OnWriteRes
    <3>2. QED
      BY <1>1, <3>1 DEF PipeInv, Behind
  <2>3. ASSUME NEW p, fromPlc' = Append(fromPlc, p), p.cmd = "ReadRes" => p.of \in Served'
        PROVE  Behind
    <3>1. \A i \in 1..Len(fromPlc') : \/ i \in 1..Len(fromPlc) /\ fromPlc'[i] = fromPlc[i]
                                      \/ fromPlc'[i] = p
      BY <1>0, <2>3, AppendFacts
    <3>2. QED
      BY <1>1, <2>3, <3>1 DEF PipeInv, Behind
  <2>4. CASE PlcAnswersRead
    <3>1. /\ fromPlc' = Append(fromPlc, [cmd |-> "ReadRes", inv |-> Head(toPlc).inv,
                                         of |-> Head(toPlc).of])
          /\ served' = Append(served, Head(toPlc).of)
      BY <2>4 DEF PlcAnswersRead
    <3>2. Len(served) + 1 \in DOMAIN served' /\ served'[Len(served) + 1] = Head(toPlc).of
      BY <1>0, <3>1
    <3>3. Head(toPlc).of \in Served'
      BY <3>2 DEF Served
    <3>4. QED
      BY <2>3, <3>1, <3>3
  <2>5. CASE PlcAnswersWrite \/ PlcSendsWrite \/ \E q \in PlcReads : PlcSendsRead(q)
    BY <2>3, <2>5 DEF PlcAnswersWrite, PlcSendsWrite, PlcSendsRead
  <2>6. CASE ConnectionLost
    BY <2>6 DEF ConnectionLost, Behind
  <2>7. QED
    BY <2>1, <2>2, <2>4, <2>5, <2>6
    DEF Next, vars, HandleMessage, PlcServe, IssueRead, IssueWrite, TakeWrite,
        MuxStops, HandleRegister, HandleUnregister, HandleReadReq, HandleWriteReq, PlcTakesResponse
<1>5. QED
  BY <1>2, <1>3, <1>4 DEF PipeInv, Once, Sent, Done, Behind

LEMMA PipeStarts == Init => Pipe!Init
<1> SUFFICES ASSUME Init PROVE Pipe!Init
  OBVIOUS
<1>1. /\ state = "running" /\ issued = <<>> /\ served = <<>> /\ answers = {}
      /\ reply = [r \in Reads |-> "unsent"]
  BY DEF Init
<1>2. InPipe = <<>>
  BY <1>1 DEF InPipe
<1>3. Served = {} /\ \A r \in Reads : SeenBy(r) = {}
  BY <1>1 DEF Served, SeenBy
<1>4. Samples = [r \in Reads |-> {}]
  BY <1>3 DEF Samples
<1>5. Futures = [r \in Reads |-> "unsent"]
  BY <1>1 DEF Futures
<1>6. Deliveries = {}
  BY <1>1 DEF Deliveries
<1>7. QED
  BY <1>1, <1>2, <1>3, <1>4, <1>5, <1>6 DEF Pipe!Init

\* What was served before x is now what x saw, if x was not served before.
SawAll(s, t, x) ==
    /\ {t[i] : i \in DOMAIN t} = {s[i] : i \in DOMAIN s} \cup {x}
    /\ \A w, r : r # x =>
          ((\E i, j \in DOMAIN t : i < j /\ t[i] = w /\ t[j] = r)
              <=> (\E i, j \in DOMAIN s : i < j /\ s[i] = w /\ s[j] = r))
    /\ \A w : (\E i, j \in DOMAIN t : i < j /\ t[i] = w /\ t[j] = x)
                  <=> (\E i \in DOMAIN s : s[i] = w)

LEMMA ServedNow ==
    ASSUME NEW S, NEW s \in Seq(S), NEW x, \A i \in DOMAIN s : s[i] # x
    PROVE  SawAll(s, Append(s, x), x)
<1> DEFINE t == Append(s, x)
           n == Len(s) + 1
<1>1. /\ DOMAIN s = 1..Len(s) /\ DOMAIN t = 1..n /\ Len(s) \in Nat
      /\ \A i \in 1..Len(s) : t[i] = s[i]
      /\ t[n] = x
  OBVIOUS
<1>2. /\ n \in DOMAIN t /\ t[n] = x
      /\ \A i \in DOMAIN t : i = n \/ (i \in DOMAIN s /\ t[i] = s[i])
      /\ \A i \in DOMAIN s : i \in DOMAIN t /\ i < n /\ t[i] = s[i]
      /\ \A i \in DOMAIN t : ~(n < i)
  BY <1>1
<1> HIDE DEF t, n
<1>3. {t[i] : i \in DOMAIN t} = {s[i] : i \in DOMAIN s} \cup {x}
  BY <1>2
<1>4. ASSUME NEW w, NEW r, r # x
      PROVE  (\E i, j \in DOMAIN t : i < j /\ t[i] = w /\ t[j] = r)
                <=> (\E i, j \in DOMAIN s : i < j /\ s[i] = w /\ s[j] = r)
  BY <1>2, <1>4
<1>5. ASSUME NEW w
      PROVE  (\E i, j \in DOMAIN t : i < j /\ t[i] = w /\ t[j] = x) <=> (\E i \in DOMAIN s : s[i] = w)
  <2>1. ASSUME NEW i \in DOMAIN t, NEW j \in DOMAIN t, i < j, t[i] = w, t[j] = x
        PROVE  \E k \in DOMAIN s : s[k] = w
    BY <1>2, <2>1
  <2>2. ASSUME NEW i \in DOMAIN s, s[i] = w
        PROVE  \E k, j \in DOMAIN t : k < j /\ t[k] = w /\ t[j] = x
    BY <1>2, <2>2
  <2>3. QED
    BY <2>1, <2>2
<1>6. SawAll(s, t, x)
  BY <1>3, <1>4, <1>5 DEF SawAll
<1>7. QED
  BY <1>6 DEF t

LEMMA NotInSuffix ==
    ASSUME NEW S, NEW s \in Seq(S), NEW n \in Nat, n <= Len(s), NEW x,
           \A i \in 1..Len(s) : s[i] # x
    PROVE  \A i \in DOMAIN SubSeq(s, n + 1, Len(s)) : SubSeq(s, n + 1, Len(s))[i] # x
<1> DEFINE t == SubSeq(s, n + 1, Len(s))
<1>1. /\ t \in Seq(S) /\ Len(t) = Len(s) - n /\ Len(s) \in Nat
      /\ \A i \in 1..(Len(s) - n) : t[i] = s[i + n]
  BY SuffixType
<1>2. DOMAIN t = 1..(Len(s) - n)
  BY <1>1
<1> HIDE DEF t
<1>3. \A i \in DOMAIN t : i + n \in 1..Len(s) /\ t[i] = s[i + n]
  BY <1>1, <1>2
<1>4. \A i \in DOMAIN t : t[i] # x
  BY <1>3
<1>5. QED
  BY <1>4 DEF t

\* The PLC executes the request at the head of the pipe, for the first time.
Executed(x) ==
    /\ InPipe # <<>> /\ Head(InPipe) = x /\ InPipe' = Tail(InPipe)
    /\ x \notin Served /\ Served' = Served \cup {x}
    /\ \A r : r # x => SeenBy(r)' = SeenBy(r)
    /\ SeenBy(x)' = Served \cap Writes

LEMMA PlcExecutes ==
    ASSUME TypeOK, PipeInv, OrderInv, OrderInv', state = "running", state' = "running", NEW x,
           served' = Append(served, x), issued' = issued
    PROVE  Executed(x)
<1>1. /\ issued \in Seq(Requests) /\ served \in Seq(Requests)
      /\ Len(issued) \in Nat /\ Len(served) \in Nat /\ DOMAIN served = 1..Len(served)
      /\ \A i \in 1..Len(served) : served[i] = issued[i]
  BY DEF TypeOK, CallerTypeOK, PlcTypeOK, OrderInv, PlcSeesIssueOrder
<1>2. /\ Len(served') = Len(served) + 1 /\ served'[Len(served) + 1] = x
      /\ DOMAIN served' = 1..(Len(served) + 1)
  BY <1>1
<1>3. Len(served) + 1 <= Len(issued) /\ issued[Len(served) + 1] = x
  BY <1>1, <1>2 DEF OrderInv, PlcSeesIssueOrder
<1>4. InPipe # <<>> /\ Head(InPipe) = x /\ InPipe' = Tail(InPipe)
  <2>1. Len(served) < Len(issued) /\ Len(served') + 1 = Len(served) + 2
    BY <1>1, <1>2, <1>3
  <2>2. /\ InPipe = SubSeq(issued, Len(served) + 1, Len(issued))
        /\ InPipe' = SubSeq(issued, Len(served) + 2, Len(issued))
    BY <2>1 DEF InPipe
  <2>3. QED
    BY <1>1, <1>3, <2>1, <2>2, SuffixTail
<1>5. \A i \in DOMAIN served : served[i] # x
  <2>1. Len(served) + 1 \in 1..Len(issued)
        /\ \A i \in 1..Len(served) : i \in 1..Len(issued) /\ i # Len(served) + 1
    BY <1>1, <1>3
  <2>2. QED
    BY <1>1, <1>3, <2>1 DEF PipeInv
<1>6. SawAll(served, served', x)
  BY <1>1, <1>5, ServedNow
<1>7. x \notin Served /\ Served' = Served \cup {x}
  BY <1>5, <1>6 DEF Served, SawAll
<1>8. ASSUME NEW r, r # x PROVE SeenBy(r)' = SeenBy(r)
  BY <1>6, <1>8 DEF SeenBy, SawAll
<1>9. SeenBy(x)' = Served \cap Writes
  BY <1>6 DEF SeenBy, SawAll, Served
<1>10. QED
  BY <1>4, <1>7, <1>8, <1>9 DEF Executed

\* What a step that executes nothing leaves of the pipe's memory and samples.
LEMMA NothingExecuted ==
    ASSUME served' = served
    PROVE  /\ Served' = Served
           /\ \A r : SeenBy(r)' = SeenBy(r)
           /\ Samples' = Samples
BY DEF Served, SeenBy, Samples

LEMMA PipeSteps ==
    ~Collisions /\ TypeOK /\ WireInv /\ CallerInv /\ OrderInv /\ OrderInv' /\ PipeInv /\ [Next]_vars
        => [Pipe!Next]_Pipe!vars
<1> SUFFICES ASSUME ~Collisions, TypeOK, WireInv, CallerInv, OrderInv, OrderInv', PipeInv,
                    [Next]_vars
             PROVE  Pipe!Next \/ UNCHANGED Pipe!vars
  OBVIOUS
<1>0. /\ issued \in Seq(Requests) /\ served \in Seq(Requests)
      /\ Len(issued) \in Nat /\ Len(served) \in Nat /\ Len(served) <= Len(issued)
      /\ DOMAIN served = 1..Len(served) /\ DOMAIN issued = 1..Len(issued)
      /\ \A i \in 1..Len(served) : served[i] = issued[i]
      /\ reply \in [Reads -> {"unsent", "waiting", "ok", "canceled", "closed"}]
      /\ state \in {"running", "stopped", "panicked"}
      /\ Reads \cap Writes = {}
  BY ClientAssumption
  DEF TypeOK, ActorTypeOK, CallerTypeOK, PlcTypeOK, OrderInv, PlcSeesIssueOrder
<1>1. CASE UNCHANGED <<state, issued, served, reply, answers>>
  <2>1. Served' = Served /\ Samples' = Samples /\ \A r : SeenBy(r)' = SeenBy(r)
    BY <1>1, NothingExecuted
  <2>2. InPipe' = InPipe /\ Futures' = Futures /\ Deliveries' = Deliveries
    BY <1>1, <2>1 DEF InPipe, Futures, Deliveries
  <2>3. QED
    BY <1>1, <2>1, <2>2 DEF Pipe!vars
<1>2. ASSUME NEW x \in Requests, state = "running", UNCHANGED <<state, served, answers>>,
             issued' = Append(issued, x)
      PROVE  /\ InPipe' = Append(InPipe, x)
             /\ Served' = Served /\ Samples' = Samples /\ Deliveries' = Deliveries
  <2>1. Served' = Served /\ Samples' = Samples /\ \A r : SeenBy(r)' = SeenBy(r)
    BY <1>2, NothingExecuted
  <2>2. Len(served) \in 0..Len(issued)
    BY <1>0
  <2>3. SubSeq(Append(issued, x), Len(served) + 1, Len(Append(issued, x)))
           = Append(SubSeq(issued, Len(served) + 1, Len(issued)), x)
    BY <1>0, <2>2, SuffixAppend
  <2>4. InPipe' = Append(InPipe, x)
    BY <1>2, <2>3 DEF InPipe
  <2>5. Deliveries' = Deliveries
    BY <1>2, <2>1 DEF Deliveries
  <2>6. QED
    BY <2>1, <2>4, <2>5
<1>3. ASSUME NEW r \in Reads, IssueRead(r) PROVE Pipe!Next
  <2>1. /\ reply[r] = "unsent" /\ UNCHANGED <<state, served, answers>>
    BY <1>3 DEF IssueRead, actor, plcEnd
  <2>2. r \notin Served
    BY <1>0, <2>1 DEF Served, PipeInv
  <2>3. Futures[r] = "unsent"
    BY <2>1 DEF Futures
  <2>4. CASE state = "running"
    <3>1. issued' = Append(issued, r) /\ reply' = [reply EXCEPT ![r] = "waiting"]
      BY <1>3, <2>4 DEF IssueRead
    <3>2. /\ InPipe' = Append(InPipe, r)
          /\ Served' = Served /\ Samples' = Samples /\ Deliveries' = Deliveries
      BY <1>2, <2>1, <2>4, <3>1 DEF Requests
    <3>3. Futures' = [Futures EXCEPT ![r] = "waiting"]
      BY <1>0, <2>2, <3>1, <3>2 DEF Futures
    <3>4. Pipe!Ask(r)
      BY <2>1, <2>3, <2>4, <3>2, <3>3 DEF Pipe!Ask
    <3>5. QED
      BY <3>4 DEF Pipe!Next
  <2>5. CASE state # "running"
    <3>1. UNCHANGED issued /\ reply' = [reply EXCEPT ![r] = "closed"]
      BY <1>3, <2>5 DEF IssueRead
    <3>2. Served' = Served /\ Samples' = Samples /\ \A q : SeenBy(q)' = SeenBy(q)
      BY <2>1, NothingExecuted
    <3>3. InPipe' = InPipe /\ Deliveries' = Deliveries
      BY <2>1, <3>1, <3>2 DEF InPipe, Deliveries
    <3>4. Futures' = [Futures EXCEPT ![r] = "closed"]
      BY <1>0, <2>2, <3>1, <3>2 DEF Futures
    <3>5. Pipe!Refuse(r)
      BY <2>1, <2>3, <2>5, <3>2, <3>3, <3>4 DEF Pipe!Refuse
    <3>6. QED
      BY <3>5 DEF Pipe!Next
  <2>6. QED
    BY <2>4, <2>5
<1>4. ASSUME NEW w \in Writes, IssueWrite(w) PROVE Pipe!Next
  <2>1. /\ state = "running" /\ UNCHANGED <<state, served, answers, reply>>
        /\ issued' = Append(issued, w) /\ \A i \in 1..Len(issued) : issued[i] # w
    BY <1>0, <1>4 DEF IssueWrite, actor, plcEnd
  <2>2. /\ InPipe' = Append(InPipe, w)
        /\ Served' = Served /\ Samples' = Samples /\ Deliveries' = Deliveries
    BY <1>2, <2>1 DEF Requests
  <2>3. Futures' = Futures
    BY <2>1, <2>2 DEF Futures
  <2>4. w \notin Served
    BY <1>0, <2>1 DEF Served
  <2>5. \A i \in DOMAIN InPipe : InPipe[i] # w
    BY <1>0, <2>1, NotInSuffix DEF InPipe
  <2>6. Pipe!Tell(w)
    BY <2>1, <2>2, <2>3, <2>4, <2>5 DEF Pipe!Tell
  <2>7. QED
    BY <2>6 DEF Pipe!Next
<1>5. ASSUME NEW x, Executed(x), UNCHANGED <<state, issued, reply, answers>>
      PROVE  /\ Deliveries' = Deliveries
             /\ \A r \in Reads : r # x => Futures'[r] = Futures[r] /\ Samples'[r] = Samples[r]
  <2>1. \A a \in answers : a[2] # x
    BY <1>5 DEF Executed, PipeInv
  <2>2. Deliveries' = Deliveries
    BY <1>5, <2>1 DEF Executed, Deliveries
  <2>3. \A r \in Reads : r # x => Futures'[r] = Futures[r] /\ Samples'[r] = Samples[r]
    BY <1>5 DEF Executed, Futures, Samples
  <2>4. QED
    BY <2>2, <2>3
<1>6. CASE PlcAnswersRead
  <2>0. PICK r : r = Head(toPlc).of
    OBVIOUS
  <2>1. /\ state = "running" /\ UNCHANGED <<state, issued, reply, answers>>
        /\ served' = Append(served, r)
    BY <1>6, <2>0 DEF PlcAnswersRead, PlcReceives, actor, muxEnd
  <2>2. toPlc # <<>> /\ Head(toPlc).cmd = "ReadReq" /\ toPlc[1] = Head(toPlc) /\ Len(toPlc) >= 1
        /\ Len(toPlc) \in Nat
    BY <1>6, TailFacts DEF PlcAnswersRead, PlcReceives, TypeOK, QueueTypeOK
  <2>3. HeldIn(request_map, Head(toPlc))
    BY <2>2 DEF WireInv, Matched
  <2>4. r \in Reads /\ reply[r] = "waiting"
    BY <2>0, <2>1, <2>3 DEF HeldIn, CallerInv, Outstanding
  <2>5. Executed(r)
    BY <2>1, PlcExecutes
  <2>6. /\ Deliveries' = Deliveries
        /\ \A q \in Reads : q # r => Futures'[q] = Futures[q] /\ Samples'[q] = Samples[q]
    BY <1>5, <2>1, <2>5
  <2>7. /\ Futures[r] = "waiting" /\ Futures'[r] = "executed"
        /\ Samples'[r] = Served \cap Writes
    <3>1. r \notin Served /\ r \in Served' /\ reply'[r] = "waiting"
      BY <2>1, <2>4, <2>5 DEF Executed
    <3>2. SeenBy(r)' = Served \cap Writes
      BY <2>5 DEF Executed
    <3>3. Samples'[r] = SeenBy(r)'
      BY <2>4 DEF Samples
    <3>4. QED
      BY <2>4, <3>1, <3>2, <3>3 DEF Futures
  <2>8. Futures' = [Futures EXCEPT ![r] = "executed"]
    <3>1. DOMAIN Futures = Reads /\ DOMAIN Futures' = Reads
      BY DEF Futures
    <3>2. /\ Futures = [q \in Reads |-> Futures[q]]
          /\ Futures' = [q \in Reads |-> Futures'[q]]
      BY DEF Futures
    <3>3. QED
      BY <2>4, <2>6, <2>7, <3>1, <3>2
  <2>9. Samples' = [Samples EXCEPT ![r] = Served \cap Writes]
    <3>1. DOMAIN Samples = Reads
      BY DEF Samples
    <3>2. /\ Samples = [q \in Reads |-> Samples[q]]
          /\ Samples' = [q \in Reads |-> Samples'[q]]
      BY DEF Samples
    <3>3. QED
      BY <2>4, <2>6, <2>7, <3>1, <3>2
  <2>10. (Served \cap Writes)' = Served \cap Writes
    BY <1>0, <2>4, <2>5 DEF Executed
  <2>11. Pipe!ExecuteRead(r)
    BY <2>1, <2>5, <2>6, <2>7, <2>8, <2>9, <2>10 DEF Executed, Pipe!ExecuteRead, Pipe!Oldest
  <2>12. QED
    BY <2>4, <2>11 DEF Pipe!Next
<1>7. CASE PlcAnswersWrite
  <2>0. PICK w : w = Head(toPlc).of
    OBVIOUS
  <2>1. /\ state = "running" /\ UNCHANGED <<state, issued, reply, answers>>
        /\ served' = Append(served, w)
    BY <1>7, <2>0 DEF PlcAnswersWrite, PlcReceives, actor, muxEnd
  <2>2. w \in Writes
    BY <1>7, <2>0, ReceivedFrame, OutFields DEF PlcAnswersWrite
  <2>3. Executed(w)
    BY <2>1, PlcExecutes
  <2>4. /\ Deliveries' = Deliveries
        /\ \A q \in Reads : q # w => Futures'[q] = Futures[q] /\ Samples'[q] = Samples[q]
    BY <1>5, <2>1, <2>3
  <2>5. \A q \in Reads : q # w
    BY <1>0, <2>2
  <2>6. /\ Futures = [q \in Reads |-> Futures[q]] /\ Futures' = [q \in Reads |-> Futures'[q]]
        /\ Samples = [q \in Reads |-> Samples[q]] /\ Samples' = [q \in Reads |-> Samples'[q]]
    BY DEF Futures, Samples
  <2>7. Futures' = Futures /\ Samples' = Samples
    BY <2>4, <2>5, <2>6
  <2>8. (Served \cap Writes)' = (Served \cap Writes) \cup {w}
    BY <2>2, <2>3 DEF Executed
  <2>9. Pipe!ExecuteWrite(w)
    BY <2>1, <2>3, <2>4, <2>7, <2>8 DEF Executed, Pipe!ExecuteWrite, Pipe!Oldest
  <2>10. QED
    BY <2>2, <2>9 DEF Pipe!Next
<1>8. ASSUME NEW k \in 1..MaxBatch, OnReadRes(k) PROVE Pipe!Next
  <2>1. Decoded(k, "ReadRes") /\ state = "running"
    BY <1>8 DEF OnReadRes, Decoded
  <2>2. HeldIn(request_map, fromPlc[1])
    BY <2>1, DecodedFrame DEF WireInv, Matched, TypeOK, QueueTypeOK
  <2>0. PICK r : r = request_map[fromPlc[1].inv]
    OBVIOUS
  <2>3. r \in Reads /\ reply[r] = "waiting" /\ fromPlc[1].of = r
    BY <2>0, <2>1, <2>2 DEF HeldIn, CallerInv, Outstanding
  <2>4. /\ reply' = [reply EXCEPT ![r] = "ok"] /\ answers' = answers \cup {<<r, r>>}
        /\ UNCHANGED <<state, issued, served>>
    BY <1>8, <2>0, <2>2, <2>3 DEF OnReadRes, HeldIn, plcEnd
  <2>5. r \in Served
    BY <2>1, <2>3, DecodedFrame DEF PipeInv
  <2>6. Served' = Served /\ Samples' = Samples /\ \A q : SeenBy(q)' = SeenBy(q)
    BY <2>4, NothingExecuted
  <2>7. InPipe' = InPipe
    BY <2>4 DEF InPipe
  <2>8. Futures[r] = "executed" /\ Samples[r] = SeenBy(r)
    BY <2>3, <2>5 DEF Futures, Samples
  <2>9. Futures' = [Futures EXCEPT ![r] = "ok"]
    BY <1>0, <2>3, <2>4, <2>6 DEF Futures
  <2>10. Deliveries' = Deliveries \cup {<<r, SeenBy(r)>>}
    <3>1. Deliveries' = {<<a[1], SeenBy(a[2])>> : a \in answers \cup {<<r, r>>}}
      BY <2>4, <2>6 DEF Deliveries
    <3>2. <<r, r>>[1] = r /\ <<r, r>>[2] = r
      OBVIOUS
    <3>3. Deliveries' \subseteq Deliveries \cup {<<r, SeenBy(r)>>}
      BY <3>1, <3>2 DEF Deliveries
    <3>4. Deliveries \cup {<<r, SeenBy(r)>>} \subseteq Deliveries'
      <4>1. Deliveries \subseteq Deliveries'
        BY <3>1 DEF Deliveries
      <4>2. \A a \in {<<r, r>>} : <<a[1], SeenBy(a[2])>> \in Deliveries'
        BY <3>1
      <4>3. QED
        BY <3>2, <4>1, <4>2
    <3>5. QED
      BY <3>3, <3>4
  <2>11. Pipe!Deliver(r)
    BY <2>1, <2>4, <2>6, <2>7, <2>8, <2>9, <2>10 DEF Pipe!Deliver
  <2>12. QED
    BY <2>3, <2>11 DEF Pipe!Next
<1>9. CASE ConnectionLost
  <2>1. /\ state = "running" /\ state' = "stopped" /\ UNCHANGED <<issued, served, answers>>
    BY <1>9 DEF ConnectionLost, plcEnd
  <2>2. Served' = Served /\ Samples' = Samples /\ \A q : SeenBy(q)' = SeenBy(q)
    BY <2>1, NothingExecuted
  <2>3. InPipe' = <<>> /\ Deliveries' = Deliveries
    BY <2>1, <2>2 DEF InPipe, Deliveries
  <2>4. \A r \in Reads : r \in Pending => reply[r] = "waiting"
    BY <2>1 DEF CallerInv, Outstanding, Pending
  <2>5. \A r \in Reads : IF reply[r] = "waiting" THEN reply'[r] \in {"canceled", "closed"}
                                                ELSE reply'[r] = reply[r]
    BY <1>9, <2>4 DEF ConnectionLost
  <2>6. \A r \in Reads : Futures'[r] = reply'[r]
    BY <1>0, <2>5 DEF Futures
  <2>7. \A r \in Reads : IF Futures[r] \in {"waiting", "executed"}
                         THEN Futures'[r] \in {"canceled", "closed"}
                         ELSE Futures'[r] = Futures[r]
    BY <1>0, <2>5, <2>6 DEF Futures
  <2>8. Futures' \in [Reads -> Pipe!ReplyState]
    <3>1. reply' \in [Reads -> {"unsent", "waiting", "ok", "canceled", "closed"}]
      BY NextType DEF TypeOK, CallerTypeOK
    <3>2. Futures' = [r \in Reads |-> Futures'[r]]
      BY DEF Futures
    <3>3. \A r \in Reads : Futures'[r] \in Pipe!ReplyState
      BY <2>6, <3>1 DEF Pipe!ReplyState
    <3>4. QED
      BY <3>2, <3>3
  <2>9. Pipe!Lose
    BY <2>1, <2>2, <2>3, <2>7, <2>8 DEF Pipe!Lose
  <2>10. QED
    BY <2>9 DEF Pipe!Next
<1>10. CASE HandleReadReq
  BY <1>1, <1>10 DEF HandleReadReq, DrawIds, plcEnd
<1>11. QED
  BY <1>1, <1>3, <1>4, <1>6, <1>7, <1>8, <1>9, <1>10
  DEF Next, vars, actor, muxEnd, plcEnd, HandleMessage, OnPacket, PlcServe, TakeWrite, MuxStops,
      HandleRegister, HandleUnregister, HandleWriteReq, OnReadReq, OnWriteReq, OnWriteRes,
      PlcTakesResponse, PlcSendsWrite, PlcSendsRead

\* When no random id collides, the actor, the connection and the PLC are the pipe
\* that the model of the multiplexer puts between it and the PLC's memory: the
\* requests execute in the order issued, and an answer is the PLC's memory after
\* the writes issued before the read and before any issued after it.
THEOREM ClientImplementsPipe == ~Collisions => (Spec => PipeSpec)
<1> SUFFICES ASSUME ~Collisions PROVE Spec => PipeSpec
  OBVIOUS
<1> DEFINE Inv == TypeOK /\ WireInv /\ CallerInv /\ OrderInv /\ PipeInv
<1>1. Init => Inv
  BY InitType, InitWire, InitCaller, OrderInit, PipeInit
<1>2. Inv /\ [Next]_vars => Inv'
  BY FreshIds, NextType, NextWire, NextCaller, OrderNext, PipeNext
<1>3. Inv /\ [Next]_vars => [Pipe!Next]_Pipe!vars
  BY OrderNext, PipeSteps
<1> HIDE DEF Inv
<1>4. QED
  BY <1>1, <1>2, <1>3, PipeStarts, PTL DEF Spec, PipeSpec, Pipe!Spec
=============================================================================
