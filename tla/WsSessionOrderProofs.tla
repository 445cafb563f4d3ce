------------------------ MODULE WsSessionOrderProofs ------------------------
(***************************************************************************)
(* Proofs about the order in which the messages of a session take effect   *)
(* in WsSession: what the multiplexer knows of it, what its Resolve finds, *)
(* and what it is left showing.                                            *)
(***************************************************************************)
EXTENDS WsSessionProofs

-----------------------------------------------------------------------------
\* The registry.

\* A session has a message of this kind on the way in a mailbox.
Marked(q, s, kind) == \E i \in 1..Len(q) : q[i].from = s /\ q[i].kind = kind

\* Its hello lies before its goodbye.
HelloFirst(q, s) ==
    \A i, j \in 1..Len(q) :
        (/\ q[i].from = s /\ q[i].kind = "register"
         /\ q[j].from = s /\ q[j].kind = "unregister") => i < j

RegistryOf(s, ph, q, known) ==
    /\ HelloFirst(q, s)
    /\ ph = "new" => ~Marked(q, s, "register") /\ ~Marked(q, s, "unregister") /\ s \notin known
    /\ ph \in {"open", "dead"} =>
          ~Marked(q, s, "unregister") /\ (Marked(q, s, "register") \/ s \in known)
    /\ ph = "closed" =>
          Marked(q, s, "unregister") \/ (~Marked(q, s, "register") /\ s \notin known)

\* Only what is sent with `send` can wait for room.
MayWait == {"resolve", "subscription"}
ParkWaits == \A s \in Sessions : \A i \in 1..Len(parked[s]) : parked[s][i].kind \in MayWait

RegistryInv ==
    /\ RouteInv /\ ParkWaits
    /\ \A p \in Plcs : \A s \in Clients(p) : alive[p] =>
          RegistryOf(s, phase[s], mailbox[p], ws_clients[p])

\* What a mailbox is after a message has come or gone.
LEMMA AppendParts ==
    ASSUME NEW S, NEW q \in Seq(S), NEW m \in S
    PROVE  /\ Append(q, m) \in Seq(S) /\ Len(q) \in Nat
           /\ Len(Append(q, m)) = Len(q) + 1
           /\ \A i \in 1..Len(q) : Append(q, m)[i] = q[i]
           /\ Append(q, m)[Len(q) + 1] = m
OBVIOUS

LEMMA TailParts ==
    ASSUME NEW S, NEW q \in Seq(S), q # <<>>
    PROVE  /\ Tail(q) \in Seq(S) /\ Len(q) \in Nat /\ Len(q) >= 1
           /\ Len(Tail(q)) = Len(q) - 1
           /\ \A i \in 1..(Len(q) - 1) : Tail(q)[i] = q[i + 1]
           /\ Head(q) = q[1] /\ q[1] \in S
OBVIOUS

LEMMA MarkedAppend ==
    ASSUME NEW S, NEW q \in Seq(S), NEW m \in S, NEW s, NEW kind
    PROVE  Marked(Append(q, m), s, kind) <=> Marked(q, s, kind) \/ (m.from = s /\ m.kind = kind)
<1> DEFINE t == Append(q, m)
           n == Len(q)
<1>1. /\ n \in Nat /\ Len(t) = n + 1 /\ t[n + 1] = m
      /\ \A i \in 1..n : t[i] = q[i]
  BY AppendParts
<1> HIDE DEF t
<1>2. Marked(q, s, kind) <=> \E i \in 1..n : q[i].from = s /\ q[i].kind = kind
  BY DEF Marked
<1>3. Marked(t, s, kind) <=> \E i \in 1..(n + 1) : t[i].from = s /\ t[i].kind = kind
  BY <1>1 DEF Marked
<1> HIDE DEF n
<1>5. Marked(t, s, kind) <=> Marked(q, s, kind) \/ (m.from = s /\ m.kind = kind)
  <2>1. /\ t[n + 1] = m /\ n + 1 \in 1..(n + 1)
        /\ \A i \in 1..n : i \in 1..(n + 1) /\ t[i] = q[i]
        /\ \A i \in 1..(n + 1) : i \in 1..n \/ i = n + 1
    BY <1>1
  <2>2. QED BY ONLY <1>2, <1>3, <2>1
<1>6. QED BY <1>5 DEF t

LEMMA MarkedTail ==
    ASSUME NEW S, NEW q \in Seq(S), q # <<>>, NEW s, NEW kind
    PROVE  Marked(q, s, kind) <=>
              Marked(Tail(q), s, kind) \/ (Head(q).from = s /\ Head(q).kind = kind)
<1> DEFINE t == Tail(q)
           n == Len(q)
<1>1. /\ n \in Nat /\ n >= 1 /\ Len(t) = n - 1 /\ Head(q) = q[1]
      /\ \A i \in 1..(n - 1) : t[i] = q[i + 1]
  BY TailParts
<1> HIDE DEF t
<1>2. Marked(q, s, kind) <=> \E i \in 1..n : q[i].from = s /\ q[i].kind = kind
  BY DEF Marked
<1>3. Marked(t, s, kind) <=> \E i \in 1..(n - 1) : t[i].from = s /\ t[i].kind = kind
  BY <1>1 DEF Marked
<1> HIDE DEF n
<1>4. \A i \in 1..n : i = 1 \/ (i - 1 \in 1..(n - 1) /\ t[i - 1] = q[i])
  BY <1>1
<1>5. \A i \in 1..(n - 1) : i + 1 \in 1..n
  BY <1>1
<1>6. 1 \in 1..n
  BY <1>1
<1>7. QED BY <1>1, <1>2, <1>3, <1>4, <1>5, <1>6 DEF t

LEMMA HelloAppend ==
    ASSUME NEW S, NEW q \in Seq(S), NEW m \in S, NEW s, HelloFirst(q, s),
           m.from = s /\ m.kind = "register" => ~Marked(q, s, "unregister")
    PROVE  HelloFirst(Append(q, m), s)
<1> DEFINE t == Append(q, m)
           n == Len(q)
<1>1. /\ n \in Nat /\ Len(t) = n + 1 /\ t[n + 1] = m
      /\ \A i \in 1..n : t[i] = q[i]
  BY AppendParts
<1> HIDE DEF t
<1>0. SUFFICES HelloFirst(t, s)
  BY DEF t
<1>2. SUFFICES ASSUME NEW i \in 1..(n + 1), NEW j \in 1..(n + 1),
                      t[i].from = s, t[i].kind = "register",
                      t[j].from = s, t[j].kind = "unregister"
               PROVE  i < j
  BY <1>1 DEF HelloFirst
<1>3. \A a, b \in 1..n : (/\ q[a].from = s /\ q[a].kind = "register"
                          /\ q[b].from = s /\ q[b].kind = "unregister") => a < b
  BY DEF HelloFirst
<1>4. i = n + 1 => \A b \in 1..n : ~(q[b].from = s /\ q[b].kind = "unregister")
  BY <1>1, <1>2 DEF Marked
<1> HIDE DEF n
<1>5. i \in 1..n \/ i = n + 1
  BY <1>1
<1>6. j \in 1..n \/ j = n + 1
  BY <1>1
<1>7. CASE i = n + 1
  BY <1>1, <1>2, <1>4, <1>6, <1>7
<1>8. CASE i \in 1..n /\ j = n + 1
  BY <1>1, <1>8
<1>9. CASE i \in 1..n /\ j \in 1..n
  BY <1>1, <1>2, <1>3, <1>9
<1>10. QED BY <1>5, <1>6, <1>7, <1>8, <1>9

LEMMA HelloTail ==
    ASSUME NEW S, NEW q \in Seq(S), q # <<>>, NEW s, HelloFirst(q, s)
    PROVE  /\ HelloFirst(Tail(q), s)
           /\ Head(q).from = s /\ Head(q).kind = "unregister" => ~Marked(Tail(q), s, "register")
<1> DEFINE t == Tail(q)
           n == Len(q)
<1>1. /\ n \in Nat /\ n >= 1 /\ Len(t) = n - 1 /\ Head(q) = q[1]
      /\ \A i \in 1..(n - 1) : t[i] = q[i + 1]
  BY TailParts
<1> HIDE DEF t
<1>2. \A a, b \in 1..n : (/\ q[a].from = s /\ q[a].kind = "register"
                          /\ q[b].from = s /\ q[b].kind = "unregister") => a < b
  BY DEF HelloFirst
<1> HIDE DEF n
<1>3. \A i \in 1..(n - 1) : i + 1 \in 1..n
  BY <1>1
<1>4. HelloFirst(t, s)
  <2> SUFFICES ASSUME NEW i \in 1..(n - 1), NEW j \in 1..(n - 1),
                      t[i].from = s, t[i].kind = "register",
                      t[j].from = s, t[j].kind = "unregister"
               PROVE  i < j
    BY <1>1 DEF HelloFirst
  <2>1. i + 1 < j + 1
    BY <1>1, <1>2, <1>3
  <2>2. QED BY <1>1, <2>1
<1>5. ASSUME q[1].from = s, q[1].kind = "unregister"
      PROVE  ~Marked(t, s, "register")
  <2> SUFFICES ASSUME NEW i \in 1..(n - 1), t[i].from = s, t[i].kind = "register"
               PROVE  FALSE
    BY <1>1 DEF Marked
  <2>1. 1 \in 1..n
    BY <1>1
  <2>2. i + 1 < 1
    BY <1>1, <1>2, <1>3, <1>5, <2>1
  <2>3. QED BY <1>1, <2>2
<1>6. QED BY <1>1, <1>4, <1>5 DEF t

\* How the registry of one session follows what is sent and handled.
LEMMA RegistrySend ==
    ASSUME NEW S, NEW q \in Seq(S), NEW m \in S, NEW s, NEW ph, NEW known,
           RegistryOf(s, ph, q, known),
           m.from = s => m.kind \notin {"register", "unregister"}
    PROVE  RegistryOf(s, ph, Append(q, m), known)
<1>1. /\ Marked(Append(q, m), s, "register") <=> Marked(q, s, "register")
      /\ Marked(Append(q, m), s, "unregister") <=> Marked(q, s, "unregister")
  BY MarkedAppend
<1>2. HelloFirst(Append(q, m), s)
  BY HelloAppend DEF RegistryOf
<1>3. QED BY <1>1, <1>2 DEF RegistryOf

LEMMA RegistryDead ==
    ASSUME NEW q, NEW s, NEW known, RegistryOf(s, "open", q, known)
    PROVE  RegistryOf(s, "dead", q, known)
BY DEF RegistryOf

LEMMA RegistryHello ==
    ASSUME NEW S, NEW q \in Seq(S), NEW m \in S, NEW s, NEW known,
           RegistryOf(s, "new", q, known), m.from = s, m.kind = "register"
    PROVE  RegistryOf(s, "open", Append(q, m), known)
<1>1. /\ Marked(Append(q, m), s, "register")
      /\ Marked(Append(q, m), s, "unregister") <=> Marked(q, s, "unregister")
  BY MarkedAppend
<1>2. HelloFirst(Append(q, m), s)
  BY HelloAppend DEF RegistryOf
<1>3. QED BY <1>1, <1>2 DEF RegistryOf

LEMMA RegistryBye ==
    ASSUME NEW S, NEW q \in Seq(S), NEW m \in S, NEW s, NEW known,
           RegistryOf(s, "open", q, known), m.from = s, m.kind = "unregister"
    PROVE  RegistryOf(s, "closed", Append(q, m), known)
<1>1. Marked(Append(q, m), s, "unregister")
  BY MarkedAppend
<1>2. HelloFirst(Append(q, m), s)
  BY HelloAppend DEF RegistryOf
<1>3. QED BY <1>1, <1>2 DEF RegistryOf

LEMMA RegistryHandled ==
    ASSUME NEW S, NEW q \in Seq(S), q # <<>>, NEW s, NEW ph, NEW known, NEW left,
           RegistryOf(s, ph, q, known),
           Head(q).kind = "register" => left = known \cup {Head(q).from},
           Head(q).kind = "unregister" => left = known \ {Head(q).from},
           Head(q).kind \notin {"register", "unregister"} => left = known
    PROVE  RegistryOf(s, ph, Tail(q), left)
<1> DEFINE h == Head(q)
           t == Tail(q)
<1>1. /\ \A kind : Marked(q, s, kind) <=> Marked(t, s, kind) \/ (h.from = s /\ h.kind = kind)
      /\ HelloFirst(t, s)
      /\ h.from = s /\ h.kind = "unregister" => ~Marked(t, s, "register")
  BY MarkedTail, HelloTail DEF RegistryOf
<1>2. /\ h.kind = "register" => left = known \cup {h.from}
      /\ h.kind = "unregister" => left = known \ {h.from}
      /\ h.kind \notin {"register", "unregister"} => left = known
  OBVIOUS
<1> SUFFICES RegistryOf(s, ph, t, left)
  OBVIOUS
<1> HIDE DEF h, t
<1>3. CASE h.from = s /\ h.kind = "register"
  BY <1>1, <1>2, <1>3 DEF RegistryOf
<1>4. CASE h.from = s /\ h.kind = "unregister"
  BY <1>1, <1>2, <1>4 DEF RegistryOf
<1>5. CASE ~(h.from = s /\ h.kind \in {"register", "unregister"})
  <2>1. s \in left <=> s \in known
    BY <1>2, <1>5
  <2>2. /\ Marked(q, s, "register") <=> Marked(t, s, "register")
        /\ Marked(q, s, "unregister") <=> Marked(t, s, "unregister")
    BY <1>1, <1>5
  <2>3. QED BY <1>1, <2>1, <2>2 DEF RegistryOf
<1>6. QED BY <1>3, <1>4, <1>5

-----------------------------------------------------------------------------
\* The steps of a session, seen from the server.

LEMMA SessionCalls ==
    ASSUME NEW w \in Sessions, Session(w)
    PROVE  UNCHANGED <<url, alive, clientUp, ws_clients, subscribers, mirror, pipe, replies, plc, order>>
<1>1. ASSUME NEW s, WorkerDies(s)
      PROVE  UNCHANGED <<alive, clientUp, ws_clients, subscribers, mirror, pipe, replies, plc, order>>
  BY <1>1 DEF WorkerDies, lifecycle, registry, requests
<1>2. CASE Start(w)
  BY <1>1, <1>2 DEF Start, lifecycle, registry, requests
<1>3. CASE Stop(w)
  BY <1>3 DEF Stop, lifecycle, registry, requests
<1>4. CASE OnText(w)
  BY <1>1, <1>4 DEF OnText, SendMutation, SendResolve, SendSubscription, SendMalformed,
                    lifecycle, registry, requests
<1>5. CASE Unpark(w) \/ ShowNotice(w)
  BY <1>5 DEF Unpark, ShowNotice, browser, lifecycle, registry, requests
<1>6. CASE ShowAnswer(w)
  BY <1>1, <1>6 DEF ShowAnswer, lifecycle, registry, requests
<1>7. QED BY <1>2, <1>3, <1>4, <1>5, <1>6 DEF Session

LEMMA SentParts ==
    ASSUME NEW s \in Sessions, NEW kind, NEW v, Message(kind, s, v) \in Sent({s})
    PROVE  Message(kind, s, v).kind = kind /\ Message(kind, s, v).from = s /\ Message(kind, s, v).v = v
BY DEF Message

\* What goes into the list of those that wait.
LEMMA SendOrParkWaits ==
    ASSUME TypeInv, ParkWaits, NEW s \in Sessions, NEW m \in Messages, m.kind \in MayWait,
           SendOrPark(s, m)
    PROVE  ParkWaits'
<1>1. CASE UNCHANGED parked
  BY <1>1 DEF ParkWaits
<1>2. CASE parked' = [parked EXCEPT ![s] = Append(@, m)]
  <2>1. /\ parked \in [Sessions -> Seq(Messages)]
        /\ \A t \in Sessions : \A i \in 1..Len(parked[t]) : parked[t][i].kind \in MayWait
    BY DEF TypeInv, TypeOK, SessionTypeOK, ParkWaits
  <2>2. /\ parked'[s] = Append(parked[s], m) /\ parked[s] \in Seq(Messages)
        /\ \A t \in Sessions \ {s} : parked'[t] = parked[t]
    BY ONLY <1>2, <2>1, s \in Sessions
  <2>3. /\ Len(parked[s]) \in Nat /\ Len(parked'[s]) = Len(parked[s]) + 1
        /\ \A i \in 1..Len(parked[s]) : parked'[s][i] = parked[s][i]
        /\ parked'[s][Len(parked[s]) + 1] = m
    BY <2>2, AppendParts
  <2>4. \A i \in 1..Len(parked'[s]) : parked'[s][i].kind \in MayWait
    <3> SUFFICES ASSUME NEW i \in 1..Len(parked'[s]) PROVE parked'[s][i].kind \in MayWait
      OBVIOUS
    <3>1. i \in 1..Len(parked[s]) \/ i = Len(parked[s]) + 1
      BY <2>3
    <3>2. QED BY <2>1, <2>3, <3>1
  <2>5. QED BY <2>1, <2>2, <2>4 DEF ParkWaits, MayWait
<1>3. QED BY <1>1, <1>2 DEF SendOrPark

LEMMA ParkWaitsReset ==
    ASSUME ParkWaits, \A t \in Sessions : parked'[t] = parked[t] \/ parked'[t] = <<>>
    PROVE  ParkWaits'
BY DEF ParkWaits, MayWait

LEMMA WorkerDiesReset ==
    ASSUME TypeInv, NEW s \in Sessions, WorkerDies(s)
    PROVE  /\ \A t \in Sessions : parked'[t] = parked[t] \/ parked'[t] = <<>>
           /\ \A t \in Sessions \ {s} : phase'[t] = phase[t] \/ (Open(t) /\ phase'[t] = "dead")
           /\ phase'[s] = "dead"
           /\ UNCHANGED mailbox
BY DEF WorkerDies

\* A session opens with a hello, closes with a goodbye, and sends neither otherwise;
\* one that dies was open, or had nobody to say hello to.
SaysHello(w) ==
    /\ phase[w] = "new" /\ Known(url[w]) /\ phase' = [phase EXCEPT ![w] = "open"]
    /\ DoSend(w, Message("register", w, Loaded))
SaysBye(w) ==
    /\ Open(w) /\ Known(url[w]) /\ phase' = [phase EXCEPT ![w] = "closed"]
    /\ DoSend(w, Message("unregister", w, Loaded))
SaysNeither(w) ==
    /\ \A t \in Sessions :
          phase'[t] = phase[t] \/ (phase'[t] = "dead" /\ (Known(url[t]) => Open(t)))
    /\ \/ UNCHANGED mailbox
       \/ /\ Open(w) /\ Known(url[w])
          /\ \E m \in Sent({w}) : m.kind \notin {"register", "unregister"} /\ DoSend(w, m)

LEMMA SessionSays ==
    ASSUME RouteInv, ParkWaits, NEW w \in Sessions, Session(w)
    PROVE  ParkWaits' /\ (SaysHello(w) \/ SaysBye(w) \/ SaysNeither(w))
<1>0. TypeInv /\ (Open(w) => Known(url[w]))
  BY DEF RouteInv, TypeInv
<1>1. CASE Start(w)
  <2>1. CASE WorkerDies(w) /\ ~Known(url[w])
    BY <1>0, <2>1, WorkerDiesReset, ParkWaitsReset DEF SaysNeither
  <2>2. CASE ~(WorkerDies(w) /\ ~Known(url[w]))
    BY <1>1, <2>2, ParkWaitsReset DEF Start, SaysHello
  <2>3. QED BY <2>1, <2>2
<1>2. CASE Stop(w)
  <2>1. \A t \in Sessions : parked'[t] = parked[t] \/ parked'[t] = <<>>
    BY <1>0, <1>2 DEF Stop, TypeInv, TypeOK, SessionTypeOK
  <2>2. QED BY <1>0, <1>2, <2>1, ParkWaitsReset DEF Stop, SaysBye
<1>3. CASE OnText(w)
  <2>0. Open(w) /\ Known(url[w])
    BY <1>0, <1>3 DEF OnText
  <2>1. CASE SendMutation(w)
    <3>1. sent'[w] \in 1..MaxTexts
      <4>1. sent'[w] = sent[w] + 1 /\ sent[w] \in 0..texts /\ texts < MaxTexts
        BY <1>0, <1>3, <2>1, TextsType DEF SendMutation, OnText
      <4>2. texts \in Nat /\ MaxTexts \in Nat
        BY <1>0, TextsType
      <4>3. QED BY ONLY <4>1, <4>2
    <3>2. Message("mutation", w, <<w, sent'[w]>>) \in Sent({w})
      BY <3>1, SentBy
    <3>3. Message("mutation", w, <<w, sent'[w]>>).kind = "mutation"
      BY DEF Message
    <3>4. QED
      BY <2>0, <2>1, <3>2, <3>3, ParkWaitsReset DEF SendMutation, SaysNeither
  <2>2. ASSUME NEW kind \in MayWait, SendOrPark(w, Message(kind, w, Loaded)), UNCHANGED phase
        PROVE  ParkWaits' /\ SaysNeither(w)
    <3>1. Message(kind, w, Loaded) \in Sent({w}) /\ Message(kind, w, Loaded).kind = kind
      BY SentBy DEF Message, MayWait
    <3>2. Message(kind, w, Loaded) \in Messages
      BY <3>1, SentBy, SentMessage
    <3>3. ParkWaits'
      BY <1>0, <2>2, <3>1, <3>2, SendOrParkWaits
    <3>4. QED BY <2>0, <2>2, <3>1, <3>3 DEF SendOrPark, SaysNeither, MayWait
  <2>3. CASE SendResolve(w)
    BY <2>2, <2>3 DEF SendResolve, MayWait
  <2>4. CASE SendSubscription(w)
    BY <2>2, <2>4 DEF SendSubscription, MayWait
  <2>5. CASE SendMalformed(w)
    BY <1>0, <2>0, <2>5, WorkerDiesReset, ParkWaitsReset DEF SendMalformed, SaysNeither
  <2>6. QED BY <1>3, <2>1, <2>3, <2>4, <2>5 DEF OnText
<1>4. CASE Unpark(w)
  <2>1. /\ parked[w] \in Seq(Sent({w})) /\ parked[w] # <<>> /\ Open(w)
        /\ parked \in [Sessions -> Seq(Messages)]
    BY <1>0, <1>4 DEF Unpark, RouteInv, ParkRouted, TypeInv, TypeOK, SessionTypeOK, GoneIsIdle
  <2> DEFINE q == parked[w]
  <2>2. /\ Len(q) \in Nat /\ Len(q) >= 1 /\ Head(q) = q[1] /\ q[1] \in Sent({w})
        /\ Len(Tail(q)) = Len(q) - 1 /\ \A i \in 1..(Len(q) - 1) : Tail(q)[i] = q[i + 1]
    BY <2>1, TailParts
  <2>3. \A i \in 1..Len(q) : q[i].kind \in MayWait
    BY DEF ParkWaits
  <2>4. parked'[w] = Tail(q) /\ \A t \in Sessions \ {w} : parked'[t] = parked[t]
    BY <1>4, <2>1 DEF Unpark
  <2> HIDE DEF q
  <2>5. \A i \in 1..Len(parked'[w]) : parked'[w][i].kind \in MayWait
    <3> SUFFICES ASSUME NEW i \in 1..Len(parked'[w]) PROVE parked'[w][i].kind \in MayWait
      OBVIOUS
    <3>1. i \in 1..(Len(q) - 1) /\ i + 1 \in 1..Len(q)
      BY <2>2, <2>4
    <3>2. QED BY <2>2, <2>3, <2>4, <3>1
  <2>6. ParkWaits'
    BY <2>4, <2>5 DEF ParkWaits, MayWait
  <2>7. Head(q) \in Sent({w}) /\ Head(q).kind \in MayWait
    <3>1. 1 \in 1..Len(q)
      BY <2>2
    <3>2. QED BY <2>2, <2>3, <3>1
  <2>8. QED BY <1>0, <1>4, <2>1, <2>6, <2>7 DEF Unpark, browser, SaysNeither, MayWait, q
<1>5. CASE ShowNotice(w)
  BY <1>5, ParkWaitsReset DEF ShowNotice, browser, SaysNeither
<1>6. CASE ShowAnswer(w)
  <2>1. CASE WorkerDies(w) /\ future[w].st = "failed"
    <3>1. Open(w)
      BY <1>0, <2>1 DEF TypeInv, TypeOK, GoneIsIdle, NoFuture
    <3>2. QED BY <1>0, <2>1, <3>1, WorkerDiesReset, ParkWaitsReset DEF SaysNeither
  <2>2. CASE UNCHANGED <<phase, parked, mailbox>>
    BY <2>2, ParkWaitsReset DEF SaysNeither
  <2>3. QED BY <1>6, <2>1, <2>2 DEF ShowAnswer
<1>7. QED BY <1>1, <1>2, <1>3, <1>4, <1>5, <1>6 DEF Session

-----------------------------------------------------------------------------
\* The steps of the registry.

\* Where a message goes that a session sends.
LEMMA DoSendMail ==
    ASSUME RouteInv, NEW w \in Sessions, Known(url[w]), NEW m, DoSend(w, m), NEW p \in Plcs
    PROVE  IF alive[p] /\ Mux(w) = p THEN mailbox'[p] = Append(mailbox[p], m)
                                     ELSE mailbox'[p] = mailbox[p]
BY KnownTarget DEF DoSend, RouteInv, TypeInv, TypeOK, ServerTypeOK

LEMMA MailOf ==
    ASSUME RouteInv, NEW p \in Plcs
    PROVE  /\ mailbox[p] \in Seq(Sent(Clients(p))) /\ mailbox[p] \in Seq(Messages)
           /\ DOMAIN mailbox = Plcs
BY DEF RouteInv, MailRouted, TypeInv, TypeOK, ServerTypeOK

LEMMA RegistrySession ==
    ASSUME RegistryInv, NEW w \in Sessions, Session(w), NEW p \in Plcs, NEW s \in Clients(p), alive[p]
    PROVE  RegistryOf(s, phase'[s], mailbox'[p], ws_clients[p])
<1> DEFINE q == mailbox[p]
           known == ws_clients[p]
<1>0. /\ RouteInv /\ ParkWaits /\ RegistryOf(s, phase[s], q, known)
      /\ s \in Sessions /\ Known(url[s]) /\ Mux(s) = p
      /\ q \in Seq(Messages) /\ phase \in [Sessions -> {"new", "open", "closed", "dead"}]
  BY MailOf DEF RegistryInv, RouteInv, TypeInv, TypeOK, BrowserTypeOK, Clients
<1>1. \A m \in Sent({w}) : m.from = w /\ m \in Messages
  BY SentBy, SentMessage DEF Sent
<1>2. CASE SaysHello(w)
  <2> DEFINE m == Message("register", w, Loaded)
  <2>1. m \in Messages /\ m.from = w /\ m.kind = "register"
    BY <1>1, SentBy DEF Message
  <2>2. CASE s = w
    <3>1. phase[s] = "new" /\ phase'[s] = "open" /\ mailbox'[p] = Append(q, m)
      BY <1>0, <1>2, <2>2, DoSendMail DEF SaysHello
    <3> HIDE DEF m
    <3>2. QED BY <1>0, <2>1, <2>2, <3>1, RegistryHello
  <2>3. CASE s # w
    <3>1. phase'[s] = phase[s] /\ mailbox'[p] \in {q, Append(q, m)}
      BY <1>0, <1>2, <2>3, DoSendMail DEF SaysHello
    <3> HIDE DEF m
    <3>2. QED BY <1>0, <2>1, <2>3, <3>1, RegistrySend
  <2>4. QED BY <2>2, <2>3
<1>3. CASE SaysBye(w)
  <2> DEFINE m == Message("unregister", w, Loaded)
  <2>1. m \in Messages /\ m.from = w /\ m.kind = "unregister"
    BY <1>1, SentBy DEF Message
  <2>2. CASE s = w
    <3>1. phase[s] = "open" /\ phase'[s] = "closed" /\ mailbox'[p] = Append(q, m)
      BY <1>0, <1>3, <2>2, DoSendMail DEF SaysBye, Open
    <3> HIDE DEF m
    <3>2. QED BY <1>0, <2>1, <2>2, <3>1, RegistryBye
  <2>3. CASE s # w
    <3>1. phase'[s] = phase[s] /\ mailbox'[p] \in {q, Append(q, m)}
      BY <1>0, <1>3, <2>3, DoSendMail DEF SaysBye
    <3> HIDE DEF m
    <3>2. QED BY <1>0, <2>1, <2>3, <3>1, RegistrySend
  <2>4. QED BY <2>2, <2>3
<1>4. CASE SaysNeither(w)
  <2>1. \/ mailbox'[p] = q
        \/ \E m \in Sent({w}) : m.kind \notin {"register", "unregister"} /\ mailbox'[p] = Append(q, m)
    BY <1>0, <1>4, DoSendMail DEF SaysNeither
  <2>2. RegistryOf(s, phase[s], mailbox'[p], known)
    BY <1>0, <1>1, <2>1, RegistrySend
  <2>3. phase'[s] = phase[s] \/ (phase[s] = "open" /\ phase'[s] = "dead")
    BY <1>0, <1>4 DEF SaysNeither, Open
  <2>4. QED BY <2>2, <2>3, RegistryDead
<1>5. QED BY <1>0, <1>2, <1>3, <1>4, SessionSays

LEMMA RegistryHandle ==
    ASSUME RegistryInv, NEW r \in Plcs, Handle(r), NEW p \in Plcs, NEW s \in Clients(p), alive[p]
    PROVE  RegistryOf(s, phase[s], mailbox'[p], ws_clients'[p])
<1> DEFINE q == mailbox[p]
           known == ws_clients[p]
<1>0. /\ RegistryOf(s, phase[s], q, known)
      /\ q \in Seq(Messages) /\ ws_clients \in [Plcs -> SUBSET Sessions] /\ DOMAIN mailbox = Plcs
  BY MailOf DEF RegistryInv, RouteInv, TypeInv, TypeOK, ServerTypeOK
<1>1. CASE p # r
  <2>1. mailbox'[p] = q /\ ws_clients'[p] = known
    BY <1>0, <1>1 DEF Handle, Registered, Unregistered, OnMutation, OnResolve, OnSubscription, registry
  <2>2. QED BY <1>0, <2>1
<1>2. CASE p = r
  <2>1. mailbox'[p] = Tail(q) /\ q # <<>>
    BY <1>0, <1>2 DEF Handle
  <2>2. /\ Head(q).kind = "register" => ws_clients'[p] = known \cup {Head(q).from}
        /\ Head(q).kind = "unregister" => ws_clients'[p] = known \ {Head(q).from}
        /\ Head(q).kind \notin {"register", "unregister"} => ws_clients'[p] = known
    BY <1>0, <1>2 DEF Handle, Registered, Unregistered, OnMutation, OnResolve, OnSubscription, registry
  <2>3. QED BY <1>0, <2>1, <2>2, RegistryHandled
<1>3. QED BY <1>1, <1>2

LEMMA RegistryInit == Init => RegistryInv
<1> SUFFICES ASSUME Init PROVE RegistryInv
  OBVIOUS
<1>1. RouteInv
  BY RouteInit
<1>2. ParkWaits
  BY DEF Init, ParkWaits
<1>3. ASSUME NEW p \in Plcs, NEW s \in Clients(p)
      PROVE  RegistryOf(s, phase[s], mailbox[p], ws_clients[p])
  BY DEF Init, RegistryOf, HelloFirst, Marked, Clients
<1>4. QED BY <1>1, <1>2, <1>3 DEF RegistryInv

LEMMA RegistryStep == RegistryInv /\ [Next]_vars => RegistryInv'
<1> SUFFICES ASSUME RegistryInv, [Next]_vars PROVE RegistryInv'
  OBVIOUS
<1>0. RouteInv /\ RouteInv' /\ ParkWaits /\ UNCHANGED url
  BY RouteStep, ClientsEnd DEF RegistryInv
<1>1. \A p \in Plcs : Clients(p)' = Clients(p)
  BY <1>0, UrlKept
<1>2. ASSUME ParkWaits',
             \A p \in Plcs : alive'[p] => alive[p],
             \A p \in Plcs : \A s \in Clients(p) : alive'[p] =>
                RegistryOf(s, phase'[s], mailbox'[p], ws_clients'[p])
      PROVE  RegistryInv'
  BY <1>0, <1>1, <1>2 DEF RegistryInv
<1>3. CASE UNCHANGED vars
  <2>1. UNCHANGED <<phase, parked, mailbox, alive, ws_clients>>
    BY <1>3 DEF vars, browser, lifecycle, registry
  <2>2. ParkWaits'
    BY <1>0, <2>1 DEF ParkWaits
  <2>3. QED BY <1>2, <2>1, <2>2 DEF RegistryInv
<1>4. ASSUME NEW w \in Sessions, Session(w) PROVE RegistryInv'
  <2>1. UNCHANGED <<alive, ws_clients>>
    BY <1>4, SessionCalls
  <2>2. ParkWaits'
    BY <1>0, <1>4, SessionSays
  <2>3. QED BY <1>2, <1>4, <2>1, <2>2, RegistrySession
<1>5. ASSUME NEW r \in Plcs, Server(r) PROVE RegistryInv'
  <2>1. ParkWaits' /\ UNCHANGED phase
    BY <1>0, <1>5 DEF Server, Handle, Finish, MuxStops, PlcServes, ClientStops, browser, ParkWaits
  <2>2. CASE Handle(r)
    <3>1. UNCHANGED alive
      BY <2>2 DEF Handle, lifecycle
    <3>2. QED BY <1>2, <2>1, <2>2, <3>1, RegistryHandle
  <2>3. CASE MuxStops(r)
    <3>1. \A p \in Plcs : alive'[p] =>
             alive[p] /\ mailbox'[p] = mailbox[p] /\ ws_clients'[p] = ws_clients[p]
      BY <1>0, <2>3, MailOf DEF MuxStops, registry, RouteInv, TypeInv, TypeOK, ServerTypeOK
    <3>2. QED BY <1>2, <2>1, <3>1 DEF RegistryInv
  <2>4. CASE Finish(r) \/ PlcServes(r) \/ ClientStops(r)
    <3>1. UNCHANGED <<mailbox, alive, ws_clients>>
      BY <2>4 DEF Finish, PlcServes, ClientStops, lifecycle, registry
    <3>2. QED BY <1>2, <2>1, <3>1, SMTT(30) DEF RegistryInv
  <2>5. QED BY <1>5, <2>2, <2>3, <2>4, SMTT(30) DEF Server
<1>6. QED BY <1>3, <1>4, <1>5 DEF Next

\* When neither the hello nor the goodbye of a session is on the way, its
\* multiplexer knows it exactly if it was opened and has not closed, be it open
\* or dead with its worker, for every order in which the messages of all sessions
\* are sent and handled, and however long the mailbox was full: hello and goodbye
\* go in with do_send, and take the same way.
THEOREM RegistryIsExact == Spec => []RegistryExact
<1>1. RegistryInv => RegistryExact
  <2> SUFFICES ASSUME RegistryInv, NEW s \in Sessions, Known(url[s]), alive[Mux(s)]
               PROVE  \/ \E i \in DOMAIN mailbox[Mux(s)] :
                            /\ mailbox[Mux(s)][i].from = s
                            /\ mailbox[Mux(s)][i].kind \in {"register", "unregister"}
                      \/ s \in ws_clients[Mux(s)] <=> phase[s] \in {"open", "dead"}
    BY DEF RegistryExact
  <2> DEFINE p == Mux(s)
  <2>1. p \in Plcs /\ s \in Clients(p)
    BY KnownTarget DEF Clients
  <2>2. RegistryOf(s, phase[s], mailbox[p], ws_clients[p])
    BY <2>1 DEF RegistryInv
  <2>3. mailbox[p] \in Seq(Messages)
    BY <2>1, MailOf DEF RegistryInv
  <2>4. DOMAIN mailbox[p] = 1..Len(mailbox[p])
    BY <2>3
  <2>5. CASE Marked(mailbox[p], s, "register") \/ Marked(mailbox[p], s, "unregister")
    BY <2>4, <2>5 DEF Marked
  <2>6. CASE ~Marked(mailbox[p], s, "register") /\ ~Marked(mailbox[p], s, "unregister")
    <3>1. phase[s] \in {"new", "open", "closed", "dead"}
      BY DEF RegistryInv, RouteInv, TypeInv, TypeOK, BrowserTypeOK
    <3>2. QED BY <2>2, <2>6, <3>1 DEF RegistryOf
  <2>7. QED BY <2>5, <2>6
<1>2. QED BY <1>1, RegistryInit, RegistryStep, PTL DEF Spec

-----------------------------------------------------------------------------
\* What a session reads.

\* Where the messages of a kind from a session lie.
Places(q, s, kind) == {i \in 1..Len(q) : q[i].from = s /\ q[i].kind = kind}

\* What a read at position i of the requests q finds, with d at the PLC.
Finds(q, d, i, v) ==
    \/ /\ v = d
       /\ \A h \in 1..Len(q) : h < i => q[h].kind # "write"
    \/ \E h \in 1..Len(q) :
          /\ h < i /\ q[h].kind = "write" /\ q[h].v = v
          /\ \A g \in 1..Len(q) : h < g /\ g < i => q[g].kind # "write"

\* A mutation was handled; v is what it or a later one made; the latest.
Taken(o, m) == \E i \in 1..Len(o) : o[i] = m
Holds(o, m, v) == \E i, j \in 1..Len(o) : i <= j /\ o[i] = m /\ o[j] = v
Latest(o) == IF o = <<>> THEN Loaded ELSE o[Len(o)]

\* A mutation lies in the first n messages of a mailbox.
Ahead(q, n, m) == \E i \in 1..Len(q) : i <= n /\ q[i].kind = "mutation" /\ q[i].v = m

LEMMA PlacesAppend ==
    ASSUME NEW S, NEW q \in Seq(S), NEW m \in S, NEW s, NEW kind
    PROVE  Places(Append(q, m), s, kind) =
              IF m.from = s /\ m.kind = kind THEN Places(q, s, kind) \cup {Len(q) + 1}
                                             ELSE Places(q, s, kind)
<1> DEFINE t == Append(q, m)
           n == Len(q)
<1>1. /\ n \in Nat /\ Len(t) = n + 1 /\ t[n + 1] = m
      /\ \A i \in 1..n : t[i] = q[i]
  BY AppendParts
<1> SUFFICES Places(t, s, kind) = IF m.from = s /\ m.kind = kind
                                  THEN Places(q, s, kind) \cup {n + 1} ELSE Places(q, s, kind)
  OBVIOUS
<1> HIDE DEF t
<1>2. /\ Places(q, s, kind) = {i \in 1..n : q[i].from = s /\ q[i].kind = kind}
      /\ Places(t, s, kind) = {i \in 1..(n + 1) : t[i].from = s /\ t[i].kind = kind}
  BY <1>1 DEF Places
<1> HIDE DEF n
<1>3. /\ \A i : i \in 1..(n + 1) <=> i \in 1..n \/ i = n + 1
      /\ n + 1 \notin 1..n
  BY <1>1
<1>4. QED BY <1>1, <1>2, <1>3

LEMMA PlacesTail ==
    ASSUME NEW S, NEW q \in Seq(S), q # <<>>, NEW s, NEW kind
    PROVE  /\ \A i \in Places(Tail(q), s, kind) : i \in 1..(Len(q) - 1) /\ i + 1 \in Places(q, s, kind)
           /\ Head(q).from = s /\ Head(q).kind = kind => 1 \in Places(q, s, kind)
<1> DEFINE t == Tail(q)
           n == Len(q)
<1>1. /\ n \in Nat /\ n >= 1 /\ Len(t) = n - 1 /\ Head(q) = q[1]
      /\ \A i \in 1..(n - 1) : t[i] = q[i + 1]
  BY TailParts
<1> SUFFICES /\ \A i \in Places(t, s, kind) : i \in 1..(n - 1) /\ i + 1 \in Places(q, s, kind)
             /\ Head(q).from = s /\ Head(q).kind = kind => 1 \in Places(q, s, kind)
  OBVIOUS
<1> HIDE DEF t
<1>2. /\ Places(q, s, kind) = {i \in 1..n : q[i].from = s /\ q[i].kind = kind}
      /\ Places(t, s, kind) = {i \in 1..(n - 1) : t[i].from = s /\ t[i].kind = kind}
  BY <1>1 DEF Places
<1> HIDE DEF n
<1>3. /\ 1 \in 1..n
      /\ \A i \in 1..(n - 1) : i + 1 \in 1..n
  BY <1>1
<1>4. QED BY <1>1, <1>2, <1>3

\* A read in the queue finds what it found before another request joined.
LEMMA FindsAppend ==
    ASSUME NEW S, NEW q \in Seq(S), NEW m \in S, NEW d, NEW v, NEW i \in 1..(Len(q) + 1),
           Finds(Append(q, m), d, i, v)
    PROVE  Finds(q, d, i, v)
<1> DEFINE t == Append(q, m)
           n == Len(q)
<1>1. /\ n \in Nat /\ Len(t) = n + 1 /\ t[n + 1] = m
      /\ \A h \in 1..n : t[h] = q[h]
  BY AppendParts
<1>2. Finds(t, d, i, v)
  OBVIOUS
<1> HIDE DEF t
<1>3. \A h \in 1..n : h \in 1..(n + 1)
  BY <1>1
<1>4. \A h \in 1..(n + 1) : h < i => h \in 1..n
  BY <1>1
<1>5. CASE v = d /\ \A h \in 1..(n + 1) : h < i => t[h].kind # "write"
  <2>1. \A h \in 1..n : h < i => q[h].kind # "write"
    BY <1>1, <1>3, <1>5
  <2>2. QED BY <1>5, <2>1 DEF Finds
<1>6. ASSUME NEW h \in 1..(n + 1), h < i, t[h].kind = "write", t[h].v = v,
             \A g \in 1..(n + 1) : h < g /\ g < i => t[g].kind # "write"
      PROVE  Finds(q, d, i, v)
  <2>1. h \in 1..n /\ q[h].kind = "write" /\ q[h].v = v
    BY <1>1, <1>4, <1>6
  <2>2. \A g \in 1..n : h < g /\ g < i => q[g].kind # "write"
    BY <1>1, <1>3, <1>6
  <2>3. QED BY <1>6, <2>1, <2>2 DEF Finds
<1>7. QED BY <1>1, <1>2, <1>5, <1>6 DEF Finds

\* A read that joins after a request finds what that one wrote.
LEMMA FindsEnd ==
    ASSUME NEW S, NEW q \in Seq(S), NEW m \in S, NEW d, NEW v,
           Finds(Append(q, m), d, Len(q) + 2, v)
    PROVE  IF m.kind = "write" THEN v = m.v ELSE Finds(q, d, Len(q) + 1, v)
<1> DEFINE t == Append(q, m)
           n == Len(q)
<1>1. /\ n \in Nat /\ Len(t) = n + 1 /\ t[n + 1] = m
      /\ \A h \in 1..n : t[h] = q[h]
  BY AppendParts
<1>2. Finds(t, d, n + 2, v)
  OBVIOUS
<1> HIDE DEF t
<1>3. /\ \A h \in 1..n : h \in 1..(n + 1) /\ h < n + 1 /\ h < n + 2
      /\ \A h \in 1..(n + 1) : h \in 1..n \/ h = n + 1
      /\ n + 1 \in 1..(n + 1) /\ n + 1 < n + 2
  BY <1>1
<1>5. CASE v = d /\ \A h \in 1..(n + 1) : h < n + 2 => t[h].kind # "write"
  <2>1. /\ m.kind # "write"
        /\ \A h \in 1..n : h < n + 1 => q[h].kind # "write"
    BY <1>1, <1>3, <1>5
  <2>2. QED BY <1>5, <2>1 DEF Finds
<1>6. ASSUME NEW h \in 1..(n + 1), h < n + 2, t[h].kind = "write", t[h].v = v,
             \A g \in 1..(n + 1) : h < g /\ g < n + 2 => t[g].kind # "write"
      PROVE  IF m.kind = "write" THEN v = m.v ELSE Finds(q, d, n + 1, v)
  <2>1. CASE h = n + 1
    BY <1>1, <1>6, <2>1
  <2>2. CASE h \in 1..n
    <3>1. h < n + 1 /\ m.kind # "write"
      BY <1>1, <1>3, <1>6, <2>2
    <3>2. q[h].kind = "write" /\ q[h].v = v
      BY <1>1, <1>6, <2>2
    <3>3. \A g \in 1..n : h < g /\ g < n + 1 => q[g].kind # "write"
      BY <1>1, <1>3, <1>6
    <3>4. QED BY <2>2, <3>1, <3>2, <3>3 DEF Finds
  <2>3. QED BY <1>3, <2>1, <2>2
<1>7. QED BY <1>1, <1>2, <1>5, <1>6 DEF Finds

\* What the first request wrote is what the others find at the PLC.
LEMMA FindsTail ==
    ASSUME NEW S, NEW q \in Seq(S), q # <<>>, NEW d, NEW e, NEW v, NEW i \in 1..Len(q),
           e = IF Head(q).kind = "write" THEN Head(q).v ELSE d,
           Finds(Tail(q), e, i, v)
    PROVE  Finds(q, d, i + 1, v)
<1> DEFINE t == Tail(q)
           n == Len(q)
<1>1. /\ n \in Nat /\ n >= 1 /\ Len(t) = n - 1 /\ Head(q) = q[1]
      /\ \A h \in 1..(n - 1) : t[h] = q[h + 1]
  BY TailParts
<1>2. Finds(t, e, i, v)
  OBVIOUS
<1> HIDE DEF t
<1>3. /\ 1 \in 1..n /\ 1 < i + 1
      /\ \A h \in 1..(n - 1) : h + 1 \in 1..n /\ (h < i <=> h + 1 < i + 1)
      /\ \A h \in 1..n : h = 1 \/ (h - 1 \in 1..(n - 1) /\ t[h - 1] = q[h]
                                     /\ (h < i + 1 <=> h - 1 < i))
  BY <1>1
<1>5. CASE v = e /\ \A h \in 1..(n - 1) : h < i => t[h].kind # "write"
  <2>1. \A h \in 1..n : 1 < h /\ h < i + 1 => q[h].kind # "write"
    BY <1>1, <1>3, <1>5
  <2>2. CASE q[1].kind = "write"
    <3>1. q[1].v = v
      BY <1>1, <1>5, <2>2
    <3>2. QED BY <1>3, <2>1, <2>2, <3>1 DEF Finds
  <2>3. CASE q[1].kind # "write"
    <3>1. v = d
      BY <1>1, <1>5, <2>3
    <3>2. \A h \in 1..n : h < i + 1 => q[h].kind # "write"
      <4> SUFFICES ASSUME NEW h \in 1..n, h < i + 1 PROVE q[h].kind # "write"
        OBVIOUS
      <4>1. h = 1 \/ 1 < h
        BY <1>1
      <4>2. QED BY <2>1, <2>3, <4>1
    <3>3. QED BY <3>1, <3>2 DEF Finds
  <2>4. QED BY <2>2, <2>3
<1>6. ASSUME NEW h \in 1..(n - 1), h < i, t[h].kind = "write", t[h].v = v,
             \A g \in 1..(n - 1) : h < g /\ g < i => t[g].kind # "write"
      PROVE  Finds(q, d, i + 1, v)
  <2>1. h + 1 \in 1..n /\ h + 1 < i + 1 /\ q[h + 1].kind = "write" /\ q[h + 1].v = v
    BY <1>1, <1>3, <1>6
  <2>2. \A g \in 1..n : h + 1 < g /\ g < i + 1 => q[g].kind # "write"
    <3> SUFFICES ASSUME NEW g \in 1..n, h + 1 < g, g < i + 1 PROVE q[g].kind # "write"
      OBVIOUS
    <3>1. g # 1 /\ h < g - 1
      BY <1>1, <1>6
    <3>2. QED BY <1>3, <1>6, <3>1
  <2>3. QED BY <2>1, <2>2 DEF Finds
<1>7. QED BY <1>1, <1>2, <1>5, <1>6 DEF Finds

LEMMA FindsFirst ==
    ASSUME NEW S, NEW q \in Seq(S), NEW d
    PROVE  Finds(q, d, 1, d)
<1>1. \A h \in 1..Len(q) : ~(h < 1)
  BY AppendParts
<1>2. QED BY <1>1 DEF Finds

\* The mutations handled grow at the end.
LEMMA OrderAppend ==
    ASSUME NEW S, NEW o \in Seq(S), NEW x \in S
    PROVE  /\ \A m : Taken(o, m) => Taken(Append(o, x), m)
           /\ \A m, v : Holds(o, m, v) => Holds(Append(o, x), m, v)
           /\ Taken(Append(o, x), x) /\ Latest(Append(o, x)) = x
<1> DEFINE t == Append(o, x)
           n == Len(o)
<1>1. /\ n \in Nat /\ Len(t) = n + 1 /\ t[n + 1] = x /\ t # <<>>
      /\ \A i \in 1..n : t[i] = o[i]
  BY AppendParts
<1> SUFFICES /\ \A m : Taken(o, m) => Taken(t, m)
             /\ \A m, v : Holds(o, m, v) => Holds(t, m, v)
             /\ Taken(t, x) /\ Latest(t) = x
  OBVIOUS
<1> HIDE DEF t
<1>2. /\ \A i \in 1..n : i \in 1..(n + 1)
      /\ n + 1 \in 1..(n + 1)
  BY <1>1
<1>3. QED BY <1>1, <1>2 DEF Taken, Holds, Latest

LEMMA HoldsLatest ==
    ASSUME NEW S, NEW o \in Seq(S), NEW m, Taken(o, m)
    PROVE  Holds(o, m, Latest(o))
<1>1. PICK i \in 1..Len(o) : o[i] = m
  BY DEF Taken
<1>2. Len(o) \in Nat
  OBVIOUS
<1>3. Len(o) \in 1..Len(o) /\ i <= Len(o) /\ o # <<>>
  BY <1>2
<1>4. QED BY <1>1, <1>3 DEF Holds, Latest

\* A mutation in the mailbox stays ahead of what comes later, until it is handled.
LEMMA AheadAppend ==
    ASSUME NEW S, NEW q \in Seq(S), NEW x \in S, NEW n \in Nat, NEW k \in Nat, n <= k
    PROVE  /\ \A m : Ahead(q, n, m) => Ahead(Append(q, x), k, m)
           /\ x.kind = "mutation" => Ahead(Append(q, x), Len(q) + 1, x.v)
<1> DEFINE t == Append(q, x)
           l == Len(q)
<1>1. /\ l \in Nat /\ Len(t) = l + 1 /\ t[l + 1] = x
      /\ \A i \in 1..l : t[i] = q[i]
  BY AppendParts
<1> SUFFICES /\ \A m : Ahead(q, n, m) => Ahead(t, k, m)
             /\ x.kind = "mutation" => Ahead(t, l + 1, x.v)
  OBVIOUS
<1> HIDE DEF t
<1>2. /\ \A i \in 1..l : i \in 1..(l + 1) /\ (i <= n => i <= k)
      /\ l + 1 \in 1..(l + 1) /\ l + 1 <= l + 1
  BY <1>1
<1>3. QED BY <1>1, <1>2 DEF Ahead

LEMMA AheadTail ==
    ASSUME NEW S, NEW q \in Seq(S), q # <<>>, NEW n \in Nat, NEW m, Ahead(q, n + 1, m)
    PROVE  Ahead(Tail(q), n, m) \/ (Head(q).kind = "mutation" /\ Head(q).v = m)
<1> DEFINE t == Tail(q)
           l == Len(q)
<1>1. /\ l \in Nat /\ l >= 1 /\ Len(t) = l - 1 /\ Head(q) = q[1]
      /\ \A i \in 1..(l - 1) : t[i] = q[i + 1]
  BY TailParts
<1> SUFFICES Ahead(t, n, m) \/ (Head(q).kind = "mutation" /\ Head(q).v = m)
  OBVIOUS
<1> HIDE DEF t
<1>2. PICK i \in 1..l : i <= n + 1 /\ q[i].kind = "mutation" /\ q[i].v = m
  BY DEF Ahead
<1>3. CASE i = 1
  BY <1>1, <1>2, <1>3
<1>4. CASE i # 1
  <2>1. i - 1 \in 1..(l - 1) /\ i - 1 <= n /\ t[i - 1] = q[i]
    BY <1>1, <1>2, <1>4
  <2>2. QED BY <1>1, <1>2, <2>1 DEF Ahead
<1>5. QED BY <1>3, <1>4

LEMMA AheadFirst ==
    ASSUME NEW S, NEW q \in Seq(S), q # <<>>, NEW m, Ahead(q, 1, m)
    PROVE  Head(q).kind = "mutation" /\ Head(q).v = m
<1>1. PICK i \in 1..Len(q) : i <= 1 /\ q[i].kind = "mutation" /\ q[i].v = m
  BY DEF Ahead
<1>2. i = 1 /\ Head(q) = q[1]
  BY <1>1, TailParts
<1>3. QED BY <1>1, <1>2

-----------------------------------------------------------------------------
\* The way of a Resolve: it waits for room (W), is asked in the mailbox (A), is a
\* read on its way to the PLC (R) or an answer on its way back (N).  It is at one
\* of these places, or at none, and only while its session waits for it.

One(X) == \A x, y \in X : x = y
AtPlace(place, st, W, A, R, N) ==
    /\ IF place = "parked" THEN One(W) ELSE W = {}
    /\ IF place = "mailbox" THEN One(A) ELSE A = {}
    /\ IF place = "pipe" THEN One(R) ELSE R = {}
    /\ IF place = "reply" THEN One(N) ELSE N = {}
    /\ place # "none" => st = "waiting"
OnePlace(st, W, A, R, N) ==
    \E place \in {"none", "parked", "mailbox", "pipe", "reply"} : AtPlace(place, st, W, A, R, N)

Fewer(X, Y) == (X = {} => Y = {}) /\ (One(X) => One(Y))

LEMMA FewerSame == ASSUME NEW X PROVE Fewer(X, X)
BY DEF Fewer

LEMMA FewerSubset == ASSUME NEW X, NEW Y, Y \subseteq X PROVE Fewer(X, Y)
BY DEF Fewer, One

LEMMA FewerTail ==
    ASSUME NEW S, NEW q \in Seq(S), q # <<>>, NEW s, NEW kind
    PROVE  /\ Fewer(Places(q, s, kind), Places(Tail(q), s, kind))
           /\ Head(q).from = s /\ Head(q).kind = kind /\ One(Places(q, s, kind)) =>
                 Places(Tail(q), s, kind) = {}
<1>1. /\ \A i \in Places(Tail(q), s, kind) : i \in 1..(Len(q) - 1) /\ i + 1 \in Places(q, s, kind)
      /\ Head(q).from = s /\ Head(q).kind = kind => 1 \in Places(q, s, kind)
  BY PlacesTail
<1>2. \A i \in 1..(Len(q) - 1) : i \in Nat /\ i + 1 # 1
  BY AppendParts
<1>3. Places(q, s, kind) = {} => Places(Tail(q), s, kind) = {}
  BY <1>1
<1>4. One(Places(q, s, kind)) => One(Places(Tail(q), s, kind))
  <2> SUFFICES ASSUME One(Places(q, s, kind)),
                      NEW i \in Places(Tail(q), s, kind), NEW j \in Places(Tail(q), s, kind)
               PROVE  i = j
    BY DEF One
  <2>1. i + 1 = j + 1 /\ i \in Nat /\ j \in Nat
    BY <1>1, <1>2 DEF One
  <2>2. QED BY <2>1
<1>5. ASSUME Head(q).from = s, Head(q).kind = kind, One(Places(q, s, kind))
      PROVE  Places(Tail(q), s, kind) = {}
  <2> SUFFICES ASSUME NEW i \in Places(Tail(q), s, kind) PROVE FALSE
    OBVIOUS
  <2>1. i + 1 = 1
    BY <1>1, <1>5 DEF One
  <2>2. QED BY <1>1, <1>2, <2>1
<1>6. QED BY <1>3, <1>4, <1>5 DEF Fewer

LEMMA PlaceKept ==
    ASSUME NEW st, NEW W, NEW A, NEW R, NEW N, OnePlace(st, W, A, R, N),
           NEW ts, NEW W2, NEW A2, NEW R2, NEW N2, st = "waiting" => ts = "waiting",
           Fewer(W, W2), Fewer(A, A2), Fewer(R, R2), Fewer(N, N2)
    PROVE  OnePlace(ts, W2, A2, R2, N2)
<1>1. PICK place \in {"none", "parked", "mailbox", "pipe", "reply"} : AtPlace(place, st, W, A, R, N)
  BY DEF OnePlace
<1>2. AtPlace(place, ts, W2, A2, R2, N2)
  BY <1>1 DEF AtPlace, Fewer
<1>3. QED BY <1>2 DEF OnePlace

LEMMA PlaceNone ==
    ASSUME NEW st, NEW W, NEW A, NEW R, NEW N, OnePlace(st, W, A, R, N), st # "waiting"
    PROVE  W = {} /\ A = {} /\ R = {} /\ N = {}
BY DEF OnePlace, AtPlace

LEMMA PlaceOf ==
    ASSUME NEW st, NEW W, NEW A, NEW R, NEW N, OnePlace(st, W, A, R, N)
    PROVE  /\ One(W) /\ One(A) /\ One(R) /\ One(N)
           /\ W # {} => st = "waiting" /\ A = {} /\ R = {} /\ N = {}
           /\ A # {} => st = "waiting" /\ W = {} /\ R = {} /\ N = {}
           /\ R # {} => st = "waiting" /\ W = {} /\ A = {} /\ N = {}
           /\ N # {} => st = "waiting" /\ W = {} /\ A = {} /\ R = {}
<1>1. PICK place \in {"none", "parked", "mailbox", "pipe", "reply"} : AtPlace(place, st, W, A, R, N)
  BY DEF OnePlace
<1>2. One({})
  BY DEF One
<1>3. QED BY <1>1, <1>2 DEF AtPlace

LEMMA PlaceEmpty ==
    ASSUME NEW st
    PROVE  OnePlace(st, {}, {}, {}, {})
BY DEF OnePlace, AtPlace

LEMMA PlaceNew ==
    ASSUME NEW X, One(X)
    PROVE  /\ OnePlace("waiting", X, {}, {}, {}) /\ OnePlace("waiting", {}, X, {}, {})
           /\ OnePlace("waiting", {}, {}, X, {}) /\ OnePlace("waiting", {}, {}, {}, X)
<1>1. /\ AtPlace("parked", "waiting", X, {}, {}, {}) /\ AtPlace("mailbox", "waiting", {}, X, {}, {})
      /\ AtPlace("pipe", "waiting", {}, {}, X, {}) /\ AtPlace("reply", "waiting", {}, {}, {}, X)
  BY DEF AtPlace
<1>2. QED BY <1>1 DEF OnePlace

-----------------------------------------------------------------------------
\* What a session has sent, and asked for, while it waits: n mutations sent, c of
\* them before its Resolve, o handled, q in the mailbox, Q requests on their way,
\* d at the PLC and N answers on their way.

SentOrTaken(s, n, q, o) == \A k \in 1..n : Taken(o, <<s, k>>) \/ Ahead(q, Len(q), <<s, k>>)
AskedLate(s, c, q, o) ==
    \A i \in Places(q, s, "resolve") : \A k \in 1..c : Taken(o, <<s, k>>) \/ Ahead(q, i, <<s, k>>)
ReadLate(s, c, Q, d, o) ==
    \A i \in Places(Q, s, "read") : \A k \in 1..c : \A v \in Values :
        Finds(Q, d, i, v) => Holds(o, <<s, k>>, v)
AnsweredLate(s, c, N, o) ==
    \A r \in N : \A k \in 1..c : r.from = s /\ ~r.refused => Holds(o, <<s, k>>, r.v)

From(N, s) == {r \in N : r.from = s}
PlacesOf(s, st, W, q, Q, N) ==
    OnePlace(st, Places(W, s, "resolve"), Places(q, s, "resolve"), Places(Q, s, "read"), From(N, s))

WriteOf(s, st, c, n, W, q, Q, d, N, o) ==
    /\ PlacesOf(s, st, W, q, Q, N)
    /\ st = "waiting" => c <= n
    /\ SentOrTaken(s, n, q, o) /\ AskedLate(s, c, q, o)
    /\ ReadLate(s, c, Q, d, o) /\ AnsweredLate(s, c, N, o)

\* The messages of others, and those that ask for nothing.
LEMMA SentMore ==
    ASSUME NEW S, NEW q \in Seq(S), NEW m \in S, NEW s, NEW n, NEW o, SentOrTaken(s, n, q, o)
    PROVE  SentOrTaken(s, n, Append(q, m), o)
<1>1. Len(q) \in Nat /\ Len(q) + 1 \in Nat /\ Len(q) <= Len(q) + 1 /\ Len(Append(q, m)) = Len(q) + 1
  BY AppendParts
<1>2. \A x : Ahead(q, Len(q), x) => Ahead(Append(q, m), Len(q) + 1, x)
  BY <1>1, AheadAppend
<1>3. QED BY <1>1, <1>2 DEF SentOrTaken

LEMMA AskedMore ==
    ASSUME NEW S, NEW q \in Seq(S), NEW m \in S, NEW s, NEW c, NEW o, AskedLate(s, c, q, o),
           ~(m.from = s /\ m.kind = "resolve")
    PROVE  /\ AskedLate(s, c, Append(q, m), o)
           /\ Places(Append(q, m), s, "resolve") = Places(q, s, "resolve")
<1>1. Places(Append(q, m), s, "resolve") = Places(q, s, "resolve")
  BY PlacesAppend
<1>2. \A i \in Places(q, s, "resolve") : \A x : Ahead(q, i, x) => Ahead(Append(q, m), i, x)
  <2> SUFFICES ASSUME NEW i \in Places(q, s, "resolve"), NEW x, Ahead(q, i, x)
               PROVE  Ahead(Append(q, m), i, x)
    OBVIOUS
  <2>1. i \in Nat /\ i <= i
    BY DEF Places
  <2>2. QED BY <2>1, AheadAppend
<1>3. QED BY <1>1, <1>2 DEF AskedLate

LEMMA WriteJoined ==
    ASSUME NEW q \in Seq(Messages), NEW m \in Messages, NEW s,
           NEW st, NEW c, NEW n, NEW W, NEW Q, NEW d, NEW N, NEW o,
           WriteOf(s, st, c, n, W, q, Q, d, N, o),
           ~(m.from = s /\ m.kind = "resolve")
    PROVE  WriteOf(s, st, c, n, W, Append(q, m), Q, d, N, o)
<1>1. AskedLate(s, c, q, o) /\ SentOrTaken(s, n, q, o)
  BY DEF WriteOf
<1>2. /\ AskedLate(s, c, Append(q, m), o) /\ SentOrTaken(s, n, Append(q, m), o)
      /\ Places(Append(q, m), s, "resolve") = Places(q, s, "resolve")
  BY <1>1, AskedMore, SentMore
<1>3. QED BY <1>2 DEF WriteOf, PlacesOf

\* A mutation of its own.
LEMMA WriteSent ==
    ASSUME NEW q \in Seq(Messages), NEW m \in Messages, NEW s, NEW n \in Nat, NEW c \in Nat,
           NEW st, NEW W, NEW Q, NEW d, NEW N, NEW o,
           WriteOf(s, st, c, n, W, q, Q, d, N, o),
           m.kind = "mutation", m.v = <<s, n + 1>>
    PROVE  WriteOf(s, st, c, n + 1, W, Append(q, m), Q, d, N, o)
<1>1. WriteOf(s, st, c, n, W, Append(q, m), Q, d, N, o)
  BY WriteJoined
<1>2. SentOrTaken(s, n + 1, Append(q, m), o)
  <2>1. SentOrTaken(s, n, Append(q, m), o)
    BY <1>1 DEF WriteOf
  <2>2. Len(q) \in Nat /\ Len(Append(q, m)) = Len(q) + 1
    BY AppendParts
  <2>3. Ahead(Append(q, m), Len(q) + 1, <<s, n + 1>>)
    <3>1. Len(q) <= Len(q)
      BY <2>2
    <3>2. QED BY <2>2, <3>1, AheadAppend
  <2>4. \A k \in 1..(n + 1) : k \in 1..n \/ k = n + 1
    OBVIOUS
  <2>5. QED BY <2>1, <2>2, <2>3, <2>4 DEF SentOrTaken
<1>3. st = "waiting" => c <= n + 1
  BY DEF WriteOf
<1>4. QED BY <1>1, <1>2, <1>3 DEF WriteOf

\* A session that waits for nothing has asked nothing.
LEMMA WriteIdle ==
    ASSUME NEW s, NEW st, NEW c, NEW n, NEW W, NEW q, NEW Q, NEW d, NEW N, NEW o,
           WriteOf(s, st, c, n, W, q, Q, d, N, o), st # "waiting"
    PROVE  /\ Places(W, s, "resolve") = {} /\ Places(q, s, "resolve") = {}
           /\ Places(Q, s, "read") = {} /\ From(N, s) = {}
BY PlaceNone DEF WriteOf, PlacesOf

LEMMA WriteEnded ==
    ASSUME NEW s, NEW st, NEW c, NEW n, NEW W, NEW q, NEW Q, NEW d, NEW N, NEW o,
           WriteOf(s, st, c, n, W, q, Q, d, N, o), st # "waiting", NEW ts, ts # "waiting", NEW k
    PROVE  WriteOf(s, ts, k, n, W, q, Q, d, N, o)
<1>1. /\ Places(W, s, "resolve") = {} /\ Places(q, s, "resolve") = {}
      /\ Places(Q, s, "read") = {} /\ From(N, s) = {}
  BY WriteIdle
<1>2. AskedLate(s, k, q, o) /\ ReadLate(s, k, Q, d, o) /\ AnsweredLate(s, k, N, o)
  BY <1>1 DEF AskedLate, ReadLate, AnsweredLate, From
<1>3. PlacesOf(s, ts, W, q, Q, N)
  BY <1>1, PlaceEmpty DEF PlacesOf
<1>4. QED BY <1>2, <1>3 DEF WriteOf

\* Its Resolve goes into the mailbox, behind all the mutations it sent, ...
LEMMA AskedNow ==
    ASSUME NEW q \in Seq(Messages), NEW m \in Messages, NEW s, NEW c \in Nat, NEW n \in Nat, c <= n,
           NEW o, SentOrTaken(s, n, q, o), Places(q, s, "resolve") = {},
           m.from = s, m.kind = "resolve"
    PROVE  /\ AskedLate(s, c, Append(q, m), o)
           /\ Places(Append(q, m), s, "resolve") = {Len(q) + 1}
<1>1. Places(Append(q, m), s, "resolve") = {Len(q) + 1}
  BY PlacesAppend
<1>2. Len(q) \in Nat /\ Len(q) + 1 \in Nat /\ Len(q) <= Len(q) + 1
  BY AppendParts
<1>3. \A x : Ahead(q, Len(q), x) => Ahead(Append(q, m), Len(q) + 1, x)
  BY <1>2, AheadAppend
<1>4. \A k \in 1..c : k \in 1..n
  OBVIOUS
<1>5. QED BY <1>1, <1>3, <1>4 DEF AskedLate, SentOrTaken

LEMMA WriteAsked ==
    ASSUME NEW q \in Seq(Messages), NEW m \in Messages, NEW s, NEW n \in Nat, NEW c,
           NEW st, NEW W, NEW Q, NEW d, NEW N, NEW o,
           WriteOf(s, st, c, n, W, q, Q, d, N, o), st # "waiting",
           m.from = s, m.kind = "resolve"
    PROVE  WriteOf(s, "waiting", n, n, W, Append(q, m), Q, d, N, o)
<1>1. /\ Places(W, s, "resolve") = {} /\ Places(q, s, "resolve") = {}
      /\ Places(Q, s, "read") = {} /\ From(N, s) = {} /\ SentOrTaken(s, n, q, o)
  BY WriteIdle DEF WriteOf
<1>2. n <= n
  OBVIOUS
<1>3. /\ AskedLate(s, n, Append(q, m), o)
      /\ Places(Append(q, m), s, "resolve") = {Len(q) + 1}
      /\ SentOrTaken(s, n, Append(q, m), o)
  BY <1>1, <1>2, AskedNow, SentMore
<1>4. ReadLate(s, n, Q, d, o) /\ AnsweredLate(s, n, N, o)
  BY <1>1 DEF ReadLate, AnsweredLate, From
<1>5. One({Len(q) + 1})
  BY DEF One
<1>6. PlacesOf(s, "waiting", W, Append(q, m), Q, N)
  BY <1>1, <1>3, <1>5, PlaceNew DEF PlacesOf
<1>7. QED BY <1>2, <1>3, <1>4, <1>6 DEF WriteOf

\* ... or waits for room.
LEMMA WriteWaits ==
    ASSUME NEW W \in Seq(Messages), NEW m \in Messages, NEW s, NEW n \in Nat, NEW c,
           NEW st, NEW q, NEW Q, NEW d, NEW N, NEW o,
           WriteOf(s, st, c, n, W, q, Q, d, N, o), st # "waiting",
           m.from = s, m.kind = "resolve"
    PROVE  WriteOf(s, "waiting", n, n, Append(W, m), q, Q, d, N, o)
<1>1. /\ Places(W, s, "resolve") = {} /\ Places(q, s, "resolve") = {}
      /\ Places(Q, s, "read") = {} /\ From(N, s) = {} /\ SentOrTaken(s, n, q, o)
  BY WriteIdle DEF WriteOf
<1>2. Places(Append(W, m), s, "resolve") = {Len(W) + 1}
  BY <1>1, PlacesAppend
<1>3. AskedLate(s, n, q, o) /\ ReadLate(s, n, Q, d, o) /\ AnsweredLate(s, n, N, o)
  BY <1>1 DEF AskedLate, ReadLate, AnsweredLate, From
<1>4. One({Len(W) + 1}) /\ n <= n
  BY DEF One
<1>5. PlacesOf(s, "waiting", Append(W, m), q, Q, N)
  BY <1>1, <1>2, <1>4, PlaceNew DEF PlacesOf
<1>6. QED BY <1>1, <1>3, <1>4, <1>5 DEF WriteOf

LEMMA WriteWaitsToo ==
    ASSUME NEW W \in Seq(Messages), NEW m \in Messages, NEW s,
           NEW st, NEW c, NEW n, NEW q, NEW Q, NEW d, NEW N, NEW o,
           WriteOf(s, st, c, n, W, q, Q, d, N, o), m.kind # "resolve"
    PROVE  WriteOf(s, st, c, n, Append(W, m), q, Q, d, N, o)
<1>1. Places(Append(W, m), s, "resolve") = Places(W, s, "resolve")
  BY PlacesAppend
<1>2. QED BY <1>1 DEF WriteOf, PlacesOf

\* What waited for room goes in, later than it was sent.
LEMMA WriteUnparked ==
    ASSUME NEW W \in Seq(Messages), W # <<>>, NEW q \in Seq(Messages), NEW s,
           NEW n \in Nat, NEW c \in Nat, NEW st, NEW Q, NEW d, NEW N, NEW o,
           WriteOf(s, st, c, n, W, q, Q, d, N, o), Head(W).from = s
    PROVE  WriteOf(s, st, c, n, Tail(W), Append(q, Head(W)), Q, d, N, o)
<1> DEFINE m == Head(W)
<1>1. m \in Messages
  BY TailParts
<1>2. Fewer(Places(W, s, "resolve"), Places(Tail(W), s, "resolve"))
  BY FewerTail
<1>3. CASE m.kind # "resolve"
  <2>1. WriteOf(s, st, c, n, W, Append(q, m), Q, d, N, o)
    BY <1>1, <1>3, WriteJoined
  <2> HIDE DEF m
  <2>2. PlacesOf(s, st, Tail(W), Append(q, m), Q, N)
    BY <1>2, <2>1, PlaceKept, FewerSame DEF WriteOf, PlacesOf
  <2>3. WriteOf(s, st, c, n, Tail(W), Append(q, m), Q, d, N, o)
    BY <2>1, <2>2 DEF WriteOf
  <2>4. QED BY <2>3 DEF m
<1>4. CASE m.kind = "resolve"
  <2>1. Places(W, s, "resolve") # {}
    BY <1>4, PlacesTail
  <2>2. PlacesOf(s, st, W, q, Q, N) /\ SentOrTaken(s, n, q, o) /\ (st = "waiting" => c <= n)
    BY DEF WriteOf
  <2>3. /\ One(Places(W, s, "resolve")) /\ st = "waiting" /\ Places(q, s, "resolve") = {}
        /\ Places(Q, s, "read") = {} /\ From(N, s) = {}
    BY <2>1, <2>2, PlaceOf DEF PlacesOf
  <2>4. Places(Tail(W), s, "resolve") = {}
    BY <1>4, <2>3, FewerTail
  <2> HIDE DEF m
  <2>5. m.from = s
    BY DEF m
  <2>6. /\ AskedLate(s, c, Append(q, m), o) /\ SentOrTaken(s, n, Append(q, m), o)
        /\ Places(Append(q, m), s, "resolve") = {Len(q) + 1}
    BY <1>1, <1>4, <2>2, <2>3, <2>5, AskedNow, SentMore
  <2>7. One({Len(q) + 1})
    BY DEF One
  <2>8. PlacesOf(s, st, Tail(W), Append(q, m), Q, N)
    BY <2>3, <2>4, <2>6, <2>7, PlaceNew DEF PlacesOf
  <2>9. ReadLate(s, c, Q, d, o) /\ AnsweredLate(s, c, N, o)
    BY DEF WriteOf
  <2>10. WriteOf(s, st, c, n, Tail(W), Append(q, m), Q, d, N, o)
    BY <2>2, <2>6, <2>8, <2>9 DEF WriteOf
  <2>11. QED BY <2>10 DEF m
<1>5. QED BY <1>3, <1>4

\* More mutations were handled.
Grows(o, b) ==
    /\ \A m : Taken(o, m) => Taken(b, m)
    /\ \A m, v : Holds(o, m, v) => Holds(b, m, v)

LEMMA GrowsSame == ASSUME NEW o PROVE Grows(o, o)
BY DEF Grows

\* The multiplexer takes a message: a mutation is handled, not dropped.
LEMMA MailTaken ==
    ASSUME NEW q \in Seq(Messages), q # <<>>, NEW s, NEW n, NEW c, NEW o, NEW b,
           SentOrTaken(s, n, q, o), AskedLate(s, c, q, o), Grows(o, b),
           Head(q).kind = "mutation" => Taken(b, Head(q).v)
    PROVE  SentOrTaken(s, n, Tail(q), b) /\ AskedLate(s, c, Tail(q), b)
<1>1. /\ Len(q) \in Nat /\ Len(q) - 1 \in Nat /\ (Len(q) - 1) + 1 = Len(q)
      /\ Len(Tail(q)) = Len(q) - 1
  BY TailParts
<1>2. \A m : Taken(o, m) => Taken(b, m)
  BY DEF Grows
<1>3. SentOrTaken(s, n, Tail(q), b)
  <2> SUFFICES ASSUME NEW k \in 1..n, ~Taken(b, <<s, k>>)
               PROVE  Ahead(Tail(q), Len(q) - 1, <<s, k>>)
    BY <1>1 DEF SentOrTaken
  <2>1. Ahead(q, (Len(q) - 1) + 1, <<s, k>>)
    BY <1>1, <1>2 DEF SentOrTaken
  <2>2. Ahead(Tail(q), Len(q) - 1, <<s, k>>) \/ (Head(q).kind = "mutation" /\ Head(q).v = <<s, k>>)
    BY <1>1, <2>1, AheadTail
  <2>3. QED BY <2>2
<1>4. AskedLate(s, c, Tail(q), b)
  <2> SUFFICES ASSUME NEW i \in Places(Tail(q), s, "resolve"), NEW k \in 1..c, ~Taken(b, <<s, k>>)
               PROVE  Ahead(Tail(q), i, <<s, k>>)
    BY DEF AskedLate
  <2>1. i \in 1..(Len(q) - 1) /\ i + 1 \in Places(q, s, "resolve")
    BY PlacesTail
  <2>2. i \in Nat
    BY <2>1
  <2>3. Ahead(q, i + 1, <<s, k>>)
    BY <1>2, <2>1 DEF AskedLate
  <2>4. Ahead(Tail(q), i, <<s, k>>) \/ (Head(q).kind = "mutation" /\ Head(q).v = <<s, k>>)
    BY <2>2, <2>3, AheadTail
  <2>5. QED BY <2>4
<1>5. QED BY <1>3, <1>4

LEMMA ReadMore ==
    ASSUME NEW Q \in Seq(Messages), NEW m \in Messages, NEW s, NEW c, NEW d, NEW o, NEW b,
           ReadLate(s, c, Q, d, o), Grows(o, b)
    PROVE  /\ ReadLate(s, c, Q, d, b)
           /\ ~(m.from = s /\ m.kind = "read") => ReadLate(s, c, Append(Q, m), d, b)
<1>1. \A x, v : Holds(o, x, v) => Holds(b, x, v)
  BY DEF Grows
<1>2. ReadLate(s, c, Q, d, b)
  BY <1>1 DEF ReadLate
<1>3. ASSUME ~(m.from = s /\ m.kind = "read")
      PROVE  ReadLate(s, c, Append(Q, m), d, b)
  <2>1. Places(Append(Q, m), s, "read") = Places(Q, s, "read")
    BY <1>3, PlacesAppend
  <2>2. \A i \in Places(Q, s, "read") : i \in 1..(Len(Q) + 1)
    BY AppendParts DEF Places
  <2>3. \A i \in Places(Q, s, "read") : \A v : Finds(Append(Q, m), d, i, v) => Finds(Q, d, i, v)
    BY <2>2, FindsAppend
  <2>4. QED BY <1>2, <2>1, <2>3 DEF ReadLate
<1>4. QED BY <1>2, <1>3

LEMMA AnsweredMore ==
    ASSUME NEW s, NEW c, NEW N, NEW o, NEW b, AnsweredLate(s, c, N, o), Grows(o, b)
    PROVE  AnsweredLate(s, c, N, b)
BY DEF AnsweredLate, Grows

\* A message is taken that asks nothing for s.
LEMMA WriteTaken ==
    ASSUME NEW q \in Seq(Messages), q # <<>>, NEW s, NEW Q \in Seq(Messages), NEW Z,
           Z = Q \/ \E m \in Messages : Z = Append(Q, m) /\ ~(m.from = s /\ m.kind = "read"),
           NEW st, NEW c, NEW n, NEW W, NEW d, NEW N, NEW o, NEW b,
           WriteOf(s, st, c, n, W, q, Q, d, N, o), Grows(o, b),
           Head(q).kind = "mutation" => Taken(b, Head(q).v)
    PROVE  WriteOf(s, st, c, n, W, Tail(q), Z, d, N, b)
<1>1. SentOrTaken(s, n, Tail(q), b) /\ AskedLate(s, c, Tail(q), b)
  BY MailTaken DEF WriteOf
<1>2. ReadLate(s, c, Z, d, b)
  <2>1. ReadLate(s, c, Q, d, o)
    BY DEF WriteOf
  <2>2. CASE Z = Q
    <3>1. <<>> \in Seq(Messages) /\ Head(q) \in Messages
      BY TailParts
    <3>2. QED BY <2>1, <2>2, <3>1, ReadMore
  <2>3. QED BY <2>1, <2>2, ReadMore
<1>3. AnsweredLate(s, c, N, b)
  BY AnsweredMore DEF WriteOf
<1>4. Places(Z, s, "read") = Places(Q, s, "read")
  <2>1. ASSUME NEW m \in Messages, Z = Append(Q, m), ~(m.from = s /\ m.kind = "read")
        PROVE  Places(Z, s, "read") = Places(Q, s, "read")
    BY <2>1, PlacesAppend
  <2>2. QED BY <2>1
<1>5. Fewer(Places(q, s, "resolve"), Places(Tail(q), s, "resolve"))
  BY FewerTail
<1>6. PlacesOf(s, st, W, Tail(q), Z, N)
  BY <1>4, <1>5, PlaceKept, FewerSame DEF WriteOf, PlacesOf
<1>7. QED BY <1>1, <1>2, <1>3, <1>6 DEF WriteOf

\* The Resolve of s is taken: all that s sent before it was, and the read finds
\* the latest of it.
LEMMA WriteRead ==
    ASSUME NEW q \in Seq(Messages), q # <<>>, NEW s, NEW Q \in Seq(Messages), NEW m \in Messages,
           Head(q).kind = "resolve", Head(q).from = s, m.kind = "read", m.from = s,
           NEW st, NEW c, NEW n, NEW W, NEW d, NEW N, NEW o \in Seq(Values),
           WriteOf(s, st, c, n, W, q, Q, d, N, o),
           \A v \in Values : Finds(Q, d, Len(Q) + 1, v) => v = Latest(o)
    PROVE  WriteOf(s, st, c, n, W, Tail(q), Append(Q, m), d, N, o)
<1>1. SentOrTaken(s, n, Tail(q), o) /\ AskedLate(s, c, Tail(q), o)
  BY MailTaken, GrowsSame DEF WriteOf
<1>2. 1 \in Places(q, s, "resolve")
  BY PlacesTail
<1>3. PlacesOf(s, st, W, q, Q, N) /\ AskedLate(s, c, q, o)
  BY DEF WriteOf
<1>4. /\ One(Places(q, s, "resolve")) /\ st = "waiting" /\ Places(W, s, "resolve") = {}
      /\ Places(Q, s, "read") = {} /\ From(N, s) = {}
  BY <1>2, <1>3, PlaceOf DEF PlacesOf
<1>5. Places(Tail(q), s, "resolve") = {}
  BY <1>4, FewerTail
<1>6. Places(Append(Q, m), s, "read") = {Len(Q) + 1}
  BY <1>4, PlacesAppend
<1>7. One({Len(Q) + 1})
  BY DEF One
<1>8. PlacesOf(s, st, W, Tail(q), Append(Q, m), N)
  BY <1>4, <1>5, <1>6, <1>7, PlaceNew DEF PlacesOf
<1>9. \A k \in 1..c : Taken(o, <<s, k>>)
  <2> SUFFICES ASSUME NEW k \in 1..c, Ahead(q, 1, <<s, k>>) PROVE FALSE
    BY <1>2, <1>3 DEF AskedLate
  <2>1. Head(q).kind = "mutation"
    BY AheadFirst
  <2>2. QED BY <2>1
<1>10. \A k \in 1..c : Holds(o, <<s, k>>, Latest(o))
  BY <1>9, HoldsLatest
<1>11. Len(Q) + 1 \in 1..(Len(Q) + 1)
  BY AppendParts
<1>12. \A v : Finds(Append(Q, m), d, Len(Q) + 1, v) => Finds(Q, d, Len(Q) + 1, v)
  BY <1>11, FindsAppend
<1>13. ReadLate(s, c, Append(Q, m), d, o)
  BY <1>6, <1>10, <1>12 DEF ReadLate
<1>14. QED BY <1>1, <1>8, <1>13 DEF WriteOf

\* It is refused.
LEMMA WriteRefused ==
    ASSUME NEW q \in Seq(Messages), q # <<>>, NEW s, Head(q).kind = "resolve", Head(q).from = s,
           NEW ts, NEW st, NEW c, NEW n, NEW W, NEW Q, NEW d, NEW N, NEW o,
           WriteOf(s, st, c, n, W, q, Q, d, N, o), ts # "waiting"
    PROVE  WriteOf(s, ts, c, n, W, Tail(q), Q, d, N, o)
<1>1. SentOrTaken(s, n, Tail(q), o) /\ AskedLate(s, c, Tail(q), o)
  BY MailTaken, GrowsSame DEF WriteOf
<1>2. 1 \in Places(q, s, "resolve")
  BY PlacesTail
<1>3. PlacesOf(s, st, W, q, Q, N)
  BY DEF WriteOf
<1>4. /\ One(Places(q, s, "resolve")) /\ Places(W, s, "resolve") = {}
      /\ Places(Q, s, "read") = {} /\ From(N, s) = {}
  BY <1>2, <1>3, PlaceOf DEF PlacesOf
<1>5. Places(Tail(q), s, "resolve") = {}
  BY <1>4, FewerTail
<1>6. PlacesOf(s, ts, W, Tail(q), Q, N)
  BY <1>4, <1>5, PlaceEmpty DEF PlacesOf
<1>7. QED BY <1>1, <1>6 DEF WriteOf

\* The PLC serves a request: a read finds what was written last.
LEMMA WriteServed ==
    ASSUME NEW Q \in Seq(Messages), Q # <<>>, NEW s, NEW e, NEW N, NEW M, NEW d \in Values,
           e = IF Head(Q).kind = "write" THEN Head(Q).v ELSE d,
           Head(Q).kind = "read" => \E r : M = N \cup {r} /\ r.from = Head(Q).from /\ r.v = d,
           Head(Q).kind # "read" => M = N,
           NEW st, NEW c, NEW n, NEW W, NEW q, NEW o,
           WriteOf(s, st, c, n, W, q, Q, d, N, o)
    PROVE  WriteOf(s, st, c, n, W, q, Tail(Q), e, M, o)
<1>0. PlacesOf(s, st, W, q, Q, N) /\ ReadLate(s, c, Q, d, o) /\ AnsweredLate(s, c, N, o)
  BY DEF WriteOf
<1>1. ReadLate(s, c, Tail(Q), e, o)
  <2> SUFFICES ASSUME NEW i \in Places(Tail(Q), s, "read"), NEW k \in 1..c, NEW v \in Values,
                      Finds(Tail(Q), e, i, v)
               PROVE  Holds(o, <<s, k>>, v)
    BY DEF ReadLate
  <2>1. i \in 1..Len(Q) /\ i + 1 \in Places(Q, s, "read")
    <3>1. i \in 1..(Len(Q) - 1) /\ i + 1 \in Places(Q, s, "read")
      BY PlacesTail
    <3>2. QED BY <3>1, TailParts
  <2>2. Finds(Q, d, i + 1, v)
    BY <2>1, FindsTail
  <2>3. QED BY <1>0, <2>1, <2>2 DEF ReadLate
<1>2. Fewer(Places(Q, s, "read"), Places(Tail(Q), s, "read"))
  BY FewerTail
<1>3. CASE Head(Q).kind = "read" /\ Head(Q).from = s
  <2>1. PICK r : M = N \cup {r} /\ r.from = s /\ r.v = d
    BY <1>3
  <2>2. 1 \in Places(Q, s, "read")
    BY <1>3, PlacesTail
  <2>3. /\ One(Places(Q, s, "read")) /\ st = "waiting" /\ Places(W, s, "resolve") = {}
        /\ Places(q, s, "resolve") = {} /\ From(N, s) = {}
    BY <1>0, <2>2, PlaceOf DEF PlacesOf
  <2>4. Places(Tail(Q), s, "read") = {}
    BY <1>3, <2>3, FewerTail
  <2>5. From(M, s) = {r} /\ One({r})
    BY <2>1, <2>3 DEF From, One
  <2>6. PlacesOf(s, st, W, q, Tail(Q), M)
    BY <2>3, <2>4, <2>5, PlaceNew DEF PlacesOf
  <2>7. Finds(Q, d, 1, d)
    BY FindsFirst
  <2>8. \A k \in 1..c : Holds(o, <<s, k>>, d)
    BY <1>0, <2>2, <2>7 DEF ReadLate
  <2>9. AnsweredLate(s, c, M, o)
    BY <1>0, <2>1, <2>8 DEF AnsweredLate
  <2>10. QED BY <1>1, <2>6, <2>9 DEF WriteOf
<1>4. CASE ~(Head(Q).kind = "read" /\ Head(Q).from = s)
  <2>1. From(M, s) = From(N, s)
    BY <1>4 DEF From
  <2>2. PlacesOf(s, st, W, q, Tail(Q), M)
    BY <1>0, <1>2, <2>1, PlaceKept, FewerSame DEF PlacesOf
  <2>3. AnsweredLate(s, c, M, o)
    BY <1>0, <2>1 DEF AnsweredLate, From
  <2>4. QED BY <1>1, <2>2, <2>3 DEF WriteOf
<1>5. QED BY <1>3, <1>4

\* An answer is taken, for s or for another.
LEMMA WriteAnswered ==
    ASSUME NEW s, NEW N, NEW r \in N, NEW ts,
           NEW st, NEW c, NEW n, NEW W, NEW q, NEW Q, NEW d, NEW o,
           WriteOf(s, st, c, n, W, q, Q, d, N, o),
           r.from = s => ts # "waiting", r.from # s => ts = st
    PROVE  /\ WriteOf(s, ts, c, n, W, q, Q, d, N \ {r}, o)
           /\ r.from = s => st = "waiting"
<1>0. PlacesOf(s, st, W, q, Q, N) /\ AnsweredLate(s, c, N, o)
  BY DEF WriteOf
<1>1. AnsweredLate(s, c, N \ {r}, o)
  BY <1>0 DEF AnsweredLate
<1>2. CASE r.from = s
  <2>1. r \in From(N, s)
    BY <1>2 DEF From
  <2>2. /\ One(From(N, s)) /\ st = "waiting" /\ Places(W, s, "resolve") = {}
        /\ Places(q, s, "resolve") = {} /\ Places(Q, s, "read") = {}
    BY <1>0, <2>1, PlaceOf DEF PlacesOf
  <2>3. From(N \ {r}, s) = {}
    BY <2>1, <2>2 DEF From, One
  <2>4. PlacesOf(s, ts, W, q, Q, N \ {r})
    BY <2>2, <2>3, PlaceEmpty DEF PlacesOf
  <2>5. QED BY <1>1, <1>2, <2>2, <2>4 DEF WriteOf
<1>3. CASE r.from # s
  <2>1. From(N \ {r}, s) = From(N, s)
    BY <1>3 DEF From
  <2>2. QED BY <1>0, <1>1, <1>3, <2>1 DEF WriteOf, PlacesOf
<1>4. QED BY <1>2, <1>3

\* The connection ends: the reads on their way are gone.
LEMMA WriteCut ==
    ASSUME NEW s, NEW ts, NEW st, NEW c, NEW n, NEW W, NEW q, NEW Q, NEW d, NEW N, NEW o,
           WriteOf(s, st, c, n, W, q, Q, d, N, o),
           ts = st \/ (Places(Q, s, "read") # {} /\ ts # "waiting")
    PROVE  WriteOf(s, ts, c, n, W, q, <<>>, d, N, o)
<1>0. PlacesOf(s, st, W, q, Q, N)
  BY DEF WriteOf
<1>1. Places(<<>>, s, "read") = {}
  BY DEF Places
<1>2. ReadLate(s, c, <<>>, d, o)
  BY <1>1 DEF ReadLate
<1>3. CASE ts = st
  <2>1. Fewer(Places(Q, s, "read"), {})
    BY FewerSubset
  <2>2. PlacesOf(s, st, W, q, <<>>, N)
    BY <1>0, <1>1, <2>1, PlaceKept, FewerSame DEF PlacesOf
  <2>3. QED BY <1>2, <1>3, <2>2 DEF WriteOf
<1>4. CASE Places(Q, s, "read") # {} /\ ts # "waiting"
  <2>1. Places(W, s, "resolve") = {} /\ Places(q, s, "resolve") = {} /\ From(N, s) = {}
    BY <1>0, <1>4, PlaceOf DEF PlacesOf
  <2>2. PlacesOf(s, ts, W, q, <<>>, N)
    BY <1>1, <2>1, PlaceEmpty DEF PlacesOf
  <2>3. QED BY <1>2, <1>4, <2>2 DEF WriteOf
<1>5. QED BY <1>3, <1>4

-----------------------------------------------------------------------------
\* The steps of the system.

WriteAt(p, s) ==
    WriteOf(s, future[s].st, future[s].since, sent[s], parked[s], mailbox[p], pipe[p], plc[p],
            replies[p], order[p])
HasOwn(s, f, o) ==
    f.st = "answered" /\ ~f.blind => \A k \in 1..f.since : Holds(o, <<s, k>>, f.v)

AnswersRouted == \A p \in Plcs : \A r \in replies[p] : r.from \in Clients(p)

\* All that was handled is at the PLC or on its way, and nothing is without a connection.
PipeIsLatest ==
    \A p \in Plcs :
        /\ clientUp[p] => \A v \in Values :
              Finds(pipe[p], plc[p], Len(pipe[p]) + 1, v) => v = Latest(order[p])
        /\ ~clientUp[p] => pipe[p] = <<>>

WritesAhead ==
    \A p \in Plcs : \A s \in Clients(p) : alive[p] /\ phase[s] \in {"new", "open"} => WriteAt(p, s)
AnswersOwn ==
    \A p \in Plcs : \A s \in Clients(p) : Open(s) => HasOwn(s, future[s], order[p])

WriteInv ==
    /\ RouteInv /\ ParkWaits /\ AnswersRouted /\ PipeIsLatest
    /\ WritesAhead /\ AnswersOwn

\* A session that another one does not take with it keeps all it has.
LEMMA SessionOthers ==
    ASSUME TypeInv, NEW w \in Sessions, Session(w), NEW s \in Sessions, s # w, phase'[s] # "dead"
    PROVE  /\ phase'[s] = phase[s] /\ future'[s] = future[s] /\ sent'[s] = sent[s]
           /\ parked'[s] = parked[s] /\ inbox'[s] = inbox[s] /\ shown'[s] = shown[s]
           /\ outdated'[s] = outdated[s]
<1>0. /\ phase \in [Sessions -> {"new", "open", "closed", "dead"}]
      /\ future \in [Sessions -> Futures] /\ sent \in [Sessions -> 0..texts]
      /\ parked \in [Sessions -> Seq(Messages)] /\ DOMAIN inbox = Sessions
      /\ DOMAIN shown = Sessions /\ outdated \in [Sessions -> BOOLEAN]
  BY DEF TypeInv, TypeOK, BrowserTypeOK, SessionTypeOK
<1>1. CASE WorkerDies(w)
  BY <1>0, <1>1 DEF WorkerDies
<1>2. CASE Start(w) /\ ~WorkerDies(w)
  BY <1>0, <1>2 DEF Start, display
<1>3. CASE Stop(w)
  BY <1>0, <1>3 DEF Stop
<1>4. CASE OnText(w) /\ ~WorkerDies(w)
  BY <1>0, <1>4 DEF OnText, SendMutation, SendResolve, SendSubscription, SendMalformed, SendOrPark
<1>5. CASE Unpark(w)
  <2>1. UNCHANGED <<phase, sent, inbox, shown, outdated>>
    BY <1>5 DEF Unpark, browser, display
  <2>2. parked'[s] = parked[s] /\ future'[s] = future[s]
    BY <1>0, <1>5 DEF Unpark
  <2>3. QED BY <2>1, <2>2
<1>6. CASE ShowNotice(w)
  <2>1. UNCHANGED <<phase, sent, parked>>
    BY <1>6 DEF ShowNotice, browser
  <2>2. /\ inbox' = [inbox EXCEPT ![w] = Tail(@)]
        /\ shown' = [shown EXCEPT ![w] = <<Head(inbox[w]).v>>]
        /\ outdated' = [outdated EXCEPT ![w] = FALSE]
        /\ future' = [future EXCEPT ![w].passed =
                         @ \/ (Head(inbox[w]).late /\ future[w].st = "answered")]
    BY <1>6 DEF ShowNotice
  <2>3. QED BY <1>0, <2>1, <2>2
<1>7. CASE ShowAnswer(w) /\ ~WorkerDies(w)
  BY <1>0, <1>7 DEF ShowAnswer, display
<1>8. QED BY <1>1, <1>2, <1>3, <1>4, <1>5, <1>6, <1>7 DEF Session

LEMMA AheadMail ==
    ASSUME RouteInv, ParkWaits, NEW w \in Sessions, Session(w), NEW p \in Plcs
    PROVE  mailbox'[p] = mailbox[p] \/ \E m \in Sent({w}) : mailbox'[p] = Append(mailbox[p], m)
BY SessionSays, DoSendMail, SentBy DEF SaysHello, SaysBye, SaysNeither

\* The types that the lemmas about one session ask for.
LEMMA WriteTypes ==
    ASSUME RouteInv, NEW p \in Plcs, NEW s \in Sessions
    PROVE  /\ mailbox[p] \in Seq(Messages) /\ pipe[p] \in Seq(Messages) /\ order[p] \in Seq(Values)
           /\ parked[s] \in Seq(Messages) /\ plc[p] \in Values
           /\ sent[s] \in Nat /\ future[s].since \in Nat /\ future[s] \in Futures
           /\ future \in [Sessions -> Futures] /\ sent \in [Sessions -> 0..texts]
           /\ parked \in [Sessions -> Seq(Messages)]
           /\ phase \in [Sessions -> {"new", "open", "closed", "dead"}]
<1>1. /\ sent \in [Sessions -> 0..texts] /\ texts \in Nat /\ MaxTexts \in Nat
      /\ future \in [Sessions -> Futures]
  BY TextsType, FutureKept DEF RouteInv
<1>2. sent[s] \in Nat /\ future[s].since \in Nat /\ future[s] \in Futures
  BY <1>1 DEF Futures
<1>3. QED
  BY <1>1, <1>2 DEF RouteInv, TypeInv, TypeOK, BrowserTypeOK, ServerTypeOK, SessionTypeOK

LEMMA WriteSelf ==
    ASSUME WriteInv, NEW p \in Plcs, NEW s \in Clients(p), Session(s), alive[p],
           phase'[s] \in {"new", "open"}
    PROVE  WriteAt(p, s)'
<1>0. /\ RouteInv /\ TypeInv /\ s \in Sessions /\ Known(url[s]) /\ Mux(s) = p
      /\ UNCHANGED <<pipe, replies, plc, order>>
  BY SessionCalls DEF WriteInv, RouteInv, Clients
<1>1. /\ mailbox[p] \in Seq(Messages) /\ parked[s] \in Seq(Messages)
      /\ sent[s] \in Nat /\ future[s].since \in Nat /\ future \in [Sessions -> Futures]
      /\ sent \in [Sessions -> 0..texts] /\ parked \in [Sessions -> Seq(Messages)]
      /\ phase \in [Sessions -> {"new", "open", "closed", "dead"}] /\ future[s] \in Futures
  BY <1>0, WriteTypes
<1> DEFINE q == mailbox[p]
<1>2. phase[s] \in {"new", "open"} => WriteAt(p, s)
  BY DEF WriteInv, WritesAhead
<1>3. ~WorkerDies(s)
  <2>1. WorkerDies(s) => phase'[s] = "dead"
    BY <1>0 DEF WorkerDies
  <2>2. QED BY <2>1
<1>4. \A m \in Sent({s}) : m.from = s /\ m \in Messages
  BY <1>0, SentBy, SentMessage DEF Sent
<1>5. \A m : DoSend(s, m) => mailbox'[p] = Append(q, m)
  BY <1>0, DoSendMail
<1>6. CASE Start(s)
  <2> DEFINE m == Message("register", s, Loaded)
  <2>1. /\ phase[s] = "new" /\ DoSend(s, m) /\ UNCHANGED <<parked, future, sent>>
    BY <1>0, <1>6 DEF Start
  <2>2. m \in Messages /\ m.kind # "resolve"
    BY <1>0, <1>4, SentBy DEF Message
  <2>3. mailbox'[p] = Append(q, m)
    BY <1>5, <2>1
  <2> HIDE DEF m
  <2>4. QED BY <1>0, <1>1, <1>2, <2>1, <2>2, <2>3, WriteJoined DEF WriteAt
<1>7. CASE Stop(s)
  BY <1>0, <1>1, <1>7 DEF Stop
<1>8. CASE OnText(s)
  <2>0. phase[s] = "open" /\ WriteAt(p, s)
    BY <1>2, <1>8 DEF OnText, Open
  <2>1. CASE SendMutation(s)
    <3> DEFINE m == Message("mutation", s, <<s, sent'[s]>>)
    <3>1. /\ sent'[s] = sent[s] + 1 /\ DoSend(s, m) /\ UNCHANGED <<parked, future>>
      BY <1>0, <1>1, <2>1 DEF SendMutation
    <3>2. sent'[s] \in 1..MaxTexts
      <4>1. sent[s] \in 0..texts /\ texts < MaxTexts
        BY <1>0, <1>1, <1>8 DEF OnText
      <4>2. texts \in Nat /\ MaxTexts \in Nat
        BY <1>0, TextsType
      <4>3. QED BY ONLY <3>1, <4>1, <4>2
    <3>3. m \in Messages /\ m.kind = "mutation" /\ m.v = <<s, sent[s] + 1>>
      BY <1>0, <1>4, <3>1, <3>2, SentBy DEF Message
    <3>4. mailbox'[p] = Append(q, m)
      BY <1>5, <3>1
    <3> HIDE DEF m
    <3>5. QED BY <1>0, <1>1, <2>0, <3>1, <3>3, <3>4, WriteSent DEF WriteAt
  <2>2. CASE SendResolve(s)
    <3> DEFINE m == Message("resolve", s, Loaded)
    <3>1. /\ future[s].st = "none" /\ SendOrPark(s, m) /\ UNCHANGED sent
          /\ future'[s] = [NoFuture EXCEPT !.st = "waiting", !.since = sent[s]]
      BY <1>0, <1>1, <2>2 DEF SendResolve
    <3>2. future'[s].st = "waiting" /\ future'[s].since = sent[s]
      BY <3>1 DEF NoFuture
    <3>3. m \in Messages /\ m.kind = "resolve" /\ m.from = s
      BY <1>0, <1>4, SentBy DEF Message
    <3> HIDE DEF m
    <3>4. CASE DoSend(s, m) /\ UNCHANGED parked
      <4>1. mailbox'[p] = Append(q, m)
        BY <1>5, <3>4
      <4>2. QED BY <1>0, <1>1, <2>0, <3>1, <3>2, <3>3, <3>4, <4>1, WriteAsked DEF WriteAt
    <3>5. CASE parked' = [parked EXCEPT ![s] = Append(@, m)] /\ UNCHANGED mailbox
      <4>1. parked'[s] = Append(parked[s], m)
        BY <1>0, <1>1, <3>5
      <4>2. QED BY <1>0, <1>1, <2>0, <3>1, <3>2, <3>3, <3>5, <4>1, WriteWaits DEF WriteAt
    <3>6. QED BY <3>1, <3>4, <3>5 DEF SendOrPark
  <2>3. CASE SendSubscription(s)
    <3> DEFINE m == Message("subscription", s, Loaded)
    <3>1. SendOrPark(s, m) /\ UNCHANGED <<sent, future>>
      BY <2>3 DEF SendSubscription
    <3>2. m \in Messages /\ m.kind # "resolve"
      BY <1>0, <1>4, SentBy DEF Message
    <3> HIDE DEF m
    <3>3. CASE DoSend(s, m) /\ UNCHANGED parked
      <4>1. mailbox'[p] = Append(q, m)
        BY <1>5, <3>3
      <4>2. QED BY <1>0, <1>1, <2>0, <3>1, <3>2, <3>3, <4>1, WriteJoined DEF WriteAt
    <3>4. CASE parked' = [parked EXCEPT ![s] = Append(@, m)] /\ UNCHANGED mailbox
      <4>1. parked'[s] = Append(parked[s], m)
        BY <1>0, <1>1, <3>4
      <4>2. QED BY <1>0, <1>1, <2>0, <3>1, <3>2, <3>4, <4>1, WriteWaitsToo DEF WriteAt
    <3>5. QED BY <3>1, <3>3, <3>4 DEF SendOrPark
  <2>4. CASE SendMalformed(s)
    BY <1>3, <2>4 DEF SendMalformed
  <2>5. QED BY <1>8, <2>1, <2>2, <2>3, <2>4 DEF OnText
<1>9. CASE Unpark(s)
  <2>1. /\ parked[s] # <<>> /\ DoSend(s, Head(parked[s])) /\ parked'[s] = Tail(parked[s])
        /\ future' = future /\ UNCHANGED <<sent, phase>>
    BY <1>0, <1>1, <1>9 DEF Unpark, browser
  <2>2. phase[s] \in {"new", "open"} /\ WriteAt(p, s)
    BY <1>2, <2>1
  <2>3. Head(parked[s]).from = s
    <3>1. parked[s] \in Seq(Sent({s})) /\ parked[s] # <<>>
      BY <1>0, <2>1 DEF RouteInv, ParkRouted
    <3>2. Head(parked[s]) \in Sent({s})
      BY ONLY <3>1
    <3>3. QED BY <1>4, <3>2
  <2>4. mailbox'[p] = Append(q, Head(parked[s]))
    BY <1>5, <2>1
  <2>5. QED BY <1>0, <1>1, <2>1, <2>2, <2>3, <2>4, WriteUnparked DEF WriteAt
<1>10. CASE ShowNotice(s)
  <2>1. /\ UNCHANGED <<sent, phase, parked, mailbox>>
        /\ future' = [future EXCEPT ![s].passed =
                         @ \/ (Head(inbox[s]).late /\ future[s].st = "answered")]
    BY <1>10 DEF ShowNotice, browser
  <2>2. future'[s].st = future[s].st /\ future'[s].since = future[s].since
    BY <1>0, <1>1, <2>1 DEF Futures
  <2>3. WriteAt(p, s)
    BY <1>2, <2>1
  <2>4. QED BY <1>0, <2>1, <2>2, <2>3 DEF WriteAt
<1>11. CASE ShowAnswer(s)
  <2>1. /\ future[s].st \in {"answered", "closed"} /\ UNCHANGED <<phase, sent, parked, mailbox>>
        /\ future'[s] = NoFuture
    BY <1>0, <1>1, <1>3, <1>11 DEF ShowAnswer
  <2>2. future'[s].st = "none"
    BY <2>1 DEF NoFuture
  <2>3. WriteAt(p, s)
    BY <1>2, <2>1
  <2>4. QED BY <1>0, <2>1, <2>2, <2>3, WriteEnded DEF WriteAt
<1>12. QED BY <1>6, <1>7, <1>8, <1>9, <1>10, <1>11 DEF Session

\* A session another one does nothing for but to fill the mailbox.
LEMMA WriteOther ==
    ASSUME WriteInv, NEW p \in Plcs, NEW s \in Clients(p), NEW w \in Sessions, w # s, Session(w),
           alive[p], phase'[s] \in {"new", "open"}
    PROVE  WriteAt(p, s)'
<1>0. /\ RouteInv /\ TypeInv /\ ParkWaits /\ s \in Sessions
      /\ UNCHANGED <<pipe, replies, plc, order>>
  BY SessionCalls DEF WriteInv, RouteInv, Clients
<1>1. phase'[s] = phase[s] /\ future'[s] = future[s] /\ sent'[s] = sent[s] /\ parked'[s] = parked[s]
  BY <1>0, SessionOthers
<1>2. WriteAt(p, s) /\ mailbox[p] \in Seq(Messages)
  BY <1>0, <1>1, WriteTypes DEF WriteInv, WritesAhead
<1>3. \A m \in Sent({w}) : m.from = w /\ m \in Messages
  BY SentBy, SentMessage DEF Sent
<1>4. mailbox'[p] = mailbox[p] \/ \E m \in Sent({w}) : mailbox'[p] = Append(mailbox[p], m)
  BY <1>0, AheadMail
<1>5. CASE mailbox'[p] = mailbox[p]
  BY <1>0, <1>1, <1>2, <1>5 DEF WriteAt
<1>6. ASSUME NEW m \in Sent({w}), mailbox'[p] = Append(mailbox[p], m)
      PROVE  WriteAt(p, s)'
  <2>1. m \in Messages /\ m.from # s
    BY <1>3
  <2>2. QED BY <1>0, <1>1, <1>2, <1>6, <2>1, WriteJoined DEF WriteAt
<1>7. QED BY <1>4, <1>5, <1>6

\* What an answered session was given stays; a session gets an answer from its
\* multiplexer alone.
LEMMA OwnKept ==
    ASSUME NEW s, NEW f, NEW g, NEW o, NEW b, HasOwn(s, f, o), Grows(o, b),
           g.st = "answered" => /\ f.st = "answered" /\ g.blind = f.blind
                                /\ g.since = f.since /\ g.v = f.v
    PROVE  HasOwn(s, g, b)
BY DEF HasOwn, Grows

LEMMA OwnSession ==
    ASSUME WriteInv, NEW p \in Plcs, NEW s \in Clients(p), NEW w \in Sessions, Session(w),
           phase'[s] = "open"
    PROVE  HasOwn(s, future'[s], order[p])
<1>0. /\ RouteInv /\ TypeInv /\ s \in Sessions /\ future \in [Sessions -> Futures]
      /\ phase \in [Sessions -> {"new", "open", "closed", "dead"}]
  BY FutureKept DEF WriteInv, RouteInv, Clients, TypeInv, TypeOK, BrowserTypeOK
<1>1. phase[s] = "open" => HasOwn(s, future[s], order[p])
  BY DEF WriteInv, AnswersOwn, Open
<1>2. CASE w # s
  <2>1. phase'[s] = phase[s] /\ future'[s] = future[s]
    BY <1>0, <1>2, SessionOthers
  <2>2. QED BY <1>1, <1>2, <2>1
<1>3. CASE w = s
  <2>1. ~WorkerDies(s)
    BY <1>0, <1>3 DEF WorkerDies
  <2>2. CASE Start(s)
    <3>1. future'[s] = future[s] /\ ~Open(s)
      BY <2>1, <2>2 DEF Start, Open
    <3>2. future[s].st = "none"
      BY <1>0, <3>1 DEF TypeInv, TypeOK, GoneIsIdle, NoFuture
    <3>3. QED BY <3>1, <3>2 DEF HasOwn
  <2>3. CASE Stop(s)
    BY <1>0, <2>3 DEF Stop
  <2>4. CASE OnText(s)
    <3>0. phase[s] = "open"
      BY <2>4 DEF OnText, Open
    <3>1. CASE SendResolve(s)
      <4>1. future'[s] = [NoFuture EXCEPT
                             !.st = IF alive[Mux(s)] THEN "waiting" ELSE "closed", !.since = sent[s]]
        BY <1>0, <3>1 DEF SendResolve
      <4>2. future'[s].st # "answered"
        BY <4>1 DEF NoFuture
      <4>3. QED BY <4>2 DEF HasOwn
    <3>2. CASE SendMutation(s) \/ SendSubscription(s)
      BY <1>1, <3>0, <3>2 DEF SendMutation, SendSubscription
    <3>3. CASE SendMalformed(s)
      BY <2>1, <3>3 DEF SendMalformed
    <3>4. QED BY <2>4, <3>1, <3>2, <3>3 DEF OnText
  <2>5. CASE Unpark(s)
    <3>0. phase[s] = "open"
      BY <1>0, <2>5 DEF Unpark, browser, Open, TypeInv, TypeOK, GoneIsIdle
    <3>1. CASE future' = [future EXCEPT ![s].st = "closed"]
      <4>1. future'[s].st = "closed"
        BY <1>0, <3>1 DEF Futures
      <4>2. QED BY <4>1 DEF HasOwn
    <3>2. QED BY <1>1, <2>5, <3>0, <3>1 DEF Unpark
  <2>6. CASE ShowNotice(s)
    <3>1. /\ UNCHANGED phase
          /\ future' = [future EXCEPT ![s].passed =
                           @ \/ (Head(inbox[s]).late /\ future[s].st = "answered")]
      BY <2>6 DEF ShowNotice, browser
    <3>2. /\ future'[s].st = future[s].st /\ future'[s].since = future[s].since
          /\ future'[s].blind = future[s].blind /\ future'[s].v = future[s].v
      BY <1>0, <3>1 DEF Futures
    <3>3. HasOwn(s, future[s], order[p])
      BY <1>1, <1>3, <3>1
    <3>4. QED BY <3>2, <3>3, OwnKept, GrowsSame
  <2>7. CASE ShowAnswer(s)
    <3>1. future'[s] = NoFuture
      BY <1>0, <2>1, <2>7 DEF ShowAnswer
    <3>2. QED BY <3>1 DEF HasOwn, NoFuture
  <2>8. QED BY <1>3, <2>2, <2>3, <2>4, <2>5, <2>6, <2>7 DEF Session
<1>4. QED BY <1>2, <1>3

-----------------------------------------------------------------------------
\* The steps of the server, one part at a time.

LEMMA ServerElsewhere ==
    ASSUME RouteInv, NEW r \in Plcs, Server(r), NEW p \in Plcs, p # r
    PROVE  /\ mailbox'[p] = mailbox[p] /\ pipe'[p] = pipe[p] /\ plc'[p] = plc[p]
           /\ replies'[p] = replies[p] /\ order'[p] = order[p] /\ mirror'[p] = mirror[p]
           /\ alive'[p] = alive[p] /\ clientUp'[p] = clientUp[p] /\ subscribers'[p] = subscribers[p]
<1>0. /\ DOMAIN mailbox = Plcs /\ DOMAIN pipe = Plcs /\ DOMAIN plc = Plcs /\ DOMAIN replies = Plcs
      /\ DOMAIN order = Plcs /\ DOMAIN mirror = Plcs /\ DOMAIN alive = Plcs /\ DOMAIN clientUp = Plcs
      /\ DOMAIN subscribers = Plcs
  BY DEF RouteInv, TypeInv, TypeOK, ServerTypeOK
<1>1. CASE Handle(r)
  <2> DEFINE m == Head(mailbox[r])
  <2>0. /\ mailbox' = [mailbox EXCEPT ![r] = Tail(@)]
        /\ UNCHANGED <<alive, clientUp, plc>>
    BY <1>1 DEF Handle, lifecycle
  <2> HIDE DEF m
  <2>2. CASE OnMutation(r, m.v)
    BY <1>0, <2>0, <2>2 DEF OnMutation, registry
  <2>3. CASE OnResolve(r, m.from)
    BY <1>0, <2>0, <2>3 DEF OnResolve, registry
  <2>4. CASE OnSubscription(r, m.from)
    BY <1>0, <2>0, <2>4 DEF OnSubscription
  <2>5. CASE UNCHANGED <<subscribers, mirror, order, pipe, replies>>
    BY <1>0, <2>0, <2>5
  <2>6. QED BY <1>1, <2>2, <2>3, <2>4, <2>5 DEF Handle, m
<1>2. CASE Finish(r)
  <2>1. /\ UNCHANGED <<mailbox, alive, clientUp, subscribers, pipe, plc, order>>
        /\ \E v : mirror' = [mirror EXCEPT ![r] = v]
        /\ \E N : replies' = [replies EXCEPT ![r] = N]
    BY <1>2 DEF Finish, lifecycle, registry
  <2>2. QED BY <1>0, <2>1
<1>3. CASE MuxStops(r)
  BY <1>0, <1>3 DEF MuxStops, registry
<1>4. CASE PlcServes(r)
  <2>1. /\ UNCHANGED <<mailbox, alive, clientUp, subscribers, mirror, order>>
        /\ pipe' = [pipe EXCEPT ![r] = Tail(@)]
        /\ UNCHANGED plc \/ \E v : plc' = [plc EXCEPT ![r] = v]
        /\ UNCHANGED replies \/ \E N : replies' = [replies EXCEPT ![r] = N]
    BY <1>4 DEF PlcServes, lifecycle, registry
  <2>2. QED BY <1>0, <2>1
<1>5. CASE ClientStops(r)
  BY <1>0, <1>5 DEF ClientStops, registry
<1>6. QED BY <1>1, <1>2, <1>3, <1>4, <1>5 DEF Server

LEMMA ServerOthers ==
    ASSUME RouteInv, AnswersRouted, NEW r \in Plcs, Server(r), NEW p \in Plcs, p # r, NEW s \in Clients(p)
    PROVE  future'[s] = future[s]
<1>0. s \in Sessions /\ Mux(s) = p /\ s \notin Clients(r) /\ future \in [Sessions -> Futures]
  BY FutureKept DEF RouteInv, Clients
<1>1. CASE Handle(r)
  <2> DEFINE m == Head(mailbox[r])
  <2>1. m.from \in Clients(r) /\ m.from # s
    <3>1. mailbox[r] \in Seq(Sent(Clients(r))) /\ mailbox[r] # <<>>
      BY <1>1 DEF Handle, RouteInv, MailRouted
    <3>2. m \in Sent(Clients(r))
      BY ONLY <3>1
    <3>3. QED BY <1>0, <3>2 DEF Sent
  <2> HIDE DEF m
  <2>2. CASE OnMutation(r, m.v)
    BY <2>2 DEF OnMutation
  <2>3. CASE OnResolve(r, m.from)
    BY <1>0, <2>1, <2>3 DEF OnResolve, Settled
  <2>4. CASE OnSubscription(r, m.from)
    <3>1. future' = [future EXCEPT ![m.from].passed = future[m.from].st = "answered"]
      BY <2>4 DEF OnSubscription
    <3>2. QED BY <1>0, <2>1, <3>1
  <2>5. QED BY <1>1, <2>2, <2>3, <2>4 DEF Handle, m
<1>2. CASE Finish(r)
  <2>1. PICK a \in replies[r] :
          future' = IF future[a.from].st # "waiting" THEN future
                    ELSE [future EXCEPT ![a.from] = [@ EXCEPT
                            !.st = Outcome(a), !.v = IF a.refused THEN mirror[r] ELSE a.v,
                            !.blind = a.refused]]
    BY <1>2 DEF Finish
  <2>2. a.from # s
    BY <1>0 DEF AnswersRouted
  <2>3. QED BY <1>0, <2>1, <2>2
<1>3. CASE MuxStops(r)
  BY <1>0, <1>3 DEF MuxStops
<1>4. CASE PlcServes(r)
  BY <1>4 DEF PlcServes
<1>5. CASE ClientStops(r)
  <2>1. \A i \in DOMAIN pipe[r] : pipe[r][i].kind = "read" => pipe[r][i].from # s
    <3>1. pipe[r] \in Seq(Reads(r))
      BY DEF RouteInv, PipeRouted
    <3>2. QED BY <1>0, <3>1 DEF Reads
  <2>2. QED BY <1>0, <1>5, <2>1 DEF ClientStops
<1>6. QED BY <1>1, <1>2, <1>3, <1>4, <1>5 DEF Server

LEMMA WriteHandle ==
    ASSUME WriteInv, NEW p \in Plcs, Handle(p), NEW s \in Clients(p), phase[s] \in {"new", "open"}
    PROVE  WriteAt(p, s)' /\ (Open(s) => HasOwn(s, future'[s], order'[p]))
<1> DEFINE q == mailbox[p]
           m == Head(mailbox[p])
           Q == pipe[p]
           o == order[p]
<1>0. /\ RouteInv /\ s \in Sessions /\ alive[p] /\ q # <<>>
      /\ UNCHANGED <<phase, sent, parked, clientUp, plc>>
  BY DEF WriteInv, Clients, Handle, browser, lifecycle
<1>1. /\ q \in Seq(Messages) /\ Q \in Seq(Messages) /\ o \in Seq(Values)
      /\ future \in [Sessions -> Futures] /\ DOMAIN pipe = Plcs /\ DOMAIN order = Plcs
      /\ DOMAIN mailbox = Plcs
  BY <1>0, WriteTypes DEF RouteInv, TypeInv, TypeOK, ServerTypeOK
<1>2. /\ WriteAt(p, s) /\ (Open(s) => HasOwn(s, future[s], o))
      /\ clientUp[p] => \A v \in Values : Finds(Q, plc[p], Len(Q) + 1, v) => v = Latest(o)
  BY <1>0 DEF WriteInv, WritesAhead, AnswersOwn, PipeIsLatest
<1>3. mailbox'[p] = Tail(q)
  BY <1>1 DEF Handle
<1>4. m \in Sent(Clients(p))
  <2>1. q \in Seq(Sent(Clients(p))) /\ q # <<>>
    BY <1>0, MailOf
  <2>2. QED BY ONLY <2>1
<1>5. /\ m.from \in Clients(p) /\ m.from \in Sessions
      /\ m.kind = "mutation" => m.v \in Sessions \X (1..MaxTexts)
  BY <1>4 DEF Sent, Clients
<1> HIDE DEF m
<1>6. \A kind \in {"read", "write"}, v \in Values : \A f \in Sessions :
         /\ Message(kind, f, v) \in Messages /\ Message(kind, f, v).kind = kind
         /\ Message(kind, f, v).from = f
  BY DEF Message, Messages
<1>7. CASE m.kind = "mutation" /\ OnMutation(p, m.v)
  <2> DEFINE a == Message("write", m.v[1], m.v)
             b == Append(o, m.v)
  <2>1. m.v \in Values /\ a \in Messages /\ a.kind = "write"
    BY <1>5, <1>6, <1>7 DEF Values
  <2>2. order'[p] = b /\ (pipe'[p] = Q \/ pipe'[p] = Append(Q, a)) /\ UNCHANGED <<future, replies>>
    BY <1>1, <1>7 DEF OnMutation
  <2>3. Grows(o, b) /\ Taken(b, m.v)
    BY <1>1, <2>1, OrderAppend DEF Grows
  <2> HIDE DEF a, b
  <2>4. Head(q).kind = "mutation" => Taken(b, Head(q).v)
    BY <2>3 DEF m
  <2>5. pipe'[p] = Q \/ \E x \in Messages : pipe'[p] = Append(Q, x) /\ ~(x.from = s /\ x.kind = "read")
    BY <2>1, <2>2
  <2>6. WriteOf(s, future[s].st, future[s].since, sent[s], parked[s], Tail(q), pipe'[p], plc[p],
                replies[p], b)
    <3>1. WriteOf(s, future[s].st, future[s].since, sent[s], parked[s], q, Q, plc[p], replies[p], o)
      BY <1>2 DEF WriteAt
    <3>2. QED BY <1>0, <1>1, <2>3, <2>4, <2>5, <3>1, WriteTaken
  <2>7. WriteAt(p, s)'
    BY <1>0, <1>3, <2>2, <2>6 DEF WriteAt
  <2>8. Open(s) => HasOwn(s, future'[s], order'[p])
    BY <1>2, <2>2, <2>3, OwnKept
  <2>9. QED BY <2>7, <2>8
<1>8. ASSUME UNCHANGED <<order, replies>>, m.kind # "mutation",
             pipe'[p] = Q \/ \E x \in Messages : pipe'[p] = Append(Q, x) /\ ~(x.from = s /\ x.kind = "read"),
             future'[s].st = future[s].st, future'[s].since = future[s].since,
             future'[s].blind = future[s].blind, future'[s].v = future[s].v
      PROVE  WriteAt(p, s)' /\ (Open(s) => HasOwn(s, future'[s], order'[p]))
  <2>1. Head(q).kind = "mutation" => Taken(o, Head(q).v)
    BY <1>8 DEF m
  <2>2. WriteOf(s, future[s].st, future[s].since, sent[s], parked[s], Tail(q), pipe'[p], plc[p],
                replies[p], o)
    <3>1. WriteOf(s, future[s].st, future[s].since, sent[s], parked[s], q, Q, plc[p], replies[p], o)
      BY <1>2 DEF WriteAt
    <3>2. QED BY <1>0, <1>1, <1>8, <2>1, <3>1, GrowsSame, WriteTaken
  <2>3. WriteAt(p, s)'
    BY <1>0, <1>3, <1>8, <2>2 DEF WriteAt
  <2>4. Open(s) => HasOwn(s, future'[s], order'[p])
    BY <1>2, <1>8, OwnKept, GrowsSame
  <2>5. QED BY <2>3, <2>4
<1>9. CASE m.kind = "resolve" /\ OnResolve(p, m.from)
  <2> DEFINE a == Message("read", m.from, Loaded)
  <2>0. UNCHANGED <<order, replies>>
    BY <1>9 DEF OnResolve
  <2>1. a \in Messages /\ a.kind = "read" /\ a.from = m.from
    BY <1>5, <1>6 DEF Values
  <2>2. CASE clientUp[p]
    <3>1. pipe'[p] = Append(Q, a) /\ UNCHANGED future
      BY <1>1, <1>9, <2>2 DEF OnResolve
    <3> HIDE DEF a
    <3>2. CASE m.from # s
      BY <1>8, <1>9, <2>0, <2>1, <3>1, <3>2
    <3>3. CASE m.from = s
      <4>1. WriteOf(s, future[s].st, future[s].since, sent[s], parked[s], q, Q, plc[p], replies[p], o)
        BY <1>2 DEF WriteAt
      <4>2. Head(q).kind = "resolve" /\ Head(q).from = s
        BY <1>9, <3>3 DEF m
      <4>3. WriteOf(s, future[s].st, future[s].since, sent[s], parked[s], Tail(q), Append(Q, a), plc[p],
                    replies[p], o)
        BY <1>0, <1>1, <1>2, <2>1, <2>2, <3>3, <4>1, <4>2, WriteRead
      <4>4. WriteAt(p, s)'
        BY <1>0, <1>3, <2>0, <3>1, <4>3 DEF WriteAt
      <4>5. QED BY <1>2, <2>0, <3>1, <4>4
    <3>4. QED BY <3>2, <3>3
  <2>3. CASE ~clientUp[p]
    <3>1. UNCHANGED pipe /\ future' = Settled(m.from, "failed")
      BY <1>9, <2>3 DEF OnResolve
    <3>2. CASE m.from # s
      <4>1. future'[s] = future[s]
        BY <1>1, <1>0, <3>1, <3>2 DEF Settled
      <4>2. QED BY <1>8, <1>9, <2>0, <3>1, <4>1
    <3>3. CASE m.from = s
      <4>1. WriteOf(s, future[s].st, future[s].since, sent[s], parked[s], q, Q, plc[p], replies[p], o)
        BY <1>2 DEF WriteAt
      <4>2. Head(q).kind = "resolve" /\ Head(q).from = s
        BY <1>9, <3>3 DEF m
      <4>3. /\ future[s].st # "waiting" => future'[s] = future[s]
            /\ future[s].st = "waiting" => future'[s].st = "failed" /\ future'[s].since = future[s].since
        BY <1>0, <1>1, <3>1, <3>3 DEF Settled, Futures
      <4>4. future'[s].st # "waiting" /\ future'[s].since = future[s].since
        BY <4>3
      <4>5. WriteOf(s, future'[s].st, future[s].since, sent[s], parked[s], Tail(q), Q, plc[p],
                    replies[p], o)
        BY <1>0, <1>1, <4>1, <4>2, <4>4, WriteRefused
      <4>6. WriteAt(p, s)'
        BY <1>0, <1>3, <2>0, <3>1, <4>4, <4>5 DEF WriteAt
      <4>7. Open(s) => HasOwn(s, future'[s], order'[p])
        BY <1>2, <2>0, <4>3 DEF HasOwn
      <4>8. QED BY <4>6, <4>7
    <3>4. QED BY <3>2, <3>3
  <2>4. QED BY <2>2, <2>3
<1>10. CASE m.kind = "subscription" /\ OnSubscription(p, m.from)
  <2>1. /\ UNCHANGED <<order, replies, pipe>>
        /\ future' = [future EXCEPT ![m.from].passed = future[m.from].st = "answered"]
    BY <1>10 DEF OnSubscription
  <2>2. /\ future'[s].st = future[s].st /\ future'[s].since = future[s].since
        /\ future'[s].blind = future[s].blind /\ future'[s].v = future[s].v
    BY <1>0, <1>1, <2>1 DEF Futures
  <2>3. QED BY <1>8, <1>10, <2>1, <2>2
<1>11. CASE m.kind \in {"register", "unregister"} /\ UNCHANGED <<order, future, pipe, replies>>
  BY <1>8, <1>11
<1>12. QED BY <1>7, <1>9, <1>10, <1>11 DEF Handle, m

LEMMA WriteFinish ==
    ASSUME WriteInv, NEW p \in Plcs, Finish(p), NEW s \in Clients(p), phase[s] \in {"new", "open"}
    PROVE  WriteAt(p, s)' /\ (Open(s) => HasOwn(s, future'[s], order'[p]))
<1>0. /\ RouteInv /\ s \in Sessions /\ alive[p]
      /\ UNCHANGED <<phase, sent, parked, mailbox, pipe, plc, order>>
  BY DEF WriteInv, Clients, Finish, browser
<1>1. future \in [Sessions -> Futures] /\ DOMAIN replies = Plcs
  BY <1>0, WriteTypes DEF RouteInv, TypeInv, TypeOK, ServerTypeOK
<1>2. WriteAt(p, s) /\ (Open(s) => HasOwn(s, future[s], order[p]))
  BY <1>0 DEF WriteInv, WritesAhead, AnswersOwn
<1>3. PICK r \in replies[p] :
        /\ future' = IF future[r.from].st # "waiting" THEN future
                     ELSE [future EXCEPT ![r.from] = [@ EXCEPT
                              !.st = "answered", !.v = IF r.refused THEN mirror[p] ELSE r.v,
                              !.blind = r.refused]]
        /\ replies' = [replies EXCEPT ![p] = @ \ {r}]
  BY DEF Finish, Outcome
<1>4. replies'[p] = replies[p] \ {r}
  BY <1>1, <1>3
<1>5. WriteOf(s, future[s].st, future[s].since, sent[s], parked[s], mailbox[p], pipe[p], plc[p],
              replies[p], order[p])
  BY <1>2 DEF WriteAt
<1>6. CASE r.from # s
  <2>1. future'[s] = future[s]
    BY <1>0, <1>1, <1>3, <1>6
  <2>2. WriteOf(s, future[s].st, future[s].since, sent[s], parked[s], mailbox[p], pipe[p], plc[p],
                replies[p] \ {r}, order[p])
    BY <1>5, <1>6, WriteAnswered
  <2>3. QED BY <1>0, <1>2, <1>4, <2>1, <2>2 DEF WriteAt
<1>7. CASE r.from = s
  <2>1. /\ WriteOf(s, "answered", future[s].since, sent[s], parked[s], mailbox[p], pipe[p], plc[p],
                   replies[p] \ {r}, order[p])
        /\ future[s].st = "waiting"
    BY <1>5, <1>7, WriteAnswered
  <2>2. /\ future'[s].st = "answered" /\ future'[s].since = future[s].since
        /\ future'[s].blind = r.refused /\ (~r.refused => future'[s].v = r.v)
    BY <1>0, <1>1, <1>3, <1>7, <2>1 DEF Futures
  <2>3. \A k \in 1..future[s].since : ~r.refused => Holds(order[p], <<s, k>>, r.v)
    BY <1>5, <1>7 DEF WriteOf, AnsweredLate
  <2>4. HasOwn(s, future'[s], order'[p])
    BY <1>0, <2>2, <2>3 DEF HasOwn
  <2>5. WriteAt(p, s)'
    BY <1>0, <1>4, <2>1, <2>2 DEF WriteAt
  <2>6. QED BY <2>4, <2>5
<1>8. QED BY <1>6, <1>7

LEMMA WriteServe ==
    ASSUME WriteInv, NEW p \in Plcs, PlcServes(p), NEW s \in Clients(p), phase[s] \in {"new", "open"},
           alive[p]
    PROVE  WriteAt(p, s)'
<1>0. /\ RouteInv /\ s \in Sessions /\ UNCHANGED <<phase, sent, parked, future, mailbox, order>>
  BY DEF WriteInv, Clients, PlcServes, browser
<1>1. /\ pipe[p] \in Seq(Messages) /\ pipe[p] # <<>> /\ plc[p] \in Values
      /\ DOMAIN pipe = Plcs /\ DOMAIN replies = Plcs /\ DOMAIN plc = Plcs
  BY <1>0, WriteTypes DEF RouteInv, TypeInv, TypeOK, ServerTypeOK, PlcServes
<1>2. WriteOf(s, future[s].st, future[s].since, sent[s], parked[s], mailbox[p], pipe[p], plc[p],
              replies[p], order[p])
  BY <1>0 DEF WriteInv, WritesAhead, WriteAt
<1>3. pipe'[p] = Tail(pipe[p])
  BY <1>1 DEF PlcServes
<1>4. plc'[p] = IF Head(pipe[p]).kind = "write" THEN Head(pipe[p]).v ELSE plc[p]
  BY <1>1 DEF PlcServes
<1>5. /\ Head(pipe[p]).kind = "read" =>
            \E r : replies'[p] = replies[p] \cup {r} /\ r.from = Head(pipe[p]).from /\ r.v = plc[p]
      /\ Head(pipe[p]).kind # "read" => replies'[p] = replies[p]
  <2>1. CASE Head(pipe[p]).kind = "read"
    <3>1. PICK refused \in BOOLEAN : replies' = [replies EXCEPT ![p] = @ \cup
              {[from |-> Head(pipe[p]).from, v |-> plc[p], refused |-> refused]}]
      BY <2>1 DEF PlcServes
    <3> DEFINE r == [from |-> Head(pipe[p]).from, v |-> plc[p], refused |-> refused]
    <3>2. replies'[p] = replies[p] \cup {r} /\ r.from = Head(pipe[p]).from /\ r.v = plc[p]
      BY <1>1, <3>1
    <3>3. QED BY <2>1, <3>2
  <2>2. CASE Head(pipe[p]).kind = "write"
    BY <2>2 DEF PlcServes
  <2>3. QED BY <2>1, <2>2 DEF PlcServes
<1>6. WriteOf(s, future[s].st, future[s].since, sent[s], parked[s], mailbox[p], Tail(pipe[p]), plc'[p],
              replies'[p], order[p])
  <2> DEFINE e == plc'[p]
             M == replies'[p]
  <2>1. /\ e = IF Head(pipe[p]).kind = "write" THEN Head(pipe[p]).v ELSE plc[p]
        /\ Head(pipe[p]).kind = "read" =>
              \E r : M = replies[p] \cup {r} /\ r.from = Head(pipe[p]).from /\ r.v = plc[p]
        /\ Head(pipe[p]).kind # "read" => M = replies[p]
    BY <1>4, <1>5
  <2> HIDE DEF e, M
  <2>2. WriteOf(s, future[s].st, future[s].since, sent[s], parked[s], mailbox[p], Tail(pipe[p]), e,
                M, order[p])
    BY <1>1, <1>2, <2>1, WriteServed, ZenonT(60)
  <2>3. QED BY <2>2 DEF e, M
<1>7. QED BY <1>0, <1>3, <1>6 DEF WriteAt

LEMMA WriteClientStops ==
    ASSUME WriteInv, NEW p \in Plcs, ClientStops(p), NEW s \in Clients(p), phase[s] \in {"new", "open"},
           alive[p]
    PROVE  WriteAt(p, s)'
<1>0. /\ RouteInv /\ s \in Sessions
      /\ UNCHANGED <<phase, sent, parked, mailbox, plc, replies, order>>
  BY DEF WriteInv, Clients, ClientStops, browser
<1>1. /\ pipe[p] \in Seq(Messages) /\ DOMAIN pipe = Plcs /\ future \in [Sessions -> Futures]
      /\ DOMAIN pipe[p] = 1..Len(pipe[p])
  BY <1>0, WriteTypes DEF RouteInv, TypeInv, TypeOK, ServerTypeOK
<1>2. WriteOf(s, future[s].st, future[s].since, sent[s], parked[s], mailbox[p], pipe[p], plc[p],
              replies[p], order[p])
  BY <1>0 DEF WriteInv, WritesAhead, WriteAt
<1>3. pipe'[p] = <<>>
  BY <1>1 DEF ClientStops
<1>4. \/ future'[s] = future[s]
      \/ /\ Places(pipe[p], s, "read") # {}
         /\ future'[s] = [future[s] EXCEPT !.st = "failed"]
  <2> DEFINE readers == {pipe[p][i].from : i \in {j \in DOMAIN pipe[p] : pipe[p][j].kind = "read"}}
  <2>1. s \in readers => Places(pipe[p], s, "read") # {}
    BY <1>1 DEF Places
  <2>2. QED BY <1>0, <2>1 DEF ClientStops
<1>5. /\ future'[s].since = future[s].since
      /\ future'[s].st = future[s].st \/ (Places(pipe[p], s, "read") # {} /\ future'[s].st # "waiting")
  BY <1>0, <1>1, <1>4 DEF Futures
<1>6. WriteOf(s, future'[s].st, future[s].since, sent[s], parked[s], mailbox[p], <<>>, plc[p],
              replies[p], order[p])
  BY <1>2, <1>5, WriteCut
<1>7. QED BY <1>0, <1>3, <1>5, <1>6 DEF WriteAt

LEMMA AnswersRoutedStep ==
    ASSUME RouteInv, AnswersRouted, NEW r \in Plcs, Server(r)
    PROVE  \A p \in Plcs : \A a \in replies'[p] : a.from \in Clients(p)
<1>0. DOMAIN replies = Plcs /\ \A p \in Plcs : \A a \in replies[p] : a.from \in Clients(p)
  BY DEF RouteInv, TypeInv, TypeOK, ServerTypeOK, AnswersRouted
<1>1. CASE Handle(r) \/ ClientStops(r)
  <2>1. UNCHANGED replies
    BY <1>1 DEF Handle, ClientStops, OnMutation, OnResolve, OnSubscription
  <2>2. QED BY <1>0, <2>1
<1>2. CASE Finish(r)
  <2>1. PICK a \in replies[r] : replies' = [replies EXCEPT ![r] = @ \ {a}]
    BY <1>2 DEF Finish
  <2>2. QED BY <1>0, <2>1
<1>3. CASE MuxStops(r)
  BY <1>0, <1>3 DEF MuxStops
<1>4. CASE PlcServes(r)
  <2>1. CASE Head(pipe[r]).kind = "read"
    <3>1. pipe[r] \in Seq(Reads(r)) /\ pipe[r] # <<>>
      BY <1>4 DEF RouteInv, PipeRouted, PlcServes
    <3>2. Head(pipe[r]).from \in Clients(r)
      <4>1. Head(pipe[r]) \in Reads(r)
        BY ONLY <3>1
      <4>2. QED BY <2>1, <4>1 DEF Reads
    <3>3. PICK refused : replies' = [replies EXCEPT ![r] = @ \cup
              {[from |-> Head(pipe[r]).from, v |-> plc[r], refused |-> refused]}]
      BY <1>4, <2>1 DEF PlcServes
    <3>4. QED BY <1>0, <3>2, <3>3
  <2>2. CASE UNCHANGED replies
    BY <1>0, <2>2
  <2>3. QED BY <1>4, <2>1, <2>2 DEF PlcServes
<1>5. QED BY <1>1, <1>2, <1>3, <1>4 DEF Server

\* The last request on its way is the last mutation, or finds it.
LEMMA PipeHandle ==
    ASSUME RouteInv, PipeIsLatest, NEW p \in Plcs, Handle(p)
    PROVE  /\ clientUp[p] => \A v \in Values :
                 Finds(pipe'[p], plc[p], Len(pipe'[p]) + 1, v) => v = Latest(order'[p])
           /\ ~clientUp[p] => pipe'[p] = <<>>
<1> DEFINE m == Head(mailbox[p])
           Q == pipe[p]
<1>1. /\ Q \in Seq(Messages) /\ order[p] \in Seq(Values) /\ DOMAIN pipe = Plcs
      /\ DOMAIN order = Plcs
  BY DEF RouteInv, TypeInv, TypeOK, ServerTypeOK
<1>2. m.from \in Sessions /\ (m.kind = "mutation" => m.v \in Sessions \X (1..MaxTexts))
  <2>1. mailbox[p] \in Seq(Sent(Clients(p))) /\ mailbox[p] # <<>>
    BY MailOf DEF Handle
  <2>2. m \in Sent(Clients(p))
    BY ONLY <2>1
  <2>3. QED BY <2>2 DEF Sent, Clients
<1>3. /\ clientUp[p] => \A v \in Values : Finds(Q, plc[p], Len(Q) + 1, v) => v = Latest(order[p])
      /\ ~clientUp[p] => Q = <<>>
  BY DEF PipeIsLatest
<1>4. CASE OnMutation(p, m.v) /\ m.kind = "mutation"
  <2> DEFINE a == Message("write", m.v[1], m.v)
  <2>1. a \in Messages /\ a.kind = "write" /\ a.v = m.v /\ m.v \in Values
    BY <1>2, <1>4 DEF Message, Messages, Values
  <2>2. order'[p] = Append(order[p], m.v) /\ pipe'[p] = IF clientUp[p] THEN Append(Q, a) ELSE Q
    BY <1>1, <1>4 DEF OnMutation
  <2>3. Latest(order'[p]) = m.v
    BY <1>1, <2>1, <2>2, OrderAppend
  <2> HIDE DEF a
  <2>4. Len(Append(Q, a)) = Len(Q) + 1 /\ Len(Q) \in Nat /\ Len(Q) + 1 + 1 = Len(Q) + 2
    BY <1>1, <2>1, AppendParts
  <2>5. ASSUME NEW v \in Values, Finds(Append(Q, a), plc[p], Len(Append(Q, a)) + 1, v)
        PROVE  v = m.v
    BY <1>1, <2>1, <2>4, <2>5, FindsEnd
  <2>6. QED BY <1>3, <2>2, <2>3, <2>5
<1>5. CASE OnResolve(p, m.from)
  <2> DEFINE a == Message("read", m.from, Loaded)
  <2>1. a \in Messages /\ a.kind = "read"
    BY <1>2 DEF Message, Messages, Values
  <2>2. UNCHANGED order /\ pipe'[p] = IF clientUp[p] THEN Append(Q, a) ELSE Q
    BY <1>1, <1>5 DEF OnResolve
  <2> HIDE DEF a
  <2>4. Len(Append(Q, a)) = Len(Q) + 1 /\ Len(Q) \in Nat /\ Len(Q) + 1 + 1 = Len(Q) + 2
    BY <1>1, <2>1, AppendParts
  <2>5. ASSUME NEW v \in Values, clientUp[p],
               Finds(Append(Q, a), plc[p], Len(Append(Q, a)) + 1, v)
        PROVE  v = Latest(order[p])
    <3>1. Finds(Q, plc[p], Len(Q) + 1, v)
      BY <1>1, <2>1, <2>4, <2>5, FindsEnd
    <3>2. QED BY <1>3, <2>5, <3>1
  <2>6. QED BY <1>3, <2>2, <2>5
<1>6. CASE UNCHANGED <<order, pipe>>
  BY <1>3, <1>6
<1>7. QED BY <1>4, <1>5, <1>6 DEF Handle, OnSubscription

LEMMA PipeServe ==
    ASSUME RouteInv, PipeIsLatest, NEW p \in Plcs, PlcServes(p)
    PROVE  /\ clientUp[p] => \A v \in Values :
                 Finds(pipe'[p], plc'[p], Len(pipe'[p]) + 1, v) => v = Latest(order[p])
           /\ ~clientUp[p] => pipe'[p] = <<>>
<1> DEFINE Q == pipe[p]
           e == plc'[p]
<1>1. Q \in Seq(Messages) /\ DOMAIN pipe = Plcs /\ DOMAIN plc = Plcs /\ Q # <<>>
  BY DEF RouteInv, TypeInv, TypeOK, ServerTypeOK, PlcServes
<1>2. pipe'[p] = Tail(Q) /\ e = IF Head(Q).kind = "write" THEN Head(Q).v ELSE plc[p]
  BY <1>1 DEF PlcServes
<1>3. Len(Tail(Q)) + 1 = Len(Q) /\ Len(Q) \in 1..Len(Q)
  BY <1>1, TailParts
<1>4. clientUp[p] /\ \A v \in Values : Finds(Q, plc[p], Len(Q) + 1, v) => v = Latest(order[p])
  BY <1>1 DEF PipeIsLatest
<1> HIDE DEF e
<1>5. ASSUME NEW v \in Values, Finds(Tail(Q), e, Len(Q), v)
      PROVE  v = Latest(order[p])
  <2>1. Finds(Q, plc[p], Len(Q) + 1, v)
    BY <1>1, <1>2, <1>3, <1>5, FindsTail
  <2>2. QED BY <1>4, <2>1
<1>6. QED BY <1>2, <1>3, <1>4, <1>5 DEF e

LEMMA PipeServer ==
    ASSUME RouteInv, AnswersRouted, PipeIsLatest, NEW r \in Plcs, Server(r)
    PROVE  PipeIsLatest'
<1> SUFFICES ASSUME NEW p \in Plcs
             PROVE  /\ clientUp'[p] => \A v \in Values :
                          Finds(pipe'[p], plc'[p], Len(pipe'[p]) + 1, v) => v = Latest(order'[p])
                    /\ ~clientUp'[p] => pipe'[p] = <<>>
  BY DEF PipeIsLatest
<1>0. DOMAIN pipe = Plcs /\ DOMAIN clientUp = Plcs
  BY DEF RouteInv, TypeInv, TypeOK, ServerTypeOK
<1>1. CASE p # r
  <2>1. pipe'[p] = pipe[p] /\ plc'[p] = plc[p] /\ order'[p] = order[p] /\ clientUp'[p] = clientUp[p]
    BY <1>1, ServerElsewhere
  <2>2. QED BY <2>1 DEF PipeIsLatest
<1>2. CASE p = r
  <2>1. CASE Handle(r)
    <3>1. UNCHANGED <<plc, clientUp>>
      BY <2>1 DEF Handle, lifecycle
    <3>2. QED BY <1>2, <2>1, <3>1, PipeHandle
  <2>2. CASE Finish(r) \/ MuxStops(r)
    <3>1. UNCHANGED <<pipe, plc, order, clientUp>>
      BY <2>2 DEF Finish, MuxStops, lifecycle
    <3>2. QED BY <3>1, SMTT(30) DEF PipeIsLatest
  <2>3. CASE PlcServes(r)
    <3>1. UNCHANGED <<order, clientUp>>
      BY <2>3 DEF PlcServes, lifecycle
    <3>2. QED BY <1>2, <2>3, <3>1, PipeServe
  <2>4. CASE ClientStops(r)
    BY <1>0, <1>2, <2>4 DEF ClientStops
  <2>5. QED BY <2>1, <2>2, <2>3, <2>4 DEF Server
<1>3. QED BY <1>1, <1>2

LEMMA WriteServer ==
    ASSUME WriteInv, NEW r \in Plcs, Server(r), NEW p \in Plcs, NEW s \in Clients(p)
    PROVE  /\ alive'[p] /\ phase[s] \in {"new", "open"} => WriteAt(p, s)'
           /\ Open(s) => HasOwn(s, future'[s], order'[p])
<1>0. /\ RouteInv /\ AnswersRouted /\ s \in Sessions /\ future \in [Sessions -> Futures]
      /\ DOMAIN alive = Plcs
  BY FutureKept DEF WriteInv, RouteInv, Clients, TypeInv, TypeOK, ServerTypeOK
<1>1. /\ alive[p] /\ phase[s] \in {"new", "open"} => WriteAt(p, s)
      /\ Open(s) => HasOwn(s, future[s], order[p])
  BY DEF WriteInv, WritesAhead, AnswersOwn
<1>2. UNCHANGED <<phase, sent, parked>>
  BY DEF Server, Handle, Finish, MuxStops, PlcServes, ClientStops, browser
<1>3. CASE p # r
  <2>1. /\ mailbox'[p] = mailbox[p] /\ pipe'[p] = pipe[p] /\ plc'[p] = plc[p]
        /\ replies'[p] = replies[p] /\ order'[p] = order[p] /\ alive'[p] = alive[p]
        /\ future'[s] = future[s]
    BY <1>0, <1>3, ServerElsewhere, ServerOthers
  <2>2. QED BY <1>1, <1>2, <2>1 DEF WriteAt
<1>4. CASE p = r /\ Handle(p)
  BY <1>4, WriteHandle DEF Open
<1>5. CASE p = r /\ Finish(p)
  BY <1>5, WriteFinish DEF Open
<1>6. CASE p = r /\ MuxStops(p)
  <2>1. UNCHANGED order /\ ~alive'[p]
    BY <1>0, <1>6 DEF MuxStops
  <2>2. future'[s] = future[s] \/ future'[s] = [future[s] EXCEPT !.st = "closed"]
    BY <1>0, <1>6 DEF MuxStops
  <2>3. future'[s] = future[s] \/ future'[s].st # "answered"
    BY <1>0, <2>2 DEF Futures
  <2>4. QED BY <1>1, <2>1, <2>3 DEF HasOwn
<1>7. CASE p = r /\ PlcServes(p)
  <2>1. UNCHANGED <<future, order, alive>>
    BY <1>7 DEF PlcServes, lifecycle
  <2>2. QED BY <1>1, <1>7, <2>1, WriteServe
<1>8. CASE p = r /\ ClientStops(p)
  <2>1. UNCHANGED <<order, alive>>
    BY <1>8 DEF ClientStops
  <2>2. future'[s] = future[s] \/ future'[s] = [future[s] EXCEPT !.st = "failed"]
    BY <1>0, <1>8 DEF ClientStops
  <2>3. future'[s] = future[s] \/ future'[s].st # "answered"
    BY <1>0, <2>2 DEF Futures
  <2>4. Open(s) => HasOwn(s, future'[s], order'[p])
    BY <1>1, <2>1, <2>3 DEF HasOwn
  <2>5. QED BY <1>8, <2>1, <2>4, WriteClientStops
<1>9. QED BY <1>3, <1>4, <1>5, <1>6, <1>7, <1>8 DEF Server

LEMMA WriteInit == Init => WriteInv
<1> SUFFICES ASSUME Init PROVE WriteInv
  OBVIOUS
<1>1. RouteInv
  BY RouteInit
<1>2. ParkWaits /\ AnswersRouted
  BY DEF Init, ParkWaits, AnswersRouted
<1>3. PipeIsLatest
  <2> SUFFICES ASSUME NEW p \in Plcs, NEW v \in Values, Finds(<<>>, Loaded, Len(<<>>) + 1, v)
               PROVE  v = Latest(<<>>)
    BY DEF Init, PipeIsLatest
  <2>1. \A h : h \notin 1..Len(<<>>)
    OBVIOUS
  <2>2. QED BY <2>1 DEF Finds, Latest
<1>4. WritesAhead
  <2> SUFFICES ASSUME NEW p \in Plcs, NEW s \in Clients(p) PROVE WriteAt(p, s)
    BY DEF WritesAhead
  <2>0. s \in Sessions
    BY DEF Clients
  <2>1. \A kind : Places(<<>>, s, kind) = {}
    BY DEF Places
  <2>2. From({}, s) = {}
    BY DEF From
  <2>3. \A k : k \notin 1..0
    OBVIOUS
  <2>4. PlacesOf(s, "none", <<>>, <<>>, <<>>, {})
    BY <2>1, <2>2, PlaceEmpty DEF PlacesOf
  <2>5. WriteOf(s, "none", 0, 0, <<>>, <<>>, <<>>, Loaded, {}, <<>>)
    BY <2>1, <2>3, <2>4 DEF WriteOf, SentOrTaken, AskedLate, ReadLate, AnsweredLate
  <2>6. QED BY <2>0, <2>5 DEF WriteAt, Init, NoFuture
<1>5. AnswersOwn
  BY DEF AnswersOwn, HasOwn, Init, NoFuture, Clients
<1>6. QED BY <1>1, <1>2, <1>3, <1>4, <1>5 DEF WriteInv

LEMMA WriteStep == WriteInv /\ [Next]_vars => WriteInv'
<1> SUFFICES ASSUME WriteInv, [Next]_vars PROVE WriteInv'
  OBVIOUS
<1>0. /\ RouteInv /\ RouteInv' /\ ParkWaits /\ AnswersRouted /\ PipeIsLatest /\ UNCHANGED url
      /\ phase \in [Sessions -> {"new", "open", "closed", "dead"}]
  BY RouteStep, ClientsEnd DEF WriteInv, RouteInv, TypeInv, TypeOK, BrowserTypeOK
<1>1. \A p \in Plcs : Clients(p)' = Clients(p)
  BY <1>0, UrlKept
<1>2. ASSUME ParkWaits', PipeIsLatest',
             \A p \in Plcs : \A a \in replies'[p] : a.from \in Clients(p),
             \A p \in Plcs : \A s \in Clients(p) :
                /\ alive'[p] /\ phase'[s] \in {"new", "open"} => WriteAt(p, s)'
                /\ phase'[s] = "open" => HasOwn(s, future'[s], order'[p])
      PROVE  WriteInv'
  BY <1>0, <1>1, <1>2 DEF WriteInv, AnswersRouted, WritesAhead, AnswersOwn, Open
<1>3. CASE UNCHANGED vars
  <2>1. UNCHANGED <<phase, sent, parked, future, mailbox, alive, clientUp, pipe, replies, plc, order>>
    BY <1>3 DEF vars, browser, lifecycle, requests
  <2>2. ParkWaits'
    BY <1>0, <2>1 DEF ParkWaits
  <2>3. PipeIsLatest'
    BY <1>0, <2>1 DEF PipeIsLatest
  <2>4. \A p \in Plcs : \A s \in Clients(p) :
           /\ alive'[p] /\ phase'[s] \in {"new", "open"} => WriteAt(p, s)'
           /\ phase'[s] = "open" => HasOwn(s, future'[s], order'[p])
    BY <2>1 DEF WriteInv, WritesAhead, AnswersOwn, WriteAt, Open
  <2>5. QED BY <1>0, <1>2, <2>1, <2>2, <2>3, <2>4 DEF AnswersRouted
<1>4. ASSUME NEW w \in Sessions, Session(w) PROVE WriteInv'
  <2>1. UNCHANGED <<alive, clientUp, pipe, replies, plc, order>>
    BY <1>4, SessionCalls
  <2>2. ParkWaits'
    BY <1>0, <1>4, SessionSays
  <2>3. PipeIsLatest'
    BY <1>0, <2>1 DEF PipeIsLatest
  <2>4. ASSUME NEW p \in Plcs, NEW s \in Clients(p), alive'[p], phase'[s] \in {"new", "open"}
        PROVE  WriteAt(p, s)'
    <3>1. CASE w = s
      BY <1>4, <2>1, <2>4, <3>1, WriteSelf
    <3>2. CASE w # s
      BY <1>4, <2>1, <2>4, <3>2, WriteOther
    <3>3. QED BY <3>1, <3>2
  <2>5. ASSUME NEW p \in Plcs, NEW s \in Clients(p), phase'[s] = "open"
        PROVE  HasOwn(s, future'[s], order'[p])
    BY <1>4, <2>1, <2>5, OwnSession
  <2>6. QED BY <1>0, <1>2, <2>1, <2>2, <2>3, <2>4, <2>5 DEF AnswersRouted
<1>5. ASSUME NEW r \in Plcs, Server(r) PROVE WriteInv'
  <2>1. ParkWaits' /\ UNCHANGED phase
    BY <1>0, <1>5 DEF Server, Handle, Finish, MuxStops, PlcServes, ClientStops, browser, ParkWaits
  <2>2. PipeIsLatest' /\ \A p \in Plcs : \A a \in replies'[p] : a.from \in Clients(p)
    BY <1>0, <1>5, PipeServer, AnswersRoutedStep
  <2>3. \A p \in Plcs : \A s \in Clients(p) :
           /\ alive'[p] /\ phase[s] \in {"new", "open"} => WriteAt(p, s)'
           /\ phase[s] = "open" => HasOwn(s, future'[s], order'[p])
    BY <1>5, WriteServer DEF Open
  <2>4. QED BY <1>2, <2>1, <2>2, <2>3, SMTT(30)
<1>6. QED BY <1>3, <1>4, <1>5 DEF Next

\* The answer of a Resolve shows what its own session had sent before it, or
\* something newer, for any number of sessions and texts and any capacity of the
\* mailbox.  The mutation and the Resolve are sent in different ways, but the
\* mutation is in the mailbox when the Resolve is sent, the multiplexer passes both
\* on in that order, and the AdsClient and the PLC keep it.
THEOREM ResolvesSeeOwnWrites == Spec => []ReadYourWrites
<1>1. WriteInv => ReadYourWrites
  <2> SUFFICES ASSUME WriteInv, NEW s \in Sessions, future[s].st = "answered", ~future[s].blind,
                      NEW k \in 1..future[s].since
               PROVE  \E i, j \in DOMAIN order[Mux(s)] :
                         /\ i <= j /\ order[Mux(s)][i] = <<s, k>>
                         /\ order[Mux(s)][j] = future[s].v
    BY DEF ReadYourWrites
  <2> DEFINE p == Mux(s)
  <2>1. Open(s) /\ Known(url[s])
    <3>1. TypeInv
      BY DEF WriteInv, RouteInv
    <3>2. QED BY <3>1 DEF TypeInv, TypeOK, GoneIsIdle, NoFuture
  <2>2. p \in Plcs /\ s \in Clients(p)
    BY <2>1, KnownTarget DEF Clients
  <2>3. Holds(order[p], <<s, k>>, future[s].v)
    BY <2>1, <2>2 DEF WriteInv, AnswersOwn, HasOwn
  <2>4. DOMAIN order[p] = 1..Len(order[p])
    BY <2>2, WriteTypes DEF WriteInv
  <2>5. QED BY <2>3, <2>4 DEF Holds
<1>2. QED BY <1>1, WriteInit, WriteStep, PTL DEF Spec

-----------------------------------------------------------------------------
\* What a session is left showing, by the answers and the notices that reach it
\* in two ways.

Notices == [v : Values, late : BOOLEAN]
Late(q) == \E i \in 1..Len(q) : q[i].late

\* A subscriber's last notice is the mirror; with none left, what it shows is,
\* unless that was an answer a newer notice overtook.  An answer that no notice
\* followed is the mirror as well.
Current(sub, q, sh, out, f, v) ==
    /\ q # <<>> => sub
    /\ sub => /\ q = <<>> => sh \in {<<>>, <<v>>} \/ out
              /\ q # <<>> => q[Len(q)].v = v
              /\ f.st = "answered" /\ ~f.passed /\ ~Late(q) => f.v = v
UpToDate(p, s) ==
    Current(s \in subscribers[p], inbox[s], shown[s], outdated[s], future[s], mirror[p])

SubscribersRouted == \A p \in Plcs : subscribers[p] \subseteq Clients(p)
ShownInv ==
    /\ RouteInv /\ AnswersRouted /\ SubscribersRouted
    /\ \A p \in Plcs : \A s \in Clients(p) : Open(s) /\ alive[p] => UpToDate(p, s)

LEMMA NoneLate == ~Late(<<>>)
BY DEF Late

LEMMA NoticeAppend ==
    ASSUME NEW q \in Seq(Notices), NEW x \in Notices
    PROVE  /\ Append(q, x) # <<>> /\ Append(q, x)[Len(Append(q, x))] = x
           /\ x.late => Late(Append(q, x))
<1> DEFINE t == Append(q, x)
<1>1. t # <<>> /\ Len(t) = Len(q) + 1 /\ t[Len(q) + 1] = x /\ Len(q) \in Nat
  BY AppendParts
<1> SUFFICES t # <<>> /\ t[Len(t)] = x /\ (x.late => Late(t))
  OBVIOUS
<1> HIDE DEF t
<1>2. Len(q) + 1 \in 1..(Len(q) + 1)
  BY <1>1
<1>3. QED BY <1>1, <1>2 DEF Late

LEMMA NoticeTail ==
    ASSUME NEW q \in Seq(Notices), q # <<>>
    PROVE  /\ Tail(q) = <<>> => q[Len(q)] = Head(q)
           /\ Tail(q) # <<>> => Tail(q)[Len(Tail(q))] = q[Len(q)]
           /\ Late(q) => Head(q).late \/ Late(Tail(q))
<1> DEFINE t == Tail(q)
           n == Len(q)
<1>1. /\ n \in Nat /\ n >= 1 /\ Len(t) = n - 1 /\ Head(q) = q[1]
      /\ \A i \in 1..(n - 1) : t[i] = q[i + 1]
      /\ t \in Seq(Notices)
  BY TailParts
<1>2. (t = <<>>) <=> (n = 1)
  BY <1>1
<1> SUFFICES /\ t = <<>> => q[n] = Head(q)
             /\ t # <<>> => t[Len(t)] = q[n]
             /\ Late(q) => Head(q).late \/ Late(t)
  OBVIOUS
<1> HIDE DEF t
<1>3. t # <<>> => n - 1 \in 1..(n - 1) /\ (n - 1) + 1 = n
  BY <1>1, <1>2
<1>4. ASSUME NEW i \in 1..n, q[i].late PROVE Head(q).late \/ Late(t)
  <2>1. CASE i = 1
    BY <1>1, <1>4, <2>1
  <2>2. CASE i # 1
    <3>1. i - 1 \in 1..(n - 1) /\ t[i - 1] = q[i]
      BY <1>1, <2>2
    <3>2. QED BY <1>1, <1>4, <3>1 DEF Late
  <2>3. QED BY <2>1, <2>2
<1>5. QED BY <1>1, <1>2, <1>3, <1>4 DEF Late

\* The notices once an answer has been shown.
LEMMA NoticeKept ==
    ASSUME NEW q \in Seq(Notices)
    PROVE  LET t == [i \in DOMAIN q |-> [q[i] EXCEPT !.late = FALSE]]
           IN  /\ (t = <<>>) <=> (q = <<>>)
               /\ q # <<>> => t[Len(t)].v = q[Len(q)].v
<1> DEFINE t == [i \in DOMAIN q |-> [q[i] EXCEPT !.late = FALSE]]
<1>1. Len(q) \in Nat /\ DOMAIN q = 1..Len(q) /\ \A i \in 1..Len(q) : q[i] \in Notices
  OBVIOUS
<1>2. \A i \in 1..Len(q) : t[i] \in Notices /\ t[i].v = q[i].v
  BY <1>1 DEF Notices
<1>3. t \in Seq(Notices) /\ Len(t) = Len(q)
  BY <1>1, <1>2
<1> HIDE DEF t
<1>4. /\ (t = <<>>) <=> (Len(t) = 0)
      /\ (q = <<>>) <=> (Len(q) = 0)
      /\ Len(q) # 0 => Len(q) \in 1..Len(q)
  BY <1>1, <1>3
<1>5. QED BY <1>2, <1>3, <1>4 DEF t

\* The operations.
LEMMA CurrentShown ==
    ASSUME NEW sub, NEW q \in Seq(Notices), q # <<>>, NEW sh, NEW out, NEW f, NEW v, NEW g,
           Current(sub, q, sh, out, f, v),
           g.st = f.st, g.v = f.v, g.passed = (f.passed \/ (Head(q).late /\ f.st = "answered"))
    PROVE  Current(sub, Tail(q), <<Head(q).v>>, FALSE, g, v)
BY NoticeTail DEF Current

LEMMA CurrentAnswered ==
    ASSUME NEW sub, NEW q \in Seq(Notices), NEW sh, NEW out, NEW f, NEW v, NEW g,
           Current(sub, q, sh, out, f, v), f.st = "answered", f.passed \in BOOLEAN,
           g.st # "answered"
    PROVE  Current(sub, [i \in DOMAIN q |-> [q[i] EXCEPT !.late = FALSE]], <<f.v>>, f.passed, g, v)
<1> DEFINE t == [i \in DOMAIN q |-> [q[i] EXCEPT !.late = FALSE]]
<1>1. /\ (t = <<>>) <=> (q = <<>>)
      /\ q # <<>> => t[Len(t)].v = q[Len(q)].v
  BY NoticeKept
<1> HIDE DEF t
<1>2. Current(sub, t, <<f.v>>, f.passed, g, v)
  BY <1>1, NoneLate DEF Current
<1>3. QED BY <1>2 DEF t

LEMMA CurrentTold ==
    ASSUME NEW q \in Seq(Notices), NEW sh, NEW out, NEW g, NEW v \in Values, NEW late \in BOOLEAN,
           g.st = "answered" => late \/ g.v = v
    PROVE  Current(TRUE, Append(q, [v |-> v, late |-> late]), sh, out, g, v)
<1> DEFINE x == [v |-> v, late |-> late]
<1>1. x \in Notices /\ x.v = v /\ x.late = late
  BY DEF Notices
<1> HIDE DEF x
<1>2. /\ Append(q, x) # <<>> /\ Append(q, x)[Len(Append(q, x))] = x
      /\ x.late => Late(Append(q, x))
  BY <1>1, NoticeAppend
<1>3. Current(TRUE, Append(q, x), sh, out, g, v)
  BY <1>1, <1>2 DEF Current
<1>4. QED BY <1>3 DEF x

\* A future that tells nothing new.
LEMMA CurrentFuture ==
    ASSUME NEW sub, NEW q, NEW sh, NEW out, NEW f, NEW v, NEW g,
           Current(sub, q, sh, out, f, v),
           g.st = "answered" => (f.st = "answered" /\ g.passed = f.passed /\ g.v = f.v) \/ g.v = v
    PROVE  Current(sub, q, sh, out, g, v)
BY DEF Current

LEMMA CurrentSubscribed ==
    ASSUME NEW sub, NEW q, NEW sh, NEW out, NEW f, NEW v, NEW g,
           Current(sub, q, sh, out, f, v), g.st = "answered" => g.passed
    PROVE  Current(TRUE, q, <<>>, out, g, v)
BY DEF Current
\* The steps.
LEMMA ShownSession ==
    ASSUME ShownInv, NEW w \in Sessions, Session(w), NEW p \in Plcs, NEW s \in Clients(p),
           phase'[s] = "open", alive[p]
    PROVE  UpToDate(p, s)'
<1>0. /\ RouteInv /\ TypeInv /\ s \in Sessions /\ UNCHANGED <<subscribers, mirror>>
      /\ future \in [Sessions -> Futures] /\ DOMAIN shown = Sessions
      /\ outdated \in [Sessions -> BOOLEAN] /\ inbox \in [Sessions -> Seq(Notices)]
      /\ phase \in [Sessions -> {"new", "open", "closed", "dead"}]
  BY SessionCalls DEF ShownInv, RouteInv, Clients, TypeInv, TypeOK, BrowserTypeOK, SessionTypeOK, Notices
<1> DEFINE sub == s \in subscribers[p]
<1>1. phase[s] = "open" => Current(sub, inbox[s], shown[s], outdated[s], future[s], mirror[p])
  BY DEF ShownInv, UpToDate, Open
<1> SUFFICES Current(sub, inbox'[s], shown'[s], outdated'[s], future'[s], mirror[p])
  BY <1>0 DEF UpToDate
<1>2. CASE w # s
  BY <1>0, <1>1, <1>2, SessionOthers
<1>3. CASE w = s
  <2>1. ~WorkerDies(s)
    <3>1. WorkerDies(s) => phase'[s] = "dead"
      BY <1>0 DEF WorkerDies
    <3>2. QED BY <3>1
  <2>2. CASE Start(s)
    <3>1. ~Open(s) /\ UNCHANGED <<inbox, shown, outdated, future>>
      BY <2>1, <2>2 DEF Start, Open, display
    <3>2. future[s].st = "none" /\ inbox[s] = <<>> /\ shown[s] = <<>>
      BY <1>0, <3>1 DEF TypeInv, TypeOK, GoneIsIdle, NoFuture
    <3>3. QED BY <3>1, <3>2 DEF Current
  <2>3. CASE Stop(s)
    BY <1>0, <2>3 DEF Stop
  <2>4. CASE OnText(s)
    <3>0. phase[s] = "open"
      BY <2>4 DEF OnText, Open
    <3>1. CASE SendResolve(s)
      <4>1. /\ future'[s] = [NoFuture EXCEPT
                               !.st = IF alive[Mux(s)] THEN "waiting" ELSE "closed", !.since = sent[s]]
            /\ UNCHANGED <<inbox, shown, outdated>>
        BY <1>0, <3>1 DEF SendResolve
      <4>2. future'[s].st # "answered"
        BY <4>1 DEF NoFuture
      <4>3. QED BY <1>1, <3>0, <4>1, <4>2, CurrentFuture
    <3>2. CASE SendMutation(s) \/ SendSubscription(s)
      BY <1>1, <3>0, <3>2 DEF SendMutation, SendSubscription
    <3>3. CASE SendMalformed(s)
      BY <2>1, <3>3 DEF SendMalformed
    <3>4. QED BY <2>4, <3>1, <3>2, <3>3 DEF OnText
  <2>5. CASE Unpark(s)
    <3>0. phase[s] = "open" /\ UNCHANGED <<inbox, shown, outdated>>
      BY <1>0, <2>5 DEF Unpark, browser, display, Open, TypeInv, TypeOK, GoneIsIdle
    <3>1. CASE future' = [future EXCEPT ![s].st = "closed"]
      <4>1. future'[s].st = "closed"
        BY <1>0, <3>1 DEF Futures
      <4>2. QED BY <1>1, <3>0, <4>1, CurrentFuture
    <3>2. QED BY <1>1, <2>5, <3>0, <3>1 DEF Unpark
  <2>6. CASE ShowNotice(s)
    <3>0. /\ UNCHANGED phase /\ inbox[s] # <<>>
          /\ inbox' = [inbox EXCEPT ![s] = Tail(@)]
          /\ shown' = [shown EXCEPT ![s] = <<Head(inbox[s]).v>>]
          /\ outdated' = [outdated EXCEPT ![s] = FALSE]
          /\ future' = [future EXCEPT ![s].passed =
                           @ \/ (Head(inbox[s]).late /\ future[s].st = "answered")]
      BY <2>6 DEF ShowNotice, browser
    <3>1. /\ inbox'[s] = Tail(inbox[s]) /\ shown'[s] = <<Head(inbox[s]).v>>
          /\ outdated'[s] = FALSE
      BY <1>0, <3>0
    <3>2. /\ future'[s].st = future[s].st /\ future'[s].v = future[s].v
          /\ future'[s].passed =
                (future[s].passed \/ (Head(inbox[s]).late /\ future[s].st = "answered"))
      BY <1>0, <3>0 DEF Futures
    <3>3. Current(sub, inbox[s], shown[s], outdated[s], future[s], mirror[p])
      BY <1>1, <3>0
    <3> HIDE DEF sub
    <3>4. QED BY <1>0, <3>0, <3>1, <3>2, <3>3, CurrentShown
  <2>7. CASE ShowAnswer(s)
    <3>0. UNCHANGED phase /\ future'[s].st = "none"
      <4>1. UNCHANGED phase /\ future'[s] = NoFuture
        BY <1>0, <2>1, <2>7 DEF ShowAnswer
      <4>2. QED BY <4>1 DEF NoFuture
    <3>1. Current(sub, inbox[s], shown[s], outdated[s], future[s], mirror[p])
      BY <1>1, <3>0
    <3>2. CASE UNCHANGED <<inbox, shown, outdated>>
      BY <3>0, <3>1, <3>2, CurrentFuture
    <3>3. CASE /\ future[s].st = "answered"
               /\ shown' = [shown EXCEPT ![s] = <<future[s].v>>]
               /\ outdated' = [outdated EXCEPT ![s] = future[s].passed]
               /\ inbox' = [inbox EXCEPT ![s] = [i \in DOMAIN @ |-> [@[i] EXCEPT !.late = FALSE]]]
      <4>1. /\ shown'[s] = <<future[s].v>> /\ outdated'[s] = future[s].passed
            /\ inbox'[s] = [i \in DOMAIN inbox[s] |-> [inbox[s][i] EXCEPT !.late = FALSE]]
        BY <1>0, <3>3
      <4>2. future[s].passed \in BOOLEAN /\ inbox[s] \in Seq(Notices)
        BY <1>0 DEF Futures
      <4> HIDE DEF sub
      <4>3. Current(sub, [i \in DOMAIN inbox[s] |-> [inbox[s][i] EXCEPT !.late = FALSE]],
                    <<future[s].v>>, future[s].passed, future'[s], mirror[p])
        <5>1. future'[s].st # "answered" /\ future[s].st = "answered"
          BY <3>0, <3>3
        <5>2. QED BY <3>1, <4>2, <5>1, CurrentAnswered
      <4>4. QED BY <4>1, <4>3
    <3>4. QED BY <2>1, <2>7, <3>2, <3>3 DEF ShowAnswer, display
  <2>8. QED BY <1>3, <2>2, <2>3, <2>4, <2>5, <2>6, <2>7 DEF Session
<1>4. QED BY <1>2, <1>3

\* What another multiplexer tells, it tells its own subscribers.
LEMMA ShownElsewhere ==
    ASSUME RouteInv, SubscribersRouted, NEW r \in Plcs, Server(r), NEW p \in Plcs, p # r,
           NEW s \in Clients(p)
    PROVE  inbox'[s] = inbox[s] /\ shown'[s] = shown[s] /\ outdated'[s] = outdated[s]
<1>0. /\ s \in Sessions /\ Mux(s) = p /\ s \notin Clients(r) /\ s \notin subscribers[r]
      /\ DOMAIN inbox = Sessions /\ DOMAIN shown = Sessions
  BY DisplayKept DEF RouteInv, Clients, SubscribersRouted
<1>1. \A v : Notify(r, v) => inbox'[s] = inbox[s]
  BY <1>0 DEF Notify
<1>2. CASE Handle(r)
  <2> DEFINE m == Head(mailbox[r])
  <2>1. m.from \in Clients(r) /\ m.from # s
    <3>1. mailbox[r] \in Seq(Sent(Clients(r))) /\ mailbox[r] # <<>>
      BY <1>2 DEF Handle, RouteInv, MailRouted
    <3>2. m \in Sent(Clients(r))
      BY ONLY <3>1
    <3>3. QED BY <1>0, <3>2 DEF Sent
  <2> HIDE DEF m
  <2>2. CASE OnMutation(r, m.v)
    BY <1>1, <2>2 DEF OnMutation
  <2>3. CASE OnSubscription(r, m.from)
    BY <1>0, <2>1, <2>3 DEF OnSubscription
  <2>4. CASE UNCHANGED <<inbox, shown, outdated>>
    BY <2>4
  <2>5. QED BY <1>2, <2>2, <2>3, <2>4 DEF Handle, OnResolve, display, m
<1>3. CASE Finish(r)
  <2>1. UNCHANGED <<shown, outdated>> /\ (UNCHANGED inbox \/ \E v : Notify(r, v))
    BY <1>3 DEF Finish
  <2>2. QED BY <1>1, <2>1
<1>4. CASE MuxStops(r) \/ PlcServes(r) \/ ClientStops(r)
  BY <1>4 DEF MuxStops, PlcServes, ClientStops, display
<1>5. QED BY <1>2, <1>3, <1>4 DEF Server

\* A subscriber that is open is told of every change.
LEMMA NotifyTold ==
    ASSUME RouteInv, NEW p \in Plcs, NEW s \in Sessions, Open(s), NEW v \in Values, Notify(p, v),
           Current(s \in subscribers[p], inbox[s], shown[s], outdated[s], future[s], mirror[p]),
           NEW g, g = future[s] \/ g.v = v
    PROVE  Current(s \in subscribers[p], inbox'[s], shown[s], outdated[s], g, v)
<1> DEFINE late == future[s].st = "answered"
<1>1. inbox[s] \in Seq(Notices)
  BY DisplayKept DEF RouteInv, Notices
<1>2. CASE s \in subscribers[p]
  <2>1. inbox'[s] = Append(inbox[s], [v |-> v, late |-> late])
    BY <1>2 DEF Notify
  <2>2. late \in BOOLEAN /\ (g.st = "answered" => late \/ g.v = v)
    OBVIOUS
  <2> HIDE DEF late
  <2>3. Current(TRUE, inbox'[s], shown[s], outdated[s], g, v)
    BY <1>1, <2>1, <2>2, CurrentTold
  <2>4. QED BY <1>2, <2>3 DEF Current
<1>3. CASE s \notin subscribers[p]
  <2>1. inbox'[s] = inbox[s]
    BY <1>3 DEF Notify
  <2>2. QED BY <1>3, <2>1 DEF Current
<1>4. QED BY <1>2, <1>3

LEMMA ShownHandle ==
    ASSUME ShownInv, NEW p \in Plcs, Handle(p), NEW s \in Clients(p), Open(s)
    PROVE  UpToDate(p, s)'
<1> DEFINE m == Head(mailbox[p])
           sub == s \in subscribers[p]
<1>0. /\ RouteInv /\ s \in Sessions /\ alive[p] /\ UNCHANGED phase
      /\ DOMAIN mirror = Plcs /\ DOMAIN subscribers = Plcs /\ DOMAIN shown = Sessions
      /\ future \in [Sessions -> Futures]
  BY FutureKept, DisplayKept DEF ShownInv, RouteInv, Clients, Handle, browser, TypeInv, TypeOK, ServerTypeOK
<1>1. Current(sub, inbox[s], shown[s], outdated[s], future[s], mirror[p])
  BY <1>0 DEF ShownInv, UpToDate
<1>2. m.from \in Clients(p) /\ (m.kind = "mutation" => m.v \in Values)
  <2>1. mailbox[p] \in Seq(Sent(Clients(p))) /\ mailbox[p] # <<>>
    BY <1>0, MailOf DEF Handle
  <2>2. m \in Sent(Clients(p))
    BY ONLY <2>1
  <2>3. QED BY <2>2 DEF Sent, Values, Clients
<1> HIDE DEF m
<1>3. CASE m.kind = "mutation" /\ OnMutation(p, m.v)
  <2>1. /\ UNCHANGED <<future, shown, outdated, subscribers>> /\ Notify(p, m.v) /\ mirror'[p] = m.v
    BY <1>0, <1>3 DEF OnMutation, registry
  <2>2. Current(sub, inbox'[s], shown[s], outdated[s], future[s], m.v)
    BY <1>0, <1>1, <1>2, <1>3, <2>1, NotifyTold
  <2>3. QED BY <2>1, <2>2 DEF UpToDate
<1>4. CASE m.kind = "resolve" /\ OnResolve(p, m.from)
  <2>1. /\ UNCHANGED <<inbox, shown, outdated, subscribers, mirror>>
        /\ future' = future \/ future' = Settled(m.from, "failed")
    BY <1>4 DEF OnResolve, display, registry
  <2>2. future'[s] = future[s] \/ future'[s].st = "failed"
    BY <1>0, <2>1 DEF Settled, Futures
  <2>3. Current(sub, inbox[s], shown[s], outdated[s], future'[s], mirror[p])
    BY <1>1, <2>2, CurrentFuture
  <2>4. QED BY <2>1, <2>3 DEF UpToDate
<1>5. CASE m.kind = "subscription" /\ OnSubscription(p, m.from)
  <2>1. /\ UNCHANGED <<inbox, outdated, mirror>>
        /\ subscribers' = [subscribers EXCEPT ![p] = @ \cup {m.from}]
        /\ shown' = [shown EXCEPT ![m.from] = <<>>]
        /\ future' = [future EXCEPT ![m.from].passed = future[m.from].st = "answered"]
    BY <1>5 DEF OnSubscription
  <2>2. CASE m.from # s
    <3>1. /\ shown'[s] = shown[s] /\ future'[s] = future[s]
          /\ (s \in subscribers'[p]) <=> (s \in subscribers[p])
      BY <1>0, <2>1, <2>2
    <3>2. QED BY <1>1, <2>1, <3>1 DEF UpToDate, Current
  <2>3. CASE m.from = s
    <3>1. shown'[s] = <<>> /\ s \in subscribers'[p]
      BY <1>0, <2>1, <2>3
    <3>2. future'[s].st = future[s].st /\ future'[s].passed = (future[s].st = "answered")
      BY <1>0, <2>1, <2>3 DEF Futures
    <3>3. Current(TRUE, inbox[s], <<>>, outdated[s], future'[s], mirror[p])
      BY <1>1, <3>2, CurrentSubscribed
    <3>4. QED BY <2>1, <3>1, <3>3 DEF UpToDate, Current
  <2>4. QED BY <2>2, <2>3
<1>6. CASE UNCHANGED <<subscribers, mirror, future, inbox, shown, outdated>>
  BY <1>1, <1>6 DEF UpToDate
<1>7. QED BY <1>3, <1>4, <1>5, <1>6 DEF Handle, display, m

LEMMA ShownFinish ==
    ASSUME ShownInv, NEW p \in Plcs, Finish(p), NEW s \in Clients(p), Open(s)
    PROVE  UpToDate(p, s)'
<1>0. /\ RouteInv /\ s \in Sessions /\ alive[p]
      /\ UNCHANGED <<shown, outdated, subscribers>>
      /\ DOMAIN mirror = Plcs /\ mirror[p] \in Values /\ future \in [Sessions -> Futures]
      /\ replies[p] \subseteq [from : Sessions, v : Values, refused : BOOLEAN]
  BY FutureKept DEF ShownInv, RouteInv, Clients, Finish, registry, TypeInv, TypeOK, ServerTypeOK
<1>1. Current(s \in subscribers[p], inbox[s], shown[s], outdated[s], future[s], mirror[p])
  BY <1>0 DEF ShownInv, UpToDate
<1>2. PICK r \in replies[p] :
        LET v == IF r.refused THEN mirror[p] ELSE r.v
        IN  /\ mirror' = [mirror EXCEPT ![p] = v]
            /\ IF v # mirror[p] THEN Notify(p, v) ELSE UNCHANGED inbox
            /\ future' = IF future[r.from].st # "waiting" THEN future
                         ELSE [future EXCEPT ![r.from] = [@ EXCEPT
                                  !.st = "answered", !.v = v, !.blind = r.refused]]
  BY DEF Finish, Outcome
<1> DEFINE v == IF r.refused THEN mirror[p] ELSE r.v
<1>3. v \in Values /\ mirror'[p] = v
  BY <1>0, <1>2
<1>4. IF v # mirror[p] THEN Notify(p, v) ELSE UNCHANGED inbox
  BY <1>2
<1>5. future'[s] = future[s] \/ future'[s].v = v
  BY <1>0, <1>2 DEF Futures
<1> HIDE DEF v
<1>6. CASE v # mirror[p]
  <2>1. Current(s \in subscribers[p], inbox'[s], shown[s], outdated[s], future'[s], v)
    BY <1>0, <1>1, <1>3, <1>4, <1>5, <1>6, NotifyTold
  <2>2. QED BY <1>0, <1>3, <2>1 DEF UpToDate
<1>7. CASE v = mirror[p]
  <2>1. Current(s \in subscribers[p], inbox[s], shown[s], outdated[s], future'[s], mirror[p])
    BY <1>1, <1>5, <1>7, CurrentFuture
  <2>2. QED BY <1>0, <1>3, <1>4, <1>7, <2>1 DEF UpToDate
<1>8. QED BY <1>6, <1>7

LEMMA ShownServer ==
    ASSUME ShownInv, NEW r \in Plcs, Server(r), NEW p \in Plcs, NEW s \in Clients(p), Open(s), alive'[p]
    PROVE  UpToDate(p, s)'
<1>0. /\ RouteInv /\ AnswersRouted /\ SubscribersRouted /\ s \in Sessions
      /\ future \in [Sessions -> Futures] /\ DOMAIN alive = Plcs
  BY FutureKept DEF ShownInv, RouteInv, Clients, TypeInv, TypeOK, ServerTypeOK
<1>1. alive[p] => Current(s \in subscribers[p], inbox[s], shown[s], outdated[s], future[s], mirror[p])
  BY DEF ShownInv, UpToDate
<1>2. CASE p # r
  <2>1. /\ mirror'[p] = mirror[p] /\ alive'[p] = alive[p] /\ subscribers'[p] = subscribers[p]
        /\ future'[s] = future[s]
        /\ inbox'[s] = inbox[s] /\ shown'[s] = shown[s] /\ outdated'[s] = outdated[s]
    <3>1. mirror'[p] = mirror[p] /\ alive'[p] = alive[p] /\ subscribers'[p] = subscribers[p]
      BY <1>0, <1>2, ServerElsewhere
    <3>2. future'[s] = future[s]
      BY <1>0, <1>2, ServerOthers
    <3>3. inbox'[s] = inbox[s] /\ shown'[s] = shown[s] /\ outdated'[s] = outdated[s]
      BY <1>0, <1>2, ShownElsewhere
    <3>4. QED BY <3>1, <3>2, <3>3
  <2>2. QED BY <1>1, <2>1 DEF UpToDate
<1>3. CASE p = r /\ (Handle(p) \/ Finish(p))
  BY <1>3, ShownHandle, ShownFinish
<1>4. CASE p = r /\ MuxStops(p)
  BY <1>0, <1>4 DEF MuxStops
<1>5. CASE p = r /\ PlcServes(p)
  BY <1>1, <1>5 DEF PlcServes, display, lifecycle, registry, UpToDate
<1>6. CASE p = r /\ ClientStops(p)
  <2>1. UNCHANGED <<inbox, shown, outdated, subscribers, mirror, alive>>
    BY <1>6 DEF ClientStops, display, registry
  <2>2. future'[s] = future[s] \/ future'[s] = [future[s] EXCEPT !.st = "failed"]
    BY <1>0, <1>6 DEF ClientStops
  <2>3. future'[s] = future[s] \/ future'[s].st = "failed"
    BY <1>0, <2>2 DEF Futures
  <2>4. Current(s \in subscribers[p], inbox[s], shown[s], outdated[s], future'[s], mirror[p])
    BY <1>1, <2>1, <2>3, CurrentFuture
  <2>5. QED BY <2>1, <2>4 DEF UpToDate
<1>7. QED BY <1>2, <1>3, <1>4, <1>5, <1>6 DEF Server

LEMMA SubscribersStep ==
    ASSUME RouteInv, SubscribersRouted, NEW r \in Plcs, Server(r)
    PROVE  \A p \in Plcs : subscribers'[p] \subseteq Clients(p)
<1>0. DOMAIN subscribers = Plcs
  BY DEF RouteInv, TypeInv, TypeOK, ServerTypeOK
<1>1. CASE UNCHANGED subscribers
  BY <1>1 DEF SubscribersRouted
<1>2. CASE Handle(r)
  <2> DEFINE m == Head(mailbox[r])
  <2>1. m.from \in Clients(r)
    <3>1. mailbox[r] \in Seq(Sent(Clients(r))) /\ mailbox[r] # <<>>
      BY <1>2 DEF Handle, RouteInv, MailRouted
    <3>2. m \in Sent(Clients(r))
      BY ONLY <3>1
    <3>3. QED BY <3>2 DEF Sent
  <2> HIDE DEF m
  <2>2. CASE OnSubscription(r, m.from)
    <3>1. subscribers' = [subscribers EXCEPT ![r] = @ \cup {m.from}]
      BY <2>2 DEF OnSubscription
    <3>2. QED BY <1>0, <2>1, <3>1 DEF SubscribersRouted
  <2>3. CASE UNCHANGED subscribers
    BY <1>1, <2>3
  <2>4. QED BY <1>2, <2>2, <2>3 DEF Handle, OnMutation, OnResolve, registry, m
<1>3. CASE Finish(r) \/ MuxStops(r) \/ PlcServes(r) \/ ClientStops(r)
  BY <1>1, <1>3 DEF Finish, MuxStops, PlcServes, ClientStops, registry
<1>4. QED BY <1>2, <1>3 DEF Server

LEMMA ShownInit == Init => ShownInv
<1> SUFFICES ASSUME Init PROVE ShownInv
  OBVIOUS
<1>1. RouteInv
  BY RouteInit
<1>2. AnswersRouted /\ SubscribersRouted
  BY DEF Init, AnswersRouted, SubscribersRouted
<1>3. \A s \in Sessions : ~Open(s)
  BY DEF Init, Open
<1>4. QED BY <1>1, <1>2, <1>3 DEF ShownInv, Clients

LEMMA ShownStep == ShownInv /\ [Next]_vars => ShownInv'
<1> SUFFICES ASSUME ShownInv, [Next]_vars PROVE ShownInv'
  OBVIOUS
<1>0. RouteInv /\ RouteInv' /\ AnswersRouted /\ SubscribersRouted /\ UNCHANGED url
  BY RouteStep, ClientsEnd DEF ShownInv
<1>1. \A p \in Plcs : Clients(p)' = Clients(p)
  BY <1>0, UrlKept
<1>2. ASSUME \A p \in Plcs : \A a \in replies'[p] : a.from \in Clients(p),
             \A p \in Plcs : subscribers'[p] \subseteq Clients(p),
             \A p \in Plcs : \A s \in Clients(p) :
                phase'[s] = "open" /\ alive'[p] => UpToDate(p, s)'
      PROVE  ShownInv'
  BY <1>0, <1>1, <1>2 DEF ShownInv, AnswersRouted, SubscribersRouted, Open
<1>3. CASE UNCHANGED vars
  <2>1. UNCHANGED <<phase, future, inbox, shown, outdated, alive, subscribers, mirror, replies>>
    BY <1>3 DEF vars, browser, display, lifecycle, registry, requests
  <2>2. \A p \in Plcs : \A s \in Clients(p) : phase'[s] = "open" /\ alive'[p] => UpToDate(p, s)'
    BY <2>1 DEF ShownInv, UpToDate, Open
  <2>3. QED BY <1>0, <1>2, <2>1, <2>2 DEF AnswersRouted, SubscribersRouted
<1>4. ASSUME NEW w \in Sessions, Session(w) PROVE ShownInv'
  <2>1. UNCHANGED <<alive, replies, subscribers>>
    BY <1>4, SessionCalls
  <2>2. \A p \in Plcs : \A s \in Clients(p) : phase'[s] = "open" /\ alive'[p] => UpToDate(p, s)'
    BY <1>4, <2>1, ShownSession
  <2>3. QED BY <1>0, <1>2, <2>1, <2>2 DEF AnswersRouted, SubscribersRouted
<1>5. ASSUME NEW r \in Plcs, Server(r) PROVE ShownInv'
  <2>1. UNCHANGED phase
    BY <1>5 DEF Server, Handle, Finish, MuxStops, PlcServes, ClientStops, browser
  <2>2. \A p \in Plcs : \A s \in Clients(p) : phase'[s] = "open" /\ alive'[p] => UpToDate(p, s)'
    BY <1>5, <2>1, ShownServer DEF Open
  <2>3. QED BY <1>0, <1>2, <1>5, <2>2, AnswersRoutedStep, SubscribersStep, SMTT(30)
<1>6. QED BY <1>3, <1>4, <1>5 DEF Next

\* A subscriber that has shown all it was sent shows the mirror, unless its last
\* word was an answer that a newer notice had overtaken, for any number of sessions
\* and PLCs: its notices come in the order in which the mirror changed, the last
\* one is the mirror, and an answer that no notice followed is the mirror as well.
THEOREM SubscribersShowMirror == Spec => []ShownIsCurrent
<1>1. ShownInv => ShownIsCurrent
  BY DEF ShownInv, ShownIsCurrent, SubscribersRouted, UpToDate, Current
<1>2. QED BY <1>1, ShownInit, ShownStep, PTL DEF Spec
=============================================================================
