-------------------------- MODULE WsSessionProofs --------------------------
(***************************************************************************)
(* Proofs about WsSession, for every number of sessions, workers, PLCs and *)
(* texts, every capacity of a mailbox, and all addresses whose ports have  *)
(* sixteen bits.                                                           *)
(***************************************************************************)
EXTENDS WsSession, Integers, TLAPS

\* A number below B * B has two digits.
LEMMA Quotient ==
    ASSUME NEW B \in Nat \ {0}, NEW a \in Nat, a < B * B
    PROVE  /\ a \div B \in 0..(B - 1)
           /\ a % B \in 0..(B - 1)
           /\ a = (B * (a \div B)) + (a % B)
<1>1. /\ a \div B \in Int /\ a % B \in 0..(B - 1)
      /\ a = (B * (a \div B)) + (a % B)
  OBVIOUS
<1>2. \A q \in Int, r \in 0..(B - 1) : a = (B * q) + r => q < B /\ q >= 0
  <2> SUFFICES ASSUME NEW q \in Int, NEW r \in 0..(B - 1), a = (B * q) + r
               PROVE  q < B /\ q >= 0
    OBVIOUS
  <2>1. CASE q >= B
    <3>1. B * q >= B * B
      BY <2>1
    <3>2. QED BY <3>1
  <2>2. CASE q <= -1
    <3>1. B * q <= -B
      BY <2>2
    <3>2. QED BY <3>1
  <2>3. QED BY <2>1, <2>2
<1>3. QED BY <1>1, <1>2

\* Such a number is known by its digits, the higher one cut to a digit as well.
LEMMA TwoDigits ==
    ASSUME NEW B \in Nat \ {0}, NEW a \in Nat, NEW b \in Nat, a < B * B, b < B * B,
           a % B = b % B, (a \div B) % B = (b \div B) % B
    PROVE  a = b
<1>1. \A q \in 0..(B - 1) : q % B = q
  OBVIOUS
<1>2. a \div B = b \div B
  BY <1>1, Quotient
<1>3. /\ a = (B * (a \div B)) + (a % B)
      /\ b = (B * (b \div B)) + (b % B)
  BY Quotient
<1>4. QED BY <1>2, <1>3

\* The key of a multiplexer tells all addresses apart: two bytes hold the port.
LEMMA ConnInjective ==
    ASSUME NEW p \in Plcs \cup Urls, NEW u \in Plcs \cup Urls, Conn(p) = Conn(u)
    PROVE  p.net = u.net /\ p.port = u.port
<1>1. /\ p.net \in DOMAIN Octets /\ p.port \in 0..(Base * Base - 1)
      /\ u.net \in DOMAIN Octets /\ u.port \in 0..(Base * Base - 1)
  BY SessionAssumption
<1>2. /\ Octets[p.net] = Octets[u.net]
      /\ p.port % Base = u.port % Base
      /\ (p.port \div Base) % Base = (u.port \div Base) % Base
  BY DEF Conn
<1>3. p.net = u.net
  BY <1>1, <1>2, SessionAssumption
<1>4. /\ Base \in Nat \ {0} /\ p.port \in Nat /\ u.port \in Nat
      /\ p.port < Base * Base /\ u.port < Base * Base
  BY <1>1, SessionAssumption
<1>5. p.port = u.port
  BY <1>2, <1>4, TwoDigits
<1>6. QED BY <1>3, <1>5

-----------------------------------------------------------------------------
\* The messages of some sessions to a multiplexer; a mutation carries a value.

Sent(from) ==
    {m \in [kind : {"register", "unregister", "mutation", "resolve", "subscription"},
            from : from, v : Values] :
        m.kind = "mutation" => m.v \in Sessions \X (1..MaxTexts)}

TypeInv ==
    /\ TypeOK
    /\ mailbox \in [Plcs -> Seq(Sent(Sessions))]
    /\ parked \in [Sessions -> Seq(Sent(Sessions))]
    /\ \A s \in Sessions : Open(s) => Known(url[s])

LEMMA TextsType ==
    ASSUME TypeInv
    PROVE  /\ texts \in Nat /\ texts <= MaxTexts /\ MaxTexts \in Nat
           /\ sent \in [Sessions -> 0..texts]
<1>1. texts \in 0..MaxTexts /\ sent \in [Sessions -> 0..texts]
  BY DEF TypeInv, TypeOK, BrowserTypeOK
<1>2. QED BY ONLY <1>1, SessionAssumption

LEMMA TypeInit == Init => TypeInv
<1> SUFFICES ASSUME Init PROVE TypeInv
  OBVIOUS
<1> USE SessionAssumption DEF Init
<1>1. url \in [Sessions -> Urls]
  OBVIOUS
<1>2. BrowserTypeOK
  BY <1>1 DEF BrowserTypeOK
<1>3. SessionTypeOK
  BY DEF SessionTypeOK, NoFuture, Futures, Values
<1>4. ServerTypeOK
  BY DEF ServerTypeOK, Values
<1>5. GoneIsIdle
  BY DEF GoneIsIdle
<1>6. QED BY <1>2, <1>3, <1>4, <1>5 DEF TypeOK, TypeInv, Open

LEMMA KnownTarget ==
    ASSUME NEW s, Known(url[s])
    PROVE  Mux(s) \in Plcs /\ Conn(Mux(s)) = Conn(url[s])
BY DEF Known, Mux, Target

LEMMA SentMessage == Sent(Sessions) \subseteq Messages
BY DEF Sent, Messages

MailType ==
    /\ mailbox \in [Plcs -> Seq(Messages)]
    /\ mailbox \in [Plcs -> Seq(Sent(Sessions))]
ParkType ==
    /\ parked \in [Sessions -> Seq(Messages)]
    /\ parked \in [Sessions -> Seq(Sent(Sessions))]

LEMMA DoSendType ==
    ASSUME TypeInv, NEW s \in Sessions, Known(url[s]), NEW m \in Sent(Sessions), DoSend(s, m)
    PROVE  MailType'
BY KnownTarget, SentMessage DEF TypeInv, TypeOK, ServerTypeOK, DoSend, MailType

LEMMA SendOrParkType ==
    ASSUME TypeInv, NEW s \in Sessions, Known(url[s]), NEW m \in Sent(Sessions), SendOrPark(s, m)
    PROVE  /\ MailType' /\ ParkType'
           /\ \A t \in Sessions \ {s} : parked'[t] = parked[t]
<1>1. CASE DoSend(s, m) /\ UNCHANGED parked
  BY <1>1, DoSendType DEF TypeInv, TypeOK, SessionTypeOK, ParkType
<1>2. CASE /\ parked' = [parked EXCEPT ![s] = Append(@, m)]
           /\ UNCHANGED mailbox
  BY <1>2, SentMessage DEF TypeInv, TypeOK, SessionTypeOK, ServerTypeOK, ParkType, MailType
<1>3. QED BY <1>1, <1>2 DEF SendOrPark

LEMMA ResetType ==
    ASSUME NEW S, NEW G, NEW none \in S, NEW f \in [Sessions -> S]
    PROVE  [t \in Sessions |-> IF t \in G THEN none ELSE f[t]] \in [Sessions -> S]
OBVIOUS

LEMMA NoFutureType == NoFuture \in Futures
BY SessionAssumption DEF NoFuture, Futures, Values

\* A panic takes sessions away and leaves the server as it is.
LEMMA WorkerDiesType ==
    ASSUME TypeInv, NEW s \in Sessions, WorkerDies(s), malformed' \subseteq Sessions,
           status' = status, url' = url, texts' \in 0..MaxTexts, texts <= texts'
    PROVE  TypeInv'
<1> DEFINE Gone == {s} \cup {t \in Sessions : WorkerOf[t] = WorkerOf[s] /\ Open(t)}
<1>0. /\ phase' = [t \in Sessions |-> IF t \in Gone THEN "dead" ELSE phase[t]]
      /\ sent' = [t \in Sessions |-> IF t \in Gone THEN 0 ELSE sent[t]]
      /\ parked' = [t \in Sessions |-> IF t \in Gone THEN <<>> ELSE parked[t]]
      /\ future' = [t \in Sessions |-> IF t \in Gone THEN NoFuture ELSE future[t]]
      /\ inbox' = [t \in Sessions |-> IF t \in Gone THEN <<>> ELSE inbox[t]]
      /\ shown' = [t \in Sessions |-> IF t \in Gone THEN <<>> ELSE shown[t]]
      /\ outdated' = [t \in Sessions |-> IF t \in Gone THEN FALSE ELSE outdated[t]]
      /\ UNCHANGED <<mailbox, alive, clientUp, ws_clients, subscribers, mirror, pipe, replies,
                     plc, order>>
  BY DEF WorkerDies, lifecycle, registry, requests
<1> HIDE DEF Gone
<1>1. BrowserTypeOK'
  <2>1. sent \in [Sessions -> 0..texts'] /\ texts \in 0..MaxTexts
    BY SessionAssumption DEF TypeInv, TypeOK, BrowserTypeOK
  <2>2. sent' \in [Sessions -> 0..texts']
    BY <1>0, <2>1, ResetType, SessionAssumption
  <2>3. phase' \in [Sessions -> {"new", "open", "closed", "dead"}]
    BY <1>0 DEF TypeInv, TypeOK, BrowserTypeOK
  <2>4. QED BY <2>2, <2>3 DEF TypeInv, TypeOK, BrowserTypeOK
<1>2. SessionTypeOK' /\ ParkType'
  <2> USE DEF TypeInv, TypeOK, SessionTypeOK
  <2>1. ParkType'
    BY <1>0, ResetType DEF ParkType
  <2>2. future' \in [Sessions -> Futures]
    BY <1>0, ResetType, NoFutureType
  <2>3. inbox' \in [Sessions -> Seq([v : Values, late : BOOLEAN])]
    <3>1. inbox \in [Sessions -> Seq([v : Values, late : BOOLEAN])]
      OBVIOUS
    <3>2. <<>> \in Seq([v : Values, late : BOOLEAN])
      OBVIOUS
    <3>3. QED BY ONLY <1>0, <3>1, <3>2, ResetType
  <2>4. shown' \in [Sessions -> Seq(Values)] /\ outdated' \in [Sessions -> BOOLEAN]
    <3>1. shown \in [Sessions -> Seq(Values)] /\ outdated \in [Sessions -> BOOLEAN]
      OBVIOUS
    <3>2. <<>> \in Seq(Values) /\ FALSE \in BOOLEAN
      OBVIOUS
    <3>3. QED BY ONLY <1>0, <3>1, <3>2, ResetType
  <2>5. QED BY <2>1, <2>2, <2>3, <2>4 DEF ParkType
<1>3. GoneIsIdle'
  BY <1>0 DEF TypeInv, TypeOK, BrowserTypeOK, GoneIsIdle, Open
<1>4. \A t \in Sessions : Open(t)' => Known(url'[t])
  BY <1>0 DEF TypeInv, TypeOK, BrowserTypeOK, Open
<1>5. ServerTypeOK' /\ mailbox' = mailbox
  BY <1>0 DEF TypeInv, TypeOK, ServerTypeOK
<1>6. QED
  BY <1>1, <1>2, <1>3, <1>4, <1>5 DEF TypeInv, TypeOK, ParkType, Known

\* A session's own messages.
LEMMA SentBy ==
    ASSUME NEW s \in Sessions
    PROVE  /\ \A kind \in {"register", "unregister", "resolve", "subscription"} :
                Message(kind, s, Loaded) \in Sent({s})
           /\ \A k \in 1..MaxTexts : Message("mutation", s, <<s, k>>) \in Sent({s})
           /\ Sent({s}) \subseteq Sent(Sessions)
BY DEF Message, Sent, Values

\* What a step leaves alone keeps its type.
LEMMA ServerKept ==
    ASSUME TypeInv, MailType',
           UNCHANGED <<alive, clientUp, ws_clients, subscribers, mirror, pipe, replies, plc, order>>
    PROVE  ServerTypeOK'
BY DEF TypeInv, TypeOK, ServerTypeOK, MailType

LEMMA StartType == ASSUME TypeInv, NEW s \in Sessions, Start(s) PROVE TypeInv'
<1>1. CASE ~Known(url[s]) /\ WorkerDies(s) /\ UNCHANGED <<status, url, texts, malformed>>
  <2>1. texts \in 0..MaxTexts /\ malformed \subseteq Sessions
    BY DEF TypeInv, TypeOK, BrowserTypeOK
  <2>3. texts' \in 0..MaxTexts /\ texts <= texts' /\ malformed' \subseteq Sessions
    BY ONLY <1>1, <2>1, SessionAssumption
  <2>2. QED BY <1>1, <2>3, WorkerDiesType
<1>2. CASE /\ Known(url[s]) /\ phase' = [phase EXCEPT ![s] = "open"]
           /\ DoSend(s, Message("register", s, Loaded))
           /\ UNCHANGED <<parked, future, display, lifecycle, registry, mirror, requests, order, sent>>
           /\ UNCHANGED <<status, url, texts, malformed>>
  <2>0. UNCHANGED <<parked, future, inbox, shown, outdated, alive, clientUp, ws_clients, subscribers,
                    mirror, pipe, replies, plc, order, sent>>
    BY <1>2 DEF display, lifecycle, registry, requests
  <2>1. MailType'
    BY <1>2, DoSendType, SentBy
  <2>2. BrowserTypeOK'
    BY <1>2, <2>0 DEF TypeInv, TypeOK, BrowserTypeOK
  <2>3. SessionTypeOK' /\ ParkType'
    BY <2>0 DEF TypeInv, TypeOK, SessionTypeOK, ParkType
  <2>4. ServerTypeOK'
    BY <2>0, <2>1, ServerKept
  <2>5. GoneIsIdle'
    BY <1>2, <2>0 DEF TypeInv, TypeOK, BrowserTypeOK, GoneIsIdle, Open
  <2>6. \A t \in Sessions : Open(t)' => Known(url'[t])
    BY <1>2 DEF TypeInv, TypeOK, BrowserTypeOK, Open
  <2>7. QED
    BY <2>1, <2>2, <2>3, <2>4, <2>5, <2>6 DEF TypeInv, TypeOK, MailType, ParkType, Known
<1>3. QED BY <1>1, <1>2 DEF Start

LEMMA StopType == ASSUME TypeInv, NEW s \in Sessions, Stop(s) PROVE TypeInv'
<1>0. UNCHANGED <<alive, clientUp, ws_clients, subscribers, mirror, pipe, replies, plc, order>>
  BY DEF Stop, lifecycle, registry, requests
<1>1. MailType'
  BY DoSendType, SentBy DEF Stop, TypeInv
<1>2. BrowserTypeOK'
  <2>1. texts \in Nat
    BY SessionAssumption DEF TypeInv, TypeOK, BrowserTypeOK
  <2>2. sent' \in [Sessions -> 0..texts]
    BY <2>1 DEF Stop, TypeInv, TypeOK, BrowserTypeOK
  <2>3. QED BY <2>2 DEF Stop, TypeInv, TypeOK, BrowserTypeOK
<1>3. SessionTypeOK' /\ ParkType'
  <2> USE DEF Stop, TypeInv, TypeOK, SessionTypeOK
  <2>1. ParkType'
    BY DEF ParkType
  <2>2. future' \in [Sessions -> Futures]
    BY NoFutureType
  <2>3. inbox' \in [Sessions -> Seq([v : Values, late : BOOLEAN])]
    <3>1. inbox \in [Sessions -> Seq([v : Values, late : BOOLEAN])]
      OBVIOUS
    <3>2. <<>> \in Seq([v : Values, late : BOOLEAN]) /\ inbox' = [inbox EXCEPT ![s] = <<>>]
      OBVIOUS
    <3>3. QED BY ONLY <3>1, <3>2, s \in Sessions
  <2>4. shown' \in [Sessions -> Seq(Values)] /\ outdated' \in [Sessions -> BOOLEAN]
    OBVIOUS
  <2>5. QED BY <2>1, <2>2, <2>3, <2>4 DEF ParkType
<1>4. ServerTypeOK'
  BY <1>0, <1>1, ServerKept
<1>5. GoneIsIdle'
  BY DEF Stop, TypeInv, TypeOK, BrowserTypeOK, SessionTypeOK, GoneIsIdle, Open
<1>6. \A t \in Sessions : Open(t)' => Known(url'[t])
  BY DEF Stop, TypeInv, TypeOK, BrowserTypeOK, Open
<1>7. QED
  BY <1>1, <1>2, <1>3, <1>4, <1>5, <1>6 DEF TypeInv, TypeOK, MailType, ParkType, Known

\* A text of an open session leaves it open, whatever it asks for.
LEMMA TextKept ==
    ASSUME TypeInv, NEW s \in Sessions, Open(s), texts < MaxTexts, texts' = texts + 1,
           UNCHANGED <<status, url, phase, malformed>>, sent' \in [Sessions -> 0..texts'],
           \A t \in Sessions \ {s} : /\ parked'[t] = parked[t] /\ future'[t] = future[t]
                                     /\ inbox'[t] = inbox[t] /\ shown'[t] = shown[t]
    PROVE  /\ BrowserTypeOK' /\ GoneIsIdle'
           /\ \A t \in Sessions : Open(t)' => Known(url'[t])
<1>1. texts' \in 0..MaxTexts
  BY TextsType
<1>2. BrowserTypeOK'
  BY <1>1 DEF TypeInv, TypeOK, BrowserTypeOK
<1>3. GoneIsIdle'
  BY DEF TypeInv, TypeOK, GoneIsIdle, Open
<1>4. \A t \in Sessions : Open(t)' => Known(url'[t])
  BY DEF TypeInv, Open
<1>5. QED BY <1>2, <1>3, <1>4

LEMMA TextsGrow ==
    ASSUME TypeInv, texts' = texts + 1
    PROVE  /\ sent \in [Sessions -> 0..texts'] /\ texts \in Nat
           /\ \A s \in Sessions : sent[s] + 1 \in 0..texts'
<1>1. texts \in Nat /\ sent \in [Sessions -> 0..texts]
  BY TextsType
<1>2. \A s \in Sessions : sent[s] \in 0..texts' /\ sent[s] + 1 \in 0..texts'
  BY ONLY <1>1, texts' = texts + 1
<1>3. QED BY ONLY <1>1, <1>2

LEMMA OnTextType == ASSUME TypeInv, NEW s \in Sessions, OnText(s) PROVE TypeInv'
<1>0. /\ Open(s) /\ Known(url[s]) /\ texts < MaxTexts /\ texts' = texts + 1
      /\ UNCHANGED <<status, url>>
  BY DEF OnText, TypeInv
<1>1. CASE SendMutation(s)
  <2>0. UNCHANGED <<phase, malformed, parked, future, inbox, shown, outdated, alive, clientUp,
                    ws_clients, subscribers, mirror, pipe, replies, plc, order>>
    BY <1>1 DEF SendMutation, lifecycle, registry, requests
  <2>1. sent' \in [Sessions -> 0..texts'] /\ sent'[s] = sent[s] + 1
    BY <1>0, <1>1, TextsGrow DEF SendMutation
  <2>2. sent'[s] \in 1..MaxTexts
    BY <1>0, <2>1, TextsGrow, SessionAssumption
  <2>3. MailType'
    BY <1>0, <1>1, <2>2, DoSendType, SentBy DEF SendMutation
  <2>4. SessionTypeOK' /\ ParkType'
    BY <2>0 DEF TypeInv, TypeOK, SessionTypeOK, ParkType
  <2>5. QED
    BY <1>0, <2>0, <2>1, <2>3, <2>4, TextKept, ServerKept DEF TypeInv, TypeOK, MailType, ParkType
<1>2. CASE SendResolve(s)
  <2>0. UNCHANGED <<phase, sent, malformed, inbox, shown, outdated, alive, clientUp,
                    ws_clients, subscribers, mirror, pipe, replies, plc, order>>
    BY <1>2 DEF SendResolve, lifecycle, registry, requests
  <2>1. sent' \in [Sessions -> 0..texts']
    BY <1>0, <2>0, TextsGrow
  <2>2. /\ MailType' /\ ParkType'
        /\ \A t \in Sessions \ {s} : parked'[t] = parked[t]
    BY <1>0, <1>2, SendOrParkType, SentBy DEF SendResolve
  <2>3. /\ future' \in [Sessions -> Futures]
        /\ \A t \in Sessions \ {s} : future'[t] = future[t]
    <3>1. sent[s] \in 0..MaxTexts
      BY <1>0, TextsGrow, SessionAssumption DEF TypeInv, TypeOK, BrowserTypeOK
    <3>2. [NoFuture EXCEPT !.st = IF alive[Mux(s)] THEN "waiting" ELSE "closed",
                           !.since = sent[s]] \in Futures
      BY <3>1, NoFutureType DEF NoFuture, Futures
    <3>3. QED BY <1>2, <3>2 DEF SendResolve, TypeInv, TypeOK, SessionTypeOK
  <2>4. SessionTypeOK'
    BY <2>0, <2>2, <2>3 DEF TypeInv, TypeOK, SessionTypeOK, ParkType
  <2>5. QED
    BY <1>0, <2>0, <2>1, <2>2, <2>3, <2>4, TextKept, ServerKept
       DEF TypeInv, TypeOK, MailType, ParkType
<1>3. CASE SendSubscription(s)
  <2>0. UNCHANGED <<phase, sent, malformed, future, inbox, shown, outdated, alive, clientUp,
                    ws_clients, subscribers, mirror, pipe, replies, plc, order>>
    BY <1>3 DEF SendSubscription, lifecycle, registry, requests
  <2>1. sent' \in [Sessions -> 0..texts']
    BY <1>0, <2>0, TextsGrow
  <2>2. /\ MailType' /\ ParkType'
        /\ \A t \in Sessions \ {s} : parked'[t] = parked[t]
    BY <1>0, <1>3, SendOrParkType, SentBy DEF SendSubscription
  <2>4. SessionTypeOK'
    BY <2>0, <2>2 DEF TypeInv, TypeOK, SessionTypeOK, ParkType
  <2>5. QED
    BY <1>0, <2>0, <2>1, <2>2, <2>4, TextKept, ServerKept DEF TypeInv, TypeOK, MailType, ParkType
<1>4. CASE SendMalformed(s)
  <2>1. malformed' \subseteq Sessions
    BY <1>4 DEF SendMalformed, TypeInv, TypeOK, BrowserTypeOK
  <2>2. texts' \in 0..MaxTexts /\ texts <= texts'
    BY <1>0, TextsGrow, SessionAssumption
  <2>3. QED BY <1>0, <1>4, <2>1, <2>2, WorkerDiesType DEF SendMalformed
<1>5. QED BY <1>1, <1>2, <1>3, <1>4 DEF OnText

\* A step that touches nothing but sessions that are open, and what lies in the server.
LEMMA BrowserKept ==
    ASSUME TypeInv, UNCHANGED <<status, phase, url, texts, sent, malformed>>,
           \A t \in Sessions : ~Open(t) =>
              /\ parked'[t] = parked[t] /\ future'[t] = future[t]
              /\ inbox'[t] = inbox[t] /\ shown'[t] = shown[t]
    PROVE  /\ BrowserTypeOK' /\ GoneIsIdle'
           /\ \A t \in Sessions : Open(t)' => Known(url'[t])
<1>1. BrowserTypeOK'
  BY DEF TypeInv, TypeOK, BrowserTypeOK
<1>2. GoneIsIdle'
  BY DEF TypeInv, TypeOK, GoneIsIdle, Open
<1>3. \A t \in Sessions : Open(t)' => Known(url'[t])
  BY DEF TypeInv, Open
<1>4. QED BY <1>1, <1>2, <1>3

LEMMA FutureSet ==
    ASSUME NEW S, NEW f \in [S -> Futures], NEW s \in S,
           NEW st \in {"none", "waiting", "answered", "failed", "closed"}
    PROVE  /\ [f EXCEPT ![s].st = st] \in [S -> Futures]
           /\ [f EXCEPT ![s].st = st][s].st = st
           /\ \A t \in S \ {s} : [f EXCEPT ![s].st = st][t] = f[t]
BY DEF Futures

LEMMA UnparkType == ASSUME TypeInv, NEW s \in Sessions, Unpark(s) PROVE TypeInv'
<1>0. UNCHANGED <<status, phase, url, texts, sent, malformed, inbox, shown, outdated, alive,
                  clientUp, ws_clients, subscribers, mirror, pipe, replies, plc, order>>
  BY DEF Unpark, browser, display, lifecycle, registry, requests
<1>1. Open(s) /\ Known(url[s]) /\ Head(parked[s]) \in Sent(Sessions)
  BY DEF Unpark, TypeInv, TypeOK, GoneIsIdle
<1>2. MailType'
  BY <1>1, DoSendType DEF Unpark
<1>3. ParkType' /\ \A t \in Sessions \ {s} : parked'[t] = parked[t]
  BY DEF Unpark, ParkType, TypeInv, TypeOK, SessionTypeOK
<1>4. future' \in [Sessions -> Futures] /\ \A t \in Sessions \ {s} : future'[t] = future[t]
  <2>1. future' \in {future, [future EXCEPT ![s].st = "closed"]}
    BY DEF Unpark
  <2>2. future \in [Sessions -> Futures]
    BY DEF TypeInv, TypeOK, SessionTypeOK
  <2>3. "closed" \in {"none", "waiting", "answered", "failed", "closed"}
    OBVIOUS
  <2>4. /\ [future EXCEPT ![s].st = "closed"] \in [Sessions -> Futures]
        /\ \A t \in Sessions \ {s} : [future EXCEPT ![s].st = "closed"][t] = future[t]
    BY ONLY <2>2, <2>3, s \in Sessions, FutureSet, ZenonT(60)
  <2>5. QED BY ONLY <2>1, <2>2, <2>4
<1>5. SessionTypeOK'
  BY <1>0, <1>3, <1>4 DEF TypeInv, TypeOK, SessionTypeOK, ParkType
<1>6. QED
  BY <1>0, <1>1, <1>2, <1>3, <1>4, <1>5, BrowserKept, ServerKept
     DEF TypeInv, TypeOK, MailType, ParkType

LEMMA ShowNoticeType == ASSUME TypeInv, NEW s \in Sessions, ShowNotice(s) PROVE TypeInv'
<1>0. UNCHANGED <<status, phase, url, texts, sent, malformed, parked, mailbox, alive,
                  clientUp, ws_clients, subscribers, mirror, pipe, replies, plc, order>>
  BY DEF ShowNotice, browser, lifecycle, registry, requests
<1>1. Open(s)
  BY DEF ShowNotice, TypeInv, TypeOK, GoneIsIdle
<1> DEFINE Notices == [v : Values, late : BOOLEAN]
<1>8. inbox \in [Sessions -> Seq(Notices)] /\ inbox[s] # <<>>
  BY DEF ShowNotice, TypeInv, TypeOK, SessionTypeOK
<1>9. Head(inbox[s]) \in Notices /\ Tail(inbox[s]) \in Seq(Notices)
  <2> HIDE DEF Notices
  <2>1. inbox[s] \in Seq(Notices)
    BY <1>8
  <2>2. QED BY ONLY <2>1, <1>8
<1>2. Head(inbox[s]) \in [v : Values, late : BOOLEAN]
  BY <1>9
<1>3. /\ future' \in [Sessions -> Futures]
      /\ \A t \in Sessions \ {s} : future'[t] = future[t]
  <2>1. \A b \in BOOLEAN : [future EXCEPT ![s].passed = b] \in [Sessions -> Futures]
    BY DEF TypeInv, TypeOK, SessionTypeOK, Futures
  <2>2. future[s].passed \in BOOLEAN /\ Head(inbox[s]).late \in BOOLEAN
    BY <1>2 DEF TypeInv, TypeOK, SessionTypeOK, Futures
  <2>3. QED BY <2>1, <2>2 DEF ShowNotice, TypeInv, TypeOK, SessionTypeOK
<1>4. /\ inbox' \in [Sessions -> Seq([v : Values, late : BOOLEAN])]
      /\ \A t \in Sessions \ {s} : inbox'[t] = inbox[t]
  <2>1. inbox' = [inbox EXCEPT ![s] = Tail(inbox[s])]
    BY DEF ShowNotice
  <2> HIDE DEF Notices
  <2>2. inbox' \in [Sessions -> Seq(Notices)]
    BY ONLY <2>1, <1>8, <1>9, s \in Sessions
  <2>3. \A t \in Sessions \ {s} : inbox'[t] = inbox[t]
    BY ONLY <2>1, <1>8, s \in Sessions
  <2>4. QED BY <2>2, <2>3 DEF Notices
<1>5. /\ shown' \in [Sessions -> Seq(Values)] /\ outdated' \in [Sessions -> BOOLEAN]
      /\ \A t \in Sessions \ {s} : shown'[t] = shown[t]
  BY <1>2 DEF ShowNotice, TypeInv, TypeOK, SessionTypeOK
<1>6. SessionTypeOK' /\ ParkType' /\ MailType'
  BY <1>0, <1>3, <1>4, <1>5 DEF TypeInv, TypeOK, SessionTypeOK, ServerTypeOK, ParkType, MailType
<1>7. QED
  BY <1>0, <1>1, <1>3, <1>4, <1>5, <1>6, BrowserKept, ServerKept
     DEF TypeInv, TypeOK, MailType, ParkType

LEMMA ShowAnswerType == ASSUME TypeInv, NEW s \in Sessions, ShowAnswer(s) PROVE TypeInv'
<1> DEFINE Notices == [v : Values, late : BOOLEAN]
<1>0. UNCHANGED <<status, url, texts, malformed>>
  BY DEF ShowAnswer
<1>1. CASE WorkerDies(s)
  <2>1. texts' \in 0..MaxTexts /\ texts <= texts' /\ malformed' \subseteq Sessions
    BY <1>0, TextsType DEF TypeInv, TypeOK, BrowserTypeOK
  <2>2. QED BY <1>0, <1>1, <2>1, WorkerDiesType
<1>2. ASSUME future[s].st \in {"answered", "closed"},
             future' = [future EXCEPT ![s] = NoFuture],
             UNCHANGED <<phase, sent, parked, mailbox, lifecycle, registry, mirror, requests, order>>,
             inbox' \in [Sessions -> Seq(Notices)], shown' \in [Sessions -> Seq(Values)],
             outdated' \in [Sessions -> BOOLEAN],
             \A t \in Sessions \ {s} : inbox'[t] = inbox[t] /\ shown'[t] = shown[t]
      PROVE  TypeInv'
  <2>0. UNCHANGED <<phase, sent, parked, mailbox, alive, clientUp, ws_clients, subscribers, mirror,
                    pipe, replies, plc, order>>
    BY <1>2 DEF lifecycle, registry, requests
  <2>1. Open(s)
    BY <1>2 DEF TypeInv, TypeOK, GoneIsIdle, NoFuture
  <2>2. /\ future' \in [Sessions -> Futures]
        /\ \A t \in Sessions \ {s} : future'[t] = future[t]
    BY <1>2, NoFutureType DEF TypeInv, TypeOK, SessionTypeOK
  <2>3. SessionTypeOK' /\ ParkType' /\ MailType'
    BY <1>2, <2>0, <2>2 DEF TypeInv, TypeOK, SessionTypeOK, ServerTypeOK, ParkType, MailType
  <2>4. QED
    BY <1>0, <1>2, <2>0, <2>1, <2>2, <2>3, BrowserKept, ServerKept
       DEF TypeInv, TypeOK, MailType, ParkType
<1>3. /\ inbox \in [Sessions -> Seq(Notices)] /\ shown \in [Sessions -> Seq(Values)]
      /\ outdated \in [Sessions -> BOOLEAN] /\ future[s] \in Futures
  BY DEF TypeInv, TypeOK, SessionTypeOK
<1>4. CASE /\ future[s].st = "closed" /\ future' = [future EXCEPT ![s] = NoFuture]
           /\ UNCHANGED <<phase, sent, parked, display, mailbox, lifecycle, registry, mirror, requests,
                          order>>
  BY <1>2, <1>3, <1>4 DEF display
<1>5. CASE /\ future[s].st = "answered"
           /\ shown' = [shown EXCEPT ![s] = <<future[s].v>>]
           /\ outdated' = [outdated EXCEPT ![s] = future[s].passed]
           /\ inbox' = [inbox EXCEPT ![s] = [i \in DOMAIN @ |-> [@[i] EXCEPT !.late = FALSE]]]
           /\ future' = [future EXCEPT ![s] = NoFuture]
           /\ UNCHANGED <<phase, sent, parked, mailbox, lifecycle, registry, mirror, requests, order>>
  <2>1. future[s].v \in Values /\ future[s].passed \in BOOLEAN
    BY <1>3 DEF Futures
  <2>2. /\ shown' \in [Sessions -> Seq(Values)] /\ outdated' \in [Sessions -> BOOLEAN]
        /\ \A t \in Sessions \ {s} : shown'[t] = shown[t]
    BY <1>3, <1>5, <2>1
  <2>3. \A n \in Notices : [n EXCEPT !.late = FALSE] \in Notices
    OBVIOUS
  <2>4. [i \in DOMAIN inbox[s] |-> [inbox[s][i] EXCEPT !.late = FALSE]] \in Seq(Notices)
    <3> HIDE DEF Notices
    <3>1. inbox[s] \in Seq(Notices)
      BY <1>3
    <3>2. QED BY ONLY <3>1, <2>3
  <2>5. /\ inbox' \in [Sessions -> Seq(Notices)]
        /\ \A t \in Sessions \ {s} : inbox'[t] = inbox[t]
    <3> HIDE DEF Notices
    <3>1. QED BY <1>3, <1>5, <2>4
  <2>6. QED BY <1>2, <1>5, <2>2, <2>5
<1>6. QED BY <1>1, <1>4, <1>5 DEF ShowAnswer

-----------------------------------------------------------------------------
\* The multiplexer, the client and the PLC.

LEMMA NotifyType ==
    ASSUME TypeInv, NEW p \in Plcs, NEW v \in Values, Notify(p, v)
    PROVE  /\ inbox' \in [Sessions -> Seq([v : Values, late : BOOLEAN])]
           /\ \A t \in Sessions : ~Open(t) => inbox'[t] = inbox[t]
<1> DEFINE Notices == [v : Values, late : BOOLEAN]
<1>1. inbox \in [Sessions -> Seq(Notices)]
  BY DEF TypeInv, TypeOK, SessionTypeOK
<1>2. \A t \in Sessions : [v |-> v, late |-> future[t].st = "answered"] \in Notices
  OBVIOUS
<1>3. \A t \in Sessions :
         Append(inbox[t], [v |-> v, late |-> future[t].st = "answered"]) \in Seq(Notices)
  <2> HIDE DEF Notices
  <2>1. QED BY <1>1, <1>2
<1>4. inbox' \in [Sessions -> Seq(Notices)]
  <2> HIDE DEF Notices
  <2>1. QED BY <1>1, <1>3 DEF Notify
<1>5. QED BY <1>4 DEF Notify

LEMMA SettledType ==
    ASSUME TypeInv, NEW s \in Sessions, future' = Settled(s, "failed")
    PROVE  /\ future' \in [Sessions -> Futures]
           /\ \A t \in Sessions : ~Open(t) => future'[t] = future[t]
<1>1. future \in [Sessions -> Futures]
  BY DEF TypeInv, TypeOK, SessionTypeOK
<1>2. "failed" \in {"none", "waiting", "answered", "failed", "closed"}
  OBVIOUS
<1>3. /\ [future EXCEPT ![s].st = "failed"] \in [Sessions -> Futures]
      /\ \A t \in Sessions \ {s} : [future EXCEPT ![s].st = "failed"][t] = future[t]
  BY ONLY <1>1, <1>2, s \in Sessions, FutureSet
<1>4. future[s].st = "waiting" => Open(s)
  BY DEF TypeInv, TypeOK, GoneIsIdle, NoFuture
<1>5. QED BY <1>1, <1>3, <1>4 DEF Settled

\* The message at the head of a mailbox, and the mailbox without it.
LEMMA HeadType ==
    ASSUME TypeInv, NEW p \in Plcs, mailbox[p] # <<>>, mailbox' = [mailbox EXCEPT ![p] = Tail(@)]
    PROVE  MailType' /\ Head(mailbox[p]) \in Sent(Sessions)
BY DEF TypeInv, TypeOK, ServerTypeOK, MailType

\* What is left to show when a step of the server only touches futures and notices
\* of sessions that are open.
LEMMA ServerStep ==
    ASSUME TypeInv, status' \in {"running", "panicked"},
           UNCHANGED <<phase, url, texts, sent, malformed, parked>>, MailType', ServerTypeOK',
           future' \in [Sessions -> Futures],
           inbox' \in [Sessions -> Seq([v : Values, late : BOOLEAN])],
           shown' \in [Sessions -> Seq(Values)], UNCHANGED outdated,
           \A t \in Sessions : ~Open(t) =>
              future'[t] = future[t] /\ inbox'[t] = inbox[t] /\ shown'[t] = shown[t]
    PROVE  TypeInv'
<1>1. BrowserTypeOK'
  BY DEF TypeInv, TypeOK, BrowserTypeOK
<1>2. SessionTypeOK' /\ ParkType'
  BY DEF TypeInv, TypeOK, SessionTypeOK, ParkType
<1>3. GoneIsIdle'
  BY DEF TypeInv, TypeOK, GoneIsIdle, Open
<1>4. \A t \in Sessions : Open(t)' => Known(url'[t])
  BY DEF TypeInv, Open
<1>5. QED BY <1>1, <1>2, <1>3, <1>4 DEF TypeInv, TypeOK, MailType, ParkType, Known

LEMMA FutureKept == ASSUME TypeInv PROVE future \in [Sessions -> Futures]
BY DEF TypeInv, TypeOK, SessionTypeOK

LEMMA DisplayKept ==
    ASSUME TypeInv
    PROVE  /\ inbox \in [Sessions -> Seq([v : Values, late : BOOLEAN])]
           /\ shown \in [Sessions -> Seq(Values)]
BY DEF TypeInv, TypeOK, SessionTypeOK

LEMMA HandleType == ASSUME TypeInv, NEW p \in Plcs, Handle(p) PROVE TypeInv'
<1> DEFINE m == Head(mailbox[p])
<1>0. /\ MailType' /\ m \in Sent(Sessions)
      /\ UNCHANGED <<status, phase, url, texts, sent, malformed, parked, alive, clientUp, plc>>
      /\ status \in {"running", "panicked"}
  BY HeadType DEF Handle, browser, lifecycle, TypeInv, TypeOK, BrowserTypeOK
<1>1. m.from \in Sessions /\ (m.kind = "mutation" => m.v \in Sessions \X (1..MaxTexts))
  BY <1>0 DEF Sent
<1> HIDE DEF m
<1>2. CASE \/ Registered(p, m.from) /\ UNCHANGED <<subscribers, mirror, order, future, display, pipe, replies>>
           \/ Unregistered(p, m.from) /\ UNCHANGED <<subscribers, mirror, order, future, display, pipe, replies>>
  <2>1. ws_clients' \in [Plcs -> SUBSET Sessions]
    <3>1. ws_clients \in [Plcs -> SUBSET Sessions]
      BY DEF TypeInv, TypeOK, ServerTypeOK
    <3>2. QED BY ONLY <1>1, <1>2, <3>1, p \in Plcs DEF Registered, Unregistered
  <2>2. ServerTypeOK' /\ UNCHANGED <<future, inbox, shown, outdated>>
    BY <1>0, <1>2, <2>1 DEF TypeInv, TypeOK, ServerTypeOK, MailType, display
  <2>3. QED BY <1>0, <2>2, ServerStep, FutureKept, DisplayKept
<1>3. CASE m.kind = "mutation" /\ OnMutation(p, m.v)
  <2>1. m.v \in Values /\ Message("write", m.v[1], m.v) \in Messages
    BY <1>1, <1>3 DEF Values, Message, Messages
  <2>2. /\ mirror' \in [Plcs -> Values] /\ order' \in [Plcs -> Seq(Values)]
        /\ pipe' \in [Plcs -> Seq(Messages)]
    BY <1>3, <2>1 DEF OnMutation, TypeInv, TypeOK, ServerTypeOK
  <2>3. ServerTypeOK' /\ UNCHANGED <<future, shown, outdated>>
    BY <1>0, <1>3, <2>2 DEF OnMutation, registry, TypeInv, TypeOK, ServerTypeOK, MailType
  <2>4. QED
    BY <1>0, <1>3, <2>1, <2>3, NotifyType, ServerStep, FutureKept, DisplayKept DEF OnMutation
<1>4. CASE OnResolve(p, m.from)
  <2>1. Message("read", m.from, Loaded) \in Messages
    BY <1>1 DEF Values, Message, Messages
  <2>2. pipe' \in [Plcs -> Seq(Messages)]
    <3>1. pipe \in [Plcs -> Seq(Messages)]
      BY DEF TypeInv, TypeOK, ServerTypeOK
    <3>2. pipe' \in {pipe, [pipe EXCEPT ![p] = Append(@, Message("read", m.from, Loaded))]}
      BY <1>4 DEF OnResolve
    <3>3. Append(pipe[p], Message("read", m.from, Loaded)) \in Seq(Messages)
      BY ONLY <2>1, <3>1, p \in Plcs
    <3>4. QED BY ONLY <3>1, <3>2, <3>3, p \in Plcs
  <2>3. ServerTypeOK' /\ UNCHANGED <<inbox, shown, outdated>>
    BY <1>0, <1>4, <2>2 DEF OnResolve, registry, display, TypeInv, TypeOK, ServerTypeOK, MailType
  <2>4. /\ future' \in [Sessions -> Futures]
        /\ \A t \in Sessions : ~Open(t) => future'[t] = future[t]
    BY <1>1, <1>4, SettledType, FutureKept DEF OnResolve
  <2>5. QED BY <1>0, <2>3, <2>4, ServerStep, DisplayKept
<1>5. CASE OnSubscription(p, m.from)
  <2>1. ServerTypeOK' /\ UNCHANGED <<inbox, outdated>>
    BY <1>0, <1>1, <1>5 DEF OnSubscription, TypeInv, TypeOK, ServerTypeOK, MailType
  <2>2. /\ shown' \in [Sessions -> Seq(Values)]
        /\ \A t \in Sessions : ~Open(t) => shown'[t] = shown[t]
    BY <1>1, <1>5 DEF OnSubscription, TypeInv, TypeOK, SessionTypeOK, GoneIsIdle
  <2>3. future' = [future EXCEPT ![m.from].passed = future[m.from].st = "answered"]
    BY <1>5 DEF OnSubscription
  <2>4. future' \in [Sessions -> Futures]
    <3>1. [future[m.from] EXCEPT !.passed = future[m.from].st = "answered"] \in Futures
      BY <1>1, FutureKept DEF Futures
    <3>2. QED BY ONLY <1>1, <2>3, <3>1, TypeInv, FutureKept
  <2>5. \A t \in Sessions : ~Open(t) => future'[t] = future[t]
    <3> SUFFICES ASSUME ~Open(m.from) PROVE future'[m.from] = future[m.from]
      BY <1>1, <2>3, FutureKept
    <3>1. future[m.from] = NoFuture
      BY <1>1 DEF TypeInv, TypeOK, GoneIsIdle
    <3>2. future'[m.from] = [NoFuture EXCEPT !.passed = NoFuture.st = "answered"]
      BY ONLY <1>1, <2>3, <3>1, TypeInv, FutureKept
    <3>3. /\ [NoFuture EXCEPT !.passed = NoFuture.st = "answered"] \in Futures
          /\ NoFuture \in Futures
          /\ \A field \in {"st", "v", "since", "blind", "passed"} :
                [NoFuture EXCEPT !.passed = NoFuture.st = "answered"][field] = NoFuture[field]
      BY NoFutureType DEF NoFuture, Futures
    <3>4. QED BY <3>1, <3>2, <3>3 DEF Futures
  <2>6. QED BY <1>0, <2>1, <2>2, <2>4, <2>5, ServerStep, DisplayKept
<1>6. QED BY <1>2, <1>3, <1>4, <1>5 DEF Handle, m

LEMMA FinishType == ASSUME TypeInv, NEW p \in Plcs, Finish(p) PROVE TypeInv'
<1>0. /\ UNCHANGED <<status, phase, url, texts, sent, malformed, parked, shown, outdated, mailbox,
                     alive, clientUp, ws_clients, subscribers, pipe, plc, order>>
      /\ status \in {"running", "panicked"} /\ MailType'
  BY DEF Finish, browser, lifecycle, registry, TypeInv, TypeOK, BrowserTypeOK, ServerTypeOK, MailType
<1>1. PICK r \in replies[p] :
        LET v == IF r.refused THEN mirror[p] ELSE r.v
        IN  /\ mirror' = [mirror EXCEPT ![p] = v]
            /\ IF v # mirror[p] THEN Notify(p, v) ELSE UNCHANGED inbox
            /\ future' = IF future[r.from].st # "waiting" THEN future
                         ELSE [future EXCEPT ![r.from] = [@ EXCEPT
                                  !.st = Outcome(r), !.v = v, !.blind = r.refused]]
            /\ replies' = [replies EXCEPT ![p] = @ \ {r}]
  BY DEF Finish
<1> DEFINE v == IF r.refused THEN mirror[p] ELSE r.v
<1>2. r.from \in Sessions /\ r.refused \in BOOLEAN /\ v \in Values
  BY DEF TypeInv, TypeOK, ServerTypeOK
<1> HIDE DEF v
<1>3. /\ mirror' = [mirror EXCEPT ![p] = v] /\ replies' = [replies EXCEPT ![p] = @ \ {r}]
      /\ IF v # mirror[p] THEN Notify(p, v) ELSE UNCHANGED inbox
      /\ future' = IF future[r.from].st # "waiting" THEN future
                   ELSE [future EXCEPT ![r.from] = [@ EXCEPT
                            !.st = "answered", !.v = v, !.blind = r.refused]]
  BY <1>1 DEF v, Outcome
<1>4. ServerTypeOK'
  BY <1>0, <1>2, <1>3 DEF TypeInv, TypeOK, ServerTypeOK, MailType
<1>5. /\ inbox' \in [Sessions -> Seq([v : Values, late : BOOLEAN])]
      /\ \A t \in Sessions : ~Open(t) => inbox'[t] = inbox[t]
  BY <1>2, <1>3, NotifyType, DisplayKept
<1>6. future' \in [Sessions -> Futures]
  BY <1>2, <1>3, FutureKept, ZenonT(60) DEF Futures
<1>7. \A t \in Sessions : ~Open(t) => future'[t] = future[t]
  BY <1>2, <1>3, FutureKept DEF TypeInv, TypeOK, GoneIsIdle, NoFuture
<1>8. QED BY <1>0, <1>4, <1>5, <1>6, <1>7, ServerStep, DisplayKept

\* A session that waits for an answer is open.
LEMMA WaitingOpen ==
    ASSUME TypeInv, NEW s \in Sessions, future[s].st = "waiting"
    PROVE  Open(s)
BY DEF TypeInv, TypeOK, GoneIsIdle, NoFuture

\* A step that only ends futures that wait.
LEMMA EndedType ==
    ASSUME TypeInv, NEW Ended, NEW st \in {"failed", "closed"},
           \A s \in Sessions : s \in Ended => future[s].st = "waiting",
           future' = [s \in Sessions |->
                        IF s \in Ended THEN [future[s] EXCEPT !.st = st] ELSE future[s]]
    PROVE  /\ future' \in [Sessions -> Futures]
           /\ \A s \in Sessions : ~Open(s) => future'[s] = future[s]
<1>1. \A s \in Sessions : [future[s] EXCEPT !.st = st] \in Futures
  BY FutureKept DEF Futures
<1>2. future' \in [Sessions -> Futures]
  BY <1>1, FutureKept
<1>3. QED BY <1>2, WaitingOpen

LEMMA MuxStopsType == ASSUME TypeInv, NEW p \in Plcs, MuxStops(p) PROVE TypeInv'
<1>0. /\ UNCHANGED <<status, phase, url, texts, sent, malformed, parked, inbox, shown, outdated,
                     clientUp, ws_clients, subscribers, mirror, pipe, plc, order>>
      /\ status \in {"running", "panicked"}
  BY DEF MuxStops, browser, display, registry, TypeInv, TypeOK, BrowserTypeOK
<1>1. MailType'
  BY DEF MuxStops, TypeInv, TypeOK, ServerTypeOK, MailType
<1>2. ServerTypeOK'
  BY <1>0, <1>1 DEF MuxStops, TypeInv, TypeOK, ServerTypeOK, MailType
<1>3. /\ future' \in [Sessions -> Futures]
      /\ \A s \in Sessions : ~Open(s) => future'[s] = future[s]
  <2> DEFINE Ended == {s \in Sessions : future[s].st = "waiting" /\ Mux(s) = p /\ ~ResolveParked(s)}
  <2>1. future' = [s \in Sessions |->
                     IF s \in Ended THEN [future[s] EXCEPT !.st = "closed"] ELSE future[s]]
    BY DEF MuxStops
  <2>2. \A s \in Sessions : s \in Ended => future[s].st = "waiting"
    OBVIOUS
  <2> HIDE DEF Ended
  <2>3. QED BY <2>1, <2>2, EndedType
<1>4. QED BY <1>0, <1>1, <1>2, <1>3, ServerStep, DisplayKept

LEMMA PlcServesType == ASSUME TypeInv, NEW p \in Plcs, PlcServes(p) PROVE TypeInv'
<1>0. /\ UNCHANGED <<status, phase, url, texts, sent, malformed, parked, future, inbox, shown,
                     outdated, mailbox, alive, clientUp, ws_clients, subscribers, mirror, order>>
      /\ status \in {"running", "panicked"} /\ MailType'
  BY DEF PlcServes, browser, display, lifecycle, registry, TypeInv, TypeOK, BrowserTypeOK,
         ServerTypeOK, MailType
<1>1. /\ pipe \in [Plcs -> Seq(Messages)] /\ pipe[p] # <<>>
      /\ plc \in [Plcs -> Values]
      /\ replies \in [Plcs -> SUBSET [from : Sessions, v : Values, refused : BOOLEAN]]
  BY DEF PlcServes, TypeInv, TypeOK, ServerTypeOK
<1>2. Head(pipe[p]) \in Messages /\ pipe' \in [Plcs -> Seq(Messages)]
  <2>1. pipe' = [pipe EXCEPT ![p] = Tail(@)]
    BY DEF PlcServes
  <2>2. QED BY ONLY <1>1, <2>1, p \in Plcs
<1>3. Head(pipe[p]).from \in Sessions /\ Head(pipe[p]).v \in Values
  BY <1>2 DEF Messages
<1>4. plc' \in [Plcs -> Values]
  BY <1>1, <1>3 DEF PlcServes
<1>5. replies' \in [Plcs -> SUBSET [from : Sessions, v : Values, refused : BOOLEAN]]
  <2>1. CASE UNCHANGED replies
    BY <1>1, <2>1
  <2>2. CASE \E refused \in BOOLEAN : replies' = [replies EXCEPT ![p] = @ \cup
               {[from |-> Head(pipe[p]).from, v |-> plc[p], refused |-> refused]}]
    <3>1. plc[p] \in Values
      BY <1>1
    <3>2. QED BY <1>1, <1>3, <2>2, <3>1
  <2>3. QED BY <2>1, <2>2 DEF PlcServes
<1>6. ServerTypeOK'
  BY <1>0, <1>2, <1>4, <1>5 DEF TypeInv, TypeOK, ServerTypeOK, MailType
<1>7. QED BY <1>0, <1>6, ServerStep, FutureKept, DisplayKept

LEMMA ClientStopsType == ASSUME TypeInv, NEW p \in Plcs, ClientStops(p) PROVE TypeInv'
<1>0. /\ UNCHANGED <<phase, url, texts, sent, malformed, parked, inbox, shown, outdated, mailbox,
                     alive, ws_clients, subscribers, mirror, replies, plc, order>>
      /\ MailType'
  BY DEF ClientStops, browser, display, registry, TypeInv, TypeOK, ServerTypeOK, MailType
<1>1. ServerTypeOK'
  BY <1>0 DEF ClientStops, TypeInv, TypeOK, ServerTypeOK, MailType
<1>2. status' \in {"running", "panicked"}
  BY DEF ClientStops, TypeInv, TypeOK, BrowserTypeOK
<1>3. /\ future' \in [Sessions -> Futures]
      /\ \A s \in Sessions : ~Open(s) => future'[s] = future[s]
  <2> DEFINE readers == {pipe[p][i].from : i \in {j \in DOMAIN pipe[p] : pipe[p][j].kind = "read"}}
             Ended == {s \in Sessions : s \in readers /\ future[s].st = "waiting"}
  <2>1. CASE future' = [s \in Sessions |->
                          IF s \in Ended THEN [future[s] EXCEPT !.st = "failed"] ELSE future[s]]
    <3>1. \A s \in Sessions : s \in Ended => future[s].st = "waiting"
      OBVIOUS
    <3> HIDE DEF Ended
    <3>2. QED BY <2>1, <3>1, EndedType
  <2>2. CASE UNCHANGED future
    BY <2>2, FutureKept
  <2>3. QED BY <2>1, <2>2 DEF ClientStops
<1>4. QED BY <1>0, <1>1, <1>2, <1>3, ServerStep, DisplayKept

LEMMA StutterType == ASSUME TypeInv, UNCHANGED vars PROVE TypeInv'
<1>1. UNCHANGED <<status, phase, url, texts, sent, malformed, parked, future, inbox, shown,
                  outdated, mailbox, alive, clientUp, ws_clients, subscribers, mirror, pipe,
                  replies, plc, order>>
  BY DEF vars, browser, display, lifecycle, registry, requests
<1>2. BrowserTypeOK' /\ SessionTypeOK' /\ ServerTypeOK' /\ GoneIsIdle'
  BY <1>1 DEF TypeInv, TypeOK, BrowserTypeOK, SessionTypeOK, ServerTypeOK, GoneIsIdle, Open
<1>3. QED BY <1>1, <1>2 DEF TypeInv, TypeOK, Open, Known

\* Each session and each part of the server keeps the types whatever the others
\* do, and a session that is gone stays idle.
LEMMA TypeStep == TypeInv /\ [Next]_vars => TypeInv'
<1> SUFFICES ASSUME TypeInv, [Next]_vars PROVE TypeInv'
  OBVIOUS
<1>1. ASSUME NEW s \in Sessions, Session(s) PROVE TypeInv'
  BY <1>1, StartType, StopType, OnTextType, UnparkType, ShowNoticeType, ShowAnswerType DEF Session
<1>2. ASSUME NEW p \in Plcs, Server(p) PROVE TypeInv'
  BY <1>2, HandleType, FinishType, MuxStopsType, PlcServesType, ClientStopsType DEF Server
<1>3. QED BY <1>1, <1>2, StutterType DEF Next

\* The state of every session, mailbox and answer keeps its type, and a session
\* that was closed or died with its worker waits for nothing: no future, notice
\* or text of it is left.
THEOREM SessionTypeCorrect == Spec => []TypeOK
<1>1. TypeInv => TypeOK
  BY DEF TypeInv
<1>2. QED BY <1>1, TypeInit, TypeStep, PTL DEF Spec

-----------------------------------------------------------------------------
\* Routing.  The sessions of a PLC, and what their messages and reads look like.

Clients(p) == {s \in Sessions : Known(url[s]) /\ Mux(s) = p}
Reads(p) == {m \in Messages : m.kind = "read" => m.from \in Clients(p)}

MailRouted == \A p \in Plcs : mailbox[p] \in Seq(Sent(Clients(p)))
ParkRouted == \A s \in Sessions : parked[s] \in Seq(Sent({s}))
PipeRouted == \A p \in Plcs : pipe[p] \in Seq(Reads(p))

RouteInv == TypeInv /\ MailRouted /\ ParkRouted /\ PipeRouted

LEMMA UrlKept ==
    ASSUME UNCHANGED url
    PROVE  \A p \in Plcs : Clients(p)' = Clients(p) /\ Reads(p)' = Reads(p)
BY DEF Clients, Reads, Known, Mux, Target

LEMMA RouteInit == Init => RouteInv
<1> SUFFICES ASSUME Init PROVE RouteInv
  OBVIOUS
<1>1. TypeInv
  BY TypeInit
<1>2. MailRouted /\ ParkRouted /\ PipeRouted
  BY DEF Init, MailRouted, ParkRouted, PipeRouted
<1>3. QED BY <1>1, <1>2 DEF RouteInv

LEMMA MailKept ==
    ASSUME RouteInv, UNCHANGED <<url, mailbox>>
    PROVE  MailRouted'
BY UrlKept DEF RouteInv, MailRouted

LEMMA ParkKept ==
    ASSUME RouteInv, UNCHANGED parked
    PROVE  ParkRouted'
BY DEF RouteInv, ParkRouted

LEMMA PipeKept ==
    ASSUME RouteInv, UNCHANGED <<url, pipe>>
    PROVE  PipeRouted'
BY UrlKept DEF RouteInv, PipeRouted

LEMMA DoSendRouted ==
    ASSUME RouteInv, NEW s \in Sessions, Known(url[s]), NEW m \in Sent({s}), DoSend(s, m),
           UNCHANGED url
    PROVE  MailRouted'
<1>1. s \in Clients(Mux(s)) /\ Mux(s) \in Plcs
  BY KnownTarget DEF Clients
<1>2. m \in Sent(Clients(Mux(s)))
  BY <1>1 DEF Sent
<1>3. mailbox' \in {mailbox, [mailbox EXCEPT ![Mux(s)] = Append(@, m)]}
  BY DEF DoSend
<1>4. /\ \A p \in Plcs : mailbox[p] \in Seq(Sent(Clients(p)))
      /\ DOMAIN mailbox = Plcs
  BY DEF RouteInv, MailRouted, TypeInv, TypeOK, ServerTypeOK
<1>5. Append(mailbox[Mux(s)], m) \in Seq(Sent(Clients(Mux(s))))
  BY ONLY <1>1, <1>2, <1>4
<1>6. \A p \in Plcs : mailbox'[p] \in Seq(Sent(Clients(p)))
  BY ONLY <1>1, <1>3, <1>4, <1>5
<1>7. \A p \in Plcs : Sent(Clients(p))' = Sent(Clients(p))
  BY UrlKept DEF Sent
<1>8. QED BY <1>6, <1>7 DEF MailRouted

LEMMA ParkedMore ==
    ASSUME RouteInv, NEW s \in Sessions, NEW q \in Seq(Sent({s})),
           parked' = [parked EXCEPT ![s] = q]
    PROVE  ParkRouted'
BY DEF RouteInv, ParkRouted, TypeInv, TypeOK, SessionTypeOK

LEMMA SendOrParkRouted ==
    ASSUME RouteInv, NEW s \in Sessions, Known(url[s]), NEW m \in Sent({s}), SendOrPark(s, m),
           UNCHANGED url
    PROVE  MailRouted' /\ ParkRouted'
<1>1. CASE DoSend(s, m) /\ UNCHANGED parked
  BY <1>1, DoSendRouted, ParkKept
<1>2. CASE parked' = [parked EXCEPT ![s] = Append(@, m)] /\ UNCHANGED mailbox
  <2>1. parked[s] \in Seq(Sent({s}))
    BY DEF RouteInv, ParkRouted
  <2>2. Append(parked[s], m) \in Seq(Sent({s}))
    BY <2>1
  <2>3. QED BY <1>2, <2>2, ParkedMore, MailKept
<1>3. QED BY <1>1, <1>2 DEF SendOrPark

LEMMA WorkerDiesRouted ==
    ASSUME RouteInv, NEW s \in Sessions, WorkerDies(s), UNCHANGED url
    PROVE  MailRouted' /\ ParkRouted' /\ PipeRouted'
<1>1. UNCHANGED <<mailbox, pipe>>
  BY DEF WorkerDies, requests
<1>2. \A t \in Sessions : parked'[t] = <<>> \/ parked'[t] = parked[t]
  BY DEF WorkerDies
<1>3. \A t \in Sessions : parked[t] \in Seq(Sent({t})) /\ <<>> \in Seq(Sent({t}))
  BY DEF RouteInv, ParkRouted
<1>5. \A t \in Sessions : parked'[t] \in Seq(Sent({t}))
  BY ONLY <1>2, <1>3
<1>6. ParkRouted'
  BY <1>5 DEF ParkRouted, Sent, Values, Loaded
<1>7. QED BY <1>1, <1>6, MailKept, PipeKept

\* What a session sends goes to its own multiplexer, also when it had to wait.
LEMMA SessionRouted ==
    ASSUME RouteInv, NEW s \in Sessions, Session(s)
    PROVE  MailRouted' /\ ParkRouted' /\ PipeRouted'
<1>0. TypeInv /\ \A t \in Sessions : Open(t) => Known(url[t])
  BY DEF RouteInv, TypeInv
<1>1. CASE Start(s)
  <2>1. CASE ~Known(url[s]) /\ WorkerDies(s)
    BY <1>1, <2>1, WorkerDiesRouted DEF Start
  <2>2. CASE /\ Known(url[s]) /\ DoSend(s, Message("register", s, Loaded))
             /\ UNCHANGED <<parked, requests>>
    BY <1>1, <2>2, SentBy, DoSendRouted, ParkKept, PipeKept DEF Start, requests
  <2>3. QED BY <1>1, <2>1, <2>2 DEF Start
<1>2. CASE Stop(s)
  <2>1. MailRouted' /\ PipeRouted'
    BY <1>0, <1>2, SentBy, DoSendRouted, PipeKept DEF Stop, requests
  <2>2. ParkRouted'
    <3>1. <<>> \in Seq(Sent({s}))
      OBVIOUS
    <3>2. parked' = [parked EXCEPT ![s] = <<>>]
      BY <1>2 DEF Stop
    <3>3. QED BY ONLY <3>1, <3>2, RouteInv, s \in Sessions, ParkedMore
  <2>3. QED BY <2>1, <2>2
<1>3. CASE OnText(s)
  <2>0. Known(url[s]) /\ UNCHANGED url
    BY <1>0, <1>3 DEF OnText
  <2>1. CASE SendMutation(s)
    <3>1. sent'[s] \in 1..MaxTexts
      <4>1. sent'[s] = sent[s] + 1 /\ sent[s] \in 0..texts /\ texts < MaxTexts
        BY <1>0, <1>3, <2>1, TextsType DEF SendMutation, OnText
      <4>2. texts \in Nat /\ MaxTexts \in Nat
        BY <1>0, TextsType
      <4>3. QED BY ONLY <4>1, <4>2
    <3>2. QED
      BY <2>0, <2>1, <3>1, SentBy, DoSendRouted, ParkKept, PipeKept DEF SendMutation, requests
  <2>2. CASE SendResolve(s)
    BY <2>0, <2>2, SentBy, SendOrParkRouted, PipeKept DEF SendResolve, requests
  <2>3. CASE SendSubscription(s)
    BY <2>0, <2>3, SentBy, SendOrParkRouted, PipeKept DEF SendSubscription, requests
  <2>4. CASE SendMalformed(s)
    BY <2>0, <2>4, WorkerDiesRouted DEF SendMalformed
  <2>5. QED BY <1>3, <2>1, <2>2, <2>3, <2>4 DEF OnText
<1>4. CASE Unpark(s)
  <2>1. parked[s] \in Seq(Sent({s})) /\ parked[s] # <<>> /\ Known(url[s])
    BY <1>0, <1>4 DEF Unpark, RouteInv, ParkRouted, TypeInv, TypeOK, GoneIsIdle
  <2>2. Head(parked[s]) \in Sent({s}) /\ Tail(parked[s]) \in Seq(Sent({s}))
    BY ONLY <2>1
  <2>3. QED
    BY <1>4, <2>1, <2>2, DoSendRouted, ParkedMore, PipeKept DEF Unpark, browser, requests
<1>5. CASE ShowNotice(s)
  BY <1>5, MailKept, ParkKept, PipeKept DEF ShowNotice, browser, requests
<1>6. CASE ShowAnswer(s)
  <2>1. CASE WorkerDies(s)
    BY <1>6, <2>1, WorkerDiesRouted DEF ShowAnswer
  <2>2. CASE UNCHANGED <<parked, mailbox, requests>>
    BY <1>6, <2>2, MailKept, ParkKept, PipeKept DEF ShowAnswer, requests
  <2>3. QED BY <1>6, <2>1, <2>2 DEF ShowAnswer
<1>7. QED BY <1>1, <1>2, <1>3, <1>4, <1>5, <1>6 DEF Session

\* The multiplexer asks the PLC for the session whose Resolve it took.
LEMMA HandleRouted ==
    ASSUME RouteInv, NEW p \in Plcs, Handle(p)
    PROVE  MailRouted' /\ ParkRouted' /\ PipeRouted'
<1> DEFINE m == Head(mailbox[p])
<1>0. UNCHANGED <<url, parked>> /\ mailbox' = [mailbox EXCEPT ![p] = Tail(@)]
  BY DEF Handle, browser
<1>1. /\ \A q \in Plcs : mailbox[q] \in Seq(Sent(Clients(q)))
      /\ mailbox[p] # <<>> /\ DOMAIN mailbox = Plcs
  BY DEF RouteInv, MailRouted, TypeInv, TypeOK, ServerTypeOK, Handle
<1>2. m \in Sent(Clients(p)) /\ Tail(mailbox[p]) \in Seq(Sent(Clients(p)))
  BY ONLY <1>1, p \in Plcs
<1>3. \A q \in Plcs : mailbox'[q] \in Seq(Sent(Clients(q)))
  BY ONLY <1>0, <1>1, <1>2, p \in Plcs
<1>4. MailRouted'
  <2>1. \A q \in Plcs : Sent(Clients(q))' = Sent(Clients(q))
    BY <1>0, UrlKept DEF Sent
  <2>2. QED BY <1>3, <2>1 DEF MailRouted
<1>5. /\ m.from \in Clients(p) /\ m.from \in Sessions
      /\ m.kind = "mutation" => m.v \in Sessions \X (1..MaxTexts)
  BY <1>2 DEF Sent, Clients
<1> HIDE DEF m
<1>6. \/ UNCHANGED pipe
      \/ \E a \in Reads(p) : pipe' = [pipe EXCEPT ![p] = Append(@, a)]
  <2>1. CASE m.kind = "mutation" /\ OnMutation(p, m.v)
    <3>1. Message("write", m.v[1], m.v) \in Reads(p)
      BY <1>5, <2>1 DEF Message, Reads, Messages, Values
    <3>2. QED BY <2>1, <3>1 DEF OnMutation
  <2>2. CASE OnResolve(p, m.from)
    <3>1. Message("read", m.from, Loaded) \in Reads(p)
      BY <1>5 DEF Message, Reads, Messages, Values
    <3>2. QED BY <2>2, <3>1 DEF OnResolve
  <2>3. CASE UNCHANGED pipe
    BY <2>3
  <2>4. QED BY <2>1, <2>2, <2>3 DEF Handle, OnSubscription, m
<1>7. PipeRouted'
  <2>1. CASE UNCHANGED pipe
    BY <1>0, <2>1, PipeKept
  <2>2. ASSUME NEW a \in Reads(p), pipe' = [pipe EXCEPT ![p] = Append(@, a)]
        PROVE  PipeRouted'
    <3>1. /\ \A q \in Plcs : pipe[q] \in Seq(Reads(q))
          /\ DOMAIN pipe = Plcs
      BY DEF RouteInv, PipeRouted, TypeInv, TypeOK, ServerTypeOK
    <3>2. \A q \in Plcs : pipe'[q] \in Seq(Reads(q))
      BY ONLY <2>2, <3>1, p \in Plcs
    <3>3. QED BY <1>0, <3>2, UrlKept DEF PipeRouted
  <2>3. QED BY <1>6, <2>1, <2>2
<1>8. QED BY <1>0, <1>4, <1>7, ParkKept

LEMMA ServerRouted ==
    ASSUME RouteInv, NEW p \in Plcs, Server(p)
    PROVE  MailRouted' /\ ParkRouted' /\ PipeRouted'
<1>1. CASE Finish(p)
  BY <1>1, MailKept, ParkKept, PipeKept DEF Finish, browser
<1>2. CASE MuxStops(p)
  <2>1. MailRouted'
    <3>1. UNCHANGED url /\ mailbox' = [mailbox EXCEPT ![p] = <<>>]
      BY <1>2 DEF MuxStops, browser
    <3>2. /\ \A q \in Plcs : mailbox[q] \in Seq(Sent(Clients(q)))
          /\ DOMAIN mailbox = Plcs
      BY DEF RouteInv, MailRouted, TypeInv, TypeOK, ServerTypeOK
    <3>3. \A q \in Plcs : mailbox'[q] \in Seq(Sent(Clients(q)))
      BY ONLY <3>1, <3>2, p \in Plcs
    <3>4. \A q \in Plcs : Sent(Clients(q))' = Sent(Clients(q))
      BY <3>1, UrlKept DEF Sent
    <3>5. QED BY <3>3, <3>4 DEF MailRouted
  <2>2. QED BY <1>2, <2>1, ParkKept, PipeKept DEF MuxStops, browser
<1>3. ASSUME UNCHANGED <<url, mailbox, parked>>, NEW q \in {<<>>, Tail(pipe[p])},
             pipe[p] # <<>> \/ q = <<>>, pipe' = [pipe EXCEPT ![p] = q]
      PROVE  MailRouted' /\ ParkRouted' /\ PipeRouted'
  <2>1. /\ \A r \in Plcs : pipe[r] \in Seq(Reads(r))
        /\ DOMAIN pipe = Plcs
    BY DEF RouteInv, PipeRouted, TypeInv, TypeOK, ServerTypeOK
  <2>2. q \in Seq(Reads(p))
    <3>1. pipe[p] \in Seq(Reads(p))
      BY ONLY <2>1, p \in Plcs
    <3>2. CASE q = <<>>
      BY ONLY <3>2
    <3>3. CASE pipe[p] # <<>> /\ q = Tail(pipe[p])
      BY ONLY <3>1, <3>3
    <3>4. QED BY <1>3, <3>2, <3>3
  <2>3. \A r \in Plcs : pipe'[r] \in Seq(Reads(r))
    BY ONLY <1>3, <2>1, <2>2, p \in Plcs
  <2>4. PipeRouted'
    BY <1>3, <2>3, UrlKept DEF PipeRouted
  <2>5. QED BY <1>3, <2>4, MailKept, ParkKept
<1>4. CASE PlcServes(p)
  BY <1>3, <1>4 DEF PlcServes, browser
<1>5. CASE ClientStops(p)
  BY <1>3, <1>5 DEF ClientStops, browser
<1>6. QED BY <1>1, <1>2, <1>4, <1>5, HandleRouted DEF Server

LEMMA RouteStep == RouteInv /\ [Next]_vars => RouteInv'
<1> SUFFICES ASSUME RouteInv, [Next]_vars PROVE RouteInv'
  OBVIOUS
<1>1. TypeInv'
  BY TypeStep DEF RouteInv
<1>2. CASE UNCHANGED vars
  BY <1>1, <1>2, MailKept, ParkKept, PipeKept DEF vars, browser, requests, RouteInv
<1>3. QED BY <1>1, <1>2, SessionRouted, ServerRouted DEF Next, RouteInv

\* What a session sends, at once or after waiting for room, is never found at the
\* multiplexer of another PLC, for any addresses, however many PLCs share a net
\* id or a port: the key of a multiplexer keeps all of the address.
THEOREM SessionsRouted == Spec => []Routed
<1>1. RouteInv => Routed
  <2> SUFFICES ASSUME RouteInv, NEW p \in Plcs, NEW i \in DOMAIN mailbox[p]
               PROVE  /\ url[mailbox[p][i].from].net = p.net
                      /\ url[mailbox[p][i].from].port = p.port
    BY DEF Routed
  <2> DEFINE s == mailbox[p][i].from
  <2>1. s \in Sessions /\ Known(url[s]) /\ Mux(s) = p
    <3>1. mailbox[p] \in Seq(Sent(Clients(p)))
      BY DEF RouteInv, MailRouted
    <3>2. mailbox[p][i] \in Sent(Clients(p))
      BY ONLY <3>1, i \in DOMAIN mailbox[p]
    <3>3. QED BY <3>2 DEF Sent, Clients
  <2>2. url[s] \in Urls
    BY <2>1 DEF RouteInv, TypeInv, TypeOK, BrowserTypeOK
  <2>3. Conn(p) = Conn(url[s])
    BY <2>1, KnownTarget
  <2>4. QED BY <2>2, <2>3, ConnInjective
<1>2. QED BY <1>1, RouteInit, RouteStep, PTL DEF Spec

-----------------------------------------------------------------------------
\* Deaths.  A Resolve fails only where the connection to the PLC has ended.

FailedHasReason ==
    \A s \in Sessions : future[s].st = "failed" => Known(url[s]) /\ ~clientUp[Mux(s)]
DeathInv == RouteInv /\ FailedHasReason /\ DeathHasReason

LEMMA DeathInit == Init => DeathInv
BY RouteInit DEF Init, DeathInv, FailedHasReason, DeathHasReason, NoFuture

\* A connection that has ended is not opened again.
LEMMA ClientsEnd ==
    ASSUME RouteInv, [Next]_vars
    PROVE  /\ UNCHANGED url /\ malformed \subseteq malformed'
           /\ \A p \in Plcs : ~clientUp[p] => ~clientUp'[p]
<1>1. CASE UNCHANGED vars
  BY <1>1 DEF vars, browser, lifecycle
<1>2. ASSUME NEW s \in Sessions, WorkerDies(s) PROVE UNCHANGED clientUp
  BY <1>2 DEF WorkerDies, lifecycle
<1>3. ASSUME NEW s \in Sessions, Session(s)
      PROVE  UNCHANGED <<url, clientUp>> /\ malformed \subseteq malformed'
  <2>1. CASE Start(s)
    BY <1>2, <2>1 DEF Start, lifecycle
  <2>2. CASE Stop(s)
    BY <2>2 DEF Stop, lifecycle
  <2>3. CASE OnText(s)
    BY <1>2, <2>3 DEF OnText, SendMutation, SendResolve, SendSubscription, SendMalformed, lifecycle
  <2>4. CASE Unpark(s) \/ ShowNotice(s)
    BY <2>4 DEF Unpark, ShowNotice, browser, lifecycle
  <2>5. CASE ShowAnswer(s)
    BY <1>2, <2>5 DEF ShowAnswer, lifecycle
  <2>6. QED BY <1>3, <2>1, <2>2, <2>3, <2>4, <2>5 DEF Session
<1>4. ASSUME NEW p \in Plcs, Handle(p) \/ Finish(p) \/ MuxStops(p) \/ PlcServes(p)
      PROVE  UNCHANGED <<url, malformed, clientUp>>
  BY <1>4 DEF Handle, Finish, MuxStops, PlcServes, browser, lifecycle
<1>5. ASSUME NEW p \in Plcs, ClientStops(p)
      PROVE  UNCHANGED <<url, malformed>> /\ \A q \in Plcs : ~clientUp[q] => ~clientUp'[q]
  BY <1>5 DEF ClientStops, browser, RouteInv, TypeInv, TypeOK, ServerTypeOK
<1>6. QED BY <1>1, <1>3, <1>4, <1>5 DEF Next, Server

\* A future that failed before still has its reason.
LEMMA FailedKept ==
    ASSUME DeathInv, [Next]_vars, NEW s \in Sessions, future[s].st = "failed"
    PROVE  Known(url'[s]) /\ ~clientUp'[Mux(s)']
<1>1. Known(url[s]) /\ ~clientUp[Mux(s)] /\ Mux(s) \in Plcs
  BY KnownTarget DEF DeathInv, FailedHasReason
<1>2. QED BY <1>1, ClientsEnd DEF DeathInv, Known, Mux, Target

\* The steps of a session never make a Resolve fail, they only end it.
LEMMA SessionFails ==
    ASSUME RouteInv, NEW s \in Sessions, Session(s), NEW t \in Sessions,
           future'[t].st = "failed"
    PROVE  future[t].st = "failed"
<1>0. future \in [Sessions -> Futures]
  BY FutureKept DEF RouteInv
<1>1. ASSUME WorkerDies(s) PROVE future[t].st = "failed"
  BY <1>1 DEF WorkerDies, NoFuture
<1>2. ASSUME future' = [future EXCEPT ![s] = NoFuture] PROVE future[t].st = "failed"
  BY <1>0, <1>2 DEF NoFuture
<1>3. CASE Start(s)
  BY <1>1, <1>3 DEF Start
<1>4. CASE Stop(s)
  BY <1>2, <1>4 DEF Stop
<1>5. CASE OnText(s)
  <2>1. CASE SendResolve(s)
    <3>1. future' = [future EXCEPT ![s] = [NoFuture EXCEPT
                        !.st = IF alive[Mux(s)] THEN "waiting" ELSE "closed", !.since = sent[s]]]
      BY <2>1 DEF SendResolve
    <3>2. t # s
      BY <1>0, <3>1 DEF NoFuture
    <3>3. QED BY <1>0, <3>1, <3>2
  <2>2. CASE SendMalformed(s)
    BY <1>1, <2>2 DEF SendMalformed
  <2>3. CASE SendMutation(s) \/ SendSubscription(s)
    BY <2>3 DEF SendMutation, SendSubscription
  <2>4. QED BY <1>5, <2>1, <2>2, <2>3 DEF OnText
<1>6. CASE Unpark(s)
  <2>1. CASE future' = [future EXCEPT ![s].st = "closed"]
    <3>1. "closed" \in {"none", "waiting", "answered", "failed", "closed"}
      OBVIOUS
    <3>2. future'[s].st = "closed" /\ \A r \in Sessions \ {s} : future'[r] = future[r]
      BY ONLY <1>0, <2>1, <3>1, s \in Sessions, FutureSet
    <3>3. QED BY <3>2
  <2>2. QED BY <1>6, <2>1 DEF Unpark
<1>7. CASE ShowNotice(s)
  <2>1. future' = [future EXCEPT ![s].passed =
                      @ \/ (Head(inbox[s]).late /\ future[s].st = "answered")]
    BY <1>7 DEF ShowNotice
  <2>2. future'[t].st = future[t].st
    BY <1>0, <2>1 DEF Futures
  <2>3. QED BY <2>2
<1>8. CASE ShowAnswer(s)
  BY <1>1, <1>2, <1>8 DEF ShowAnswer
<1>9. QED BY <1>3, <1>4, <1>5, <1>6, <1>7, <1>8 DEF Session

\* A step of the server fails only Resolves of its own sessions, and only without
\* a connection: an error answer of the PLC is an answer.
LEMMA ServerFails ==
    ASSUME RouteInv, NEW p \in Plcs, Server(p), NEW t \in Sessions, future'[t].st = "failed"
    PROVE  future[t].st = "failed" \/ (t \in Clients(p) /\ ~clientUp'[p])
<1>0. future \in [Sessions -> Futures] /\ clientUp \in [Plcs -> BOOLEAN]
  BY FutureKept DEF RouteInv, TypeInv, TypeOK, ServerTypeOK
<1>1. CASE Handle(p)
  <2> DEFINE m == Head(mailbox[p])
  <2>1. m.from \in Clients(p) /\ m.from \in Sessions
    <3>1. mailbox[p] \in Seq(Sent(Clients(p))) /\ mailbox[p] # <<>>
      BY <1>1 DEF Handle, RouteInv, MailRouted
    <3>2. m \in Sent(Clients(p))
      BY ONLY <3>1
    <3>3. QED BY <3>2 DEF Sent, Clients
  <2> HIDE DEF m
  <2>2. CASE OnResolve(p, m.from)
    <3>1. CASE ~clientUp[p] /\ future' = [future EXCEPT ![m.from].st = "failed"]
      <4>1. t # m.from => future'[t] = future[t]
        BY <1>0, <2>1, <3>1
      <4>2. QED BY <1>1, <2>1, <3>1, <4>1 DEF Handle, lifecycle
    <3>2. QED BY <2>2, <3>1 DEF OnResolve, Settled
  <2>3. CASE OnSubscription(p, m.from)
    <3>1. future' = [future EXCEPT ![m.from].passed = future[m.from].st = "answered"]
      BY <2>3 DEF OnSubscription
    <3>2. future'[t].st = future[t].st
      BY <1>0, <3>1 DEF Futures
    <3>3. QED BY <3>2
  <2>4. CASE UNCHANGED future
    BY <2>4
  <2>5. QED BY <1>1, <2>2, <2>3, <2>4 DEF Handle, OnMutation, m
<1>2. CASE Finish(p)
  <2>1. PICK r \in replies[p] :
          future' = IF future[r.from].st # "waiting" THEN future
                    ELSE [future EXCEPT ![r.from] = [@ EXCEPT
                            !.st = "answered", !.v = IF r.refused THEN mirror[p] ELSE r.v,
                            !.blind = r.refused]]
    BY <1>2 DEF Finish, Outcome
  <2>2. CASE t = r.from /\ future[t].st = "waiting"
    BY <1>0, <2>1, <2>2 DEF Futures
  <2>3. CASE t # r.from \/ future[t].st # "waiting"
    BY <1>0, <2>1, <2>3
  <2>4. QED BY <2>2, <2>3
<1>3. CASE MuxStops(p)
  <2>1. future'[t] = future[t] \/ future'[t] = [future[t] EXCEPT !.st = "closed"]
    BY <1>3 DEF MuxStops
  <2>2. [future[t] EXCEPT !.st = "closed"].st = "closed"
    BY <1>0 DEF Futures
  <2>3. QED BY <2>1, <2>2
<1>4. CASE PlcServes(p)
  BY <1>4 DEF PlcServes
<1>5. CASE ClientStops(p)
  <2>1. ~clientUp'[p]
    BY <1>0, <1>5 DEF ClientStops
  <2>2. pipe[p] \in Seq(Reads(p))
    BY DEF RouteInv, PipeRouted
  <2>3. \A i \in DOMAIN pipe[p] : pipe[p][i].kind = "read" => pipe[p][i].from \in Clients(p)
    BY <2>2 DEF Reads
  <2>4. QED BY <1>5, <2>1, <2>3 DEF ClientStops
<1>6. QED BY <1>1, <1>2, <1>3, <1>4, <1>5 DEF Server

\* Who dies in a step dies with a session that fails in it.
LEMMA NewlyDead ==
    ASSUME [Next]_vars, NEW s \in Sessions, phase'[s] = "dead", phase[s] # "dead",
           DOMAIN phase = Sessions
    PROVE  \E w \in Sessions :
              /\ WorkerOf[w] = WorkerOf[s]
              /\ ~Known(url[w]) \/ w \in malformed' \/ future[w].st = "failed"
<1>1. PICK w \in Sessions : Session(w)
  <2>1. \A p \in Plcs : ~Server(p)
    BY DEF Server, Handle, Finish, MuxStops, PlcServes, ClientStops, browser
  <2>2. QED BY <2>1 DEF Next, vars, browser
<1>2. WorkerDies(w) => WorkerOf[w] = WorkerOf[s]
  BY DEF WorkerDies
<1>3. CASE Start(w)
  BY <1>2, <1>3 DEF Start
<1>4. CASE OnText(w)
  BY <1>2, <1>4 DEF OnText, SendMutation, SendResolve, SendSubscription, SendMalformed
<1>5. CASE ShowAnswer(w)
  BY <1>2, <1>5 DEF ShowAnswer
<1>6. CASE Stop(w) \/ Unpark(w) \/ ShowNotice(w)
  BY <1>6 DEF Stop, Unpark, ShowNotice, browser
<1>7. QED BY <1>1, <1>3, <1>4, <1>5, <1>6 DEF Session

LEMMA DeathStep == DeathInv /\ [Next]_vars => DeathInv'
<1> SUFFICES ASSUME DeathInv, [Next]_vars PROVE DeathInv'
  OBVIOUS
<1>0. RouteInv /\ RouteInv' /\ DOMAIN phase = Sessions
  BY RouteStep DEF DeathInv, RouteInv, TypeInv, TypeOK, BrowserTypeOK
<1>1. FailedHasReason'
  <2> SUFFICES ASSUME NEW s \in Sessions, future'[s].st = "failed"
               PROVE  Known(url'[s]) /\ ~clientUp'[Mux(s)']
    BY DEF FailedHasReason
  <2>1. CASE future[s].st = "failed"
    BY <2>1, FailedKept
  <2>2. ASSUME NEW p \in Plcs, s \in Clients(p), ~clientUp'[p]
        PROVE  Known(url'[s]) /\ ~clientUp'[Mux(s)']
    BY <1>0, <2>2, ClientsEnd DEF Clients, Known, Mux, Target
  <2>3. CASE UNCHANGED vars
    BY <2>1, <2>3 DEF vars
  <2>4. QED BY <1>0, <2>1, <2>2, <2>3, SessionFails, ServerFails DEF Next
<1>2. DeathHasReason'
  <2> SUFFICES ASSUME NEW s \in Sessions, phase'[s] = "dead"
               PROVE  \E t \in Sessions :
                        /\ WorkerOf[t] = WorkerOf[s]
                        /\ ~Known(url'[t]) \/ t \in malformed' \/ ~clientUp'[Mux(t)']
    BY DEF DeathHasReason
  <2>1. UNCHANGED url /\ \A t \in Sessions : Mux(t)' = Mux(t)
    BY <1>0, ClientsEnd DEF Mux, Target
  <2>2. \A t \in Sessions : Known(url[t]) /\ ~clientUp[Mux(t)] => ~clientUp'[Mux(t)']
    BY <1>0, <2>1, ClientsEnd, KnownTarget
  <2>3. CASE phase[s] = "dead"
    <3>1. PICK t \in Sessions : /\ WorkerOf[t] = WorkerOf[s]
                                /\ ~Known(url[t]) \/ t \in malformed \/ ~clientUp[Mux(t)]
      BY <2>3 DEF DeathInv, DeathHasReason
    <3>2. ~Known(url'[t]) \/ t \in malformed' \/ ~clientUp'[Mux(t)']
      BY <1>0, <2>1, <2>2, <3>1, ClientsEnd
    <3>3. QED BY <3>1, <3>2
  <2>4. CASE phase[s] # "dead"
    <3>1. PICK w \in Sessions :
            /\ WorkerOf[w] = WorkerOf[s]
            /\ ~Known(url[w]) \/ w \in malformed' \/ future[w].st = "failed"
      BY <1>0, <2>4, NewlyDead
    <3>2. ~Known(url'[w]) \/ w \in malformed' \/ ~clientUp'[Mux(w)']
      BY <2>1, <2>2, <3>1 DEF DeathInv, FailedHasReason
    <3>3. QED BY <3>1, <3>2
  <2>5. QED BY <2>3, <2>4
<1>3. QED BY <1>0, <1>1, <1>2 DEF DeathInv

\* A session dies only with its worker, and a worker for a port no multiplexer
\* has, a text the parser refuses, or a Resolve against a connection that ended,
\* of one of its own sessions: no session of another worker, no answer of the
\* PLC and no order of messages takes it away.
THEOREM SessionDeathHasReason == Spec => []DeathHasReason
<1>1. DeathInv => DeathHasReason
  BY DEF DeathInv
<1>2. QED BY <1>1, DeathInit, DeathStep, PTL DEF Spec
=============================================================================
