------------------------- MODULE AdsToWsMultiplexer -------------------------
(***************************************************************************)
(* The AdsToWsMultiplexer actor (ws_ads.rs): it mirrors three structures   *)
(* of one PLC, as bytes and as JSON, merges the mutations of websocket     *)
(* clients into them, writes the changed prefix to the PLC, reads          *)
(* structures on request, sends a heartbeat, and tells subscribers what    *)
(* changed.  The AdsClient between it and the PLC is the pipe that         *)
(* AdsClient.tla justifies: requests execute in the order issued, a read   *)
(* is answered with its own data, and the channel drops the newest write.  *)
(***************************************************************************)
EXTENDS JsonDiff, FiniteSets

CONSTANTS
    Clients,      \* the websocket sessions
    Size,         \* fields of a structure (the same number for each)
    Ctr,          \* the field of ST_ADS_TO_BC that is bytes 16..20
    MaxValue,     \* bound: the values of a field are 0..MaxValue
    Limit,        \* the upper end of each field's subrange
    Schemas,      \* the subscriptions a client may send, without Root
    Mutations,    \* the mutations a client may send: structure -> field -> value
    Resolves,     \* the structures a client may ask for, in the order named, each once
    PlcRows,      \* what a structure in the PLC may hold at first
    PlcPushes,    \* the PLC's writes to the server: [off, bytes] records
    Buffer,       \* the argument of mpsc::channel
    MaxCount,     \* bound: heartbeats
    MaxPipe,      \* bound: requests between the multiplexer and the PLC
    PlcRefuses,   \* may the PLC answer a read with an error and no data?
    AnswersLost,  \* may the decoder clear the answer of a read unseen (AdsCodec)?
    Disconnects   \* may the AdsClient stop?

Fields == 1..Size
Values == 0..MaxValue
Rows == [Fields -> Values]

\* A prefix or a field of a structure, or nothing: what a write or an answer holds.
Patches == UNION {[F -> Values] : F \in SUBSET Fields}
Apply(row, patch) == [c \in Fields |-> IF c \in DOMAIN patch THEN patch[c] ELSE row[c]]
NoData == [c \in {} |-> 0]

\* A mutation may hold JSON of another type than the field's (merge fails), or a
\* number it cannot be (to_writer fails: a fraction, a negative number for an
\* unsigned field).
Mistyped == MaxValue + 1

ASSUME MuxAssumption ==
    /\ Size \in Nat /\ Ctr \in Fields
    /\ MaxValue \in Nat /\ MaxCount \in 0..MaxValue /\ MaxPipe \in Nat /\ Buffer \in Nat
    /\ Limit \in [Fields -> Values] /\ Limit[Ctr] = MaxValue
    /\ PlcRows \subseteq Rows /\ PlcRows # {}
    /\ \A m \in Mutations : DOMAIN m \subseteq Structs /\
          \A s \in DOMAIN m : DOMAIN m[s] \subseteq Fields /\
              \A c \in DOMAIN m[s] : m[s][c] \in Values \cup {Mistyped}
    /\ \A r \in Resolves : /\ r \in Seq(Structs)
                           /\ \A i, k \in DOMAIN r : r[i] = r[k] => i = k
    /\ Clients \cap Structs = {}
    /\ \A p \in PlcPushes : p.off \in Nat /\ p.bytes \in Seq(Values)
    /\ {PlcRefuses, AnswersLost, Disconnects} \subseteq BOOLEAN

Writable == {TO, RETAIN}
\* The reads of AdsToWsMultiplexer::started, and one Resolve of each client.
Jobs == Clients \cup Writable
ChannelCap == Buffer + 1
Untold == MaxValue + 1

VARIABLES
    status,            \* the actor: "running" or "stopped"; the process: "panicked"
    fault,             \* the assertion the process died of
    mem,               \* AdsMemory's bytes of each structure
    data,              \* AdsMemory.data: the JSON of each structure
    count,             \* heartbeats sent
    ws_clients,        \* the sessions known
    subscription_map,  \* session -> nodes of its schema
    session,           \* a websocket: "new", "open" or "closed"
    told,              \* what each session was last told of a field since it subscribed
    wanted,            \* job -> the structures its futures are to deliver
    arrived,           \* job -> those whose answer has arrived
    sample,            \* job -> structure -> the data of that answer
    clientUp,          \* does the AdsClient run?
    pipe,              \* requests on their way to the PLC
    channel,           \* PLC writes on their way to the multiplexer
    plc,               \* the PLC's memory
    overtaken,         \* history: job -> wanted structures written to since it asked
    suspect,           \* history: structures whose mirror is not loaded or was
                       \* loaded with an overtaken answer
    behind,            \* history: fields of ST_ADS_FROM_BC that the PLC has not
                       \* written yet, or whose last write was dropped or misplaced
    lost               \* history: jobs that wait for an answer that was lost

memory == <<mem, data, count>>
sessions == <<ws_clients, subscription_map, session>>
jobs == <<wanted, arrived, sample>>
history == <<overtaken, suspect, behind, lost>>
vars == <<status, fault, memory, sessions, told, jobs, clientUp, pipe, channel, plc, history>>

Running == status = "running"
Zero == [c \in Fields |-> 0]

-----------------------------------------------------------------------------
\* Types: to_writer and as_data_struct both clamp a number to the subrange of
\* its type; merge does not, so that JSON may hold a number the bytes do not.

Clamped(v, limit) == IF v > limit THEN limit ELSE v
Encode(row) == [c \in Fields |-> Clamped(row[c], Limit[c])]
Decode(row) == [c \in Fields |-> Clamped(row[c], Limit[c])]

-----------------------------------------------------------------------------
\* handle_subscriptions.

\* as_schema(..).unwrap() of a Tag: its structure must be the key of new_data,
\* and of old_data, which Handler<Mutation> passes without that key.
TagFault(s, inner) ==
    \E a \in DOMAIN subscription_map : \E i \in DOMAIN subscription_map[a] :
        /\ subscription_map[a][i].kind = "tag"
        /\ inner \/ subscription_map[a][i].name # s

DiffersInner(n, old, new, inner) == n.kind = "root" \/ inner
Differs(n, old, new, inner) ==
    \/ n.kind = "root"
    \/ n.kind = "obj" /\ inner
    \/ \E c \in Carried(n, Fields) : old[c] # new[c]

ToldFields(a, s, old, new, inner) ==
    {c \in Fields : \E i \in DOMAIN subscription_map[a] :
        LET n == subscription_map[a][i] IN
        Shown(n) = s /\ c \in Carried(n, Fields) /\ Differs(n, old, new, inner)}

\* The notices of a step that gives the structures in S the JSON of new.  The
\* mailbox of a closed session takes none.
Notify(S, new, inner) ==
    told' = [a \in Clients |->
        IF a \in DOMAIN subscription_map /\ session[a] = "open"
        THEN [s \in Structs |->
                IF s \in S
                THEN LET F == ToldFields(a, s, data[s], new[s], inner)
                     IN  [c \in Fields |-> IF c \in F THEN new[s][c] ELSE told[a][s][c]]
                ELSE told[a][s]]
        ELSE told[a]]

Panic(site) ==
    /\ status' = "panicked" /\ fault' = site
    /\ UNCHANGED <<memory, sessions, told, jobs, clientUp, pipe, channel, plc, history>>

-----------------------------------------------------------------------------
\* The requests to the PLC.

Read(j, s) == [kind |-> "read", job |-> j, of |-> s]
Write(s, patch) == [kind |-> "write", of |-> s, patch |-> patch]

\* client.do_send: an AdsClient that stopped takes nothing.
SendFirst(requests) == IF clientUp THEN requests \o pipe ELSE pipe
SendWrites(requests) == pipe \o SelectSeq(requests, LAMBDA r : r.kind = "write")
Send(requests) == IF clientUp THEN pipe \o requests ELSE pipe

\* The history of a step that writes to the structures in S.
Overtake(S) ==
    overtaken' = [j \in Jobs |-> overtaken[j] \cup (wanted[j] \cap S)]

-----------------------------------------------------------------------------
\* started() has put both reads on their way; the mirror is zero until they
\* are answered.
Init ==
    /\ status = "running" /\ fault = "none"
    /\ mem = [s \in Structs |-> Zero]
    /\ data = [s \in Structs |-> Decode(Zero)]
    /\ count = 0
    /\ ws_clients = {}
    /\ subscription_map = [a \in {} |-> <<>>]
    /\ session = [a \in Clients |-> "new"]
    /\ told = [a \in Clients |-> [s \in Structs |-> [c \in Fields |-> Untold]]]
    /\ wanted = [j \in Jobs |-> {j} \cap Writable]
    /\ arrived = [j \in Jobs |-> {}]
    /\ sample = [j \in Jobs |-> [s \in Structs |-> NoData]]
    /\ clientUp = TRUE
    /\ pipe = <<Read(TO, TO), Read(RETAIN, RETAIN)>>
    /\ channel = <<>>
    /\ plc \in [Structs -> PlcRows]
    /\ overtaken = [j \in Jobs |-> {}]
    /\ suspect = Writable
    /\ behind = Fields
    /\ lost = {}

-----------------------------------------------------------------------------
\* Messages of the websocket sessions.

Register(a) ==
    /\ Running /\ session[a] = "new"
    /\ session' = [session EXCEPT ![a] = "open"]
    /\ ws_clients' = ws_clients \cup {a}
    /\ UNCHANGED <<status, fault, memory, subscription_map, told, jobs, clientUp, pipe, channel,
                   plc, history>>

\* The schema of a session that ends stays in subscription_map.
Unregister(a) ==
    /\ Running /\ session[a] = "open"
    /\ session' = [session EXCEPT ![a] = "closed"]
    /\ ws_clients' = ws_clients \ {a}
    /\ UNCHANGED <<status, fault, memory, subscription_map, told, jobs, clientUp, pipe, channel,
                   plc, history>>

\* Nothing is sent on subscribing; what the session was told before no longer counts.
Subscription(a, s) ==
    /\ Running /\ session[a] = "open"
    /\ LET known == a \in DOMAIN subscription_map
           old == IF known THEN subscription_map[a] ELSE s
       IN  IF old = s \/ CanMerge(old, s)
           THEN /\ subscription_map' = [b \in DOMAIN subscription_map \cup {a} |->
                        IF b # a THEN subscription_map[b]
                        ELSE IF old = s THEN s ELSE MergeSchemas(old, s)]
                /\ told' = [told EXCEPT ![a] = [t \in Structs |-> [c \in Fields |-> Untold]]]
                /\ UNCHANGED <<status, fault, memory, ws_clients, session, jobs, clientUp, pipe,
                               channel, plc, history>>
           ELSE Panic("merge_schemas")

-----------------------------------------------------------------------------
\* Handler<WsToAdsClient>: Mutation.

MergedFresh(s, values) == Apply(Decode(Zero), values)
Merged(s, values) == Apply(data[s], values)

\* What Mutation dies of when it comes to structure s: merge of unlike values,
\* a Tag, or AdsStructMap::by_str, which has no ST_ADS_FROM_BC.
MutationFaultUntyped(s, values) ==
    CASE TagFault(s, TRUE)  -> "as_schema"
      [] s \notin Writable -> "by_str"
      [] OTHER              -> "none"
MutationFault(s, values) ==
    CASE \E c \in DOMAIN values : values[c] = Mistyped -> "merge"
      [] TagFault(s, TRUE)  -> "as_schema"
      [] s \notin Writable -> "by_str"
      [] OTHER              -> "none"

\* The structures of a mutation are taken in key order.
FirstFault(m) ==
    LET Faulty == {s \in DOMAIN m : MutationFault(s, m[s]) # "none"}
        first == CHOOSE s \in Faulty : \A t \in Faulty \ {s} : KeyBefore(s, t)
    IN  IF Faulty = {} THEN "none" ELSE MutationFault(first, m[first])

\* The bytes up to the last that differs, or all when none does.
LastDifferenceExclusive(old, new) ==
    LET D == {c \in Fields : old[c] # new[c]}
    IN  IF D = {} THEN Size ELSE SX!Max(D) - 1
LastDifference(old, new) ==
    LET D == {c \in Fields : old[c] # new[c]}
    IN  IF D = {} THEN Size ELSE SX!Max(D)
Prefix(row, n) == [c \in 1..n |-> row[c]]

MutationWrite(s, values) ==
    LET bytes == Encode(Merged(s, values))
    IN  Write(s, Prefix(bytes, LastDifference(mem[s], bytes)))
MutationWrites(m) ==
    LET Of(s) == IF s \in DOMAIN m THEN <<MutationWrite(s, m[s])>> ELSE <<>>
    IN  Of(TO) \o Of(RETAIN)

Mutation(m) ==
    /\ Running /\ \E a \in Clients : session[a] = "open"
    /\ Len(pipe) + Cardinality(DOMAIN m) <= MaxPipe
    /\ IF FirstFault(m) # "none" THEN Panic(FirstFault(m))
       ELSE /\ data' = [s \in Structs |-> IF s \in DOMAIN m THEN Merged(s, m[s]) ELSE data[s]]
            /\ mem' = [s \in Structs |-> IF s \in DOMAIN m
                                         THEN Apply(mem[s], MutationWrite(s, m[s]).patch)
                                         ELSE mem[s]]
            /\ Notify(DOMAIN m, data', TRUE)
            /\ pipe' = Send(MutationWrites(m))
            /\ Overtake(DOMAIN m)
            /\ UNCHANGED <<status, fault, count, sessions, jobs, clientUp, channel, plc, suspect,
                           behind, lost>>

-----------------------------------------------------------------------------
\* Handler<WsToAdsClient>: Resolve, and the reads of started().

\* A stopped client refuses the reads: the job fails at once.
Resolve(a, names) ==
    /\ Running /\ session[a] = "open" /\ wanted[a] = {}
    /\ Len(pipe) + Len(names) <= MaxPipe
    /\ IF \E i \in DOMAIN names : names[i] \notin Writable THEN Panic("by_str")
       ELSE /\ clientUp
            /\ wanted' = [wanted EXCEPT ![a] = {names[i] : i \in DOMAIN names}]
            /\ pipe' = Send([i \in DOMAIN names |-> Read(a, names[i])])
            /\ UNCHANGED <<status, fault, memory, sessions, told, arrived, sample, clientUp,
                           channel, plc, history>>

\* join_all has every answer: handle_future copies each into the mirror, one
\* structure after the other, however old it is by now.
Loaded(j, s) == Apply(mem[s], sample[j][s])

FinishJob(j) ==
    /\ Running /\ wanted[j] # {} /\ arrived[j] = wanted[j]
    /\ IF \E s \in wanted[j] : TagFault(s, FALSE) THEN Panic("as_schema")
       ELSE /\ mem' = [s \in Structs |-> IF s \in wanted[j] THEN Loaded(j, s) ELSE mem[s]]
            /\ data' = [s \in Structs |-> IF s \in wanted[j] THEN Decode(Loaded(j, s)) ELSE data[s]]
            /\ Notify(wanted[j], data', FALSE)
            /\ suspect' = {s \in Structs : IF s \in wanted[j] /\ sample[j][s] # NoData
                                           THEN s \in overtaken[j] ELSE s \in suspect}
            /\ wanted' = [wanted EXCEPT ![j] = {}]
            /\ arrived' = [arrived EXCEPT ![j] = {}]
            /\ sample' = [sample EXCEPT ![j] = [s \in Structs |-> NoData]]
            /\ overtaken' = [overtaken EXCEPT ![j] = {}]
            /\ UNCHANGED <<status, fault, count, sessions, clientUp, pipe, channel, plc, behind,
                           lost>>

\* A job whose reads the AdsClient will not answer: their oneshot was dropped
\* (unreachable!() in handle_request), or their message (the job fails).
JobFails(j) ==
    /\ Running /\ ~clientUp /\ arrived[j] # wanted[j]
    /\ \/ Panic("handle_request")
       \/ /\ wanted' = [wanted EXCEPT ![j] = {}]
          /\ arrived' = [arrived EXCEPT ![j] = {}]
          /\ sample' = [sample EXCEPT ![j] = [s \in Structs |-> NoData]]
          /\ overtaken' = [overtaken EXCEPT ![j] = {}]
          /\ lost' = lost \ {j}
          /\ UNCHANGED <<status, fault, memory, sessions, told, clientUp, pipe, channel, plc,
                         suspect, behind>>

-----------------------------------------------------------------------------
\* Handler<HeartBeat>: the counter goes into the mirror and to the PLC.
HeartBeat ==
    /\ Running /\ count < MaxCount /\ Len(pipe) < MaxPipe
    /\ IF TagFault(TO, FALSE) THEN Panic("as_schema")
       ELSE /\ count' = count + 1
            /\ mem' = [mem EXCEPT ![TO][Ctr] = count]
            /\ data' = [data EXCEPT ![TO] = Decode(mem'[TO])]
            /\ Notify({TO}, data', FALSE)
            /\ pipe' = Send(<<Write(TO, [c \in {Ctr} |-> count])>>)
            /\ Overtake({TO})
            /\ UNCHANGED <<status, fault, sessions, jobs, clientUp, channel, plc, suspect, behind,
                           lost>>

\* StreamHandler<AdsWriteReq>: data[off..] goes to ST_ADS_FROM_BC[off..len], so
\* that a field gets the byte of the data at its own place, whatever the offset.
Taken(w) == {c \in Fields : c > w.off /\ c <= Len(w.bytes)}
TakenFromStart(w) == {c \in Fields : c <= Len(w.bytes)}
ReceivedFromStart(w) ==
    [c \in Fields |-> IF c \in TakenFromStart(w) THEN w.bytes[c] ELSE mem[FROM][c]]
Received(w) == [c \in Fields |-> IF c \in Taken(w) THEN w.bytes[c] ELSE mem[FROM][c]]

OnPlcWrite ==
    /\ Running /\ channel # <<>>
    /\ LET w == Head(channel) IN
       IF w.off > Len(w.bytes) \/ Len(w.bytes) > Size THEN Panic("slice")
           ELSE IF TagFault(FROM, FALSE) THEN Panic("as_schema")
           ELSE /\ mem' = [mem EXCEPT ![FROM] = Received(w)]
                /\ data' = [data EXCEPT ![FROM] = Decode(Received(w))]
                /\ Notify({FROM}, data', FALSE)
                /\ channel' = Tail(channel)
                /\ UNCHANGED <<status, fault, count, sessions, jobs, clientUp, pipe, plc, history>>

\* The stream ends with the client, once drained: the context stops.
StreamEnds ==
    /\ Running /\ ~clientUp /\ channel = <<>>
    /\ status' = "stopped"
    /\ UNCHANGED <<fault, memory, sessions, told, jobs, clientUp, pipe, channel, plc, history>>

-----------------------------------------------------------------------------
\* The AdsClient and the PLC.

\* The PLC executes the oldest request; an error answer has no data.  An answer
\* that arrives behind another frame in one buffer is cleared with it.
Answered(r) ==
    /\ arrived' = [arrived EXCEPT ![r.job] = @ \cup {r.of}]
    /\ sample' \in {[sample EXCEPT ![r.job][r.of] = d] :
                     d \in {plc[r.of]} \cup (IF PlcRefuses THEN {NoData} ELSE {})}
    /\ UNCHANGED <<wanted, lost>>
AnswerLost(r) ==
    /\ AnswersLost
    /\ lost' = lost \cup {r.job}
    /\ UNCHANGED jobs

PlcServes ==
    /\ Running /\ clientUp /\ pipe # <<>>
    /\ pipe' = Tail(pipe)
    /\ LET r == Head(pipe) IN
       \/ /\ r.kind = "write"
          /\ plc' = [plc EXCEPT ![r.of] = Apply(@, r.patch)]
          /\ UNCHANGED <<jobs, lost>>
       \/ /\ r.kind = "read"
          /\ Answered(r) \/ AnswerLost(r)
          /\ UNCHANGED plc
    /\ UNCHANGED <<status, fault, memory, sessions, told, clientUp, channel, overtaken, suspect,
                   behind>>

\* The PLC's program changes its structure and sends it; a full channel drops
\* the write after the AdsClient acknowledged it.  Of an accepted one, Placed are
\* the fields that will get what the PLC wrote to them: all at offset 0, at
\* another those alone where data[off..] repeats it.
Pushed(p) == {c \in Fields : c > p.off /\ c <= p.off + Len(p.bytes)}
Placed(p) == {c \in Taken(p) : p.bytes[c] = p.bytes[c - p.off]}

PlcPush(p) ==
    /\ Running /\ clientUp
    /\ plc' = [plc EXCEPT ![FROM] =
                  [c \in Fields |-> IF c \in Pushed(p) THEN p.bytes[c - p.off] ELSE plc[FROM][c]]]
    /\ IF Len(channel) < ChannelCap
       THEN /\ channel' = Append(channel, p)
            /\ behind' = (behind \cup Pushed(p)) \ Placed(p)
       ELSE /\ behind' = behind \cup Pushed(p)
            /\ UNCHANGED channel
    /\ UNCHANGED <<status, fault, memory, sessions, told, jobs, clientUp, pipe, overtaken, suspect,
                   lost>>

\* The connection is lost: whatever is on its way to the PLC is lost with it.
ClientStops ==
    /\ Disconnects /\ Running /\ clientUp
    /\ clientUp' = FALSE
    /\ pipe' = <<>>
    /\ UNCHANGED <<status, fault, memory, sessions, told, jobs, channel, plc, history>>

-----------------------------------------------------------------------------
Session(a) == Register(a) \/ Unregister(a) \/ \E s \in Schemas : Subscription(a, s)

Next ==
    \/ \E a \in Clients : Session(a)
    \/ \E m \in Mutations : Mutation(m)
    \/ \E a \in Clients, names \in Resolves : Resolve(a, names)
    \/ \E j \in Jobs : FinishJob(j) \/ JobFails(j)
    \/ HeartBeat \/ OnPlcWrite \/ StreamEnds
    \/ PlcServes \/ ClientStops
    \/ \E p \in PlcPushes : PlcPush(p)

Spec == Init /\ [][Next]_vars

\* The event loop polls the futures of a job, and a live PLC answers.
Fairness == WF_vars(PlcServes) /\ \A j \in Jobs : WF_vars(FinishJob(j)) /\ WF_vars(JobFails(j))

FairSpec == Spec /\ Fairness

-----------------------------------------------------------------------------
\* Properties.

MemoryTypeOK ==
    /\ mem \in [Structs -> Rows] /\ data \in [Structs -> Rows] /\ plc \in [Structs -> Rows]
    /\ count \in 0..MaxCount

SessionTypeOK ==
    /\ ws_clients \subseteq Clients
    /\ DOMAIN subscription_map \subseteq Clients
    /\ session \in [Clients -> {"new", "open", "closed"}]
    /\ told \in [Clients -> [Structs -> [Fields -> Values \cup {Untold}]]]

JobTypeOK ==
    /\ wanted \in [Jobs -> SUBSET Writable]
    /\ arrived \in [Jobs -> SUBSET Writable]
    /\ sample \in [Jobs -> [Structs -> Patches]]
    /\ overtaken \in [Jobs -> SUBSET Writable]

Request == [kind : {"read"}, job : Jobs, of : Writable]
              \cup [kind : {"write"}, of : Writable, patch : Patches]

TypeOK ==
    /\ status \in {"running", "stopped", "panicked"}
    /\ MemoryTypeOK /\ SessionTypeOK /\ JobTypeOK
    /\ clientUp \in BOOLEAN
    /\ pipe \in Seq(Request)
    /\ channel \in Seq(PlcPushes) /\ Len(channel) <= ChannelCap
    /\ suspect \subseteq Writable /\ behind \subseteq Fields /\ lost \subseteq Jobs

\* The two copies of a structure agree up to the subranges: whatever path
\* changed one (a mutation clamps the bytes only) changed the other with it.
JsonMatchesBytes == \A s \in Structs : Encode(data[s]) = Encode(mem[s])

\* What field c of structure s in the PLC will be once the pipe is drained.
WritersOf(s, c) ==
    {i \in DOMAIN pipe : pipe[i].kind = "write" /\ pipe[i].of = s /\ c \in DOMAIN pipe[i].patch}
Expected(s, c) ==
    IF WritersOf(s, c) = {} THEN plc[s][c] ELSE pipe[SX!Max(WritersOf(s, c))].patch[c]

\* The mirror of a structure is what the PLC's memory will be when the requests
\* on their way are executed, unless an answer older than a write was copied
\* over it.  Mutation writes only up to the last byte that differs from the
\* mirror, so a wrong mirror would leave wrong bytes in the PLC.
MirrorCurrent ==
    clientUp => \A s \in Writable \ suspect : \A c \in Fields : mem[s][c] = Expected(s, c)

\* A mutation changes the PLC's fields it names and no others, but for clamping
\* what was out of range: the prefix it sends repeats what is there.
MutationKeepsOthers ==
    [][\A m \in Mutations : \A s \in (DOMAIN m \cap Writable) \ suspect :
        Mutation(m) /\ clientUp /\ status' = "running" =>
            \A c \in Fields \ DOMAIN m[s] : Expected(s, c)' \in {Expected(s, c), Limit[c]}]_vars

\* What the multiplexer holds or has queued of a field of ST_ADS_FROM_BC is what
\* the PLC holds, whatever the offsets of the PLC's writes, unless the last write
\* of the field was dropped or its offset put it elsewhere.
TakersOf(c) == {i \in DOMAIN channel : c \in Taken(channel[i])}
FromBcCurrent ==
    \A c \in Fields \ behind :
        plc[FROM][c] = IF TakersOf(c) = {} THEN mem[FROM][c]
                       ELSE channel[SX!Max(TakersOf(c))].bytes[c]

\* An open session shows nothing that the mirror no longer holds: what it was
\* told of a field it subscribed to is the field's JSON.
SubscribedTo(a, s, c) ==
    /\ a \in DOMAIN subscription_map /\ session[a] = "open"
    /\ \E i \in DOMAIN subscription_map[a] :
          LET n == subscription_map[a][i] IN
          n.kind \in {"obj", "tag"} /\ n.name = s /\ c \in Carried(n, Fields)
ViewCurrent ==
    \A a \in Clients, s \in Structs, c \in Fields :
        SubscribedTo(a, s, c) => told[a][s][c] \in {Untold, data[s][c]}

\* No change of a subscribed field goes untold, whatever made it.
ChangeIsTold ==
    [][\A a \in Clients, s \in Structs, c \in Fields :
        SubscribedTo(a, s, c) /\ data'[s][c] # data[s][c] => told'[a][s][c] = data'[s][c]]_vars

\* A Resolve is answered or fails, or the actor stopped, even when the PLC goes
\* away while its reads are out.  Only a lost answer leaves it pending, and no
\* longer than the connection lasts.
ResolveSettles ==
    \A j \in Jobs : wanted[j] # {} ~> \/ wanted[j] = {}
                                     \/ ~Running
                                     \/ (j \in lost /\ clientUp)

\* The assertions of the code, as they would hold if it is right.
SchemasMerge == fault # "merge_schemas"       \* json_diff.rs:202 unreachable!()
TagsResolve == fault # "as_schema"            \* ws_ads.rs:329-330 unwrap()
StructHasSymbol == fault # "by_str"           \* ws_ads.rs:52 unreachable!()
=============================================================================
