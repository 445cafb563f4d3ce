----------------------------- MODULE AdsMemory -----------------------------
(***************************************************************************)
(* The data of one PLC in the server, with the types of its TPY file: what *)
(* main.rs sets up, what the answers and writes of the PLC, the heartbeat  *)
(* and the mutations of websocket clients then make of the bytes and the   *)
(* JSON, what a Resolve answers and what a subscriber is told.  The order  *)
(* of these steps and what the PLC gets of them is the matter of           *)
(* AdsToWsMultiplexer, where a structure is a row of plain fields.         *)
(***************************************************************************)
EXTENDS XmlToStruct, SchemaText

CONSTANTS
    Tpys,        \* the TPY files the configuration may name
    Orders,      \* the orders in which a HashMap may give the keys of an enum
    PlcData(_),  \* what the PLC may hold in a structure of so many bytes
    Mutations,   \* the mutations a client may send: JSON
    Asked,       \* schemas a client may ask for, each the nodes of a Root
    CtrAt,       \* bytes before the counter (16) in ST_ADS_TO_BC
    CtrWidth,    \* bytes of the counter (4)
    MaxCount     \* bound: heartbeats

ASSUME MemoryAssumption ==
    /\ \A order \in Orders : order \in Seq(Int)
    /\ CtrAt \in Nat /\ CtrWidth \in Nat \ {0} /\ MaxCount \in Nat

VARIABLES
    status,    \* "starting", "running", "failed" to start, "panicked" later
    fault,     \* the unwrap or slice the process ended with
    tpy,       \* the TPY file of the PLC's version
    version,   \* AdsVersion
    mem,       \* AdsMemory: the bytes of each structure
    data,      \* AdsMemory.data
    count      \* heartbeats

vars == <<status, fault, tpy, version, mem, data, count>>

Running == status = "running"
NoVersion == <<>>
KeyIn(ver, s) == ver.search_index[s]
TypeIn(ver, s) == ver.map[KeyIn(ver, s)]
Decoded(ver, s, b) == ReadType(TypeIn(ver, s), b, ver.map)
Encoded(ver, s, v) == WriteType(TypeIn(ver, s), v, ver.map)
Slots(s) == SlotsOf(TypeIn(version, s), version.map)
Json == Object(data)

-----------------------------------------------------------------------------
\* main.rs: the types of the version, the symbols of the structures that are
\* written to, and zero memory, decoded.

InitMemory(ver, s) == [i \in 1..TypeLen(TypeIn(ver, s)) |-> 0]
InitJson(ver, s) == Decoded(ver, s, InitMemory(ver, s))

StartFault(ver) ==
    LET index == DOMAIN ver.search_index IN
    CASE ~tpy.file                                                  -> "no file"
      [] tpy.file /\ Unreadable(tpy)                                -> "unreadable"
      [] tpy.file /\ ~Unreadable(tpy) /\ ~(Structs \subseteq index) -> "no structure"
      [] OTHER ->
            IF \E s \in Structs \ {FROM} : KeyIn(ver, s) \notin DOMAIN ver.symbols THEN "no symbol"
            ELSE IF \E s \in Structs : Ruined(InitJson(ver, s)) THEN "decode"
            ELSE "none"

StartUp(order) ==
    LET ver == ReadTpy(tpy, order) IN
    /\ status = "starting"
    /\ fault' = StartFault(ver)
    /\ IF fault' = "none"
       THEN /\ status' = "running" /\ version' = ver
            /\ mem' = [s \in Structs |-> InitMemory(ver, s)]
            /\ data' = [s \in Structs |-> InitJson(ver, s)]
       ELSE status' = "failed" /\ UNCHANGED <<version, mem, data>>
    /\ UNCHANGED <<tpy, count>>

-----------------------------------------------------------------------------
\* handle_future, Handler<AdsWriteReq>, Handler<HeartBeat>: bytes come in.

Panics(site) ==
    /\ status' = "panicked" /\ fault' = site
    /\ UNCHANGED <<tpy, version, mem, data, count>>

Takes(s, row) ==
    /\ mem' = [mem EXCEPT ![s] = row]
    /\ data' = [data EXCEPT ![s] = Decoded(version, s, row)]
    /\ UNCHANGED <<status, fault, tpy, version>>

Loads(s, bytes) ==
    LET row == Overlay(mem[s], 0, bytes) IN
    /\ Running
    /\ IF Ruined(Decoded(version, s, row)) THEN Panics("decode")
       ELSE Takes(s, row) /\ UNCHANGED count

\* The counter is written at its place whatever the TPY has there.
HeartBeat ==
    LET row == Overlay(mem[TO], CtrAt, Bytes(count, CtrWidth)) IN
    /\ Running /\ count < MaxCount
    /\ IF CtrAt + CtrWidth > Len(mem[TO]) THEN Panics("slice")
       ELSE IF Ruined(Decoded(version, TO, row)) THEN Panics("decode")
       ELSE Takes(TO, row) /\ count' = count + 1

-----------------------------------------------------------------------------
\* Handler<WsToAdsClient>, Mutation: the structures it names, in their order.

Mutated(m, s) == IF Has(m, s) THEN Merge(data[s], Index(m, s)) ELSE data[s]

MutationFault(m, s) ==
    LET new == Encoded(version, s, Mutated(m, s)) IN
    CASE Ruined(Mutated(m, s))                 -> "merge"
      [] ~Ruined(Mutated(m, s)) /\ s = FROM    ->
            IF BadByte \in FX!Range(new) THEN "number" ELSE "by_str"
      [] OTHER ->
            IF BadByte \in FX!Range(new) THEN "number"
            ELSE IF LastChange(mem[s], new) > Len(mem[s]) THEN "slice" ELSE "none"

Faulty(m) == SelectSeq(KeyOrder, LAMBDA s : Has(m, s) /\ MutationFault(m, s) # "none")

Mutate(m) ==
    /\ Running
    /\ IF Faulty(m) # <<>> THEN Panics(MutationFault(m, Faulty(m)[1]))
       ELSE /\ mem' = [s \in Structs |->
                IF Has(m, s)
                THEN LET new == Encoded(version, s, Mutated(m, s))
                     IN  Overlay(mem[s], 0, Before(new, LastChange(mem[s], new) + 1))
                ELSE mem[s]]
            /\ data' = [s \in Structs |-> Mutated(m, s)]
            /\ UNCHANGED <<status, fault, tpy, version, count>>

-----------------------------------------------------------------------------
Init ==
    /\ status = "starting" /\ fault = "none"
    /\ tpy \in Tpys /\ version = NoVersion
    /\ mem = [s \in Structs |-> <<>>] /\ data = [s \in Structs |-> Null]
    /\ count = 0

Next ==
    \/ \E order \in Orders : StartUp(order)
    \/ \E s \in Structs : \E bytes \in PlcData(Len(mem[s])) : Loads(s, bytes)
    \/ HeartBeat
    \/ \E m \in Mutations : Mutate(m)

Spec == Init /\ [][Next]_vars

-----------------------------------------------------------------------------
\* The types: a structure's memory has the length its type was declared with, all
\* of which its fields read, and its JSON has a value for each of them.
TypeOK ==
    /\ status \in {"starting", "running", "failed", "panicked"}
    /\ count \in 0..MaxCount
    /\ Running => \A s \in Structs :
          /\ mem[s] \in Seq(Byte) /\ Len(mem[s]) = TypeLen(TypeIn(version, s))
          /\ Len(mem[s]) = SizeOf(TypeIn(version, s), version.map)
          /\ ~Ruined(data[s])

\* Writing back the JSON of a structure leaves the bytes of every clean slot as
\* they are, after any loads, heartbeats and mutations: what a later mutation of
\* another field sends along is what the PLC has (to_writer after as_data_struct).
RewriteIsFaithful ==
    Running => \A s \in Structs :
        LET b == Encoded(version, s, data[s]) IN
        BadByte \notin FX!Range(b) =>
            \A slot \in Slots(s) : Clean(slot.ty, SlotBytes(mem[s], slot)) =>
                SlotBytes(b, slot) = SlotBytes(mem[s], slot)

\* Memory that the next heartbeat or Resolve cannot decode (expect, unwrap) is
\* the work of a mutation: of a text longer than its STRING, cut inside a
\* character, or of an LREAL whose pattern has no i64.
LeafAt(v, path) == (CHOOSE leaf \in LeavesOf(v) : leaf.path = path).value
UnreadableOnlyByMutation ==
    Running => \A s \in Structs :
        Ruined(Decoded(version, s, mem[s])) =>
            \E slot \in Slots(s) :
                LET v == LeafAt(data[s], slot.path) IN
                \/ slot.ty.k = "string" /\ Len(v.of) > slot.ty.len
                \/ /\ slot.ty.k = "real" /\ slot.ty.w = 8
                   /\ Rounded(v.of, slot.ty.mantissa) >= Pow(8) \div 2

\* The program starts exactly on a TPY file with the three structures, symbols of
\* the configured names for the two it writes, two keys at least in every enum, and
\* every type the structures are made of, a subrange within its type.  A type that
\* renames another one leads to it only if a structure or array does so as well
\* (main's unwraps, read_tpy's, build_dependencies).
Known == {raw \in DataTypes(tpy) :
            DOMAIN raw \cap {"EnumInfo", "SubItem", "ArrayInfo", "Type"} # {}}
Refers(raw) == {t.key : t \in {u \in Named(raw) : PlcType(u, NoRange).k = "other"}}
RefersOn(raw) == IF DOMAIN raw \cap {"SubItem", "ArrayInfo"} = {} THEN {} ELSE Refers(raw)
StructOf(raw, s) == "SubItem" \in DOMAIN raw /\ raw.Name = s
Reached(refers(_)) ==
    LET roots == {raw.Key : raw \in {r \in Known : \E s \in Structs : StructOf(r, s)}}
        keys == {raw.Key : raw \in Known} \cup UNION {Refers(raw) : raw \in Known}
    IN  {key \in keys : \A C \in SUBSET keys :
            roots \subseteq C /\ (\A raw \in Known : raw.Key \in C => refers(raw) \subseteq C)
            => key \in C}
HasSymbol(key) ==
    \E symbol \in SX!ToSet(tpy.symbols) : symbol.Name \in SymbolNames /\ symbol.Type.key = key
Startable ==
    /\ tpy.file
    /\ \A s \in Structs : \E raw \in Known : StructOf(raw, s) /\ (s # FROM => HasSymbol(raw.Key))
    /\ \A raw \in Known : "EnumInfo" \in DOMAIN raw => Len(raw.EnumInfo) > 1
    /\ \A t \in NamedTypes(tpy) : t.key = NoKey => PlcType(t, NoRange).k # "other"
    /\ Reached(Refers) \subseteq Reached(RefersOn) \cap {raw.Key : raw \in Known}
    /\ \A raw \in Known : raw.Key \in Reached(Refers) /\ "SubRangeInfo" \in DOMAIN raw =>
          RangeFits(PlcType(raw.Type, raw.SubRangeInfo))
StartsWhenComplete ==
    [][status = "starting" => (status' = "running" <=> Startable)]_vars

-----------------------------------------------------------------------------
\* What a Resolve answers (the map of its future) and what a subscriber is told
\* (handle_subscriptions) for one node of its schema.

Answer(nodes) == MergeValues([i \in DOMAIN nodes |-> AsSchema(nodes[i], Json)[1]])
Notice(n, old, new) ==
    LET sv1 == AsSchema(n, new)[1] IN
    IF AsSchema(n, old)[1] # sv1 /\ ~IsEmpty(sv1) THEN <<sv1>> ELSE <<>>

RECURSIVE Selects(_, _), Answered(_, _), FirstThere(_, _)
Selects(nodes, path) ==
    \E n \in SX!ToSet(nodes) :
        path # <<>> /\ n.name = path[1] /\ (n.kind = "tag" \/ Selects(n.nodes, Tail(path)))
Selected(nodes, v) == {leaf \in LeavesOf(v) : Selects(nodes, leaf.path)}

\* A structure asked for as a whole comes without its name, a field asked for
\* inside another one under the name of that one twice.
Node(nodes, name) == CHOOSE n \in SX!ToSet(nodes) : n.name = name
Answered(n, path) ==
    IF n.kind = "tag" THEN path
    ELSE LET inner == Node(n.nodes, path[2]) IN
         <<n.name>> \o (IF inner.kind = "tag" THEN <<>> ELSE <<inner.name>>)
                    \o Answered(inner, Tail(path))
AnsweredPath(n, path) == IF n.kind = "tag" THEN Tail(path) ELSE Answered(n, path)

\* A key of a later node's answer takes the place of the same key of an earlier one.
KeysOf(n) == IF n.kind = "tag" THEN DOMAIN data[n.name].of ELSE {n.name}
Told(nodes) ==
    UNION {{leaf \in {[l EXCEPT !.path = AnsweredPath(nodes[i], @)] :
                        l \in Selected(<<nodes[i]>>, Json)} :
              \A j \in (i + 1)..Len(nodes) : leaf.path[1] \notin KeysOf(nodes[j])} :
             i \in DOMAIN nodes}

\* The text of a schema is parsed to that schema, but that tags before an object are
\* taken for a part of its name; a Resolve of what was parsed answers exactly the
\* leaves it names, with their values, unless a later key overwrites them.
Parsed == [nodes \in Asked |-> SchemaParser(Written(nodes))]
ResolveAnswers ==
    Running => \A nodes \in Asked :
        LET understood == Understood(nodes) IN
        /\ Parsed[nodes] = {<<"resolve", understood>>}
        /\ (\A n \in SX!ToSet(understood) : n.name \in Structs \ {FROM}) =>
              LeavesOf(Answer(understood)) = Told(understood)

\* A step that decodes a structure to another JSON tells a subscriber of fields of
\* it exactly when one of these changed and the first of them, in lexical order, is
\* there: tags of fields that do not exist are passed over, an object without any
\* hides the changes of all that come after it.
FirstThere(nodes, v) ==
    LET there == {n \in SX!ToSet(nodes) : n.kind = "obj" \/ Has(v, n.name)}
        first == Node(nodes, FirstKey([name \in {n.name : n \in there} |-> Null]))
    IN  there # {} /\ (first.kind = "obj" => FirstThere(first.nodes, Index(v, first.name)))
NoticesTell ==
    [][Running /\ status' = "running" =>
        \A s \in Structs :
            data'[s] # data[s] /\ data'[s] = Decoded(version, s, mem'[s]) =>
                LET old == Json
                    new == Object(s :> data'[s])
                IN  \A nodes \in Asked : \A n \in SX!ToSet(Understood(nodes)) :
                        n.kind = "obj" =>
                            (Notice(n, old, new) # <<>>) =
                                (/\ n.name = s /\ FirstThere(n.nodes, data'[s])
                                 /\ Selected(<<n>>, old) # Selected(<<n>>, Json'))
      ]_vars

-----------------------------------------------------------------------------
LeavesNamed(m, s) == IF Has(m, s) THEN LeavesOf(Index(m, s)) ELSE {}
MutatesTo(m) ==
    /\ Running /\ status' = "running" /\ mem' # mem
    /\ data' = [s \in Structs |-> Mutated(m, s)] /\ Mutate(m)

\* What a field's type takes (expect, unwrap and write_uint), and what a mutation
\* gives it: its own value, or again the one in the JSON.
Accepts(ty, v) ==
    CASE ty.k = "int"  -> v.k = "num" /\ (ty.signed \/ v.of >= 0)
      [] ty.k = "enum" -> v.k = "num"
      [] ty.k = "real" -> v.of >= 0 /\ Rounded(v.of, ty.mantissa) < Pow(ty.w)
      [] OTHER         -> TRUE
Given(m, s, path) ==
    LET named == {leaf \in LeavesNamed(m, s) : leaf.path = path} IN
    IF named = {} THEN LeafAt(data[s], path) ELSE (CHOOSE leaf \in named : TRUE).value

RECURSIVE Fitting(_, _)
Fitting(v, w) ==
    /\ Alike(v, w)
    /\ v.k = "object" => \A key \in DOMAIN v.of \cap DOMAIN w.of : Fitting(v.of[key], w.of[key])
    /\ v.k = "list" => \A i \in DOMAIN v.of : i \in DOMAIN w.of /\ Fitting(v.of[i], w.of[i])

\* A mutation ends the process exactly when one of the structures it names is
\* ST_ADS_FROM_BC, or has a field that it gives a value of another kind, fewer
\* elements or a value the type does not take, or a REAL that it does not name but
\* that was rounded up past its width when it was read (merge, to_writer, by_str).
MutationEndsIfUnfit ==
    Running => \A m \in Mutations :
        Faulty(m) # <<>> <=>
            \E s \in Structs :
                /\ Has(m, s)
                /\ \/ s = FROM \/ ~Fitting(data[s], Index(m, s))
                   \/ \E slot \in Slots(s) : ~Accepts(slot.ty, Given(m, s, slot.path))

\* A mutation sets the fields it names, and no others: each becomes what its type makes
\* of the value given, and a field that it does not name keeps its bytes, if they are a
\* value of its type.  The prefix that is sent may hold other fields, but unchanged
\* (merge, to_writer, the last difference in ws_ads.rs).
OnlyNamedAreSet ==
    [][\A m \in Mutations : MutatesTo(m) =>
        \A s \in Structs : \A slot \in Slots(s) :
            LET named == {leaf \in LeavesNamed(m, s) : leaf.path = slot.path}
                before == SlotBytes(mem[s], slot)
                after == SlotBytes(mem'[s], slot) IN
            /\ \A leaf \in named : Becomes(slot.ty, leaf.value, after)
            /\ named = {} /\ Clean(slot.ty, before) => after = before]_vars
=============================================================================
