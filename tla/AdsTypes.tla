------------------------------ MODULE AdsTypes ------------------------------
(***************************************************************************)
(* The types of a TPY file (types/mod.rs): how a DataType element becomes  *)
(* an AdsType, and how a value is written and read through the types it    *)
(* refers to.  A type map is a function from keys (decorations) to types;  *)
(* fields follow one another without gaps, whatever BitOffs says.          *)
(***************************************************************************)
EXTENDS AdsPrimitives, TLC
FX == INSTANCE Functions

CONSTANTS
    F32,    \* numbers below are exact in a REAL: 2^24
    F64     \* and in an LREAL: 2^53

NoKey == "no key"

\* JSON values: objects, arrays, and the index that gives null for what is missing.
Object(f) == [k |-> "object", of |-> f]
List(s) == [k |-> "list", of |-> s]
Has(v, key) == v.k = "object" /\ key \in DOMAIN v.of
Index(v, key) == IF Has(v, key) THEN v.of[key] ELSE Null
Item(v, i) == IF v.k = "list" /\ i \in DOMAIN v.of THEN v.of[i] ELSE Null

-----------------------------------------------------------------------------
\* From<(String, Option<String>, Option<SubRange>)> for AdsPlcType.  A type in
\* the TPY is a text, with the length of a STRING, and the key it refers to.

IntTypes == "BYTE" :> WholeInt(1, FALSE) @@ "WORD" :> WholeInt(2, FALSE)
    @@ "DWORD" :> WholeInt(4, FALSE) @@ "SINT" :> WholeInt(1, TRUE)
    @@ "USINT" :> WholeInt(1, FALSE) @@ "INT" :> WholeInt(2, TRUE)
    @@ "UINT" :> WholeInt(2, FALSE) @@ "DINT" :> WholeInt(4, TRUE)
    @@ "UDINT" :> WholeInt(4, FALSE)

\* TIME, TIME_OF_DAY, DATE and DATE_AND_TIME are u32 and take no subrange.
Times == {"TIME", "TIME_OF_DAY", "TOD", "DATE", "DATE_AND_TIME", "DT"}

NoRange == <<>>
PlcType(t, range) ==
    CASE t.text \in DOMAIN IntTypes ->
            IF range = NoRange THEN IntTypes[t.text]
            ELSE [IntTypes[t.text] EXCEPT !.lo = range[1], !.hi = range[2]]
      [] t.text \in Times    -> WholeInt(4, FALSE)
      [] t.text = "BOOL"     -> BoolType
      [] t.text = "REAL"     -> RealType(4, F32)
      [] t.text = "LREAL"    -> RealType(8, F64)
      [] t.text = "STRING"   -> StringType(t.len)
      [] OTHER               -> OtherType(t.key)

\* AdsType::from_value: the first of these elements that is there decides.  A
\* HashMap gives the keys of an enum in an order of its own, always the same: here
\* that of `order`.
FromValue(raw, order) ==
    CASE "EnumInfo" \in DOMAIN raw ->
            <<[k |-> "enum", name |-> raw.Name, bits |-> raw.BitSize,
               keys |-> SelectSeq(order, LAMBDA n : n \in SX!ToSet(raw.EnumInfo))]>>
      [] "SubItem" \in DOMAIN raw ->
            <<[k |-> "struct", name |-> raw.Name, bits |-> raw.BitSize,
               fields |-> [i \in DOMAIN raw.SubItem |->
                   [name |-> raw.SubItem[i].Name, ty |-> PlcType(raw.SubItem[i].Type, NoRange)]]]>>
      [] "ArrayInfo" \in DOMAIN raw ->
            <<[k |-> "array", bits |-> raw.BitSize, ty |-> PlcType(raw.Type, NoRange),
               bounds |-> SX!FoldLeft(LAMBDA n, m : n * m, 1, raw.ArrayInfo)]>>
      [] "Type" \in DOMAIN raw ->
            <<[k |-> "primitive",
               ty |-> PlcType(raw.Type, IF "SubRangeInfo" \in DOMAIN raw
                                        THEN raw.SubRangeInfo ELSE NoRange)]>>
      [] OTHER -> <<>>

\* AdsType::len, by which memory is allocated and structures are requested.
TypeLen(t) ==
    IF t.k # "primitive" THEN t.bits \div 8
    ELSE CASE t.ty.k = "string" -> t.ty.len + 1
           [] t.ty.k = "bool"   -> 1
           [] t.ty.k = "int" /\ t.ty.w < 4 -> t.ty.w
           [] t.ty.k = "real" /\ t.ty.w = 8 -> 8
           [] OTHER -> 4

-----------------------------------------------------------------------------
RECURSIVE SizeOf(_, _), WriteType(_, _, _), ReadType(_, _, _), SlotsOf(_, _)

\* Other: its type must be in the map (unwrap).
Missing == [k |-> "missing"]
Referred(p, map) == IF p.reference \in DOMAIN map THEN map[p.reference] ELSE Missing

\* The bytes a type takes from a reader.
SizeOfPlc(p, map) == IF p.k # "other" THEN Width(p) ELSE SizeOf(Referred(p, map), map)
SizesBefore(t, i, map) == FX!SumFunction([j \in 1..(i - 1) |-> SizeOfPlc(t.fields[j].ty, map)])
SizeOf(t, map) ==
    CASE t.k = "enum"      -> 2
      [] t.k = "struct"    -> SizesBefore(t, Len(t.fields) + 1, map)
      [] t.k = "array"     -> t.bounds * SizeOfPlc(t.ty, map)
      [] t.k = "primitive" -> SizeOfPlc(t.ty, map)
      [] t.k = "missing"   -> 0

\* to_writer.
WritePlc(p, v, map) ==
    IF p.k # "other" THEN WritePrimitive(p, v) ELSE WriteType(Referred(p, map), v, map)
WriteType(t, v, map) ==
    CASE t.k = "enum"      -> WriteEnum(v, t.keys)
      [] t.k = "struct"    -> SX!FlattenSeq([i \in DOMAIN t.fields |->
                                WritePlc(t.fields[i].ty, Index(v, t.fields[i].name), map)])
      [] t.k = "array"     -> SX!FlattenSeq([i \in 1..t.bounds |-> WritePlc(t.ty, Item(v, i), map)])
      [] t.k = "primitive" -> WritePlc(t.ty, v, map)
      [] t.k = "missing"   -> <<BadByte>>

\* as_data_struct: a reader goes on where the field before ended.
ReadPlc(p, b, map) ==
    IF p.k # "other" THEN ReadPrimitive(p, b) ELSE ReadType(Referred(p, map), b, map)
ReadType(t, b, map) ==
    CASE t.k = "enum"      -> ReadPrimitive(EnumType, b)
      [] t.k = "struct"    ->
            LET At(name) == CHOOSE i \in DOMAIN t.fields : t.fields[i].name = name IN
            Object([name \in {t.fields[i].name : i \in DOMAIN t.fields} |->
                ReadPlc(t.fields[At(name)].ty, From(b, SizesBefore(t, At(name), map)), map)])
      [] t.k = "array"     ->
            List([i \in 1..t.bounds |->
                ReadPlc(t.ty, From(b, (i - 1) * SizeOfPlc(t.ty, map)), map)])
      [] t.k = "primitive" -> ReadPlc(t.ty, b, map)
      [] t.k = "missing"   -> Bad

-----------------------------------------------------------------------------
\* Where each leaf lies: what the properties compare the conversions with.

Shift(slots, at, step) ==
    {[s EXCEPT !.at = @ + at, !.path = <<step>> \o @] : s \in slots}
SlotsOfPlc(p, map) ==
    IF p.k # "other" THEN {[path |-> <<>>, at |-> 0, ty |-> p]} ELSE SlotsOf(Referred(p, map), map)
SlotsOf(t, map) ==
    CASE t.k = "enum"      -> {[path |-> <<>>, at |-> 0, ty |-> [k |-> "enum", keys |-> t.keys]]}
      [] t.k = "struct"    ->
            UNION {Shift(SlotsOfPlc(t.fields[i].ty, map), SizesBefore(t, i, map), t.fields[i].name) :
                     i \in DOMAIN t.fields}
      [] t.k = "array"     ->
            UNION {Shift(SlotsOfPlc(t.ty, map), (i - 1) * SizeOfPlc(t.ty, map), ToString(i)) :
                     i \in 1..t.bounds}
      [] t.k = "primitive" -> SlotsOfPlc(t.ty, map)
      [] t.k = "missing"   -> {}
SlotWidth(s) == IF s.ty.k = "enum" THEN 2 ELSE Width(s.ty)
SlotBytes(b, s) == SubSeq(b, s.at + 1, s.at + SlotWidth(s))
=============================================================================
