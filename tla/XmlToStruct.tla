---------------------------- MODULE XmlToStruct ----------------------------
(***************************************************************************)
(* read_tpy (xml_to_struct/): from the DataType and Symbol elements of a   *)
(* TPY file to the types a PLC's structures need.                          *)
(***************************************************************************)
EXTENDS JsonTrees, AdsStructs

CONSTANT SymbolNames   \* symbol_names of the version's settings

\* Symbols with a configured name, by the key of their type.
Symbols(tpy) ==
    LET named == SelectSeq(tpy.symbols, LAMBDA s :
                    s.Name \in SymbolNames /\ PlcType(s.Type, NoRange).k = "other")
    IN  Collected([i \in DOMAIN named |-> <<named[i].Type.key, named[i]>>])

\* Types that have a decoration and that from_value knows.
AllTypes(tpy, order) ==
    LET known == SelectSeq(tpy.types, LAMBDA raw :
                    raw.Key # NoKey /\ FromValue(raw, order) # <<>>)
    IN  Collected([i \in DOMAIN known |-> <<known[i].Key, FromValue(known[i], order)[1]>>])

\* What read_tpy panics on: an element that stands alone where an array is asked for
\* (quickxml_to_serde makes it an object), and a type named without a decoration.
DataTypes(tpy) == SX!ToSet(SelectSeq(tpy.types, LAMBDA raw : raw.Key # NoKey))
Alone(tpy) ==
    \/ Len(tpy.types) < 2 \/ Len(tpy.symbols) < 2
    \/ \E raw \in DataTypes(tpy) : "EnumInfo" \in DOMAIN raw /\ Len(raw.EnumInfo) < 2
Named(raw) ==
    CASE "EnumInfo" \in DOMAIN raw -> {}
      [] "SubItem" \in DOMAIN raw  -> {item.Type : item \in SX!ToSet(raw.SubItem)}
      [] OTHER                     -> IF "Type" \in DOMAIN raw THEN {raw.Type} ELSE {}
NamedTypes(tpy) ==
    UNION {Named(raw) : raw \in DataTypes(tpy)} \cup {symbol.Type : symbol \in SX!ToSet(tpy.symbols)}
Unreadable(tpy) ==
    Alone(tpy) \/ \E t \in NamedTypes(tpy) : PlcType(t, NoRange) = OtherType(NoKey)

\* build_dependencies: what it pushes for a key.  A primitive that renames another
\* type is not followed.
RECURSIVE Dependencies(_, _)
DependenciesOf(p, map) ==
    IF p.k = "other" THEN {p.reference} \cup Dependencies(p.reference, map) ELSE {}
DependenciesFlat(key, map) ==
    CASE key \notin DOMAIN map   -> {}
      [] map[key].k = "struct"   ->
            {f.ty.reference : f \in {g \in SX!ToSet(map[key].fields) : g.ty.k = "other"}}
      [] OTHER                   -> {key}
Dependencies(key, map) ==
    CASE key \notin DOMAIN map   -> {}
      [] map[key].k = "struct"   ->
            UNION {DependenciesOf(f.ty, map) : f \in SX!ToSet(map[key].fields)}
      [] map[key].k = "enum"     -> {key}
      [] map[key].k = "array"    -> DependenciesOf(map[key].ty, map)
      [] OTHER                   -> {}

\* search_index: the three structures by name.
SearchIndex(map) ==
    LET keys == {key \in DOMAIN map : map[key].k = "struct" /\ map[key].name \in Structs}
    IN  [s \in {map[key].name : key \in keys} |-> CHOOSE key \in keys : map[key].name = s]

ReadTpy(tpy, order) ==
    LET all == AllTypes(tpy, order)
        index == SearchIndex(all)
        roots == FX!Range(index)
        dep == roots \cup UNION {Dependencies(key, all) : key \in roots}
    IN  [map |-> FX!Restrict(all, DOMAIN all \cap dep),
         search_index |-> index, symbols |-> Symbols(tpy)]
=============================================================================
