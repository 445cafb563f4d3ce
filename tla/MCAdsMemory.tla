---------------------------- MODULE MCAdsMemory ----------------------------
(* AdsMemory for TLC: bytes of four values, one PLC, TPY files that each show
   one way in which types are made and values converted. *)
EXTENDS AdsMemory

Ty(text) == [text |-> text, len |-> 0, key |-> NoKey]
Str(len) == [text |-> "STRING", len |-> len, key |-> NoKey]
Ref(key) == [text |-> key, len |-> 0, key |-> key]
Field(name, t) == [Name |-> name, Type |-> t]
Struct(name, key, bytes, fields) ==
    [Name |-> name, Key |-> key, BitSize |-> 8 * bytes, SubItem |-> fields]
Enum(key, values) == [Name |-> key, Key |-> key, BitSize |-> 16, EnumInfo |-> values]
Ranged(key, t, lo, hi) ==
    [Name |-> key, Key |-> key, BitSize |-> 8, Type |-> t, SubRangeInfo |-> <<lo, hi>>]
Array(key, t, elements, bytes) ==
    [Name |-> key, Key |-> key, BitSize |-> 8 * bytes, Type |-> t, ArrayInfo |-> elements]
Alias(key, t) == [Name |-> key, Key |-> key, BitSize |-> 8, Type |-> t]

Symbol(name, key) == [Name |-> name, Type |-> Ref(key)]
MCSymbols == <<Symbol(".ToBc", "to"), Symbol(".Retain", "retain"), Symbol(".Other", "other")>>
MCSymbolNames == {".ToBc", ".Retain"}
Byte1 == Ty("USINT")
FromStruct == Struct(FROM, "from", 1, <<Field("n", Byte1)>>)
RetainStruct == Struct(RETAIN, "retain", 1, <<Field("z", Byte1)>>)

\* ST_ADS_TO_BC of so many bytes: the counter, a field of the type that the file
\* is about, and a plain field behind it.
File(bytes, t, types) ==
    [file |-> TRUE, symbols |-> MCSymbols,
     types |-> types \o <<FromStruct, RetainStruct,
        Struct(TO, "to", bytes, <<Field("ctr", Byte1), Field("f", t), Field("z", Byte1)>>)>>]

NoFile == [file |-> FALSE, symbols |-> <<>>, types |-> <<>>]
Sub(t) == Struct("ST_SUB", "sub", 2, <<Field("a", t), Field("b", Ty("BOOL"))>>)

\* The field of a type that only renames another one, next to one of that type.
Pair == Struct("ST_PAIR", "pair", 4, <<Field("a", Ref("al")), Field("b", Ref("e"))>>)

GoodTpys == {
    File(3, Ref("r"), <<Ranged("r", Byte1, 1, 2)>>),
    File(3, Ref("r"), <<Ranged("r", Ty("SINT"), -1, 1)>>),
    File(4, Ref("e"), <<Enum("e", <<1, 2, 3>>)>>),
    File(4, Ref("e"), <<Enum("e", <<1, 3>>)>>),
    File(5, Str(2), <<>>),
    File(4, Ref("sub"), <<Sub(Byte1)>>),
    File(6, Ref("arr"), <<Array("arr", Ref("sub"), <<2, 1>>, 4), Sub(Ref("r")),
                          Ranged("r", Ty("SINT"), -1, 1)>>),
    File(3, Ref("al"), <<Alias("al", Byte1), Sub(Ref("gone"))>>),
    File(6, Ref("pair"), <<Pair, Alias("al", Ref("e")), Enum("e", <<1, 3>>)>>),
    File(6, Ty("REAL"), <<>>), File(10, Ty("LREAL"), <<>>), File(6, Ty("TIME"), <<>>)}

\* Files that stop the start: no file, a lone enum key, a type without decoration,
\* a structure or a symbol missing, a type that renames another one, is not there or
\* has no content, a subrange beyond its type.
BadTpys == {
    NoFile, File(3, Byte1, <<Enum("e", <<1>>)>>), File(4, Ty("ST_SUB"), <<>>),
    [File(3, Byte1, <<>>) EXCEPT !.types = Tail(@)],
    [File(3, Byte1, <<>>) EXCEPT !.symbols = Tail(@)],
    [File(3, Byte1, <<>>) EXCEPT !.symbols = Append(@, [Name |-> ".x", Type |-> Ty("ST_SUB")])],
    File(4, Ref("al"), <<Alias("al", Ref("e")), Enum("e", <<1, 3>>)>>),
    File(4, Ref("sub"), <<Sub(Ref("gone"))>>),
    File(4, Ref("x"), <<[Name |-> "x", Key |-> "x", BitSize |-> 16]>>),
    File(3, Ref("r"), <<Ranged("r", Byte1, -1, 1)>>)}
MCTpys == GoodTpys \cup BadTpys
MCOrders == {<<1, 2, 3>>, <<2, 3, 1>>, <<3, 1, 2>>}

\* Nothing (an error); whole structures: a second byte, then zeros or ones that
\* are set, and a last byte.
MCPlcData(n) ==
    {<<>>} \cup IF n = 1 THEN {<<1>>}
               ELSE {[i \in 1..n |-> IF i = 2 THEN x ELSE IF i = n THEN yz[1] ELSE yz[2]] :
                       x \in Byte \ {1}, yz \in {<<0, 0>>, <<1, 0>>, <<1, 3>>}}

In(s, f) == Object(s :> Object(f))
MCMutations ==
    {In(TO, "f" :> Num(n)) : n \in {-1, 0, 2, 5, 18, 32767}}
    \cup {In(TO, "f" :> Text(b)) : b \in {<<1>>, <<2, 3>>, <<1, 2, 3>>}}
    \cup {In(TO, "f" :> Frac(1)), In(TO, "z" :> Num(1)), In(FROM, "n" :> Num(1)),
          In(TO, "f" :> Object("b" :> Flag(TRUE))), In(TO, "f" :> Object("b" :> Num(2))),
          In(TO, "f" :> List(<<Object("a" :> Num(1)), Object("b" :> Flag(TRUE))>>)),
          In(TO, "f" :> List(<<Object("a" :> Num(1))>>)),
          Object(TO :> Object("z" :> Num(5)) @@ RETAIN :> Object("z" :> Num(1)))}

MCLexicalOrder == KeyOrder \o <<"a", "b", "ctr", "f", "n", "z", "z,f">>
MCAsked == {
    <<SchemaTag(TO), SchemaTag(RETAIN)>>,
    <<SchemaObj(TO, <<SchemaTag("f"), SchemaTag("z")>>)>>,
    <<SchemaObj(RETAIN, <<SchemaTag("z")>>),
      SchemaObj(TO, <<SchemaObj("f", <<SchemaTag("b")>>), SchemaTag("z")>>)>>,
    <<SchemaObj(TO, <<SchemaTag("z")>>),
      SchemaObj(TO, <<SchemaTag("n"), SchemaTag("ctr")>>)>>,
    <<SchemaObj(TO, <<SchemaTag("z"), SchemaObj("f", <<SchemaTag("b")>>), SchemaTag("ctr")>>)>>,
    <<SchemaTag(RETAIN), SchemaObj(TO, <<SchemaTag("z")>>)>>}
=============================================================================
