------------------------ MODULE MCAdsToWsMultiplexer ------------------------
(* AdsToWsMultiplexer for TLC: structures of three fields, the second of
   ST_ADS_TO_BC being the heartbeat counter, the third with a subrange. *)
EXTENDS AdsToWsMultiplexer, TLC

MCLimit == <<MaxValue, MaxValue, 1>>
NoLimit == [c \in Fields |-> MaxValue]
Row(v) == [c \in Fields |-> v]
MCPlcRows == {Row(MaxValue)}

NoMutations == {}
\* After the counter; of both structures at once; of a value of another type.
MirrorMutations == {TO :> (3 :> 2), (TO :> (1 :> 1)) @@ (RETAIN :> (3 :> 2)),
                    RETAIN :> (1 :> Mistyped)}

NoResolves == {}
PairResolve == {<<TO, RETAIN>>}
BothResolves == {<<TO>>, <<TO, RETAIN>>}

NoPushes == {}
NoSchemas == {}
\* One structure by its fields, in two ways; two structures at once; a Tag.
ObjSchemas == {<<Obj(TO, <<1>>)>>, <<Obj(TO, <<2, 1>>), Obj(FROM, <<1>>)>>}
TagSchemas == {<<Tag(TO)>>, <<Obj(TO, <<1>>)>>}
ThreeSchemas == {<<Obj(TO, <<1>>)>>, <<Obj(RETAIN, <<1>>)>>}

NotifyMutations == {TO :> (1 :> 0), RETAIN :> (1 :> 0)}
FromMutations == {FROM :> (1 :> 1)}

\* The PLC sends prefixes of its structure; what lies behind its first field, of
\* which the handler keeps one byte at the wrong place or, when both are the same,
\* at the right one; and a byte so far behind that the slice fails.
Push(off, bytes) == [off |-> off, bytes |-> bytes]
ShortPushes == {Push(0, <<1>>)}
AllPushes == {Push(0, <<1>>), Push(0, <<1, 1, 2>>), Push(1, <<2, 1>>), Push(1, <<2, 2>>),
              Push(2, <<1>>)}
=============================================================================
