----------------------------- MODULE SchemaText -----------------------------
(***************************************************************************)
(* The parser of what a websocket client asks for (schema_parser in        *)
(* json_diff.rs), on texts whose characters are names and the tokens       *)
(* "{", "}" and ",".  A parser gives the set of its results, each what it  *)
(* found and the rest of the text: one, or none when it fails, which       *)
(* schema_parser does not survive (the session's thread panics).           *)
(***************************************************************************)
EXTENDS JsonTrees

SUBSCRIPTION == "SUBSCRIPTION"

First(c, token) == SX!SelectInSeq(c, LAMBDA x : x = token)
Before(c, i) == SubSeq(c, 1, i - 1)
FromOn(c, i) == SubSeq(c, i, Len(c))
Occurrences(c, token) == Len(SelectSeq(c, LAMBDA x : x = token))
Depth(c) == Occurrences(c, "{") - Occurrences(c, "}")
Joined(c) == SX!FoldLeft(LAMBDA s, token : s \o token, "", c)

RECURSIVE ObjParser(_), Elements(_)

\* value_tag_parser: up to a comma, or a closing brace, or the end.
ValueTagParser(c) ==
    LET comma == First(c, ",")
        brace == First(c, "{")
        close == First(c, "}")
        end == IF comma > 0 THEN comma ELSE IF close > 0 THEN close ELSE Len(c) + 1
    IN  IF Depth(c) <= 0 /\ (brace = 0 \/ comma \in 1..(brace - 1))
        THEN {<<SchemaTag(Joined(Before(c, end))), FromOn(c, end)>>}
        ELSE {}

\* value_obj_parser: all that stands before the brace is the name, commas included.
ValueObjParser(c) ==
    LET brace == First(c, "{") IN
    IF brace = 0 THEN {}
    ELSE {<<SchemaObj(Joined(Before(c, brace)), inner[1]), inner[2]>> :
             inner \in ObjParser(FromOn(c, brace))}

ValueAlt(c) == IF ValueObjParser(c) # {} THEN ValueObjParser(c) ELSE ValueTagParser(c)

\* separated_list: what cannot be parsed ends it.
Elements(c) ==
    IF ValueAlt(c) = {} THEN {<<>>}
    ELSE UNION {{<<one[1]>> \o rest :
                   rest \in IF one[2] # <<>> /\ one[2][1] = "," THEN Elements(Tail(one[2]))
                            ELSE {<<>>}} : one \in ValueAlt(c)}

\* A list whose first element takes nothing from the text is an error, the empty
\* list of a text with nothing to parse in it is none.
ValueParser(c) == IF \E one \in ValueAlt(c) : one[2] = c THEN {} ELSE Elements(c)

\* obj_parser: the brace that closes the first one; what follows the list before
\* it is ignored.
ClosingLast(c) == SX!SelectLastInSeq(c, LAMBDA token : token = "}")
Closing(c) ==
    SX!SelectInSubSeq([i \in DOMAIN c |-> Depth(SubSeq(c, 1, i))], 1, Len(c), LAMBDA d : d = 0)
ObjParser(c) ==
    IF c = <<>> \/ c[1] # "{" \/ Closing(c) = 0 THEN {}
    ELSE {<<list, FromOn(c, Closing(c) + 1)>> :
             list \in ValueParser(SubSeq(c, 2, Closing(c) - 1))}

\* schema_parser, on a text of twelve characters at least.
SchemaParser(c) ==
    LET subscribes == c # <<>> /\ c[1] = SUBSCRIPTION
        at == First(c, "{")
    IN  {<<IF subscribes THEN "subscription" ELSE "resolve", obj[1]>> :
            obj \in ObjParser(IF subscribes /\ at > 0 THEN FromOn(c, at) ELSE c)}

-----------------------------------------------------------------------------
\* The text of a schema, as a client writes it.

RECURSIVE Written(_)
WrittenNode(n) == IF n.kind = "tag" THEN <<n.name>> ELSE <<n.name>> \o Written(n.nodes)
Written(nodes) ==
    <<"{">> \o SX!FoldLeft(LAMBDA c, n : c \o (IF c = <<>> THEN <<>> ELSE <<",">>) \o WrittenNode(n),
                           <<>>, nodes)
            \o <<"}">>

\* What the parser makes of it: an object takes the tags before it as its name.
RECURSIVE Understood(_)
Understood(nodes) ==
    LET at == SX!SelectInSeq(nodes, LAMBDA n : n.kind = "obj")
        name == SX!FoldLeft(LAMBDA s, n : s \o (IF s = "" THEN "" ELSE ",") \o n.name,
                            "", SubSeq(nodes, 1, at))
    IN  IF at = 0 THEN nodes
        ELSE <<SchemaObj(name, Understood(nodes[at].nodes))>>
             \o Understood(SubSeq(nodes, at + 1, Len(nodes)))
=============================================================================
