----------------------------- MODULE JsonTrees -----------------------------
(***************************************************************************)
(* JSON values of any depth under schemas of any depth (json_diff.rs):     *)
(* merging a mutation into a structure, what a schema takes from a value,  *)
(* what a Resolve answers.  A schema is the list of nodes of a Root.       *)
(***************************************************************************)
EXTENDS AdsTypes

CONSTANT LexicalOrder   \* the keys in the order in which serde_json keeps them

SchemaTag(name) == [kind |-> "tag", name |-> name]
SchemaObj(name, nodes) == [kind |-> "obj", name |-> name, nodes |-> nodes]

\* What a map collected from <<key, value>> pairs holds: the last of a key stays.
Collected(pairs) ==
    [key \in {pairs[i][1] : i \in DOMAIN pairs} |->
        pairs[SX!SelectLastInSeq(pairs, LAMBDA p : p[1] = key)][2]]

Kinds == [num |-> "number", frac |-> "number", text |-> "text", flag |-> "flag",
          null |-> "null", object |-> "object", list |-> "list", bad |-> "bad"]
Alike(v, w) == Kinds[v.k] = Kinds[w.k] /\ v.k # "bad"

RECURSIVE Merge(_, _), AsSchema(_, _), IsEmpty(_), Ruined(_), LeavesOf(_)

\* merge: keys of the data alone are dropped, arrays end with the shorter one,
\* values of unlike kinds are unreachable!().
Merge(schema, v) ==
    IF ~Alike(schema, v) THEN Bad
    ELSE CASE schema.k = "object"  ->
                Object([key \in DOMAIN schema.of |->
                    IF Has(v, key) THEN Merge(schema.of[key], v.of[key]) ELSE schema.of[key]])
           [] schema.k = "list"    ->
                List([i \in DOMAIN SX!Zip(schema.of, v.of) |-> Merge(schema.of[i], v.of[i])])
           [] OTHER                -> v

Ruined(v) ==
    \/ v.k = "bad"
    \/ v.k \in {"object", "list"} /\ \E step \in DOMAIN v.of : Ruined(v.of[step])

\* as_schema: nothing, or one value.  An Obj answers an object whose only key is
\* its name, and an Obj inside it is put under its name once more.
NodesOf(nodes, v) ==
    LET found == SelectSeq(nodes, LAMBDA n : AsSchema(n, v) # <<>>)
    IN  Object(Collected([i \in DOMAIN found |-> <<found[i].name, AsSchema(found[i], v)[1]>>]))
AsSchema(n, v) ==
    CASE n.kind = "tag" /\ Has(v, n.name)  -> <<v.of[n.name]>>
      [] n.kind = "tag" /\ ~Has(v, n.name) -> <<>>
      [] n.kind = "obj"                    -> <<Object(n.name :> NodesOf(n.nodes, Index(v, n.name)))>>

\* merge_values: the objects among the values, a later key over an earlier one.
MergeValues(values) ==
    IF values = <<>> THEN Null
    ELSE Object(SX!FoldLeft(LAMBDA map, v : IF v.k = "object" THEN v.of @@ map ELSE map,
                            [key \in {} |-> Null], values))

\* is_empty: the first key alone decides.
FirstKey(map) == LexicalOrder[SX!SelectInSeq(LexicalOrder, LAMBDA key : key \in DOMAIN map)]
IsEmptyShallow(v) == v.k \in {"object", "list"} /\ DOMAIN v.of = {}
IsEmpty(v) ==
    \/ v.k \in {"object", "list"} /\ DOMAIN v.of = {}
    \/ v.k = "object" /\ DOMAIN v.of # {} /\ IsEmpty(v.of[FirstKey(v.of)])

\* The leaves of a value with their paths, as SlotsOf names them.
LeavesOf(v) ==
    IF v.k \in {"object", "list"}
    THEN UNION {{[leaf EXCEPT !.path = <<IF v.k = "list" THEN ToString(step) ELSE step>> \o @] :
                   leaf \in LeavesOf(v.of[step])} : step \in DOMAIN v.of}
    ELSE {[path |-> <<>>, value |-> v]}
=============================================================================
