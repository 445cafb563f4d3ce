------------------------------ MODULE JsonDiff ------------------------------
(***************************************************************************)
(* The schemas of json_diff.rs as the multiplexer meets them: a websocket  *)
(* client names whole structures (Tag) or fields of one (Obj), and a       *)
(* second subscription of the same client is merged into the first.  The   *)
(* fields named in an Obj are leaves.  A list of nodes stands for          *)
(* Schema::Root of these nodes.                                            *)
(***************************************************************************)
EXTENDS AdsStructs, Sequences
SX == INSTANCE SequencesExt

Tag(s) == [kind |-> "tag", name |-> s]
Obj(s, tags) == [kind |-> "obj", name |-> s, tags |-> tags]
\* What merging an Obj into an Obj of another structure leaves: a Root in a Root.
Nested(m, n) == [kind |-> "root", pair |-> <<m, n>>]

TagsOf(n) == {n.tags[i] : i \in DOMAIN n.tags}

-----------------------------------------------------------------------------
\* merge_schemas.

EqualOnce(a, b) == IF a = b THEN <<a>> ELSE <<a, b>>

MergeTags(f, g) ==
    SX!FlattenSeq([i \in DOMAIN SX!Zip(f, g) |-> EqualOnce(f[i], g[i])])

\* The match of merge_schemas ends in unreachable!() for every other pair.
Mergeable(m, n) == m.kind = n.kind /\ m.kind \in {"tag", "obj"}

MergeNodes(m, n) ==
    CASE m.kind = "tag"                      -> EqualOnce(m, n)
      [] m.kind = "obj" /\ m.name = n.name   -> <<Obj(m.name, MergeTags(m.tags, n.tags))>>
      [] m.kind = "obj" /\ m.name # n.name   -> <<Nested(m, n)>>

\* zip stops with the shorter list, flat_map concatenates.
CanMerge(v, w) == \A i \in DOMAIN v \cap DOMAIN w : Mergeable(v[i], w[i])
MergeSchemas(v, w) ==
    SX!FlattenSeq([i \in DOMAIN SX!Zip(v, w) |-> MergeNodes(v[i], w[i])])

-----------------------------------------------------------------------------
\* as_schema and is_empty, on an object whose only key is s.

\* is_empty looks at the first key of an object only.
FirstByKey(n) == IF KeyBefore(n.pair[1].name, n.pair[2].name) THEN n.pair[1] ELSE n.pair[2]

\* The part of a node that the update of structure s makes non-empty.
Shown(n) ==
    CASE n.kind = "tag"  -> n.name
      [] n.kind = "obj"  -> n.name
      [] n.kind = "root" -> FirstByKey(n).name

\* The fields of s that a notice for node n carries, Fields being all of them.
Carried(n, Fields) ==
    CASE n.kind = "tag"  -> Fields
      [] n.kind = "obj"  -> TagsOf(n)
      [] n.kind = "root" -> TagsOf(FirstByKey(n))
=============================================================================
