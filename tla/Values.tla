------------------------------ MODULE Values ------------------------------
(***************************************************************************)
(* Helm values, as the server handles them: nested maps whose leaves are   *)
(* scalars or lists (internal/adapter/outbound/oci/composer.go,            *)
(* internal/application/deployment/resources.go and                        *)
(* internal/adapter/outbound/policy/allowlist.go).                         *)
(*                                                                         *)
(* A tree is the function from the paths that are present to what is       *)
(* there: Map at an inner node or an empty map, anything else at a leaf.   *)
(* A path is a sequence of keys.  A key may itself contain dots, which the *)
(* dotted notation of the allowlist does not tell from nesting.            *)
(***************************************************************************)
EXTENDS Sequences, SequencesExt, Integers

CONSTANTS
  Keys,        \* what a map may be keyed by
  DottedKeys   \* function from the keys that contain dots to their segments

ASSUME KeysAssumption ==
  /\ {"sqldatabase", "enabled", "environment", "databases", "sql",
      "postgres", "bindBuildingBlock", "instanceName"} \subseteq Keys
  /\ \A k \in DOMAIN DottedKeys : DottedKeys[k] \in Seq(Keys)

Map == <<"map">>
Scalar(v) == <<"scalar", v>>
List(s) == <<"list", s>>

\* The empty overlay; a nil map is one too.
Empty == [p \in {} |-> Map]

\* Every proper prefix of a path that is present is a map.
IsTree(t) ==
  \A p \in DOMAIN t :
    /\ p \in Seq(Keys)
    /\ p # <<>>
    /\ \A n \in 1 .. Len(p) - 1 :
         SubSeq(p, 1, n) \in DOMAIN t /\ t[SubSeq(p, 1, n)] = Map

\* valuesHavePath: a path counts as soon as its last segment is present, even
\* with an empty value.
HasPath(t, p) == p \in DOMAIN t

\* deepMerge: high wins, maps are merged, and a leaf of high replaces all that
\* low has at and beneath its path.
Merge(low, high) ==
  LET kept == {p \in DOMAIN low :
                 \A q \in DOMAIN high : IsStrictPrefix(q, p) => high[q] = Map}
  IN  [p \in kept \cup DOMAIN high |-> IF p \in DOMAIN high THEN high[p] ELSE low[p]]

Segments(k) == IF k \in DOMAIN DottedKeys THEN DottedKeys[k] ELSE <<k>>

\* A path in dotted notation, cut at its dots.
Dotted(p) == FlattenSeq([n \in DOMAIN p |-> Segments(p[n])])

\* Mutation: a map is never a leaf, so an empty one is not seen.
FlattenScalars(t) == {Dotted(p) : p \in {q \in DOMAIN t : t[q] # Map}}

\* flattenKeys: the leaves, an empty map being one.
FlattenKeys(t) ==
  {Dotted(p) : p \in {q \in DOMAIN t : \A r \in DOMAIN t : ~IsStrictPrefix(q, r)}}
===========================================================================
