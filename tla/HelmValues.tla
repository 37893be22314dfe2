----------------------------- MODULE HelmValues -----------------------------
(***************************************************************************)
(* The merge of the values that a chart's text gives into those of the     *)
(* values file: maps from keys to leaves and further maps.                 *)
(***************************************************************************)
EXTENDS Naturals, Sequences

CONSTANTS
    Keys,       \* the keys of the maps
    Leaves,     \* what stands at a key that is no map
    Depth       \* how many levels of maps there are

ASSUME HelmValuesAssumption == Depth \in Nat /\ "nothing" \notin Leaves

Leaf(v) == [map |-> FALSE, val |-> v]
Map(f)  == [map |-> TRUE, at |-> f]
Nothing == Leaf("nothing")

Partial(S) == UNION {[D -> S] : D \in SUBSET Keys}

\* The maps of at most d levels.
MapsTo[d \in 0 .. Depth] ==
    IF d = 0 THEN {}
    ELSE Partial({Leaf(v) : v \in Leaves} \cup {Map(f) : f \in MapsTo[d - 1]})

-----------------------------------------------------------------------------
(* Faulty variants of definitions below *)

\* Maps are replaced, not merged.
ReplaceMaps(a, b, inner) ==
    [k \in DOMAIN a \cup DOMAIN b |-> IF k \in DOMAIN b THEN b[k] ELSE a[k]]

-----------------------------------------------------------------------------
(* mergeMaps *)

\* What a call does with its two maps; inner is the call on the maps inside.
Over(a, b, inner) ==
    [k \in DOMAIN a \cup DOMAIN b |->
        IF k \notin DOMAIN b THEN a[k]
        ELSE IF k \in DOMAIN a /\ a[k].map /\ b[k].map
        THEN Map(inner[<<a[k].at, b[k].at>>])
        ELSE b[k]]

MergeMaps[d \in 0 .. Depth] ==
    IF d = 0 THEN <<>>
    ELSE [ab \in MapsTo[d] \X MapsTo[d] |-> Over(ab[1], ab[2], MergeMaps[d - 1])]

\* Without a values file the base is the empty map.
ToHelmValues(base, vals) == MergeMaps[Depth][<<base, vals>>]

-----------------------------------------------------------------------------
(* Properties *)

\* What each beginning of a path leads to.
Along(f, p) ==
    LET node[i \in 0 .. Len(p)] ==
            IF i = 0 THEN Map(f)
            ELSE IF node[i - 1].map /\ p[i] \in DOMAIN node[i - 1].at
            THEN node[i - 1].at[p[i]]
            ELSE Nothing
    IN  node

IsLeaf(x) == x # Nothing /\ ~x.map

\* After a merge, a path leads where it does in vals: to the same leaf, or to
\* a map as well; and if to nothing there, where it does in base, unless vals
\* has a leaf in its way.
MergedAt(base, vals, p) ==
    LET n == Len(p)
        b == Along(base, p)
        v == Along(vals, p)
        m == Along(ToHelmValues(base, vals), p)
    IN  IF v[n] # Nothing THEN m[n].map = v[n].map /\ (v[n].map \/ m[n] = v[n])
        ELSE IF \E j \in 0 .. n - 1 : IsLeaf(v[j]) THEN m[n] = Nothing
        ELSE m[n] = b[n]

\* Of every path through the maps (values.go: maps are merged recursively, and
\* the input's value is used when both have the key).
MergesByPath(base, vals) ==
    \A p \in UNION {[1 .. n -> Keys] : n \in 1 .. Depth} : MergedAt(base, vals, p)
=============================================================================
