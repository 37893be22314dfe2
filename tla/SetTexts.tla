------------------------------ MODULE SetTexts ------------------------------
(***************************************************************************)
(* The text of values that a chart is rendered with: the dedicated flags,  *)
(* what --set addresses to the chart, and what gtctl itself appends.       *)
(*                                                                         *)
(* The text of --set is a sequence of assignments between commas; Empty is *)
(* the empty text between two of them or after the last one.  Texts with   *)
(* anything else than assignments are errors and left out.  The parsing of *)
(* the text is Helm's (strvals): external.                                 *)
(***************************************************************************)
EXTENDS Naturals, Sequences

CONSTANTS
    ValueKeys,      \* the keys of values
    ValueTexts      \* what can be assigned to a key

Charts == {"operator", "cluster", "etcd"}

Set(k, v) == [key |-> k, val |-> v]
Empty == Set("", "")

ASSUME SetTextsAssumption == "" \notin ValueKeys

\* What stands between two commas.
Assignments == [key : ValueKeys, val : ValueTexts] \cup {Empty}

\* A piece of --set: the prefix that its key begins with, "" for what is not
\* the name of a chart.
SetPieces == [prefix : Charts \cup {""}, set : Assignments]

-----------------------------------------------------------------------------
(* Faulty variants of definitions below *)

\* What has no prefix goes to no chart.
TargetByPrefix(piece) == piece.prefix

-----------------------------------------------------------------------------
(* SetValues.Parse *)

\* The chart a piece of --set is addressed to: what has no prefix of a chart
\* goes to the cluster.
Target(piece) == IF piece.prefix \in Charts THEN piece.prefix ELSE "cluster"

\* What the first pieces give to a chart, with the prefix taken off.
Routed(pieces, chart) ==
    LET upTo[k \in 0 .. Len(pieces)] ==
            IF k = 0 THEN <<>>
            ELSE IF Target(pieces[k]) = chart THEN Append(upTo[k - 1], pieces[k].set)
            ELSE upTo[k - 1]
    IN  upTo

\* The config of a chart.
ConfigOf(pieces, chart) == Routed(pieces, chart)[Len(pieces)]

-----------------------------------------------------------------------------
(* What create appends *)

\* RBAC of etcd is switched off, and with artifacts from CN the registry is
\* set, unless there is a flag for it.
Suffix(chart, flags, cn) ==
    LET mirror == cn /\ \A k \in DOMAIN flags : flags[k].key # "image.registry"
        rbac == IF chart = "etcd"
                THEN <<Set("auth.rbac.create", "false"), Set("auth.rbac.token.enabled", "false")>>
                ELSE <<>>
        registry == IF mirror THEN <<Set("image.registry", "cn")>> ELSE <<>>
        initializer == IF mirror /\ chart = "cluster"
                       THEN <<Set("initializer.registry", "cn")>> ELSE <<>>
    IN  IF rbac \o registry = <<>> THEN <<>> ELSE rbac \o registry \o initializer \o <<Empty>>

Last(text)  == text[Len(text)]
Front(text) == SubSeq(text, 1, Len(text) - 1)

\* The text is appended without a comma: the last value and the first
\* assignment of the suffix become one value.
Glued(text) == text # <<>> /\ Last(text) # Empty

Plus(text, suffix) ==
    IF text = <<>> \/ suffix = <<>> THEN text \o suffix
    ELSE IF Glued(text)
    THEN Front(text) \o <<Set(Last(text).key, "garbled")>> \o Tail(suffix)
    ELSE Front(text) \o suffix

-----------------------------------------------------------------------------
(* struct2Values *)

\* The flags come before the config, in the order of the struct's fields.
Text(flags, pieces, chart, cn) == flags \o Plus(ConfigOf(pieces, chart), Suffix(chart, flags, cn))

\* An empty assignment that another one follows is an error; of two for one
\* key the later one counts.
Parses(text) == \A k \in 1 .. Len(text) - 1 : text[k] # Empty

KeysIn(text) == {text[k].key : k \in DOMAIN text} \ {""}

Parsed(text) ==
    [key \in KeysIn(text) |->
        text[CHOOSE k \in DOMAIN text :
                text[k].key = key /\ \A j \in DOMAIN text : text[j].key = key => j <= k].val]

-----------------------------------------------------------------------------
(* Properties *)

\* The last assignment to key in a text gives it the value val.
EndsAs(text, key, val) ==
    \E k \in DOMAIN text :
        /\ text[k] = Set(key, val)
        /\ \A j \in DOMAIN text : text[j].key = key => j <= k

\* The last of the pieces for the chart that assign to key gives it the value
\* val: the chart's own pieces, and for the cluster those without a prefix.
Mine(piece, chart) == piece.prefix = chart \/ (chart = "cluster" /\ piece.prefix = "")

SetTo(pieces, chart, key, val) ==
    \E k \in DOMAIN pieces :
        /\ Mine(pieces[k], chart) /\ pieces[k].set = Set(key, val)
        /\ \A j \in DOMAIN pieces : Mine(pieces[j], chart) /\ pieces[j].set.key = key => j <= k

KeysSet(pieces, chart) ==
    {pieces[k].set.key : k \in {j \in DOMAIN pieces : Mine(pieces[j], chart)}} \ {""}

\* What gtctl appends counts before what --set says for the chart, of which
\* the last counts, and that before the flags: for every key, unless the text
\* of --set runs into what is appended (create.go appends to ConfigValues,
\* values.go keeps the order).
SetWins(pieces, flags, chart, cn) ==
    LET suffix == Suffix(chart, flags, cn)
        text   == Text(flags, pieces, chart, cn)
        values == Parsed(text)
    IN  (Parses(text) /\ (suffix = <<>> \/ ~Glued(ConfigOf(pieces, chart)))) =>
            /\ DOMAIN values = KeysIn(flags) \cup KeysSet(pieces, chart) \cup KeysIn(suffix)
            /\ \A key \in DOMAIN values :
                   IF key \in KeysIn(suffix) THEN EndsAs(suffix, key, values[key])
                   ELSE IF key \in KeysSet(pieces, chart)
                   THEN SetTo(pieces, chart, key, values[key])
                   ELSE EndsAs(flags, key, values[key])

-----------------------------------------------------------------------------
(* What the help text of the flag says, and the code does not do *)

\* cluster_create.go: "set values on the command line for greptimedb cluster,
\* etcd and operator ... eg. cluster.key1=val1,etcd.key2=val2": a key that
\* --set gives a value, and that gtctl itself does not set, has this value.
SetCounts(pieces, flags, chart, cn) ==
    LET text == Text(flags, pieces, chart, cn)
    IN  Parses(text) =>
            \A key \in KeysSet(pieces, chart) \ KeysIn(Suffix(chart, flags, cn)) :
                SetTo(pieces, chart, key, Parsed(text)[key])
=============================================================================
