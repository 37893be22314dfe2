----------------------------- MODULE ChartIndex -----------------------------
(***************************************************************************)
(* The latest version of a chart, from the repository's index: its list of *)
(* entries is cleaned of the invalid ones, sorted, and its head taken.     *)
(*                                                                         *)
(* An entry is nil, or has metadata: a version (zero: one that cannot be   *)
(* parsed), and the rest of it valid or not.  One that lists none of the   *)
(* metadata's fields is bare: its pointer to them is nil.  Each may have   *)
(* download URLs.                                                          *)
(***************************************************************************)
EXTENDS Naturals, Sequences

Nil == [version |-> 0, urls |-> FALSE, rest |-> FALSE, nil |-> TRUE, meta |-> FALSE]

Bare(urls) == [version |-> 0, urls |-> urls, rest |-> FALSE, nil |-> FALSE, meta |-> FALSE]

Entry(v, urls, rest) ==
    [version |-> v, urls |-> urls, rest |-> rest, nil |-> FALSE, meta |-> TRUE]

\* What an index may list.
IndexEntries ==
    {Nil, Bare(TRUE), Bare(FALSE)}
        \cup [version : Nat, urls : BOOLEAN, rest : BOOLEAN, nil : {FALSE}, meta : {TRUE}]

\* The scan reads the metadata of every entry that is not nil.
HasBare(entries) == \E k \in DOMAIN entries : ~entries[k].nil /\ ~entries[k].meta

Valid(e) == ~e.nil /\ e.version > 0 /\ e.rest

-----------------------------------------------------------------------------
(* Faulty variants of definitions below *)

\* The entry after the invalid one is cut out, too.
CutTwo(s, i) ==
    [arr |-> [k \in DOMAIN s.arr |-> IF i <= k /\ k + 2 <= s.len THEN s.arr[k + 2] ELSE s.arr[k]],
     len |-> s.len - 1]

\* The list is sorted upwards.
SmallestVersion(arr) ==
    CHOOSE v \in {arr[k].version : k \in DOMAIN arr} :
        \A k \in DOMAIN arr : v <= arr[k].version

-----------------------------------------------------------------------------
(***************************************************************************)
(* A slice of length len over the array arr.  append(cvs[:i], cvs[i+1:]...) *)
(* moves what follows i one place down, in the array, and the place that   *)
(* gets free keeps what it holds.                                          *)
(***************************************************************************)
Cut(s, i) ==
    [arr |-> [k \in DOMAIN s.arr |-> IF i <= k /\ k < s.len THEN s.arr[k + 1] ELSE s.arr[k]],
     len |-> s.len - 1]

\* Nil entries are skipped and invalid ones cut; a bare one ends the program,
\* see Latest.
CleanAt(s, i) == IF s.arr[i].nil \/ Valid(s.arr[i]) THEN s ELSE Cut(s, i)

\* The slice after the entries from i on have been looked at, from the end to
\* the front.
Scan(entries) ==
    LET n == Len(entries)
        from[i \in 1 .. n + 1] ==
            IF i = n + 1 THEN [arr |-> entries, len |-> n] ELSE CleanAt(from[i + 1], i)
    IN  from

\* The shortened slice is the loop's own: the index keeps the array at its
\* full length.
Clean(entries) == Scan(entries)[1].arr

LargestVersion(arr) ==
    CHOOSE v \in {arr[k].version : k \in DOMAIN arr} :
        \A k \in DOMAIN arr : arr[k].version <= v

\* What the sort may put at the head: it dereferences every entry, as the scan
\* has the metadata of those that are not nil, and entries of one version come
\* in any order.
Latest(entries) ==
    LET arr == Clean(entries)
        heads == {arr[k] : k \in {j \in DOMAIN arr : arr[j].version = LargestVersion(arr)}}
    IN  IF HasBare(entries) THEN {<<"panic", Nil>>}
        ELSE IF entries = <<>> THEN {<<"empty", Nil>>}
        ELSE IF \E k \in DOMAIN arr : arr[k].nil THEN {<<"panic", Nil>>}
        ELSE {<<IF e.urls THEN "ok" ELSE "no URLs", e>> : e \in heads}

-----------------------------------------------------------------------------
(* Properties of an index *)

ValidOnes(s) == {s[k] : k \in {j \in DOMAIN s : Valid(s[j])}}

Invalid(e) == ~e.nil /\ ~Valid(e)

\* Cleaning a list without bare entries loses no valid one, and of the invalid
\* ones leaves at most those that only invalid ones follow (chartIndexFile moves
\* entries within the array it scans; an entry with nothing to its right is not
\* overwritten).
CleanKeepsValid(entries) ==
    ~HasBare(entries) =>
        /\ ValidOnes(Clean(entries)) = ValidOnes(entries)
        /\ \A k \in DOMAIN Clean(entries) :
               Invalid(Clean(entries)[k]) =>
                   \E i \in DOMAIN entries :
                       /\ Clean(entries)[k] = entries[i]
                       /\ \A j \in i .. Len(entries) : Invalid(entries[j])

\* The latest version of a chart is the highest valid one, as long as the list
\* has neither nil nor bare entries and its last one is valid
\* (latestChartVersion takes the head of the sorted list).
LatestIsHighest(entries) ==
    (entries # <<>> /\ Valid(entries[Len(entries)]) /\ ~HasBare(entries)
       /\ \A k \in DOMAIN entries : ~entries[k].nil) =>
        \A r \in Latest(entries) :
            /\ r[1] \in {"ok", "no URLs"}
            /\ r[2] \in ValidOnes(entries)
            /\ \A e \in ValidOnes(entries) : e.version <= r[2].version
=============================================================================
