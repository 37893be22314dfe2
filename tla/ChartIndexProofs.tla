-------------------------- MODULE ChartIndexProofs --------------------------
(***************************************************************************)
(* The latest version in a chart index of any length: proofs.              *)
(*                                                                         *)
(* The scan of chartIndexFile is a recursive function on the positions of  *)
(* the index.  Induction is stated for sets: a set of positions that holds *)
(* the last one, and with each its predecessor, holds them all.            *)
(***************************************************************************)
EXTENDS ChartIndex, WellFoundedInduction, TLAPS

-----------------------------------------------------------------------------
(* Induction *)

\* Every set of numbers has a least one.
LEMMA LeastNumber ==
    ASSUME NEW T \in SUBSET Nat, T # {}
    PROVE  \E n \in T : \A m \in T : n <= m
<1> DEFINE R == OpToRel(<, Nat)
<1>1. IsWellFoundedOn(R, Nat)
  BY NatLessThanWellFounded, Zenon
<1>2. PICK n \in T : \A m \in T : <<m, n>> \notin R
  <2> HIDE DEF R
  <2> QED BY <1>1, WFMin
<1>3. \A m \in T : ~(m < n)
  BY <1>2 DEF OpToRel
<1> QED BY <1>3

\* What holds at a, and goes from each number to the next one, holds up to b.
LEMMA Upwards ==
    ASSUME NEW a \in Nat, NEW b \in Nat, NEW T,
           a \in T, \A i \in a .. b : i \in T /\ i < b => i + 1 \in T
    PROVE  \A i \in a .. b : i \in T
<1> DEFINE Bad == {i \in a .. b : i \notin T}
<1>1. SUFFICES ASSUME Bad # {} PROVE FALSE
  OBVIOUS
<1>2. PICK k \in Bad : \A m \in Bad : k <= m
  <2>1. Bad \in SUBSET Nat
    OBVIOUS
  <2> HIDE DEF Bad
  <2> QED BY <1>1, <2>1, LeastNumber
<1>3. k \in a .. b /\ k \notin T /\ k # a
  OBVIOUS
<1>4. k - 1 \in a .. b /\ k - 1 < k
  BY <1>3
<1>5. k - 1 \in T
  BY <1>2, <1>4
<1> QED BY <1>3, <1>4, <1>5

\* What holds at b, and goes from each number to the one before, holds down to
\* a.
LEMMA Downwards ==
    ASSUME NEW a \in Nat, NEW b \in Nat, NEW T,
           b \in T, \A i \in a .. b : i + 1 \in T /\ i < b => i \in T
    PROVE  \A i \in a .. b : i \in T
<1> DEFINE U == {d \in Nat : b - d \in T}
<1>1. CASE a <= b
  <2>1. \A d \in 0 .. b - a : d \in U
    <3>1. 0 \in Nat /\ b - a \in Nat /\ 0 \in U
      BY <1>1
    <3>2. ASSUME NEW d \in 0 .. b - a, d \in U, d < b - a PROVE d + 1 \in U
      <4>1. b - (d + 1) \in a .. b /\ (b - (d + 1)) + 1 = b - d /\ b - (d + 1) < b
        BY <1>1, <3>2
      <4>2. b - (d + 1) \in T
        BY <3>2, <4>1
      <4> QED BY <3>2, <4>2
    <3> HIDE DEF U
    <3> QED BY <3>1, <3>2, Upwards
  <2>2. ASSUME NEW i \in a .. b PROVE i \in T
    <3>1. b - i \in 0 .. b - a /\ b - (b - i) = i
      BY <1>1
    <3> QED BY <2>1, <3>1
  <2> QED BY <2>2
<1>2. CASE a > b
  BY <1>2
<1> QED BY <1>1, <1>2
-----------------------------------------------------------------------------
(* The scan *)

\* A function on the positions down to m that is built like the scan.
ScansFrom(entries, m, g) ==
    g = [i \in m .. Len(entries) + 1 |->
            IF i = Len(entries) + 1 THEN [arr |-> entries, len |-> Len(entries)]
            ELSE CleanAt(g[i + 1], i)]

\* There is such a function, and Scan is one.
LEMMA ScanIsDefined ==
    ASSUME NEW entries \in Seq(IndexEntries)
    PROVE  ScansFrom(entries, 1, Scan(entries))
<1> DEFINE n == Len(entries)
           T == {m \in 1 .. n + 1 : \E g : ScansFrom(entries, m, g)}
<1>1. n \in Nat
  OBVIOUS
<1>2. n + 1 \in T
  <2>1. [i \in n + 1 .. n + 1 |-> [arr |-> entries, len |-> n]]
            = [i \in n + 1 .. n + 1 |->
                  IF i = n + 1 THEN [arr |-> entries, len |-> n]
                  ELSE CleanAt([j \in n + 1 .. n + 1 |-> [arr |-> entries, len |-> n]][i + 1], i)]
    BY <1>1
  <2>2. \E g : ScansFrom(entries, n + 1, g)
    BY <2>1 DEF ScansFrom
  <2> QED BY <1>1, <2>2
<1>3. ASSUME NEW i \in 1 .. n + 1, i + 1 \in T, i < n + 1 PROVE i \in T
  <2>1. PICK g : ScansFrom(entries, i + 1, g)
    BY <1>3
  <2> DEFINE h == [j \in i .. n + 1 |-> IF j = i THEN CleanAt(g[i + 1], i) ELSE g[j]]
  <2>2. \A j \in i .. n + 1 : h[j] = IF j = n + 1 THEN [arr |-> entries, len |-> n]
                                     ELSE CleanAt(h[j + 1], j)
    <3>1. SUFFICES ASSUME NEW j \in i .. n + 1
                   PROVE  h[j] = IF j = n + 1 THEN [arr |-> entries, len |-> n]
                                 ELSE CleanAt(h[j + 1], j)
      OBVIOUS
    <3>2. CASE j = n + 1
      BY <1>1, <1>3, <2>1, <3>2 DEF ScansFrom
    <3>3. CASE j # n + 1
      <4>1. j + 1 \in i + 1 .. n + 1 /\ h[j + 1] = g[j + 1]
        BY <1>1, <3>3
      <4>2. h[j] = CleanAt(g[j + 1], j)
        <5>1. CASE j = i
          BY <5>1
        <5>2. CASE j # i
          <6>1. j \in i + 1 .. n + 1 /\ h[j] = g[j]
            BY <1>1, <5>2
          <6>2. g[j] = CleanAt(g[j + 1], j)
            BY <2>1, <3>3, <6>1 DEF ScansFrom
          <6> QED BY <6>1, <6>2
        <5> QED BY <5>1, <5>2
      <4> QED BY <3>3, <4>1, <4>2
    <3> QED BY <3>2, <3>3
  <2>3. ScansFrom(entries, i, h)
    <3>1. h = [j \in i .. n + 1 |-> h[j]]
      OBVIOUS
    <3> HIDE DEF h
    <3> QED BY <2>2, <3>1 DEF ScansFrom
  <2> QED BY <2>3
<1>4. 1 \in T
  <2>1. 1 \in Nat /\ n + 1 \in Nat /\ 1 \in 1 .. n + 1
    BY <1>1
  <2> HIDE DEF T
  <2> QED BY <1>2, <1>3, <2>1, Downwards
<1>5. \E g : ScansFrom(entries, 1, g)
  BY <1>4
<1> QED BY <1>5 DEF Scan, ScansFrom
-----------------------------------------------------------------------------
(* What the scan keeps *)

\* The entry at position k was in the list, where only invalid ones follow it.
InvalidTail(entries, i, e) ==
    \E o \in i .. Len(entries) :
        e = entries[o] /\ \A j \in o .. Len(entries) : Invalid(entries[j])

\* After the positions from i on: the slice has no invalid entry there and
\* every other entry of the list; behind it, invalid entries are those of the
\* list's end.
ScanInv(entries, i, s) ==
    /\ s.len \in i - 1 .. Len(entries)
    /\ s.arr \in [1 .. Len(entries) -> IndexEntries]
    /\ \A k \in 1 .. i - 1 : s.arr[k] = entries[k]
    /\ \A k \in i .. s.len : ~Invalid(s.arr[k])
    /\ \A k \in s.len + 1 .. Len(entries) :
           Invalid(s.arr[k]) => InvalidTail(entries, i, s.arr[k])
    /\ \A j \in i .. Len(entries) :
           Invalid(entries[j]) \/ \E k \in i .. s.len : s.arr[k] = entries[j]
    /\ \A k \in 1 .. Len(entries) : \E j \in 1 .. Len(entries) : s.arr[k] = entries[j]

\* One step of the scan.
LEMMA CleanAtKeeps ==
    ASSUME NEW entries \in Seq(IndexEntries), NEW i \in 1 .. Len(entries),
           NEW s, ScanInv(entries, i + 1, s)
    PROVE  ScanInv(entries, i, CleanAt(s, i))
<1> DEFINE n == Len(entries)
           t == CleanAt(s, i)
<1>1. /\ n \in Nat /\ i \in 1 .. n
      /\ s.len \in i .. n /\ s.arr \in [1 .. n -> IndexEntries]
      /\ s.arr[i] = entries[i]
  BY DEF ScanInv
<1>2. /\ \A k \in 1 .. i - 1 : s.arr[k] = entries[k]
      /\ \A k \in i + 1 .. s.len : ~Invalid(s.arr[k])
      /\ \A k \in s.len + 1 .. n : Invalid(s.arr[k]) => InvalidTail(entries, i + 1, s.arr[k])
      /\ \A j \in i + 1 .. n :
             Invalid(entries[j]) \/ \E k \in i + 1 .. s.len : s.arr[k] = entries[j]
      /\ \A k \in 1 .. n : \E j \in 1 .. n : s.arr[k] = entries[j]
  <2>1. \A k \in 1 .. i - 1 : k \in 1 .. (i + 1) - 1
    BY <1>1
  <2> QED BY <2>1 DEF ScanInv
<1>3. ASSUME NEW e, InvalidTail(entries, i + 1, e) PROVE InvalidTail(entries, i, e)
  BY <1>1, <1>3 DEF InvalidTail
<1>4. CASE ~Invalid(entries[i])
  <2>1. t = s
    BY <1>1, <1>4 DEF CleanAt, Invalid
  <2>2. \A k \in i .. s.len : ~Invalid(s.arr[k])
    <3>1. \A k \in i .. s.len : k = i \/ k \in i + 1 .. s.len
      BY <1>1
    <3> QED BY <1>1, <1>2, <1>4, <3>1
  <2>3. \A j \in i .. n : Invalid(entries[j]) \/ \E k \in i .. s.len : s.arr[k] = entries[j]
    <3>1. SUFFICES ASSUME NEW j \in i .. n, ~Invalid(entries[j])
                   PROVE  \E k \in i .. s.len : s.arr[k] = entries[j]
      OBVIOUS
    <3>2. CASE j = i
      BY <1>1, <3>2
    <3>3. CASE j # i
      <4>1. j \in i + 1 .. n
        BY <1>1, <3>3
      <4>2. PICK k \in i + 1 .. s.len : s.arr[k] = entries[j]
        BY <1>2, <3>1, <4>1
      <4>3. k \in i .. s.len
        BY <1>1, <4>2
      <4> QED BY <4>2, <4>3
    <3> QED BY <3>2, <3>3
  <2>4. s.len \in i - 1 .. n
    BY <1>1
  <2> HIDE DEF t
  <2>5. ScanInv(entries, i, t)
    BY <1>1, <1>2, <1>3, <2>1, <2>2, <2>3, <2>4 DEF ScanInv
  <2> QED BY <2>5 DEF t
<1>5. CASE Invalid(entries[i])
  <2>1. /\ t.len = s.len - 1
        /\ t.arr = [k \in 1 .. n |-> IF i <= k /\ k < s.len THEN s.arr[k + 1] ELSE s.arr[k]]
    <3>1. t = Cut(s, i) /\ DOMAIN s.arr = 1 .. n
      BY <1>1, <1>5 DEF CleanAt, Invalid
    <3> QED BY <3>1 DEF Cut
  <2> HIDE DEF t
  <2>2. t.len \in i - 1 .. n /\ s.len \in Nat
    BY <1>1, <2>1
  <2>3. t.arr \in [1 .. n -> IndexEntries]
    BY <1>1, <2>1
  <2>4. \A k \in 1 .. i - 1 : t.arr[k] = entries[k]
    BY <1>1, <1>2, <2>1
  <2>5. ASSUME NEW k \in i .. t.len PROVE t.arr[k] = s.arr[k + 1] /\ k + 1 \in i + 1 .. s.len
    BY <1>1, <2>1, <2>2
  <2>6. \A k \in i .. t.len : ~Invalid(t.arr[k])
    BY <1>2, <2>5
  <2>7. ASSUME NEW k \in t.len + 1 .. n, Invalid(t.arr[k])
        PROVE  InvalidTail(entries, i, t.arr[k])
    <3>1. t.arr[k] = s.arr[k] /\ k \in s.len .. n
      BY <1>1, <2>1, <2>2
    <3>2. CASE k # s.len
      <4>1. k \in s.len + 1 .. n
        BY <1>1, <3>1, <3>2
      <4> QED BY <1>2, <1>3, <2>7, <3>1, <4>1
    <3>3. CASE k = s.len /\ s.len # i
      <4>1. k \in i + 1 .. s.len
        BY <1>1, <3>3
      <4> QED BY <1>2, <2>7, <3>1, <4>1
    <3>4. CASE k = s.len /\ s.len = i
      <4>1. \A j \in i .. n : Invalid(entries[j])
        <5>1. i + 1 .. s.len = {}
          BY <1>1, <3>4
        <5>2. \A j \in i + 1 .. n : Invalid(entries[j])
          BY <1>2, <5>1
        <5>3. \A j \in i .. n : j = i \/ j \in i + 1 .. n
          BY <1>1
        <5> QED BY <1>5, <5>2, <5>3
      <4>2. t.arr[k] = entries[i] /\ i \in i .. n
        BY <1>1, <3>1, <3>4
      <4> QED BY <4>1, <4>2 DEF InvalidTail
    <3> QED BY <3>2, <3>3, <3>4
  <2>8. ASSUME NEW j \in i .. n, ~Invalid(entries[j])
        PROVE  \E k \in i .. t.len : t.arr[k] = entries[j]
    <3>1. j \in i + 1 .. n
      BY <1>1, <1>5, <2>8
    <3>2. PICK k \in i + 1 .. s.len : s.arr[k] = entries[j]
      BY <1>2, <2>8, <3>1
    <3>3. k - 1 \in i .. t.len /\ (k - 1) + 1 = k
      BY <1>1, <2>1, <2>2, <3>2
    <3> QED BY <2>5, <3>2, <3>3
  <2>9. \A k \in 1 .. n : \E j \in 1 .. n : t.arr[k] = entries[j]
    <3>1. \A k \in 1 .. n : \E m \in 1 .. n : t.arr[k] = s.arr[m]
      BY <1>1, <2>1, <2>2
    <3> QED BY <1>2, <3>1
  <2> QED BY <2>2, <2>3, <2>4, <2>6, <2>7, <2>8, <2>9 DEF ScanInv, t
<1> QED BY <1>4, <1>5

\* The whole scan.
LEMMA ScanKeeps ==
    ASSUME NEW entries \in Seq(IndexEntries)
    PROVE  ScanInv(entries, 1, Scan(entries)[1])
<1> DEFINE n == Len(entries)
           scan == Scan(entries)
           T == {i \in 1 .. n + 1 : ScanInv(entries, i, scan[i])}
<1>1. n \in Nat /\ entries \in [1 .. n -> IndexEntries]
  OBVIOUS
<1>2. \A i \in 1 .. n + 1 :
          scan[i] = IF i = n + 1 THEN [arr |-> entries, len |-> n] ELSE CleanAt(scan[i + 1], i)
  BY ScanIsDefined DEF ScansFrom
<1> HIDE DEF scan
<1>3. n + 1 \in T
  <2>1. scan[n + 1].arr = entries /\ scan[n + 1].len = n /\ n + 1 \in 1 .. n + 1
    BY <1>1, <1>2
  <2> QED BY <1>1, <2>1 DEF ScanInv
<1>4. ASSUME NEW i \in 1 .. n + 1, i + 1 \in T, i < n + 1 PROVE i \in T
  <2>1. i \in 1 .. n /\ scan[i] = CleanAt(scan[i + 1], i)
    BY <1>1, <1>2, <1>4
  <2>2. ScanInv(entries, i, scan[i])
    BY <1>4, <2>1, CleanAtKeeps
  <2> QED BY <2>2
<1>5. 1 \in T
  <2>1. 1 \in Nat /\ n + 1 \in Nat /\ 1 \in 1 .. n + 1
    BY <1>1
  <2> HIDE DEF T
  <2> QED BY <1>3, <1>4, <2>1, Downwards
<1> QED BY <1>5 DEF scan
-----------------------------------------------------------------------------
(* The latest version *)

LEMMA ValidOnesForm ==
    ASSUME NEW f, NEW e
    PROVE  e \in ValidOnes(f) <=> \E k \in DOMAIN f : Valid(f[k]) /\ e = f[k]
  BY DEF ValidOnes

\* Cleaning loses no valid entry of an index without bare ones, and of the
\* invalid ones leaves at most those at its end, however long the index is
\* (chartIndexFile).
THEOREM CleaningKeepsValid ==
    ASSUME NEW entries \in Seq(IndexEntries)
    PROVE  CleanKeepsValid(entries)
<1> DEFINE n == Len(entries)
           s == Scan(entries)[1]
<1>1. ScanInv(entries, 1, s)
  BY ScanKeeps
<1> HIDE DEF s
<1>2. /\ n \in Nat /\ DOMAIN entries = 1 .. n
      /\ s.len \in 0 .. n /\ DOMAIN s.arr = 1 .. n
      /\ \A k \in 1 .. s.len : ~Invalid(s.arr[k])
      /\ \A k \in s.len + 1 .. n : Invalid(s.arr[k]) => InvalidTail(entries, 1, s.arr[k])
      /\ \A j \in 1 .. n : Invalid(entries[j]) \/ \E k \in 1 .. s.len : s.arr[k] = entries[j]
      /\ \A k \in 1 .. n : \E j \in 1 .. n : s.arr[k] = entries[j]
  BY <1>1 DEF ScanInv
<1>3. ASSUME NEW e \in ValidOnes(s.arr) PROVE e \in ValidOnes(entries)
  <2>1. PICK k \in 1 .. n : Valid(s.arr[k]) /\ e = s.arr[k]
    <3>1. \E k \in DOMAIN s.arr : Valid(s.arr[k]) /\ e = s.arr[k]
      BY <1>3, ValidOnesForm, Zenon
    <3> QED BY <1>2, <3>1
  <2>2. PICK j \in 1 .. n : s.arr[k] = entries[j]
    BY <1>2
  <2> QED BY <1>2, <2>1, <2>2, ValidOnesForm
<1>4. ASSUME NEW e \in ValidOnes(entries) PROVE e \in ValidOnes(s.arr)
  <2>1. PICK j \in 1 .. n : Valid(entries[j]) /\ e = entries[j]
    <3>1. \E j \in DOMAIN entries : Valid(entries[j]) /\ e = entries[j]
      BY <1>4, ValidOnesForm, Zenon
    <3> QED BY <1>2, <3>1
  <2>2. PICK k \in 1 .. s.len : s.arr[k] = entries[j]
    BY <1>2, <2>1 DEF Invalid
  <2>3. k \in 1 .. n
    BY <1>2, <2>2
  <2> QED BY <1>2, <2>1, <2>2, <2>3, ValidOnesForm
<1>5. ASSUME NEW k \in 1 .. n, Invalid(s.arr[k]) PROVE InvalidTail(entries, 1, s.arr[k])
  <2>1. k \notin 1 .. s.len
    BY <1>2, <1>5
  <2>2. k \in s.len + 1 .. n
    BY <1>2, <2>1
  <2> QED BY <1>2, <1>5, <2>2
<1>6. Clean(entries) = s.arr
  BY DEF Clean, s
<1> QED BY <1>2, <1>3, <1>4, <1>5, <1>6 DEF CleanKeepsValid, InvalidTail

\* Of finitely many numbers one is the largest.
LEMMA LargestExists ==
    ASSUME NEW n \in Nat \ {0}, NEW arr, DOMAIN arr = 1 .. n,
           \A k \in 1 .. n : arr[k].version \in Nat
    PROVE  /\ LargestVersion(arr) \in {arr[k].version : k \in DOMAIN arr}
           /\ \A k \in DOMAIN arr : arr[k].version <= LargestVersion(arr)
<1> DEFINE IsTop(b, j) == \A k \in 1 .. b : arr[k].version <= arr[j].version
           T == {b \in 1 .. n : \E j \in 1 .. b : IsTop(b, j)}
<1>1. 1 \in T
  BY 1 \in 1 .. 1, 1 \in 1 .. n
<1>2. ASSUME NEW b \in 1 .. n, b \in T, b < n PROVE b + 1 \in T
  <2>1. PICK j \in 1 .. b : IsTop(b, j)
    BY <1>2
  <2>2. /\ j \in 1 .. n /\ j \in 1 .. b + 1 /\ b + 1 \in 1 .. n /\ b + 1 \in 1 .. b + 1
        /\ \A k \in 1 .. b + 1 : k = b + 1 \/ k \in 1 .. b
        /\ \A k \in 1 .. b : k \in 1 .. n
    BY <1>2
  <2>3. CASE arr[b + 1].version <= arr[j].version
    <3>1. IsTop(b + 1, j)
      BY <2>1, <2>2, <2>3
    <3> QED BY <2>2, <3>1
  <2>4. CASE ~(arr[b + 1].version <= arr[j].version)
    <3>1. IsTop(b + 1, b + 1)
      <4>1. ASSUME NEW k \in 1 .. b PROVE arr[k].version <= arr[b + 1].version
        <5>1. /\ arr[k].version \in Nat /\ arr[j].version \in Nat /\ arr[b + 1].version \in Nat
              /\ arr[k].version <= arr[j].version
          BY <2>1, <2>2
        <5> QED BY <2>4, <5>1
      <4>2. arr[b + 1].version <= arr[b + 1].version
        BY <2>2
      <4> QED BY <2>2, <4>1, <4>2
    <3> QED BY <2>2, <3>1
  <2> QED BY <2>3, <2>4
<1>3. n \in T
  <2>1. 1 \in Nat /\ n \in Nat /\ n \in 1 .. n
    OBVIOUS
  <2> HIDE DEF T
  <2> QED BY <1>1, <1>2, <2>1, Upwards
<1>4. \E v \in {arr[k].version : k \in DOMAIN arr} : \A k \in DOMAIN arr : arr[k].version <= v
  BY <1>3
<1> QED BY <1>4 DEF LargestVersion

\* The latest version of a chart is the highest valid one, whatever the index
\* lists, as long as no entry is nil or bare and the last one is valid
\* (latestChartVersion).
THEOREM LatestVersionIsHighest ==
    ASSUME NEW entries \in Seq(IndexEntries)
    PROVE  LatestIsHighest(entries)
<1> DEFINE n == Len(entries)
           arr == Clean(entries)
<1> SUFFICES ASSUME entries # <<>>, Valid(entries[n]), ~HasBare(entries),
                    \A k \in DOMAIN entries : ~entries[k].nil,
                    NEW r \in Latest(entries)
             PROVE  /\ r[1] \in {"ok", "no URLs"}
                    /\ r[2] \in ValidOnes(entries)
                    /\ \A e \in ValidOnes(entries) : e.version <= r[2].version
  BY DEF LatestIsHighest
<1>1. n \in Nat \ {0} /\ DOMAIN entries = 1 .. n /\ n \in 1 .. n
  OBVIOUS
<1>2. /\ arr \in [1 .. n -> IndexEntries]
      /\ \A k \in 1 .. n : \E j \in 1 .. n : arr[k] = entries[j]
  BY ScanKeeps DEF ScanInv, Clean
<1>3. /\ ValidOnes(arr) = ValidOnes(entries)
      /\ \A k \in DOMAIN arr :
             Invalid(arr[k]) => \E i \in DOMAIN entries : \A j \in i .. n : Invalid(entries[j])
  BY CleaningKeepsValid DEF CleanKeepsValid
<1> HIDE DEF arr
<1>4. \A k \in 1 .. n : Valid(arr[k])
  <2>1. SUFFICES ASSUME NEW k \in 1 .. n, ~Valid(arr[k]) PROVE FALSE
    OBVIOUS
  <2>2. Invalid(arr[k])
    BY <1>1, <1>2, <2>1 DEF Invalid
  <2>3. PICK i \in 1 .. n : \A j \in i .. n : Invalid(entries[j])
    BY <1>1, <1>2, <1>3, <2>2
  <2>4. n \in i .. n
    BY <1>1, <2>3
  <2> QED BY <2>3, <2>4 DEF Invalid
<1>5. \A k \in 1 .. n : ~arr[k].nil /\ arr[k].version \in Nat
  <2>1. \A e \in IndexEntries : e.version \in Nat
    <3>1. Nil.version = 0 /\ Bare(TRUE).version = 0 /\ Bare(FALSE).version = 0
      BY DEF Nil, Bare
    <3>2. \A e \in [version : Nat, urls : BOOLEAN, rest : BOOLEAN, nil : {FALSE}, meta : {TRUE}] :
              e.version \in Nat
      OBVIOUS
    <3>3. ASSUME NEW e \in IndexEntries PROVE e.version \in Nat
      <4>1. CASE e = Nil \/ e = Bare(TRUE) \/ e = Bare(FALSE)
        <5>1. e.version = 0
          BY <3>1, <4>1, Zenon
        <5> QED BY <5>1
      <4>2. CASE ~(e = Nil \/ e = Bare(TRUE) \/ e = Bare(FALSE))
        BY <3>2, <3>3, <4>2, Zenon DEF IndexEntries
      <4> QED BY <4>1, <4>2
    <3> QED BY <3>3
  <2>2. \A k \in 1 .. n : arr[k] \in IndexEntries
    BY <1>2
  <2>3. \A k \in 1 .. n : ~arr[k].nil
    BY <1>4 DEF Valid
  <2> QED BY <2>1, <2>2, <2>3
<1>6. /\ LargestVersion(arr) \in {arr[k].version : k \in DOMAIN arr}
      /\ \A k \in DOMAIN arr : arr[k].version <= LargestVersion(arr)
  BY <1>1, <1>2, <1>5, LargestExists
<1>7. PICK k \in 1 .. n : /\ arr[k].version = LargestVersion(arr)
                          /\ r = <<IF arr[k].urls THEN "ok" ELSE "no URLs", arr[k]>>
  <2>1. r \in {<<IF e.urls THEN "ok" ELSE "no URLs", e>> :
                  e \in {arr[k] : k \in {j \in DOMAIN arr : arr[j].version = LargestVersion(arr)}}}
    BY <1>1, <1>2, <1>5 DEF Latest, arr
  <2> QED BY <1>2, <2>1
<1>8. r[2] = arr[k] /\ r[1] \in {"ok", "no URLs"}
  BY <1>7
<1>9. r[2] \in ValidOnes(entries)
  BY <1>2, <1>3, <1>4, <1>8 DEF ValidOnes
<1>10. ASSUME NEW e \in ValidOnes(entries) PROVE e.version <= r[2].version
  <2>1. PICK j \in 1 .. n : e = arr[j]
    BY <1>2, <1>3 DEF ValidOnes
  <2> QED BY <1>2, <1>6, <1>7, <1>8, <2>1
<1> QED BY <1>8, <1>9, <1>10

=============================================================================
