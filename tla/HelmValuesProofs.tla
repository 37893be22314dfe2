-------------------------- MODULE HelmValuesProofs --------------------------
(***************************************************************************)
(* The order in which values count, for any text of --set and for maps of  *)
(* any depth: proofs.  The induction lemmas are those of ChartIndexProofs. *)
(***************************************************************************)
EXTENDS HelmValues, SetTexts, ChartIndexProofs

-----------------------------------------------------------------------------
(* What is routed to a chart *)

\* A function on the first m pieces that is built like the routing.
RoutesUpTo(pieces, chart, m, g) ==
    g = [k \in 0 .. m |->
            IF k = 0 THEN <<>>
            ELSE IF Target(pieces[k]) = chart THEN Append(g[k - 1], pieces[k].set)
            ELSE g[k - 1]]

\* There is such a function, and Routed is one.
LEMMA RoutedIsDefined ==
    ASSUME NEW pieces \in Seq(SetPieces), NEW chart
    PROVE  RoutesUpTo(pieces, chart, Len(pieces), Routed(pieces, chart))
<1> DEFINE n == Len(pieces)
           Next1(g, k) == IF Target(pieces[k]) = chart THEN Append(g[k - 1], pieces[k].set)
                          ELSE g[k - 1]
           T == {m \in 0 .. n : \E g : RoutesUpTo(pieces, chart, m, g)}
<1>1. n \in Nat
  OBVIOUS
<1>2. 0 \in T
  <2> DEFINE g0 == [k \in 0 .. 0 |-> <<>>]
  <2>1. g0 = [k \in 0 .. 0 |-> IF k = 0 THEN <<>> ELSE Next1(g0, k)]
    <3>1. \A k \in 0 .. 0 : (IF k = 0 THEN <<>> ELSE Next1(g0, k)) = <<>>
      OBVIOUS
    <3> HIDE DEF Next1
    <3> QED BY <3>1
  <2>2. RoutesUpTo(pieces, chart, 0, g0)
    BY <2>1 DEF RoutesUpTo
  <2> QED BY <1>1, <2>2
<1>3. ASSUME NEW m \in 0 .. n, m \in T, m < n PROVE m + 1 \in T
  <2>1. PICK g : RoutesUpTo(pieces, chart, m, g)
    BY <1>3
  <2> DEFINE h == [k \in 0 .. m + 1 |-> IF k = m + 1 THEN Next1(g, k) ELSE g[k]]
  <2>2. ASSUME NEW k \in 0 .. m + 1 PROVE h[k] = IF k = 0 THEN <<>> ELSE Next1(h, k)
    <3>1. CASE k = 0
      BY <1>3, <2>1, <3>1 DEF RoutesUpTo
    <3>2. CASE k # 0
      <4>1. k - 1 \in 0 .. m /\ h[k - 1] = g[k - 1]
        BY <1>3, <3>2
      <4>2. h[k] = Next1(g, k)
        <5>1. CASE k = m + 1
          BY <5>1
        <5>2. CASE k # m + 1
          <6>1. k \in 0 .. m /\ h[k] = g[k]
            BY <1>3, <5>2
          <6>2. g[k] = Next1(g, k)
            BY <2>1, <3>2, <6>1 DEF RoutesUpTo
          <6> HIDE DEF h, Next1
          <6> QED BY <6>1, <6>2
        <5> QED BY <5>1, <5>2
      <4>3. Next1(h, k) = Next1(g, k)
        BY <4>1
      <4> HIDE DEF h, Next1
      <4> QED BY <3>2, <4>2, <4>3
    <3> QED BY <3>1, <3>2
  <2>3. RoutesUpTo(pieces, chart, m + 1, h)
    <3>1. h = [k \in 0 .. m + 1 |-> h[k]]
      OBVIOUS
    <3>2. h = [k \in 0 .. m + 1 |-> IF k = 0 THEN <<>> ELSE Next1(h, k)]
      <4> HIDE DEF h, Next1
      <4> QED BY <2>2, <3>1
    <3> QED BY <3>2 DEF RoutesUpTo
  <2>4. m + 1 \in 0 .. n
    BY <1>1, <1>3
  <2> QED BY <2>3, <2>4
<1>4. n \in T
  <2>1. 0 \in Nat /\ n \in Nat /\ n \in 0 .. n
    BY <1>1
  <2> HIDE DEF T
  <2> QED BY <1>2, <1>3, <2>1, Upwards
<1>5. \E g : RoutesUpTo(pieces, chart, n, g)
  BY <1>4
<1> QED BY <1>5 DEF Routed, RoutesUpTo

LEMMA TargetIsMine ==
    ASSUME NEW piece \in SetPieces, NEW chart \in Charts
    PROVE  Target(piece) = chart <=> Mine(piece, chart)
<1>1. piece.prefix \in Charts \cup {""} /\ "" \notin Charts
  BY DEF SetPieces, Charts
<1> QED BY <1>1 DEF Target, Mine, Charts

\* The routed assignments are those of the first k pieces that are the
\* chart's, in their order: at gives the piece of each.
ComesFrom(pieces, chart, k, r, at) ==
    /\ at \in [1 .. Len(r) -> 1 .. k]
    /\ \A i \in 1 .. Len(r) : Mine(pieces[at[i]], chart) /\ r[i] = pieces[at[i]].set
    /\ \A i, j \in 1 .. Len(r) : i <= j => at[i] <= at[j]
    /\ \A j \in 1 .. k : Mine(pieces[j], chart) => \E i \in 1 .. Len(r) : at[i] = j

RoutedInv(pieces, chart, k, r) ==
    r \in Seq(Assignments) /\ \E at : ComesFrom(pieces, chart, k, r, at)

LEMMA RoutedKeeps ==
    ASSUME NEW pieces \in Seq(SetPieces), NEW chart \in Charts
    PROVE  RoutedInv(pieces, chart, Len(pieces), ConfigOf(pieces, chart))
<1> DEFINE n == Len(pieces)
           routed == Routed(pieces, chart)
           T == {k \in 0 .. n : RoutedInv(pieces, chart, k, routed[k])}
<1>1. /\ n \in Nat
      /\ \A k \in 1 .. n : pieces[k] \in SetPieces /\ pieces[k].set \in Assignments
  <2>1. \A x \in SetPieces : x.set \in Assignments
    BY DEF SetPieces
  <2> QED BY <2>1
<1>2. /\ routed[0] = <<>>
      /\ \A k \in 1 .. n : routed[k] = IF Target(pieces[k]) = chart
                                       THEN Append(routed[k - 1], pieces[k].set)
                                       ELSE routed[k - 1]
  <2>1. \A k \in 0 .. n : routed[k] = IF k = 0 THEN <<>>
                                      ELSE IF Target(pieces[k]) = chart
                                      THEN Append(routed[k - 1], pieces[k].set)
                                      ELSE routed[k - 1]
    <3>1. RoutesUpTo(pieces, chart, n, routed)
      BY RoutedIsDefined
    <3> HIDE DEF routed
    <3> QED BY <3>1 DEF RoutesUpTo
  <2> HIDE DEF routed
  <2> QED BY <1>1, <2>1
<1> HIDE DEF routed
<1>3. 0 \in T
  <2>1. RoutedInv(pieces, chart, 0, <<>>)
    <3>1. ComesFrom(pieces, chart, 0, <<>>, [i \in 1 .. 0 |-> i])
      BY DEF ComesFrom
    <3> QED BY <3>1 DEF RoutedInv
  <2> QED BY <1>1, <1>2, <2>1
<1>4. ASSUME NEW k \in 0 .. n, k \in T, k < n PROVE k + 1 \in T
  <2> DEFINE r == routed[k]
             p == pieces[k + 1]
  <2>1. r \in Seq(Assignments) /\ RoutedInv(pieces, chart, k, r)
    BY <1>4 DEF RoutedInv
  <2>2. PICK at :
           /\ at \in [1 .. Len(r) -> 1 .. k]
           /\ \A i \in 1 .. Len(r) : Mine(pieces[at[i]], chart) /\ r[i] = pieces[at[i]].set
           /\ \A i, j \in 1 .. Len(r) : i <= j => at[i] <= at[j]
           /\ \A j \in 1 .. k : Mine(pieces[j], chart) => \E i \in 1 .. Len(r) : at[i] = j
    BY <2>1 DEF RoutedInv, ComesFrom
  <2>3. /\ k + 1 \in 1 .. n /\ (k + 1) - 1 = k /\ Len(r) \in Nat
        /\ p \in SetPieces /\ p.set \in Assignments
    BY <1>1, <1>4, <2>1
  <2>4. CASE Mine(p, chart)
    <3> DEFINE q == Append(r, p.set)
               to == [i \in 1 .. Len(r) + 1 |-> IF i = Len(r) + 1 THEN k + 1 ELSE at[i]]
    <3>1. routed[k + 1] = q
      BY <1>2, <2>3, <2>4, TargetIsMine
    <3>2. /\ q \in Seq(Assignments) /\ Len(q) = Len(r) + 1
          /\ q[Len(r) + 1] = p.set
          /\ \A i \in 1 .. Len(r) : q[i] = r[i]
      BY <2>1, <2>3
    <3>3. \A i \in 1 .. Len(r) + 1 : i = Len(r) + 1 \/ i \in 1 .. Len(r)
      BY <2>3
    <3>4. to \in [1 .. Len(r) + 1 -> 1 .. k + 1]
      BY <1>4, <2>2, <2>3, <3>3
    <3>5. \A i \in 1 .. Len(r) + 1 : Mine(pieces[to[i]], chart) /\ q[i] = pieces[to[i]].set
      <4>1. \A i \in 1 .. Len(r) : to[i] = at[i]
        BY <2>3
      <4>2. to[Len(r) + 1] = k + 1
        BY <2>3
      <4> HIDE DEF to, q
      <4> QED BY <2>2, <2>4, <3>2, <3>3, <4>1, <4>2
    <3>6. \A i, j \in 1 .. Len(r) + 1 : i <= j => to[i] <= to[j]
      <4>1. \A i \in 1 .. Len(r) : at[i] \in 1 .. k
        BY <2>2
      <4> QED BY <1>4, <2>2, <2>3, <4>1
    <3>7. ASSUME NEW j \in 1 .. k + 1, Mine(pieces[j], chart)
          PROVE  \E i \in 1 .. Len(r) + 1 : to[i] = j
      <4>1. CASE j = k + 1
        <5>1. Len(r) + 1 \in 1 .. Len(r) + 1 /\ to[Len(r) + 1] = k + 1
          BY <2>3
        <5> QED BY <4>1, <5>1
      <4>2. CASE j # k + 1
        <5>1. PICK i \in 1 .. Len(r) : at[i] = j
          BY <1>4, <2>2, <3>7, <4>2
        <5>2. i \in 1 .. Len(r) + 1 /\ to[i] = at[i]
          BY <2>3
        <5> QED BY <5>1, <5>2
      <4> QED BY <4>1, <4>2
    <3>8. RoutedInv(pieces, chart, k + 1, q)
      <4> HIDE DEF to, q
      <4>1. ComesFrom(pieces, chart, k + 1, q, to)
        BY <3>2, <3>4, <3>5, <3>6, <3>7 DEF ComesFrom
      <4> QED BY <3>2, <4>1 DEF RoutedInv
    <3> HIDE DEF q
    <3> QED BY <1>1, <1>4, <2>3, <3>1, <3>8
  <2>5. CASE ~Mine(p, chart)
    <3>1. routed[k + 1] = r
      BY <1>2, <2>3, <2>5, TargetIsMine
    <3>2. at \in [1 .. Len(r) -> 1 .. k + 1]
      BY <1>4, <2>2
    <3>3. \A j \in 1 .. k + 1 : Mine(pieces[j], chart) => j \in 1 .. k
      BY <1>4, <2>5
    <3>4. RoutedInv(pieces, chart, k + 1, r)
      <4> HIDE DEF r
      <4>1. ComesFrom(pieces, chart, k + 1, r, at)
        BY <2>2, <3>2, <3>3 DEF ComesFrom
      <4> QED BY <2>1, <4>1 DEF RoutedInv
    <3> QED BY <1>1, <1>4, <2>3, <3>1, <3>4
  <2> QED BY <2>4, <2>5
<1>5. n \in T
  <2>1. 0 \in Nat /\ n \in Nat /\ n \in 0 .. n
    BY <1>1
  <2> HIDE DEF T
  <2> QED BY <1>3, <1>4, <2>1, Upwards
<1> QED BY <1>5 DEF ConfigOf, routed

\* The config of a chart has the keys that the pieces for it set, and the last
\* assignment of a key in the one is the last of the other.
LEMMA ConfigEndsAsSet ==
    ASSUME NEW pieces \in Seq(SetPieces), NEW chart \in Charts
    PROVE  LET config == ConfigOf(pieces, chart)
           IN  /\ config \in Seq(Assignments)
               /\ KeysIn(config) = KeysSet(pieces, chart)
               /\ \A key, val : EndsAs(config, key, val) => SetTo(pieces, chart, key, val)
<1> DEFINE n == Len(pieces)
           config == ConfigOf(pieces, chart)
<1>1. RoutedInv(pieces, chart, n, config)
  BY RoutedKeeps
<1> HIDE DEF config
<1>2. PICK at :
         /\ at \in [1 .. Len(config) -> 1 .. n]
         /\ \A i \in 1 .. Len(config) : Mine(pieces[at[i]], chart) /\ config[i] = pieces[at[i]].set
         /\ \A i, j \in 1 .. Len(config) : i <= j => at[i] <= at[j]
         /\ \A j \in 1 .. n : Mine(pieces[j], chart) => \E i \in 1 .. Len(config) : at[i] = j
  BY <1>1 DEF RoutedInv, ComesFrom
<1>3. /\ config \in Seq(Assignments) /\ DOMAIN config = 1 .. Len(config)
      /\ DOMAIN pieces = 1 .. n
  BY <1>1 DEF RoutedInv
<1>4. ASSUME NEW key \in KeysIn(config) PROVE key \in KeysSet(pieces, chart)
  <2>1. PICK i \in 1 .. Len(config) : key = config[i].key /\ key # ""
    BY <1>3 DEF KeysIn
  <2>2. at[i] \in 1 .. n /\ Mine(pieces[at[i]], chart) /\ key = pieces[at[i]].set.key
    BY <1>2, <2>1
  <2> QED BY <1>3, <2>1, <2>2 DEF KeysSet
<1>5. ASSUME NEW key \in KeysSet(pieces, chart) PROVE key \in KeysIn(config)
  <2>1. PICK j \in 1 .. n : Mine(pieces[j], chart) /\ key = pieces[j].set.key /\ key # ""
    BY <1>3 DEF KeysSet
  <2>2. PICK i \in 1 .. Len(config) : at[i] = j
    BY <1>2, <2>1
  <2> QED BY <1>2, <1>3, <2>1, <2>2 DEF KeysIn
<1>6. ASSUME NEW key, NEW val, EndsAs(config, key, val) PROVE SetTo(pieces, chart, key, val)
  <2>1. PICK k \in 1 .. Len(config) :
            /\ config[k] = Set(key, val)
            /\ \A j \in 1 .. Len(config) : config[j].key = key => j <= k
    BY <1>3, <1>6 DEF EndsAs
  <2>2. at[k] \in 1 .. n /\ Mine(pieces[at[k]], chart) /\ pieces[at[k]].set = Set(key, val)
    BY <1>2, <2>1
  <2>3. ASSUME NEW j \in 1 .. n, Mine(pieces[j], chart), pieces[j].set.key = key
        PROVE  j <= at[k]
    <3>1. PICK i \in 1 .. Len(config) : at[i] = j
      BY <1>2, <2>3
    <3>2. i <= k
      BY <1>2, <2>1, <2>3, <3>1
    <3> QED BY <1>2, <3>1, <3>2
  <2> QED BY <1>3, <2>2, <2>3 DEF SetTo
<1>7. KeysIn(config) = KeysSet(pieces, chart)
  BY <1>4, <1>5
<1> QED BY <1>3, <1>6, <1>7 DEF config

-----------------------------------------------------------------------------
(* Texts put together *)

\* An assignment: the record of its key and value.
IsSet(x) == x = Set(x.key, x.val)

\* The places of c, where t follows s.
Joins(s, t, c) ==
    /\ DOMAIN s = 1 .. Len(s) /\ DOMAIN t = 1 .. Len(t)
    /\ Len(s) \in Nat /\ Len(t) \in Nat
    /\ DOMAIN c = 1 .. Len(s) + Len(t)
    /\ \A k \in 1 .. Len(s) : k \in DOMAIN c /\ c[k] = s[k]
    /\ \A k \in 1 .. Len(t) : Len(s) + k \in DOMAIN c /\ c[Len(s) + k] = t[k]
    /\ \A k \in DOMAIN c : k \in 1 .. Len(s) \/ \E j \in 1 .. Len(t) : k = Len(s) + j

LEMMA ConcatJoins ==
    ASSUME NEW S, NEW s \in Seq(S), NEW t \in Seq(S)
    PROVE  Joins(s, t, s \o t)
<1>1. /\ DOMAIN s = 1 .. Len(s) /\ DOMAIN t = 1 .. Len(t)
      /\ DOMAIN (s \o t) = 1 .. Len(s) + Len(t)
      /\ Len(s) \in Nat /\ Len(t) \in Nat
  OBVIOUS
<1>2. ASSUME NEW k \in 1 .. Len(s) PROVE k \in DOMAIN (s \o t) /\ (s \o t)[k] = s[k]
  BY <1>1
<1>3. ASSUME NEW k \in 1 .. Len(t)
      PROVE  Len(s) + k \in DOMAIN (s \o t) /\ (s \o t)[Len(s) + k] = t[k]
  <2>1. Len(s) + k > Len(s) /\ (Len(s) + k) - Len(s) = k /\ Len(s) + k \in 1 .. Len(s) + Len(t)
    BY <1>1
  <2> QED BY <1>1, <2>1
<1>4. ASSUME NEW k \in 1 .. Len(s) + Len(t), k \notin 1 .. Len(s)
      PROVE  \E j \in 1 .. Len(t) : k = Len(s) + j
  <2>1. k - Len(s) \in 1 .. Len(t) /\ k = Len(s) + (k - Len(s))
    BY <1>1, <1>4
  <2> QED BY <2>1
<1> QED BY <1>1, <1>2, <1>3, <1>4 DEF Joins

\* A text with the keys of both, whose places are those of both.
LEMMA KeysOfJoin ==
    ASSUME NEW s, NEW t, NEW c, Joins(s, t, c)
    PROVE  KeysIn(c) = KeysIn(s) \cup KeysIn(t)
<1>1. ASSUME NEW key \in KeysIn(c) PROVE key \in KeysIn(s) \cup KeysIn(t)
  <2>1. PICK k \in DOMAIN c : key = c[k].key /\ key # ""
    BY DEF KeysIn
  <2>2. CASE k \in 1 .. Len(s)
    BY <2>1, <2>2 DEF KeysIn, Joins
  <2>3. CASE \E j \in 1 .. Len(t) : k = Len(s) + j
    <3>1. PICK j \in 1 .. Len(t) : k = Len(s) + j
      BY <2>3
    <3>2. key = t[j].key /\ j \in DOMAIN t
      BY <2>1, <3>1 DEF Joins
    <3> QED BY <2>1, <3>2 DEF KeysIn
  <2> QED BY <2>2, <2>3 DEF Joins
<1>2. ASSUME NEW key \in KeysIn(s) PROVE key \in KeysIn(c)
  <2>1. PICK k \in DOMAIN s : key = s[k].key /\ key # ""
    BY DEF KeysIn
  <2>2. k \in DOMAIN c /\ c[k] = s[k]
    BY DEF Joins
  <2> QED BY <2>1, <2>2 DEF KeysIn
<1>3. ASSUME NEW key \in KeysIn(t) PROVE key \in KeysIn(c)
  <2>1. PICK k \in DOMAIN t : key = t[k].key /\ key # ""
    BY DEF KeysIn
  <2>2. Len(s) + k \in DOMAIN c /\ c[Len(s) + k] = t[k]
    BY DEF Joins
  <2> QED BY <2>1, <2>2 DEF KeysIn
<1> QED BY <1>1, <1>2, <1>3

\* What the second text ends a key as, both do.
LEMMA SecondCounts ==
    ASSUME NEW s, NEW t, NEW c, Joins(s, t, c), NEW key, NEW val, EndsAs(t, key, val)
    PROVE  EndsAs(c, key, val)
<1>1. PICK k \in DOMAIN t :
          t[k] = Set(key, val) /\ \A j \in DOMAIN t : t[j].key = key => j <= k
  BY DEF EndsAs
<1>2. Len(s) + k \in DOMAIN c /\ c[Len(s) + k] = Set(key, val) /\ k \in 1 .. Len(t)
  BY <1>1 DEF Joins
<1>3. ASSUME NEW j \in DOMAIN c, c[j].key = key PROVE j <= Len(s) + k
  <2>1. CASE j \in 1 .. Len(s)
    BY <1>2, <2>1 DEF Joins
  <2>2. CASE \E i \in 1 .. Len(t) : j = Len(s) + i
    <3>1. PICK i \in 1 .. Len(t) : j = Len(s) + i
      BY <2>2
    <3>2. i \in DOMAIN t /\ t[i].key = key
      BY <1>3, <3>1 DEF Joins
    <3>3. i <= k
      BY <1>1, <3>2
    <3> QED BY <1>2, <3>1, <3>3 DEF Joins
  <2> QED BY <2>1, <2>2 DEF Joins
<1> QED BY <1>2, <1>3 DEF EndsAs

\* What the first text ends a key as, both do when the second has none of it.
LEMMA FirstCounts ==
    ASSUME NEW s, NEW t, NEW c, Joins(s, t, c), NEW key, NEW val, EndsAs(s, key, val),
           key # "", key \notin KeysIn(t)
    PROVE  EndsAs(c, key, val)
<1>1. PICK k \in DOMAIN s :
          s[k] = Set(key, val) /\ \A j \in DOMAIN s : s[j].key = key => j <= k
  BY DEF EndsAs
<1>2. k \in DOMAIN c /\ c[k] = Set(key, val)
  BY <1>1 DEF Joins
<1>3. ASSUME NEW j \in DOMAIN c, c[j].key = key PROVE j <= k
  <2>1. CASE j \in 1 .. Len(s)
    <3>1. j \in DOMAIN s /\ s[j].key = key
      BY <1>3, <2>1 DEF Joins
    <3> QED BY <1>1, <3>1
  <2>2. CASE \E i \in 1 .. Len(t) : j = Len(s) + i
    <3>1. PICK i \in 1 .. Len(t) : j = Len(s) + i
      BY <2>2
    <3>2. i \in DOMAIN t /\ t[i].key = key
      BY <1>3, <3>1 DEF Joins
    <3> QED BY <3>2 DEF KeysIn
  <2> QED BY <2>1, <2>2 DEF Joins
<1> QED BY <1>2, <1>3 DEF EndsAs

\* A text ends each of its keys as something.
LEMMA KeysEnd ==
    ASSUME NEW S, NEW s \in Seq(S), \A x \in S : IsSet(x), NEW key \in KeysIn(s)
    PROVE  \E val : EndsAs(s, key, val)
<1> DEFINE n == Len(s)
           D == {d \in 0 .. n : n - d \in 1 .. n /\ s[n - d].key = key}
<1>1. n \in Nat /\ DOMAIN s = 1 .. n
  OBVIOUS
<1>2. PICK i \in 1 .. n : s[i].key = key
  BY <1>1 DEF KeysIn
<1>3. n - i \in D /\ D \in SUBSET Nat
  <2>1. n - i \in 0 .. n /\ n - (n - i) = i
    BY <1>1, <1>2
  <2> QED BY <1>1, <1>2, <2>1
<1>4. PICK d \in D : \A m \in D : d <= m
  <2> HIDE DEF D
  <2> QED BY <1>3, LeastNumber
<1>5. n - d \in 1 .. n /\ s[n - d].key = key /\ d \in 0 .. n
  BY <1>4
<1>6. s[n - d] = Set(key, s[n - d].val)
  BY <1>1, <1>5 DEF IsSet
<1>7. ASSUME NEW j \in 1 .. n, s[j].key = key PROVE j <= n - d
  <2>1. n - j \in 0 .. n /\ n - (n - j) = j
    BY <1>1
  <2>2. n - j \in D
    BY <1>7, <2>1
  <2>3. d <= n - j
    BY <1>4, <2>2
  <2> QED BY <1>1, <1>5, <2>3
<1> QED BY <1>1, <1>5, <1>6, <1>7 DEF EndsAs

\* The value of a key is what the text ends it as.
LEMMA ParsedAsEnded ==
    ASSUME NEW S, NEW s \in Seq(S), NEW key \in KeysIn(s), NEW val, EndsAs(s, key, val)
    PROVE  Parsed(s)[key] = val
<1> DEFINE IsLast(k) == s[k].key = key /\ \A j \in DOMAIN s : s[j].key = key => j <= k
           last == CHOOSE k \in DOMAIN s : IsLast(k)
<1>1. PICK k \in DOMAIN s : s[k] = Set(key, val) /\ IsLast(k)
  BY DEF EndsAs, Set
<1>2. last \in DOMAIN s /\ IsLast(last)
  BY <1>1
<1>3. last = k
  <2>1. last \in Nat /\ k \in Nat
    BY <1>1, <1>2
  <2>2. last <= k /\ k <= last
    <3> HIDE DEF last
    <3> QED BY <1>1, <1>2
  <2> HIDE DEF last
  <2> QED BY <2>1, <2>2
<1>4. Parsed(s)[key] = s[last].val
  BY DEF Parsed
<1> QED BY <1>1, <1>3, <1>4 DEF Set

-----------------------------------------------------------------------------
(* The layers of a chart's values *)

\* What can stand between two commas once gtctl has appended its own.
Appended == {Set("auth.rbac.create", "false"), Set("auth.rbac.token.enabled", "false"),
             Set("image.registry", "cn"), Set("initializer.registry", "cn")}

Texts == Seq(Assignments \cup Appended)

LEMMA TextsAreOfSets == \A x \in Assignments \cup Appended : IsSet(x)
<1>1. ASSUME NEW x \in [key : ValueKeys, val : ValueTexts] PROVE IsSet(x)
  BY DEF IsSet, Set
<1>2. ASSUME NEW k, NEW v PROVE IsSet(Set(k, v))
  BY DEF IsSet, Set
<1> QED BY <1>1, <1>2 DEF Assignments, Appended, Empty

LEMMA SuffixIsText ==
    ASSUME NEW chart, NEW flags, NEW cn
    PROVE  Suffix(chart, flags, cn) \in Texts
<1> DEFINE S == Assignments \cup Appended
           mirror == cn /\ \A k \in DOMAIN flags : flags[k].key # "image.registry"
           rbac == IF chart = "etcd"
                   THEN <<Set("auth.rbac.create", "false"), Set("auth.rbac.token.enabled", "false")>>
                   ELSE <<>>
           registry == IF mirror THEN <<Set("image.registry", "cn")>> ELSE <<>>
           initializer == IF mirror /\ chart = "cluster"
                          THEN <<Set("initializer.registry", "cn")>> ELSE <<>>
<1>1. rbac \in Seq(S)
  <2>1. Set("auth.rbac.create", "false") \in S /\ Set("auth.rbac.token.enabled", "false") \in S
    BY DEF Appended
  <2> HIDE DEF S
  <2> QED BY <2>1
<1>2. registry \in Seq(S)
  <2>1. Set("image.registry", "cn") \in S
    BY DEF Appended
  <2> HIDE DEF S, mirror
  <2> QED BY <2>1
<1>3. initializer \in Seq(S)
  <2>1. Set("initializer.registry", "cn") \in S
    BY DEF Appended
  <2> HIDE DEF S, mirror
  <2> QED BY <2>1
<1>4. <<Empty>> \in Seq(S)
  <2>1. Empty \in S
    BY DEF Assignments
  <2> HIDE DEF S
  <2> QED BY <2>1
<1>5. Suffix(chart, flags, cn) =
         IF rbac \o registry = <<>> THEN <<>> ELSE rbac \o registry \o initializer \o <<Empty>>
  BY DEF Suffix
<1>6. Texts = Seq(S)
  BY DEF Texts
<1> HIDE DEF S, rbac, registry, initializer
<1> QED BY <1>1, <1>2, <1>3, <1>4, <1>5, <1>6

\* A text without the empty assignment at its end has its keys, and ends each
\* as the text does.
LEMMA FrontKeeps ==
    ASSUME NEW S, NEW s \in Seq(S), s # <<>>, Last(s) = Empty
    PROVE  /\ Front(s) \in Seq(S)
           /\ KeysIn(Front(s)) = KeysIn(s)
           /\ \A key, val : key # "" /\ EndsAs(Front(s), key, val) => EndsAs(s, key, val)
<1> DEFINE f == Front(s)
           n == Len(s)
<1>1. /\ n \in Nat \ {0} /\ DOMAIN s = 1 .. n /\ DOMAIN f = 1 .. n - 1
      /\ f \in Seq(S)
      /\ \A k \in 1 .. n - 1 : k \in 1 .. n /\ f[k] = s[k]
  <2>1. n \in Nat \ {0} /\ DOMAIN s = 1 .. n
    OBVIOUS
  <2>2. f \in Seq(S) /\ Len(f) = n - 1 /\ DOMAIN f = 1 .. n - 1
    BY <2>1 DEF Front
  <2>3. \A k \in 1 .. n - 1 : k \in 1 .. n /\ f[k] = s[k]
    BY <2>1 DEF Front
  <2> QED BY <2>1, <2>2, <2>3
<1>2. s[n].key = ""
  <2>1. s[n] = [key |-> "", val |-> ""]
    BY Zenon DEF Last, Empty, Set
  <2>2. [key |-> "", val |-> ""].key = ""
    OBVIOUS
  <2> QED BY Zenon, <2>1, <2>2
<1> HIDE DEF f, n
<1>3. \A k \in 1 .. n : k \in 1 .. n - 1 \/ k = n
  <2>1. n \in Nat \ {0}
    BY <1>1
  <2> QED BY <2>1
<1>4. KeysIn(f) = KeysIn(s)
  <2>1. ASSUME NEW key \in KeysIn(f) PROVE key \in KeysIn(s)
    BY <1>1 DEF KeysIn
  <2>2. ASSUME NEW key \in KeysIn(s) PROVE key \in KeysIn(f)
    <3>1. PICK k \in 1 .. n : key = s[k].key /\ key # ""
      BY <1>1 DEF KeysIn
    <3>2. k \in 1 .. n - 1
      BY <1>2, <1>3, <3>1
    <3> QED BY <1>1, <3>1, <3>2 DEF KeysIn
  <2> QED BY <2>1, <2>2
<1>5. ASSUME NEW key, NEW val, key # "", EndsAs(f, key, val) PROVE EndsAs(s, key, val)
  <2>1. PICK k \in 1 .. n - 1 :
            f[k] = Set(key, val) /\ \A j \in 1 .. n - 1 : f[j].key = key => j <= k
    BY <1>1, <1>5 DEF EndsAs
  <2>2. k \in 1 .. n /\ s[k] = Set(key, val)
    BY <1>1, <2>1
  <2>3. ASSUME NEW j \in 1 .. n, s[j].key = key PROVE j <= k
    <3>1. j \in 1 .. n - 1
      BY <1>2, <1>3, <1>5, <2>3
    <3> QED BY <1>1, <2>1, <2>3, <3>1
  <2> QED BY <1>1, <2>2, <2>3 DEF EndsAs
<1> QED BY <1>1, <1>4, <1>5 DEF f

\* Where the text of --set does not run into what is appended, what is
\* appended follows it, but for an empty assignment between the two.
LEMMA PlusJoins ==
    ASSUME NEW text \in Texts, NEW suffix \in Texts, suffix = <<>> \/ ~Glued(text)
    PROVE  \E head \in Texts :
              /\ Plus(text, suffix) = head \o suffix
              /\ KeysIn(head) = KeysIn(text)
              /\ \A key, val : key # "" /\ EndsAs(head, key, val) => EndsAs(text, key, val)
<1>1. CASE text = <<>> \/ suffix = <<>>
  BY <1>1 DEF Plus
<1>2. CASE text # <<>> /\ suffix # <<>>
  <2>1. Last(text) = Empty /\ ~Glued(text)
    BY <1>2 DEF Glued
  <2>2. Plus(text, suffix) = Front(text) \o suffix
    BY <1>2, <2>1 DEF Plus
  <2> QED BY <1>2, <2>1, <2>2, FrontKeeps DEF Texts
<1> QED BY <1>1, <1>2

\* Of any flags and text of --set: what gtctl appends counts before what --set
\* says for the chart, of which the last counts, and that before the flags
\* (Parse, the creates, struct2Values).
THEOREM LayersCountInOrder ==
    ASSUME NEW pieces \in Seq(SetPieces), NEW flags \in Seq(Assignments \ {Empty}),
           NEW chart \in Charts, NEW cn \in BOOLEAN
    PROVE  SetWins(pieces, flags, chart, cn)
<1> DEFINE config == ConfigOf(pieces, chart)
           suffix == Suffix(chart, flags, cn)
           text   == Text(flags, pieces, chart, cn)
           values == Parsed(text)
<1> SUFFICES ASSUME suffix = <<>> \/ ~Glued(config)
             PROVE  /\ DOMAIN values = KeysIn(flags) \cup KeysSet(pieces, chart) \cup KeysIn(suffix)
                    /\ \A key \in DOMAIN values :
                          IF key \in KeysIn(suffix) THEN EndsAs(suffix, key, values[key])
                          ELSE IF key \in KeysSet(pieces, chart)
                          THEN SetTo(pieces, chart, key, values[key])
                          ELSE EndsAs(flags, key, values[key])
  BY Zenon DEF SetWins
<1>1. /\ config \in Seq(Assignments)
      /\ KeysIn(config) = KeysSet(pieces, chart)
      /\ \A key, val : EndsAs(config, key, val) => SetTo(pieces, chart, key, val)
  BY ConfigEndsAsSet
<1>2. config \in Texts /\ suffix \in Texts /\ flags \in Texts
  <2>1. suffix \in Texts
    BY SuffixIsText
  <2> HIDE DEF config, suffix
  <2> QED BY <1>1, <2>1 DEF Texts
<1>3. PICK head \in Texts :
         /\ Plus(config, suffix) = head \o suffix
         /\ KeysIn(head) = KeysIn(config)
         /\ \A key, val : key # "" /\ EndsAs(head, key, val) => EndsAs(config, key, val)
  <2> HIDE DEF config, suffix
  <2> QED BY <1>2, PlusJoins
<1>4. text = flags \o (head \o suffix)
  BY <1>3 DEF Text
<1>5. DOMAIN values = KeysIn(text)
  BY DEF Parsed
<1> HIDE DEF config, suffix, text, values
<1>6. head \o suffix \in Texts /\ text \in Texts
  <2>1. ASSUME NEW S, NEW s \in Seq(S), NEW t \in Seq(S) PROVE s \o t \in Seq(S)
    BY <2>1
  <2>2. head \o suffix \in Texts
    BY <1>2, <2>1 DEF Texts
  <2> QED BY <1>2, <1>4, <2>1, <2>2 DEF Texts
<1>7. Joins(head, suffix, head \o suffix) /\ Joins(flags, head \o suffix, text)
  BY <1>2, <1>3, <1>4, <1>6, ConcatJoins DEF Texts
<1>8. /\ KeysIn(head \o suffix) = KeysIn(head) \cup KeysIn(suffix)
      /\ KeysIn(text) = KeysIn(flags) \cup KeysIn(head) \cup KeysIn(suffix)
  <2>1. KeysIn(head \o suffix) = KeysIn(head) \cup KeysIn(suffix)
    BY <1>7, KeysOfJoin
  <2>2. KeysIn(text) = KeysIn(flags) \cup KeysIn(head \o suffix)
    BY <1>7, KeysOfJoin
  <2> QED BY <2>1, <2>2
<1>9. \A s \in Texts : \A key \in KeysIn(s) : \E val : EndsAs(s, key, val)
  BY KeysEnd, TextsAreOfSets DEF Texts
<1>10. \A key \in KeysIn(text) : \A val : EndsAs(text, key, val) => values[key] = val
  BY <1>6, ParsedAsEnded DEF Texts, values
<1>11. \A s : "" \notin KeysIn(s)
  BY DEF KeysIn
<1>12. ASSUME NEW key \in KeysIn(text)
       PROVE  IF key \in KeysIn(suffix) THEN EndsAs(suffix, key, values[key])
              ELSE IF key \in KeysSet(pieces, chart)
              THEN SetTo(pieces, chart, key, values[key])
              ELSE EndsAs(flags, key, values[key])
  <2>1. CASE key \in KeysIn(suffix)
    <3>1. PICK val : EndsAs(suffix, key, val)
      BY <1>2, <1>9, <2>1
    <3>2. EndsAs(head \o suffix, key, val)
      BY <1>7, <3>1, SecondCounts
    <3>3. EndsAs(text, key, val)
      BY <1>7, <3>2, SecondCounts
    <3> QED BY <1>10, <2>1, <3>1, <3>3
  <2>2. CASE key \notin KeysIn(suffix) /\ key \in KeysIn(head)
    <3>1. PICK val : EndsAs(head, key, val)
      BY <1>9, <2>2
    <3>2. EndsAs(head \o suffix, key, val)
      BY <1>7, <1>11, <2>2, <3>1, FirstCounts
    <3>3. EndsAs(text, key, val)
      BY <1>7, <3>2, SecondCounts
    <3>4. SetTo(pieces, chart, key, val)
      BY <1>1, <1>3, <1>11, <3>1
    <3> QED BY <1>1, <1>3, <1>10, <2>2, <3>3, <3>4
  <2>3. CASE key \notin KeysIn(suffix) /\ key \notin KeysIn(head)
    <3>1. key \in KeysIn(flags) /\ key \notin KeysIn(head \o suffix) /\ key # ""
      BY <1>8, <1>11, <2>3
    <3>2. PICK val : EndsAs(flags, key, val)
      BY <1>2, <1>9, <3>1
    <3>3. EndsAs(text, key, val)
      BY <1>7, <3>1, <3>2, FirstCounts
    <3> QED BY <1>1, <1>3, <1>10, <2>3, <3>2, <3>3
  <2> QED BY <2>1, <2>2, <2>3
<1> QED BY <1>1, <1>3, <1>5, <1>8, <1>12

-----------------------------------------------------------------------------
(* The recursive functions of the merge *)

\* Functions on the first m depths, or places of a path, that are built like
\* the maps, the merge and the nodes of a path.
MapsUpTo(m, g) ==
    g = [k \in 0 .. m |->
            IF k = 0 THEN {}
            ELSE Partial({Leaf(v) : v \in Leaves} \cup {Map(f) : f \in g[k - 1]})]

MergesUpTo(m, g) ==
    g = [k \in 0 .. m |->
            IF k = 0 THEN <<>>
            ELSE [ab \in MapsTo[k] \X MapsTo[k] |-> Over(ab[1], ab[2], g[k - 1])]]

NodesUpTo(f, p, m, g) ==
    g = [k \in 0 .. m |->
            IF k = 0 THEN Map(f)
            ELSE IF g[k - 1].map /\ p[k] \in DOMAIN g[k - 1].at
            THEN g[k - 1].at[p[k]]
            ELSE Nothing]

\* There are such functions, and they are MapsTo, MergeMaps and Along.
LEMMA MapsAreDefined ==
    MapsUpTo(Depth, MapsTo)
<1> DEFINE top == Depth
           Next1(g, k) == Partial({Leaf(v) : v \in Leaves} \cup {Map(f) : f \in g[k - 1]})
           T == {m \in 0 .. top : \E g : MapsUpTo(m, g)}
<1>1. top \in Nat
  BY HelmValuesAssumption
<1>2. 0 \in T
  <2> DEFINE g0 == [k \in 0 .. 0 |-> {}]
  <2>1. g0 = [k \in 0 .. 0 |-> IF k = 0 THEN {} ELSE Next1(g0, k)]
    <3>1. \A k \in 0 .. 0 : (IF k = 0 THEN {} ELSE Next1(g0, k)) = {}
      OBVIOUS
    <3> HIDE DEF Next1
    <3> QED BY <3>1
  <2>2. MapsUpTo(0, g0)
    BY <2>1 DEF MapsUpTo
  <2> QED BY <1>1, <2>2
<1>3. ASSUME NEW m \in 0 .. top, m \in T, m < top PROVE m + 1 \in T
  <2>1. PICK g : MapsUpTo(m, g)
    BY <1>3
  <2> DEFINE h == [k \in 0 .. m + 1 |-> IF k = m + 1 THEN Next1(g, k) ELSE g[k]]
  <2>2. ASSUME NEW k \in 0 .. m + 1 PROVE h[k] = IF k = 0 THEN {} ELSE Next1(h, k)
    <3>1. CASE k = 0
      <4>1. k \in 0 .. m /\ h[k] = g[k] /\ g[k] = {}
        BY <1>3, <2>1, <3>1 DEF MapsUpTo
      <4> HIDE DEF h, Next1
      <4> QED BY <3>1, <4>1
    <3>2. CASE k # 0
      <4>1. k - 1 \in 0 .. m /\ h[k - 1] = g[k - 1]
        BY <1>3, <3>2
      <4>2. h[k] = Next1(g, k)
        <5>1. CASE k = m + 1
          BY <5>1
        <5>2. CASE k # m + 1
          <6>1. k \in 0 .. m /\ h[k] = g[k]
            BY <1>3, <5>2
          <6>2. g[k] = Next1(g, k)
            BY <2>1, <3>2, <6>1 DEF MapsUpTo
          <6> HIDE DEF h, Next1
          <6> QED BY <6>1, <6>2
        <5> QED BY <5>1, <5>2
      <4>3. Next1(h, k) = Next1(g, k)
        <5> HIDE DEF h
        <5> QED BY <4>1
      <4> HIDE DEF h, Next1
      <4> QED BY <3>2, <4>2, <4>3
    <3> QED BY <3>1, <3>2
  <2>3. MapsUpTo(m + 1, h)
    <3>1. h = [k \in 0 .. m + 1 |-> h[k]]
      OBVIOUS
    <3>2. h = [k \in 0 .. m + 1 |-> IF k = 0 THEN {} ELSE Next1(h, k)]
      <4> HIDE DEF h, Next1
      <4> QED BY <2>2, <3>1
    <3> QED BY <3>2 DEF MapsUpTo
  <2>4. m + 1 \in 0 .. top
    BY <1>1, <1>3
  <2> QED BY <2>3, <2>4
<1>4. top \in T
  <2>1. 0 \in Nat /\ top \in Nat /\ top \in 0 .. top
    BY <1>1
  <2> HIDE DEF T
  <2> QED BY <1>2, <1>3, <2>1, Upwards
<1>5. \E g : MapsUpTo(top, g)
  BY <1>4
<1> QED BY <1>5 DEF MapsTo, MapsUpTo

LEMMA MergesAreDefined ==
    MergesUpTo(Depth, MergeMaps)
<1> DEFINE top == Depth
           Next1(g, k) == [ab \in MapsTo[k] \X MapsTo[k] |-> Over(ab[1], ab[2], g[k - 1])]
           T == {m \in 0 .. top : \E g : MergesUpTo(m, g)}
<1>1. top \in Nat
  BY HelmValuesAssumption
<1>2. 0 \in T
  <2> DEFINE g0 == [k \in 0 .. 0 |-> <<>>]
  <2>1. g0 = [k \in 0 .. 0 |-> IF k = 0 THEN <<>> ELSE Next1(g0, k)]
    <3>1. \A k \in 0 .. 0 : (IF k = 0 THEN <<>> ELSE Next1(g0, k)) = <<>>
      OBVIOUS
    <3> HIDE DEF Next1
    <3> QED BY <3>1
  <2>2. MergesUpTo(0, g0)
    BY <2>1 DEF MergesUpTo
  <2> QED BY <1>1, <2>2
<1>3. ASSUME NEW m \in 0 .. top, m \in T, m < top PROVE m + 1 \in T
  <2>1. PICK g : MergesUpTo(m, g)
    BY <1>3
  <2> DEFINE h == [k \in 0 .. m + 1 |-> IF k = m + 1 THEN Next1(g, k) ELSE g[k]]
  <2>2. ASSUME NEW k \in 0 .. m + 1 PROVE h[k] = IF k = 0 THEN <<>> ELSE Next1(h, k)
    <3>1. CASE k = 0
      <4>1. k \in 0 .. m /\ h[k] = g[k] /\ g[k] = <<>>
        BY <1>3, <2>1, <3>1 DEF MergesUpTo
      <4> HIDE DEF h, Next1
      <4> QED BY <3>1, <4>1
    <3>2. CASE k # 0
      <4>1. k - 1 \in 0 .. m /\ h[k - 1] = g[k - 1]
        BY <1>3, <3>2
      <4>2. h[k] = Next1(g, k)
        <5>1. CASE k = m + 1
          BY <5>1
        <5>2. CASE k # m + 1
          <6>1. k \in 0 .. m /\ h[k] = g[k]
            BY <1>3, <5>2
          <6>2. g[k] = Next1(g, k)
            BY <2>1, <3>2, <6>1 DEF MergesUpTo
          <6> HIDE DEF h, Next1
          <6> QED BY <6>1, <6>2
        <5> QED BY <5>1, <5>2
      <4>3. Next1(h, k) = Next1(g, k)
        <5> HIDE DEF h
        <5> QED BY <4>1
      <4> HIDE DEF h, Next1
      <4> QED BY <3>2, <4>2, <4>3
    <3> QED BY <3>1, <3>2
  <2>3. MergesUpTo(m + 1, h)
    <3>1. h = [k \in 0 .. m + 1 |-> h[k]]
      OBVIOUS
    <3>2. h = [k \in 0 .. m + 1 |-> IF k = 0 THEN <<>> ELSE Next1(h, k)]
      <4> HIDE DEF h, Next1
      <4> QED BY <2>2, <3>1
    <3> QED BY <3>2 DEF MergesUpTo
  <2>4. m + 1 \in 0 .. top
    BY <1>1, <1>3
  <2> QED BY <2>3, <2>4
<1>4. top \in T
  <2>1. 0 \in Nat /\ top \in Nat /\ top \in 0 .. top
    BY <1>1
  <2> HIDE DEF T
  <2> QED BY <1>2, <1>3, <2>1, Upwards
<1>5. \E g : MergesUpTo(top, g)
  BY <1>4
<1> QED BY <1>5 DEF MergeMaps, MergesUpTo

LEMMA NodesAreDefined ==
    ASSUME NEW f, NEW S, NEW p \in Seq(S)
    PROVE  NodesUpTo(f, p, Len(p), Along(f, p))
<1> DEFINE top == Len(p)
           Next1(g, k) == IF g[k - 1].map /\ p[k] \in DOMAIN g[k - 1].at
                          THEN g[k - 1].at[p[k]] ELSE Nothing
           T == {m \in 0 .. top : \E g : NodesUpTo(f, p, m, g)}
<1>1. top \in Nat
  OBVIOUS
<1>2. 0 \in T
  <2> DEFINE g0 == [k \in 0 .. 0 |-> Map(f)]
  <2>1. g0 = [k \in 0 .. 0 |-> IF k = 0 THEN Map(f) ELSE Next1(g0, k)]
    <3>1. \A k \in 0 .. 0 : (IF k = 0 THEN Map(f) ELSE Next1(g0, k)) = Map(f)
      OBVIOUS
    <3> HIDE DEF Next1
    <3> QED BY <3>1
  <2>2. NodesUpTo(f, p, 0, g0)
    BY <2>1 DEF NodesUpTo
  <2> QED BY <1>1, <2>2
<1>3. ASSUME NEW m \in 0 .. top, m \in T, m < top PROVE m + 1 \in T
  <2>1. PICK g : NodesUpTo(f, p, m, g)
    BY <1>3
  <2> DEFINE h == [k \in 0 .. m + 1 |-> IF k = m + 1 THEN Next1(g, k) ELSE g[k]]
  <2>2. ASSUME NEW k \in 0 .. m + 1 PROVE h[k] = IF k = 0 THEN Map(f) ELSE Next1(h, k)
    <3>1. CASE k = 0
      <4>1. k \in 0 .. m /\ h[k] = g[k] /\ g[k] = Map(f)
        BY <1>3, <2>1, <3>1 DEF NodesUpTo
      <4> HIDE DEF h, Next1
      <4> QED BY <3>1, <4>1
    <3>2. CASE k # 0
      <4>1. k - 1 \in 0 .. m /\ h[k - 1] = g[k - 1]
        BY <1>3, <3>2
      <4>2. h[k] = Next1(g, k)
        <5>1. CASE k = m + 1
          BY <5>1
        <5>2. CASE k # m + 1
          <6>1. k \in 0 .. m /\ h[k] = g[k]
            BY <1>3, <5>2
          <6>2. g[k] = Next1(g, k)
            BY <2>1, <3>2, <6>1 DEF NodesUpTo
          <6> HIDE DEF h, Next1
          <6> QED BY <6>1, <6>2
        <5> QED BY <5>1, <5>2
      <4>3. Next1(h, k) = Next1(g, k)
        <5> HIDE DEF h
        <5> QED BY <4>1
      <4> HIDE DEF h, Next1
      <4> QED BY <3>2, <4>2, <4>3
    <3> QED BY <3>1, <3>2
  <2>3. NodesUpTo(f, p, m + 1, h)
    <3>1. h = [k \in 0 .. m + 1 |-> h[k]]
      OBVIOUS
    <3>2. h = [k \in 0 .. m + 1 |-> IF k = 0 THEN Map(f) ELSE Next1(h, k)]
      <4> HIDE DEF h, Next1
      <4> QED BY <2>2, <3>1
    <3> QED BY <3>2 DEF NodesUpTo
  <2>4. m + 1 \in 0 .. top
    BY <1>1, <1>3
  <2> QED BY <2>3, <2>4
<1>4. top \in T
  <2>1. 0 \in Nat /\ top \in Nat /\ top \in 0 .. top
    BY <1>1
  <2> HIDE DEF T
  <2> QED BY <1>2, <1>3, <2>1, Upwards
<1>5. \E g : NodesUpTo(f, p, top, g)
  BY <1>4
<1> QED BY <1>5 DEF Along, NodesUpTo

-----------------------------------------------------------------------------
(* The merge along a path *)

\* The maps of d levels.
LEMMA MapForm ==
    ASSUME NEW d \in 0 .. Depth, NEW f \in MapsTo[d], NEW k \in DOMAIN f
    PROVE  /\ d > 0
           /\ \/ ~f[k].map /\ f[k] # Nothing
              \/ f[k].map /\ f[k] # Nothing /\ f[k].at \in MapsTo[d - 1]
<1> DEFINE S == {Leaf(v) : v \in Leaves} \cup {Map(g) : g \in MapsTo[d - 1]}
<1>1. MapsTo[d] = IF d = 0 THEN {} ELSE Partial(S)
  <2>1. MapsUpTo(Depth, MapsTo)
    BY MapsAreDefined
  <2> DEFINE body(j) == IF j = 0 THEN {}
                        ELSE Partial({Leaf(v) : v \in Leaves} \cup {Map(g) : g \in MapsTo[j - 1]})
  <2>2. MapsTo = [j \in 0 .. Depth |-> body(j)]
    BY <2>1 DEF MapsUpTo
  <2>3. MapsTo[d] = body(d)
    <3> HIDE DEF body
    <3> QED BY <2>2
  <2> QED BY <2>3
<1>2. d > 0 /\ f \in Partial(S)
  BY <1>1
<1>3. f[k] \in S
  <2> HIDE DEF S
  <2>1. PICK D \in SUBSET Keys : f \in [D -> S]
    BY <1>2 DEF Partial
  <2> QED BY <2>1
<1>4. CASE f[k] \in {Leaf(v) : v \in Leaves}
  <2>1. PICK v \in Leaves : f[k] = Leaf(v)
    BY <1>4
  <2>2. ~f[k].map /\ f[k].val = v /\ Nothing.val = "nothing"
    BY <2>1 DEF Leaf, Nothing
  <2> QED BY <1>2, <2>2, HelmValuesAssumption
<1>5. CASE f[k] \in {Map(g) : g \in MapsTo[d - 1]}
  <2>1. PICK g \in MapsTo[d - 1] : f[k] = Map(g)
    BY <1>5
  <2>2. f[k].map /\ f[k].at = g /\ ~Nothing.map
    BY <2>1 DEF Map, Leaf, Nothing
  <2> QED BY <1>2, <2>2
<1> QED BY <1>3, <1>4, <1>5

LEMMA MergeForm ==
    ASSUME NEW d \in 0 .. Depth, d > 0, NEW a \in MapsTo[d], NEW b \in MapsTo[d]
    PROVE  MergeMaps[d][<<a, b>>] = Over(a, b, MergeMaps[d - 1])
<1> DEFINE body(j) == IF j = 0 THEN <<>>
                      ELSE [ab \in MapsTo[j] \X MapsTo[j] |-> Over(ab[1], ab[2], MergeMaps[j - 1])]
<1>1. MergeMaps = [j \in 0 .. Depth |-> body(j)]
  BY MergesAreDefined DEF MergesUpTo
<1>2. MergeMaps[d] = body(d)
  <2> HIDE DEF body
  <2> QED BY <1>1
<1>3. MergeMaps[d] = [ab \in MapsTo[d] \X MapsTo[d] |-> Over(ab[1], ab[2], MergeMaps[d - 1])]
  BY <1>2
<1>4. <<a, b>> \in MapsTo[d] \X MapsTo[d] /\ <<a, b>>[1] = a /\ <<a, b>>[2] = b
  OBVIOUS
<1> QED BY <1>3, <1>4

LEMMA NodeForm ==
    ASSUME NEW f, NEW S, NEW p \in Seq(S)
    PROVE  /\ Along(f, p)[0] = Map(f)
           /\ \A i \in 0 .. Len(p) - 1 :
                 Along(f, p)[i + 1] = IF Along(f, p)[i].map /\ p[i + 1] \in DOMAIN Along(f, p)[i].at
                                      THEN Along(f, p)[i].at[p[i + 1]]
                                      ELSE Nothing
<1> DEFINE node == Along(f, p)
           body(k) == IF k = 0 THEN Map(f)
                      ELSE IF node[k - 1].map /\ p[k] \in DOMAIN node[k - 1].at
                      THEN node[k - 1].at[p[k]]
                      ELSE Nothing
<1>1. node = [k \in 0 .. Len(p) |-> body(k)]
  BY NodesAreDefined DEF NodesUpTo
<1>2. \A k \in 0 .. Len(p) : node[k] = body(k)
  <2> HIDE DEF body, node
  <2> QED BY <1>1
<1>3. Len(p) \in Nat
  OBVIOUS
<1> HIDE DEF node
<1>4. node[0] = Map(f)
  BY <1>2, <1>3
<1>5. ASSUME NEW i \in 0 .. Len(p) - 1
      PROVE  node[i + 1] = IF node[i].map /\ p[i + 1] \in DOMAIN node[i].at
                           THEN node[i].at[p[i + 1]] ELSE Nothing
  <2>1. i + 1 \in 0 .. Len(p) /\ i + 1 # 0 /\ (i + 1) - 1 = i
    BY <1>3
  <2> QED BY <1>2, <2>1
<1> QED BY <1>4, <1>5 DEF node

\* What the base, the values and the merge have at a place of a path: the
\* values have no leaf in the way, and both have maps, or the values' node
\* counts, or the base's; or else there is nothing.
BothMaps(b, v, m) ==
    \E d \in 0 .. Depth :
        /\ b.map /\ v.map /\ v # Nothing
        /\ b.at \in MapsTo[d] /\ v.at \in MapsTo[d]
        /\ m = Map(MergeMaps[d][<<b.at, v.at>>])

MergedNode(b, v, m, blocked) ==
    \/ ~blocked /\ BothMaps(b, v, m)
    \/ ~blocked /\ v # Nothing /\ m = v /\ ~(b.map /\ v.map)
    \/ ~blocked /\ v = Nothing /\ m = b
    \/ blocked /\ v = Nothing /\ m = Nothing

Child(x, key) == IF x.map /\ key \in DOMAIN x.at THEN x.at[key] ELSE Nothing

\* One key further.
LEMMA MergeStep ==
    ASSUME NEW b, NEW v, NEW m, NEW blocked \in BOOLEAN, MergedNode(b, v, m, blocked), NEW key
    PROVE  MergedNode(Child(b, key), Child(v, key), Child(m, key), blocked \/ IsLeaf(v))
<1>0. ~Nothing.map
  BY DEF Nothing, Leaf
<1>1. CASE ~blocked /\ BothMaps(b, v, m)
  <2>1. PICK d \in 0 .. Depth :
           /\ b.map /\ v.map /\ v # Nothing
           /\ b.at \in MapsTo[d] /\ v.at \in MapsTo[d]
           /\ m = Map(MergeMaps[d][<<b.at, v.at>>])
    BY <1>1 DEF BothMaps
  <2>2. ~IsLeaf(v)
    BY <2>1 DEF IsLeaf
  <2> DEFINE f == b.at
             g == v.at
  <2> HIDE DEF f, g
  <2>3. f \in MapsTo[d] /\ g \in MapsTo[d] /\ m = Map(MergeMaps[d][<<f, g>>])
    BY <2>1 DEF f, g
  <2>4. /\ Child(b, key) = IF key \in DOMAIN f THEN f[key] ELSE Nothing
        /\ Child(v, key) = IF key \in DOMAIN g THEN g[key] ELSE Nothing
    BY <2>1 DEF Child, f, g
  <2>5. CASE key \notin DOMAIN f /\ key \notin DOMAIN g
    <3>1. Child(m, key) = Nothing
      <4>1. m.map /\ m.at = MergeMaps[d][<<f, g>>]
        BY <2>3 DEF Map
      <4>2. CASE d = 0
        <5>1. MapsTo[0] = {}
          BY MapsAreDefined, HelmValuesAssumption DEF MapsUpTo
        <5> QED BY <2>3, <4>2, <5>1
      <4>3. CASE d > 0
        <5>1. m.at = Over(f, g, MergeMaps[d - 1])
          BY <2>3, <4>1, <4>3, MergeForm
        <5>2. DOMAIN m.at = DOMAIN f \cup DOMAIN g
          BY <5>1 DEF Over
        <5> QED BY <2>5, <5>2 DEF Child
      <4> QED BY <4>2, <4>3
    <3> QED BY <1>1, <2>2, <2>4, <2>5, <3>1 DEF MergedNode
  <2>6. CASE key \in DOMAIN f \/ key \in DOMAIN g
    <3>1. d > 0
      BY <2>3, <2>6, MapForm
    <3>2. m.map /\ m.at = Over(f, g, MergeMaps[d - 1])
      BY <2>3, <3>1, MergeForm DEF Map
    <3>3. Child(m, key) = IF key \notin DOMAIN g THEN f[key]
                          ELSE IF key \in DOMAIN f /\ f[key].map /\ g[key].map
                          THEN Map(MergeMaps[d - 1][<<f[key].at, g[key].at>>])
                          ELSE g[key]
      <4> DEFINE body(k) == IF k \notin DOMAIN g THEN f[k]
                            ELSE IF k \in DOMAIN f /\ f[k].map /\ g[k].map
                            THEN Map(MergeMaps[d - 1][<<f[k].at, g[k].at>>])
                            ELSE g[k]
      <4>1. m.at = [k \in DOMAIN f \cup DOMAIN g |-> body(k)]
        BY <3>2 DEF Over
      <4>2. key \in DOMAIN m.at /\ m.at[key] = body(key)
        <5> HIDE DEF body
        <5> QED BY <2>6, <4>1
      <4>3. Child(m, key) = body(key)
        <5> HIDE DEF body
        <5> QED BY <3>2, <4>2 DEF Child
      <4> QED BY <4>3
    <3>4. CASE key \notin DOMAIN g
      BY <1>1, <2>2, <2>4, <3>3, <3>4, <2>6 DEF MergedNode
    <3>5. CASE key \in DOMAIN g /\ key \in DOMAIN f /\ f[key].map /\ g[key].map
      <4>1. g[key] # Nothing /\ g[key].at \in MapsTo[d - 1] /\ f[key].at \in MapsTo[d - 1]
        BY <2>3, <3>5, MapForm
      <4>2. d - 1 \in 0 .. Depth
        BY <3>1, HelmValuesAssumption
      <4>3. BothMaps(Child(b, key), Child(v, key), Child(m, key))
        BY <2>4, <3>3, <3>5, <4>1, <4>2 DEF BothMaps
      <4> QED BY <1>1, <2>2, <4>3 DEF MergedNode
    <3>6. CASE key \in DOMAIN g /\ ~(key \in DOMAIN f /\ f[key].map /\ g[key].map)
      <4>1. g[key] # Nothing
        BY <2>3, <3>6, MapForm
      <4>2. Child(m, key) = Child(v, key) /\ Child(v, key) = g[key]
        BY <2>4, <3>3, <3>6
      <4>3. ~(Child(b, key).map /\ Child(v, key).map)
        BY <1>0, <2>4, <3>6
      <4> QED BY <1>1, <2>2, <4>1, <4>2, <4>3 DEF MergedNode
    <3> QED BY <3>4, <3>5, <3>6
  <2> QED BY <2>5, <2>6
<1>2. CASE ~blocked /\ v # Nothing /\ m = v /\ ~(b.map /\ v.map)
  <2>1. CASE v.map
    <3>1. ~IsLeaf(v) /\ Child(b, key) = Nothing /\ Child(m, key) = Child(v, key)
      BY <1>2, <2>1 DEF IsLeaf, Child
    <3> QED BY <1>0, <1>2, <3>1 DEF MergedNode
  <2>2. CASE ~v.map
    <3>1. IsLeaf(v) /\ Child(v, key) = Nothing /\ Child(m, key) = Nothing
      BY <1>2, <2>2 DEF IsLeaf, Child
    <3> QED BY <3>1 DEF MergedNode
  <2> QED BY <2>1, <2>2
<1>3. CASE ~blocked /\ v = Nothing /\ m = b
  <2>1. ~IsLeaf(v) /\ Child(v, key) = Nothing
    BY <1>0, <1>3 DEF IsLeaf, Child
  <2> QED BY <1>3, <2>1 DEF MergedNode
<1>4. CASE blocked /\ v = Nothing /\ m = Nothing
  <2>1. Child(v, key) = Nothing /\ Child(m, key) = Nothing
    BY <1>0, <1>4 DEF Child
  <2> QED BY <1>4, <2>1 DEF MergedNode
<1> QED BY <1>1, <1>2, <1>3, <1>4 DEF MergedNode

\* Of any two maps and any path: the merge leads where the values over the
\* base do, or else where the base does (mergeMaps, ToHelmValues).
THEOREM MergeDecidesByPath ==
    ASSUME NEW base \in MapsTo[Depth], NEW vals \in MapsTo[Depth], NEW p \in Seq(Keys)
    PROVE  MergedAt(base, vals, p)
<1> DEFINE n == Len(p)
           b == Along(base, p)
           v == Along(vals, p)
           m == Along(ToHelmValues(base, vals), p)
           blocked(i) == \E j \in 0 .. i - 1 : IsLeaf(v[j])
           T == {i \in 0 .. n : MergedNode(b[i], v[i], m[i], blocked(i))}
<1>1. n \in Nat
  OBVIOUS
<1>2. /\ b[0] = Map(base) /\ v[0] = Map(vals) /\ m[0] = Map(ToHelmValues(base, vals))
      /\ \A i \in 0 .. n - 1 : /\ b[i + 1] = Child(b[i], p[i + 1])
                               /\ v[i + 1] = Child(v[i], p[i + 1])
                               /\ m[i + 1] = Child(m[i], p[i + 1])
  <2>1. \A f : /\ Along(f, p)[0] = Map(f)
               /\ \A i \in 0 .. n - 1 : Along(f, p)[i + 1] = Child(Along(f, p)[i], p[i + 1])
    BY NodeForm DEF Child
  <2> QED BY <2>1
<1> HIDE DEF b, v, m
<1>3. 0 \in T
  <2>1. BothMaps(Map(base), Map(vals), Map(ToHelmValues(base, vals)))
    <3>1. Map(vals).map /\ ~Nothing.map /\ Map(base).map
          /\ Map(vals).at = vals /\ Map(base).at = base
      BY DEF Map, Nothing, Leaf
    <3>2. Depth \in 0 .. Depth
      BY HelmValuesAssumption
    <3> QED BY <3>1, <3>2 DEF BothMaps, ToHelmValues
  <2>2. ~blocked(0)
    OBVIOUS
  <2> HIDE DEF blocked
  <2> QED BY <1>1, <1>2, <2>1, <2>2 DEF MergedNode
<1>4. ASSUME NEW i \in 0 .. n, i \in T, i < n PROVE i + 1 \in T
  <2>1. i \in 0 .. n - 1 /\ i + 1 \in 0 .. n
    BY <1>1, <1>4
  <2>2. blocked(i + 1) <=> blocked(i) \/ IsLeaf(v[i])
    <3>1. 0 .. (i + 1) - 1 = (0 .. i - 1) \cup {i}
      BY <1>4
    <3> QED BY <3>1
  <2>3. blocked(i) \in BOOLEAN /\ MergedNode(b[i], v[i], m[i], blocked(i))
    BY <1>4
  <2> HIDE DEF blocked
  <2>4. MergedNode(b[i + 1], v[i + 1], m[i + 1], blocked(i) \/ IsLeaf(v[i]))
    BY <1>2, <2>1, <2>3, MergeStep
  <2>5. MergedNode(b[i + 1], v[i + 1], m[i + 1], blocked(i + 1))
    BY <2>2, <2>4 DEF MergedNode
  <2> QED BY <2>1, <2>5
<1>5. n \in T
  <2>1. 0 \in Nat /\ n \in Nat /\ n \in 0 .. n
    BY <1>1
  <2> HIDE DEF T
  <2> QED BY <1>3, <1>4, <2>1, Upwards
<1>6. MergedNode(b[n], v[n], m[n], blocked(n))
  BY <1>5
<1>7. BothMaps(b[n], v[n], m[n]) => v[n] # Nothing /\ v[n].map /\ m[n].map
  BY DEF BothMaps, Map
<1>8. IF v[n] # Nothing THEN m[n].map = v[n].map /\ (v[n].map \/ m[n] = v[n])
      ELSE IF blocked(n) THEN m[n] = Nothing
      ELSE m[n] = b[n]
  <2> HIDE DEF blocked
  <2> QED BY <1>6, <1>7 DEF MergedNode
<1> QED BY <1>8 DEF MergedAt, b, v, m
=============================================================================
