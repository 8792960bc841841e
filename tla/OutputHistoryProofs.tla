------------------------- MODULE OutputHistoryProofs ------------------------
(***************************************************************************)
(* Proofs about OutputHistory, for runes, reads, limits and inputs of any   *)
(* length: no rune is split, no byte is lost, and the replay is the newest  *)
(* output there is room for.                                               *)
(***************************************************************************)
EXTENDS OutputHistory, SequenceTheorems, WellFoundedInduction, TLAPS

-----------------------------------------------------------------------------
(* Induction, from the least element of a set.                              *)

\* Every set of numbers has a least one.
LEMMA Least == ASSUME NEW T \in SUBSET Nat, T # {} PROVE \E m \in T : \A n \in T : m <= n
<1> DEFINE R == OpToRel(<, Nat)
<1>1. IsWellFoundedOn(R, Nat)
  BY NatLessThanWellFounded
<1>2. R = {ss \in Nat \X Nat : ss[1] < ss[2]}
  BY DEF OpToRel
<1> HIDE DEF R
<1>3. PICK m \in T : \A n \in T : ~(<<n, m>> \in R)
  BY <1>1, WFMin
<1>4. \A n \in T : ~(n < m)
  BY <1>2, <1>3
<1> QED BY <1>3, <1>4

\* Induction: a set with 0 and with the successor of each of its numbers.
LEMMA NatInd == ASSUME NEW T, 0 \in T, \A n \in Nat : n \in T => n + 1 \in T PROVE Nat \subseteq T
<1> SUFFICES ASSUME Nat \ T # {} PROVE FALSE
  OBVIOUS
<1>1. PICK m \in Nat \ T : \A n \in Nat \ T : m <= n
  BY Least
<1>2. m # 0 /\ m - 1 \in Nat /\ m - 1 \in T
  BY <1>1
<1> QED BY <1>1, <1>2

\* Induction up to a bound.
LEMMA UpTo == ASSUME NEW n \in Nat, NEW T, 0 \in T, \A i \in 1 .. n : i - 1 \in T => i \in T PROVE 0 .. n \subseteq T
<1> DEFINE U == {i \in Nat : i > n \/ i \in T}
<1>1. 0 \in U
  OBVIOUS
<1>2. \A i \in Nat : i \in U => i + 1 \in U
  <2> SUFFICES ASSUME NEW i \in Nat, i \in U, ~(i + 1 > n) PROVE i + 1 \in T
    OBVIOUS
  <2>1. i + 1 \in 1 .. n /\ (i + 1) - 1 = i /\ i \in T
    OBVIOUS
  <2> QED BY <2>1
<1> HIDE DEF U
<1>3. Nat \subseteq U
  BY <1>1, <1>2, NatInd
<1> QED BY <1>3 DEF U

\* A function that is defined from the value before.
UpSteps(g, n, e, F) == g[0] = e /\ \A i \in 1 .. n : g[i] = F[i][g[i - 1]]

\* What is defined from its predecessor, from 0 on, exists.
LEMMA Recursion ==
  ASSUME NEW n \in Nat, NEW S, NEW e \in S, NEW F \in [1 .. n -> [S -> S]]
  PROVE \E g \in [0 .. n -> S] : UpSteps(g, n, e, F)
<1> DEFINE Good(k, g) == g[0] = e /\ \A i \in 1 .. k : g[i] = F[i][g[i - 1]]
<1> DEFINE T == {k \in 0 .. n : \E g \in [0 .. k -> S] : Good(k, g)}
<1>1. 0 \in T
  <2>1. [i \in 0 .. 0 |-> e] \in [0 .. 0 -> S] /\ Good(0, [i \in 0 .. 0 |-> e])
    OBVIOUS
  <2>2. 0 \in 0 .. n
    OBVIOUS
  <2> HIDE DEF Good
  <2> QED BY <2>1, <2>2, Zenon
<1>2. ASSUME NEW k \in 1 .. n, k - 1 \in T PROVE k \in T
  <2>1. PICK g \in [0 .. k - 1 -> S] : Good(k - 1, g)
    BY <1>2
  <2> DEFINE h == [i \in 0 .. k |-> IF i = k THEN F[k][g[k - 1]] ELSE g[i]]
  <2>2. F[k] \in [S -> S] /\ g[k - 1] \in S
    OBVIOUS
  <2>3. h \in [0 .. k -> S]
    BY <2>2
  <2>4. \A i \in 0 .. k : h[i] = IF i = k THEN F[k][g[k - 1]] ELSE g[i]
    OBVIOUS
  <2> HIDE DEF h
  <2>5. h[0] = e
    BY <2>1, <2>4
  <2>6. ASSUME NEW i \in 1 .. k PROVE h[i] = F[i][h[i - 1]]
    <3>1. h[i - 1] = g[i - 1]
      BY <2>4
    <3> QED BY <2>1, <2>4, <3>1
  <2>7. Good(k, h) /\ k \in 0 .. n
    BY <2>5, <2>6
  <2> HIDE DEF Good
  <2> QED BY <2>3, <2>7, Zenon
<1> HIDE DEF T
<1>3. n \in T
  <2>1. 0 .. n \subseteq T
    BY <1>1, <1>2, UpTo
  <2> QED BY <2>1
<1>4. PICK g \in [0 .. n -> S] : Good(n, g)
  BY <1>3 DEF T
<1> QED BY <1>4 DEF UpSteps

\* Induction down from a bound.
LEMMA DownTo ==
    ASSUME NEW n \in Nat, NEW T,
           \A i \in 1 .. n + 1 : (\A j \in i + 1 .. n + 1 : j \in T) => i \in T
    PROVE  1 .. n + 1 \subseteq T
<1> DEFINE U == {k \in 0 .. n : \A j \in n + 1 - k .. n + 1 : j \in T}
<1>1. 0 \in U
  <2>1. n + 1 \in T
    OBVIOUS
  <2> QED BY <2>1
<1>2. ASSUME NEW k \in 1 .. n, k - 1 \in U PROVE k \in U
  <2>1. \A j \in n + 1 - (k - 1) .. n + 1 : j \in T
    BY <1>2
  <2>2. n + 1 - k \in 1 .. n + 1 /\ \A j \in (n + 1 - k) + 1 .. n + 1 : j \in T
    BY <2>1
  <2>3. n + 1 - k \in T
    BY <2>2
  <2>4. \A j \in n + 1 - k .. n + 1 : j \in T
    BY <2>2, <2>3
  <2> QED BY <2>4
<1> HIDE DEF U
<1>3. 0 .. n \subseteq U
  BY <1>1, <1>2, UpTo
<1>4. n \in U
  BY <1>3
<1> QED BY <1>4 DEF U

\* Every place has a later one to go on from.
Forward(next, n) == next \in [1 .. n -> Nat] /\ \A i \in 1 .. n : next[i] \in i + 1 .. n + 1

DownSteps(g, n, e, next, F) == g[n + 1] = e /\ \A i \in 1 .. n : g[i] = F[i][g[next[i]]]

\* What is defined from a later place, down from the last, exists.
LEMMA DownRecursion ==
    ASSUME NEW n \in Nat, NEW S, NEW e \in S,
           NEW next, Forward(next, n),
           NEW F \in [1 .. n -> [S -> S]]
    PROVE  \E g \in [1 .. n + 1 -> S] : DownSteps(g, n, e, next, F)
<1> DEFINE Good(k, g) == g[n + 1] = e /\ \A i \in n + 1 - k .. n : g[i] = F[i][g[next[i]]]
           T == {k \in 0 .. n : \E g \in [n + 1 - k .. n + 1 -> S] : Good(k, g)}
<1>1. 0 \in T
  <2> DEFINE g == [i \in n + 1 - 0 .. n + 1 |-> e]
  <2>1. g \in [n + 1 - 0 .. n + 1 -> S] /\ Good(0, g)
    OBVIOUS
  <2>2. 0 \in 0 .. n
    OBVIOUS
  <2> HIDE DEF Good, g
  <2> QED BY <2>1, <2>2, Zenon
<1>2. ASSUME NEW k \in 1 .. n, k - 1 \in T PROVE k \in T
  <2>1. PICK g \in [n + 1 - (k - 1) .. n + 1 -> S] : Good(k - 1, g)
    BY <1>2
  <2> DEFINE l == n + 1 - k
             h == [i \in l .. n + 1 |-> IF i = l THEN F[l][g[next[l]]] ELSE g[i]]
  <2>2. /\ l \in 1 .. n /\ next[l] \in l + 1 .. n + 1 /\ n + 1 - (k - 1) = l + 1
        /\ F[l] \in [S -> S]
    BY DEF Forward
  <2>3. g \in [l + 1 .. n + 1 -> S] /\ g[n + 1] = e /\ \A i \in l + 1 .. n : g[i] = F[i][g[next[i]]]
    BY <2>1, <2>2
  <2> HIDE DEF l
  <2>4. h \in [l .. n + 1 -> S]
    <3>1. g[next[l]] \in S
      BY <2>2, <2>3
    <3> QED BY <2>2, <2>3, <3>1
  <2>5. \A i \in l .. n + 1 : h[i] = IF i = l THEN F[l][g[next[l]]] ELSE g[i]
    OBVIOUS
  <2> HIDE DEF h
  <2>6. h[n + 1] = e
    <3>1. n + 1 \in l .. n + 1 /\ n + 1 # l
      BY <2>2
    <3>2. h[n + 1] = g[n + 1]
      BY <2>5, <3>1
    <3> QED BY <2>3, <3>2
  <2>7. ASSUME NEW i \in l .. n PROVE h[i] = F[i][h[next[i]]]
    <3>1. i \in 1 .. n /\ next[i] \in i + 1 .. n + 1
      BY <2>2 DEF Forward
    <3>2. h[next[i]] = g[next[i]]
      BY <2>2, <2>5, <3>1
    <3>3. CASE i = l
      BY <2>2, <2>5, <3>2, <3>3
    <3>4. CASE i # l
      <4>1. i \in l + 1 .. n /\ h[i] = g[i]
        BY <2>2, <2>5, <3>4
      <4> QED BY <2>3, <3>2, <4>1
    <3> QED BY <3>3, <3>4
  <2>8. Good(k, h) /\ k \in 0 .. n /\ h \in [n + 1 - k .. n + 1 -> S]
    BY <2>4, <2>6, <2>7 DEF l
  <2> HIDE DEF Good
  <2> QED BY <2>8, Zenon
<1> HIDE DEF T
<1>3. 0 .. n \subseteq T
  BY <1>1, <1>2, UpTo
<1>4. n \in T /\ n + 1 - n = 1
  BY <1>3
<1>5. PICK g \in [n + 1 - n .. n + 1 -> S] : Good(n, g)
  BY <1>4 DEF T
<1> QED BY <1>4, <1>5 DEF DownSteps

\* Every set of numbers within a bound has a greatest one.
LEMMA Greatest ==
    ASSUME NEW n \in Nat, NEW T \in SUBSET (0 .. n), T # {}
    PROVE  \E m \in T : \A k \in T : k <= m
<1> DEFINE U == {n - k : k \in T}
<1>1. U \in SUBSET Nat /\ U # {}
  <2>1. \A k \in T : n - k \in Nat
    OBVIOUS
  <2>2. U \in SUBSET Nat
    BY <2>1
  <2>3. PICK k \in T : TRUE
    OBVIOUS
  <2>4. n - k \in U
    BY <2>3
  <2> QED BY <2>2, <2>4
<1>2. PICK u \in U : \A v \in U : u <= v
  <2> HIDE DEF U
  <2> QED BY <1>1, Least
<1>3. PICK m \in T : u = n - m
  OBVIOUS
<1>4. \A k \in T : n - m <= n - k
  BY <1>2, <1>3
<1>5. \A k \in T : k <= m
  BY <1>4
<1> QED BY <1>5

-----------------------------------------------------------------------------
(* Cutting at rune boundaries.                                              *)

\* A rune has a byte at least, and ends within the buffer.
LEMMA RuneSizeBounds ==
    ASSUME NEW b \in Seq(Byte), NEW i \in 1 .. Len(b)
    PROVE  RuneSize(b, i) \in Nat \ {0} /\ i + RuneSize(b, i) \in i + 1 .. Len(b) + 1
<1>1. b[i] \in Nat /\ Len(b) \in Nat
  BY ElementOfSeq, LenProperties, HistoryConstants DEF Byte
<1> QED BY <1>1 DEF RuneSize

\* The loop of Cut, step by step.
CutSteps(b, err, g) ==
    /\ Cut(b, err) = g[1]
    /\ \A i \in 1 .. Len(b) + 1 :
          g[i] = IF i <= Len(b) /\ (err \/ FullRune(b, i)) THEN g[i + RuneSize(b, i)] ELSE i - 1

\* The loop can be run to its end.
LEMMA CutLoop ==
    ASSUME NEW b \in Seq(Byte), NEW err \in BOOLEAN
    PROVE  \E g : CutSteps(b, err, g)
<1> DEFINE n == Len(b)
           next == [i \in 1 .. n |-> i + RuneSize(b, i)]
           F == [i \in 1 .. n |-> [v \in Nat |-> IF err \/ FullRune(b, i) THEN v ELSE i - 1]]
           body(f) == [i \in 1 .. n + 1 |->
              IF i <= n /\ (err \/ FullRune(b, i)) THEN f[i + RuneSize(b, i)] ELSE i - 1]
<1>1. n \in Nat /\ Forward(next, n)
  <2>1. n \in Nat
    BY LenProperties
  <2>2. \A i \in 1 .. n : i + RuneSize(b, i) \in i + 1 .. n + 1
    BY RuneSizeBounds
  <2>3. \A i \in 1 .. n : i + RuneSize(b, i) \in Nat
    BY <2>1, <2>2
  <2> QED BY <2>1, <2>2, <2>3 DEF Forward
<1>2. F \in [1 .. n -> [Nat -> Nat]]
  BY <1>1
<1>3. PICK g \in [1 .. n + 1 -> Nat] : DownSteps(g, n, n, next, F)
  <2> HIDE DEF n, next, F
  <2> QED BY <1>1, <1>2, DownRecursion
<1>4. g = body(g)
  <2>1. ASSUME NEW i \in 1 .. n + 1
        PROVE  g[i] = IF i <= n /\ (err \/ FullRune(b, i)) THEN g[i + RuneSize(b, i)] ELSE i - 1
    <3>1. CASE i = n + 1
      BY <1>1, <1>3, <3>1 DEF DownSteps
    <3>2. CASE i \in 1 .. n
      <4>1. next[i] = i + RuneSize(b, i) /\ next[i] \in 1 .. n + 1
        BY <1>1, <3>2 DEF Forward
      <4>2. g[i] = IF err \/ FullRune(b, i) THEN g[next[i]] ELSE i - 1
        BY <1>3, <3>2, <4>1 DEF DownSteps
      <4> QED BY <1>1, <3>2, <4>1, <4>2
    <3> QED BY <1>1, <3>1, <3>2
  <2>2. g = [i \in 1 .. n + 1 |-> g[i]]
    OBVIOUS
  <2> QED BY <2>1, <2>2, Zenon
<1> DEFINE f == CHOOSE f : f = body(f)
<1>5. f = body(f)
  <2> HIDE DEF body
  <2> QED BY <1>4
<1>6. Cut(b, err) = f[1]
  BY DEF Cut
<1> HIDE DEF f
<1>7. \A i \in 1 .. n + 1 :
          f[i] = IF i <= n /\ (err \/ FullRune(b, i)) THEN f[i + RuneSize(b, i)] ELSE i - 1
  BY <1>5
<1> QED BY <1>6, <1>7 DEF CutSteps

\* Where a chunk is cut: nowhere before the end after an error, and otherwise before a
\* rune that is not complete, at a place that whole runes lead to.
LEMMA CutIs ==
    ASSUME NEW b \in Seq(Byte), NEW err \in BOOLEAN, NEW B, 0 \in B,
           \A i \in 1 .. Len(b) : i - 1 \in B /\ (err \/ FullRune(b, i)) => i - 1 + RuneSize(b, i) \in B
    PROVE  /\ Cut(b, err) \in 0 .. Len(b) /\ Cut(b, err) \in B
           /\ Cut(b, err) = Len(b) \/ (~err /\ ~FullRune(b, Cut(b, err) + 1))
<1>1. PICK g : CutSteps(b, err, g)
  BY CutLoop
<1> DEFINE n == Len(b)
           Good(i) == /\ g[i] \in 0 .. n
                      /\ g[i] = n \/ (~err /\ ~FullRune(b, g[i] + 1))
                      /\ i - 1 \in B => g[i] \in B
           T == {i \in 1 .. n + 1 : Good(i)}
<1>2. n \in Nat
  BY LenProperties
<1>3. ASSUME NEW i \in 1 .. n + 1, \A j \in i + 1 .. n + 1 : j \in T PROVE i \in T
  <2>1. CASE i <= n /\ (err \/ FullRune(b, i))
    <3> DEFINE j == i + RuneSize(b, i)
    <3>1. i \in 1 .. n /\ j \in i + 1 .. n + 1 /\ RuneSize(b, i) \in Nat
      BY <1>2, <2>1, RuneSizeBounds
    <3>2. g[i] = g[j] /\ Good(j)
      BY <1>1, <1>3, <2>1, <3>1 DEF CutSteps
    <3>3. i - 1 \in B => j - 1 \in B
      <4>1. j - 1 = i - 1 + RuneSize(b, i)
        BY <3>1
      <4> QED BY <2>1, <3>1, <4>1
    <3> HIDE DEF j
    <3> QED BY <3>2, <3>3
  <2>2. CASE ~(i <= n /\ (err \/ FullRune(b, i)))
    <3>1. g[i] = i - 1
      BY <1>1, <2>2 DEF CutSteps
    <3>2. CASE i = n + 1
      <4>1. g[i] = n /\ i - 1 = n
        BY <1>2, <3>1, <3>2
      <4> QED BY <1>2, <4>1
    <3>3. CASE i # n + 1
      <4>1. i <= n /\ i - 1 \in 0 .. n /\ (i - 1) + 1 = i
        BY <1>2, <3>3
      <4>2. ~err /\ ~FullRune(b, i)
        BY <2>2, <4>1
      <4> QED BY <3>1, <4>1, <4>2
    <3> QED BY <3>2, <3>3
  <2> QED BY <2>1, <2>2
<1>4. 1 .. n + 1 \subseteq T
  <2> HIDE DEF T
  <2> QED BY <1>2, <1>3, DownTo
<1>5. Good(1)
  BY <1>2, <1>4
<1> QED BY <1>1, <1>5 DEF CutSteps

\* The boundaries of the input, step by step.
AheadSteps(g, b) ==
    \A i \in 1 .. Len(b) + 1 :
        g[i] = IF i > Len(b) THEN {} ELSE {i + RuneSize(b, i) - 1} \cup g[i + RuneSize(b, i)]

\* The recursion of Boundaries comes to an end.
LEMMA AheadLoop ==
    ASSUME input \in Seq(Byte)
    PROVE  \E g : Boundaries = {0} \cup g[1] /\ AheadSteps(g, input)
<1> DEFINE n == Len(input)
           next == [i \in 1 .. n |-> i + RuneSize(input, i)]
           F == [i \in 1 .. n |-> [v \in SUBSET Nat |-> {i + RuneSize(input, i) - 1} \cup v]]
           body(f) == [i \in 1 .. n + 1 |->
              IF i > n THEN {} ELSE {i + RuneSize(input, i) - 1} \cup f[i + RuneSize(input, i)]]
<1>1. n \in Nat /\ Forward(next, n)
  <2>1. n \in Nat
    BY LenProperties
  <2>2. \A i \in 1 .. n : i + RuneSize(input, i) \in i + 1 .. n + 1
    BY RuneSizeBounds
  <2>3. \A i \in 1 .. n : i + RuneSize(input, i) \in Nat
    BY <2>1, <2>2
  <2> QED BY <2>1, <2>2, <2>3 DEF Forward
<1>2. F \in [1 .. n -> [SUBSET Nat -> SUBSET Nat]]
  <2>1. \A i \in 1 .. n : i + RuneSize(input, i) - 1 \in Nat
    BY <1>1, RuneSizeBounds
  <2> QED BY <2>1
<1>3. PICK g \in [1 .. n + 1 -> SUBSET Nat] : DownSteps(g, n, {}, next, F)
  <2> DEFINE R == SUBSET Nat
             e == {}
  <2>1. e \in R /\ F \in [1 .. n -> [R -> R]]
    BY <1>2
  <2> HIDE DEF n, next, F, R, e
  <2>2. \E g \in [1 .. n + 1 -> R] : DownSteps(g, n, e, next, F)
    BY <1>1, <2>1, DownRecursion
  <2> QED BY <2>2 DEF R, e
<1>4. g = body(g)
  <2>1. ASSUME NEW i \in 1 .. n + 1
        PROVE  g[i] = IF i > n THEN {} ELSE {i + RuneSize(input, i) - 1} \cup g[i + RuneSize(input, i)]
    <3>1. CASE i = n + 1
      <4>1. i > n /\ g[i] = {}
        BY <1>1, <1>3, <3>1 DEF DownSteps
      <4> QED BY <4>1
    <3>2. CASE i \in 1 .. n
      <4>1. next[i] = i + RuneSize(input, i) /\ next[i] \in 1 .. n + 1
        BY <1>1, <3>2 DEF Forward
      <4>2. g[next[i]] \in SUBSET Nat /\ g[i] = F[i][g[next[i]]]
        BY <1>3, <3>2, <4>1 DEF DownSteps
      <4>3. g[i] = {i + RuneSize(input, i) - 1} \cup g[next[i]]
        BY <3>2, <4>2
      <4> QED BY <1>1, <3>2, <4>1, <4>3
    <3> QED BY <1>1, <3>1, <3>2
  <2>2. g = [i \in 1 .. n + 1 |-> g[i]]
    OBVIOUS
  <2> QED BY <2>1, <2>2, Zenon
<1> DEFINE f == CHOOSE f : f = body(f)
<1>5. f = body(f)
  <2> HIDE DEF body
  <2> QED BY <1>4
<1>6. Boundaries = {0} \cup f[1]
  BY DEF Boundaries
<1> HIDE DEF f
<1>7. AheadSteps(f, input)
  BY <1>5 DEF AheadSteps
<1> QED BY <1>6, <1>7

\* From a boundary the next rune leads to a boundary.
LEMMA BoundariesAre ==
    ASSUME input \in Seq(Byte)
    PROVE  /\ 0 \in Boundaries /\ Boundaries \subseteq 0 .. Len(input)
           /\ \A p \in Boundaries : p < Len(input) => p + RuneSize(input, p + 1) \in Boundaries
<1>1. PICK g : Boundaries = {0} \cup g[1] /\ AheadSteps(g, input)
  BY AheadLoop
<1> DEFINE n == Len(input)
           Good(i) == /\ g[i] \subseteq 0 .. n
                      /\ i <= n => i - 1 + RuneSize(input, i) \in g[i]
                      /\ \A p \in g[i] : p < n => p + RuneSize(input, p + 1) \in g[i]
           T == {i \in 1 .. n + 1 : Good(i)}
<1>2. n \in Nat
  BY LenProperties
<1>3. ASSUME NEW i \in 1 .. n + 1, \A j \in i + 1 .. n + 1 : j \in T PROVE i \in T
  <2>1. CASE i = n + 1
    <3>1. g[i] = {} /\ ~(i <= n)
      <4>1. i \in 1 .. Len(input) + 1 /\ i > Len(input) /\ ~(i <= n)
        BY <1>2, <2>1
      <4> QED BY <1>1, <4>1 DEF AheadSteps
    <3> QED BY <3>1
  <2>2. CASE i \in 1 .. n
    <3> DEFINE j == i + RuneSize(input, i)
    <3>1. j \in i + 1 .. n + 1 /\ RuneSize(input, i) \in Nat
      BY <2>2, RuneSizeBounds
    <3>2. Good(j)
      BY <1>3, <3>1
    <3>3. g[i] = {j - 1} \cup g[j] /\ i - 1 + RuneSize(input, i) = j - 1
      <4>1. i \in 1 .. Len(input) + 1 /\ ~(i > Len(input))
        BY <1>2, <2>2
      <4>2. g[i] = {i + RuneSize(input, i) - 1} \cup g[j]
        BY <1>1, <4>1 DEF AheadSteps
      <4>3. i + RuneSize(input, i) - 1 = j - 1 /\ i - 1 + RuneSize(input, i) = j - 1
        BY <1>2, <2>2, <3>1
      <4> HIDE DEF j
      <4> QED BY <4>2, <4>3
    <3>4. g[i] \subseteq 0 .. n
      BY <1>2, <3>1, <3>2, <3>3
    <3>5. j - 1 < n => (j - 1) + RuneSize(input, (j - 1) + 1) \in g[j]
      <4>1. (j - 1) + 1 = j /\ (j - 1 < n => j <= n)
        BY <1>2, <3>1
      <4> HIDE DEF j
      <4> QED BY <3>2, <4>1
    <3> HIDE DEF j
    <3>6. \A p \in g[i] : p < n => p + RuneSize(input, p + 1) \in g[i]
      BY <3>2, <3>3, <3>5
    <3> QED BY <3>3, <3>4, <3>6
  <2> QED BY <1>2, <2>1, <2>2
<1>4. 1 .. n + 1 \subseteq T
  <2> HIDE DEF T
  <2> QED BY <1>2, <1>3, DownTo
<1>5. Good(1)
  BY <1>2, <1>4
<1>6. 0 < n => 0 + RuneSize(input, 0 + 1) \in g[1]
  <2>1. 0 < n => 1 <= n /\ 1 - 1 + RuneSize(input, 1) \in g[1]
    BY <1>2, <1>5
  <2> QED BY <2>1
<1> QED BY <1>1, <1>2, <1>5, <1>6

\* A byte that begins a rune is never inside another.
LEMMA RuneStartIsBoundary ==
    ASSUME input \in Seq(Byte), NEW p \in 0 .. Len(input), p < Len(input), input[p + 1] # 0
    PROVE  p \in Boundaries
<1> SUFFICES ASSUME p \notin Boundaries PROVE FALSE
  OBVIOUS
<1> DEFINE before == {k \in Boundaries : k <= p}
<1>1. Len(input) \in Nat
  BY LenProperties
<1>2. PICK q \in before : \A k \in before : k <= q
  <2>1. before \in SUBSET (0 .. Len(input)) /\ before # {}
    BY BoundariesAre
  <2> HIDE DEF before
  <2> QED BY <1>1, <2>1, Greatest
<1>3. q \in 0 .. Len(input) /\ q < p /\ q \in Boundaries
  BY <1>2, BoundariesAre
<1> DEFINE i == q + 1
<1>4. i \in 1 .. Len(input) /\ input[i] \in Nat
  BY <1>1, <1>3, ElementOfSeq, HistoryConstants DEF Byte
<1>5. RuneSize(input, i) \in Nat /\ q + RuneSize(input, i) \in Boundaries
  BY <1>1, <1>3, <1>4, BoundariesAre, RuneSizeBounds
<1>6. q + RuneSize(input, i) > p
  BY <1>2, <1>3, <1>4, <1>5, RuneSizeBounds
<1>7. RuneSize(input, i) = input[i] /\ \A j \in Tail1(input, i) : input[j] = 0
  BY <1>3, <1>6 DEF RuneSize
<1>8. p + 1 \in Tail1(input, i)
  BY <1>1, <1>3, <1>4, <1>6, <1>7 DEF Tail1
<1> QED BY <1>7, <1>8

-----------------------------------------------------------------------------
(* Slices of a sequence: the bytes after position a up to position e.       *)

\* A slice, byte for byte.
LEMMA Slice ==
    ASSUME NEW S, NEW q \in Seq(S), NEW a \in Nat, NEW e \in Nat, a <= e, e <= Len(q)
    PROVE  /\ SubSeq(q, a + 1, e) \in Seq(S) /\ Len(SubSeq(q, a + 1, e)) = e - a
           /\ \A i \in 1 .. e - a : SubSeq(q, a + 1, e)[i] = q[a + i]
<1>1. Len(q) \in Nat /\ \A i \in 1 .. Len(q) : q[i] \in S
  BY LenProperties, ElementOfSeq
<1>2. \A i \in a + 1 .. e : q[i] \in S
  BY <1>1
<1>3. SubSeq(q, a + 1, e) \in Seq(S)
  BY <1>1, <1>2, SubSeqProperties
<1>4. Len(SubSeq(q, a + 1, e)) = e - a
  BY <1>1, <1>2, SubSeqProperties
<1>5. \A i \in 1 .. e - a : SubSeq(q, a + 1, e)[i] = q[a + i]
  <2>1. \A i \in 1 .. e - (a + 1) + 1 : SubSeq(q, a + 1, e)[i] = q[a + 1 + i - 1]
    BY <1>1, <1>2, SubSeqProperties
  <2> QED BY <2>1
<1> QED BY <1>3, <1>4, <1>5

\* A slice is what has its length and its bytes.
LEMMA SliceIs ==
    ASSUME NEW S, NEW q \in Seq(S), NEW a \in Nat, NEW e \in Nat, a <= e, e <= Len(q),
           NEW p \in Seq(S), Len(p) = e - a, \A i \in 1 .. e - a : p[i] = q[a + i]
    PROVE  p = SubSeq(q, a + 1, e)
BY Slice, SeqEqual

\* Two slices that meet.
LEMMA SliceConcat ==
    ASSUME NEW S, NEW q \in Seq(S), NEW a \in Nat, NEW m \in Nat, NEW e \in Nat,
           a <= m, m <= e, e <= Len(q)
    PROVE  SubSeq(q, a + 1, m) \o SubSeq(q, m + 1, e) = SubSeq(q, a + 1, e)
<1> DEFINE l == SubSeq(q, a + 1, m)
           r == SubSeq(q, m + 1, e)
<1>1. Len(q) \in Nat
  BY LenProperties
<1>2. l \in Seq(S) /\ Len(l) = m - a /\ \A i \in 1 .. m - a : l[i] = q[a + i]
  BY <1>1, Slice
<1>3. r \in Seq(S) /\ Len(r) = e - m /\ \A i \in 1 .. e - m : r[i] = q[m + i]
  BY <1>1, Slice
<1> HIDE DEF l, r
<1>4. /\ l \o r \in Seq(S) /\ Len(l \o r) = Len(l) + Len(r)
      /\ \A i \in 1 .. Len(l) + Len(r) : (l \o r)[i] = IF i <= Len(l) THEN l[i] ELSE r[i - Len(l)]
  BY <1>2, <1>3, ConcatProperties
<1>5. Len(l \o r) = e - a /\ \A i \in 1 .. e - a : (l \o r)[i] = q[a + i]
  <2>1. ASSUME NEW i \in 1 .. e - a PROVE (l \o r)[i] = q[a + i]
    <3>1. CASE i <= m - a
      BY <1>2, <1>3, <1>4, <3>1
    <3>2. CASE ~(i <= m - a)
      <4>1. i - (m - a) \in 1 .. e - m /\ m + (i - (m - a)) = a + i
        BY <3>2
      <4>2. (l \o r)[i] = r[i - (m - a)]
        BY <1>2, <1>3, <1>4, <3>2
      <4> QED BY <1>3, <4>1, <4>2
    <3> QED BY <3>1, <3>2
  <2>2. Len(l \o r) = Len(l) + Len(r) /\ Len(l) = m - a /\ Len(r) = e - m
    BY <1>2, <1>3, <1>4
  <2>3. (m - a) + (e - m) = e - a
    OBVIOUS
  <2>4. Len(l \o r) = e - a
    BY <2>2, <2>3
  <2> QED BY <2>1, <2>4
<1> DEFINE c == l \o r
<1> HIDE DEF c
<1>6. c \in Seq(S) /\ Len(c) = e - a /\ \A i \in 1 .. e - a : c[i] = q[a + i]
  BY <1>4, <1>5 DEF c
<1>7. a <= e
  OBVIOUS
<1>8. c = SubSeq(q, a + 1, e)
  BY <1>6, <1>7, SliceIs
<1> QED BY <1>8 DEF c, l, r

\* A slice of a slice.
LEMMA SliceSlice ==
    ASSUME NEW S, NEW q \in Seq(S), NEW a \in Nat, NEW e \in Nat, a <= e, e <= Len(q),
           NEW k \in Nat, NEW l \in Nat, k <= l, l <= e - a
    PROVE  SubSeq(SubSeq(q, a + 1, e), k + 1, l) = SubSeq(q, (a + k) + 1, a + l)
<1> DEFINE b == SubSeq(q, a + 1, e)
           p == SubSeq(b, k + 1, l)
<1>1. Len(q) \in Nat /\ b \in Seq(S) /\ Len(b) = e - a /\ \A i \in 1 .. e - a : b[i] = q[a + i]
  BY LenProperties, Slice
<1> HIDE DEF b
<1>2. p \in Seq(S) /\ Len(p) = l - k /\ \A i \in 1 .. l - k : p[i] = b[k + i]
  BY <1>1, Slice
<1> HIDE DEF p
<1>3. \A i \in 1 .. l - k : p[i] = q[(a + k) + i]
  <2> SUFFICES ASSUME NEW i \in 1 .. l - k PROVE p[i] = q[(a + k) + i]
    OBVIOUS
  <2>1. k + i \in 1 .. e - a /\ a + (k + i) = (a + k) + i
    BY <1>1
  <2> QED BY <1>1, <1>2, <2>1
<1>4. a + k \in Nat /\ a + l \in Nat /\ a + k <= a + l /\ a + l <= Len(q) /\ (a + l) - (a + k) = l - k
  BY <1>1
<1>5. p = SubSeq(q, (a + k) + 1, a + l)
  BY <1>2, <1>3, <1>4, SliceIs
<1> QED BY <1>5 DEF p, b

\* A rune in a slice is the rune of the whole, if it is complete or the slice is the
\* end of it.
LEMMA SameRune ==
    ASSUME NEW q \in Seq(Byte), NEW a \in Nat, NEW e \in Nat, a <= e, e <= Len(q),
           NEW i \in 1 .. e - a, FullRune(SubSeq(q, a + 1, e), i) \/ e = Len(q)
    PROVE  RuneSize(SubSeq(q, a + 1, e), i) = RuneSize(q, a + i)
<1> SUFFICES ASSUME NEW b, b = SubSeq(q, a + 1, e), FullRune(b, i) \/ e = Len(q)
             PROVE  RuneSize(b, i) = RuneSize(q, a + i)
  OBVIOUS
<1>1. Len(q) \in Nat /\ b \in Seq(Byte) /\ Len(b) = e - a /\ \A j \in 1 .. e - a : b[j] = q[a + j]
  BY LenProperties, Slice
<1>2. b[i] \in Nat /\ q[a + i] = b[i]
  <2>1. i \in 1 .. Len(b)
    BY <1>1
  <2> QED BY <1>1, <2>1, ElementOfSeq, HistoryConstants DEF Byte
<1>3. Tail1(q, a + i) = {j \in (a + i) + 1 .. (a + i) + b[i] - 1 : j <= Len(q)}
  BY <1>2 DEF Tail1
<1>4. \A j \in Tail1(b, i) : a + j \in Tail1(q, a + i) /\ q[a + j] = b[j]
  BY <1>1, <1>2, <1>3 DEF Tail1
<1>5. CASE i + b[i] - 1 <= Len(b)
  <2>1. (a + i) + b[i] - 1 <= Len(q)
    BY <1>1, <1>2, <1>5
  <2>2. \A j \in Tail1(q, a + i) : j - a \in Tail1(b, i) /\ q[j] = b[j - a]
    BY <1>1, <1>2, <1>3, <1>5 DEF Tail1
  <2>3. (\A j \in Tail1(b, i) : b[j] = 0) <=> (\A j \in Tail1(q, a + i) : q[j] = 0)
    BY <1>4, <2>2
  <2> QED BY <1>2, <1>5, <2>1, <2>3 DEF RuneSize
<1>6. CASE ~(i + b[i] - 1 <= Len(b)) /\ \E j \in Tail1(b, i) : b[j] # 0
  BY <1>2, <1>4, <1>6 DEF RuneSize
<1>7. CASE ~(i + b[i] - 1 <= Len(b)) /\ e = Len(q)
  <2>1. ~((a + i) + b[i] - 1 <= Len(q))
    BY <1>1, <1>2, <1>7
  <2> QED BY <1>2, <1>7, <2>1 DEF RuneSize
<1> QED BY <1>5, <1>6, <1>7 DEF FullRune

-----------------------------------------------------------------------------
(* Reading.                                                                *)

\* Where chunk i starts.
Start(es, i) == IF i = 1 THEN 0 ELSE es[i - 1]

\* The chunks are slices of the input that follow each other, end at boundaries and are
\* no larger than the buffer.
EndsInv ==
    /\ ends \in Seq(Nat)
    /\ \A i \in 1 .. Len(ends) :
          /\ ends[i] \in Boundaries
          /\ Start(ends, i) <= ends[i] /\ ends[i] <= Start(ends, i) + ReadSize + UTFMax

\* What is pending follows them; it is less than a rune, and nothing in the end.
PendingInv ==
    /\ input \in Seq(Byte) /\ pos \in 0 .. Len(input)
    /\ SentEnd \in Boundaries /\ SentEnd <= pos
    /\ pending = SubSeq(input, SentEnd + 1, pos)
    /\ Len(pending) < UTFMax
    /\ eof => SentEnd = Len(input)

\* The chunk on its way is the last one.
ChunkInv ==
    chunk # <<>> => /\ Len(ends) > 0
                    /\ chunk = SubSeq(input, Start(ends, Len(ends)) + 1, ends[Len(ends)])

ReadInv == EndsInv /\ PendingInv /\ ChunkInv

\* Initially nothing is read.
LEMMA ReadInit == Init => ReadInv
<1> SUFFICES ASSUME Init PROVE ReadInv
  OBVIOUS
<1>1. input \in Seq(Byte) /\ Len(input) \in Nat
  <2>1. PICK n \in 1 .. MaxInput : input \in [1 .. n -> Byte]
    BY DEF Init
  <2> QED BY <2>1, HistoryConstants
<1>2. ends = <<>> /\ pos = 0 /\ pending = <<>> /\ chunk = <<>> /\ eof = FALSE
  BY DEF Init
<1>3. EndsInv
  BY <1>2 DEF EndsInv
<1>4. PendingInv
  <2>1. SentEnd = 0 /\ SentEnd \in Boundaries
    BY <1>1, <1>2, BoundariesAre DEF SentEnd
  <2>2. SubSeq(input, 0 + 1, 0) = <<>>
    <3>1. /\ SubSeq(input, 0 + 1, 0) \in Seq(Byte) /\ Len(SubSeq(input, 0 + 1, 0)) = 0 - 0
      BY <1>1, Slice
    <3> QED BY <3>1, EmptySeq
  <2>3. Len(pending) = 0
    BY <1>2
  <2> QED BY <1>1, <1>2, <2>1, <2>2, <2>3, HistoryConstants DEF PendingInv
<1> QED BY <1>2, <1>3, <1>4 DEF ReadInv, ChunkInv

\* A chunk is sent from the buffer, which holds the input from the end of the last
\* chunk up to what is read.
LEMMA SendStep ==
    ASSUME ReadInv, input' = input, NEW e \in Nat, pos' = e, SentEnd <= e, e <= Len(input),
           e - SentEnd <= ReadSize + UTFMax, NEW err \in BOOLEAN, err => e = Len(input),
           eof' => err, SendChunk(SubSeq(input, SentEnd + 1, e), err)
    PROVE  ReadInv'
<1> DEFINE a == SentEnd
           b == SubSeq(input, a + 1, e)
           c == Cut(b, err)
<1>1. Len(input) \in Nat /\ a \in Nat /\ a <= e /\ a \in Boundaries /\ input \in Seq(Byte)
  BY LenProperties, BoundariesAre DEF ReadInv, PendingInv
<1>2. b \in Seq(Byte) /\ Len(b) = e - a
  BY <1>1, Slice
<1>3. /\ c \in 0 .. Len(b) /\ a + c \in Boundaries
      /\ c = Len(b) \/ (~err /\ ~FullRune(b, c + 1))
  <2> DEFINE B == {k \in 0 .. Len(b) : a + k \in Boundaries}
  <2>1. 0 \in B
    BY <1>1, <1>2
  <2>2. ASSUME NEW i \in 1 .. Len(b), i - 1 \in B, err \/ FullRune(b, i)
        PROVE  i - 1 + RuneSize(b, i) \in B
    <3>1. RuneSize(b, i) = RuneSize(input, a + i)
      <4>1. FullRune(b, i) \/ e = Len(input)
        BY <2>2
      <4>2. i \in 1 .. e - a
        BY <1>2
      <4> HIDE DEF a
      <4> QED BY <1>1, <4>1, <4>2, SameRune
    <3>2. RuneSize(b, i) \in Nat /\ i + RuneSize(b, i) \in i + 1 .. Len(b) + 1
      BY <1>2, RuneSizeBounds
    <3> DEFINE p == a + (i - 1)
    <3>3. p \in Boundaries /\ p < Len(input) /\ p + 1 = a + i
      BY <1>1, <1>2, <2>2
    <3>4. p + RuneSize(input, p + 1) \in Boundaries
      BY <1>1, <3>3, BoundariesAre
    <3>5. p + RuneSize(b, i) = a + (i - 1 + RuneSize(b, i)) /\ i - 1 + RuneSize(b, i) \in 0 .. Len(b)
      BY <1>1, <1>2, <3>2
    <3> QED BY <3>1, <3>3, <3>4, <3>5
  <2> HIDE DEF B, b
  <2>3. c \in 0 .. Len(b) /\ c \in B /\ (c = Len(b) \/ (~err /\ ~FullRune(b, c + 1)))
    BY <1>2, <2>1, <2>2, CutIs
  <2> QED BY <2>3 DEF B
<1>4. /\ chunk' = SubSeq(b, 1, c) /\ pending' = SubSeq(b, c + 1, Len(b))
      /\ ends' = IF c > 0 THEN Append(ends, pos' - (Len(b) - c)) ELSE ends
  BY DEF SendChunk
<1>5. Boundaries' = Boundaries
  BY DEF Boundaries
<1> HIDE DEF c
<1>6. pos' - (Len(b) - c) = a + c /\ a + c \in Nat /\ a + c <= e
  BY <1>1, <1>2, <1>3
<1>7. chunk' = SubSeq(input, a + 1, a + c) /\ pending' = SubSeq(input, (a + c) + 1, e)
  <2>1. SubSeq(b, 0 + 1, c) = SubSeq(input, (a + 0) + 1, a + c)
    <3> HIDE DEF a
    <3> QED BY <1>1, <1>2, <1>3, SliceSlice
  <2>2. SubSeq(b, c + 1, Len(b)) = SubSeq(input, (a + c) + 1, a + Len(b))
    <3> HIDE DEF a
    <3> QED BY <1>1, <1>2, <1>3, SliceSlice
  <2>3. a + Len(b) = e /\ 0 + 1 = 1 /\ a + 0 = a
    BY <1>1, <1>2
  <2> QED BY <1>4, <2>1, <2>2, <2>3
<1>8. Len(pending') < UTFMax
  <2>1. Len(pending') = e - (a + c)
    BY <1>1, <1>6, <1>7, Slice
  <2>2. CASE c = Len(b)
    BY <1>1, <1>2, <2>1, <2>2, HistoryConstants
  <2>3. CASE c # Len(b)
    <3>1. c + 1 \in 1 .. Len(b) /\ ~FullRune(b, c + 1)
      BY <1>2, <1>3, <2>3
    <3>2. b[c + 1] \in 0 .. UTFMax
      BY <1>2, <3>1, ElementOfSeq DEF Byte
    <3>3. (c + 1) + b[c + 1] - 1 > Len(b)
      BY <1>2, <3>1, <3>2, HistoryConstants, SMTT(60) DEF FullRune
    <3> HIDE DEF a, b
    <3> QED BY <1>1, <1>2, <1>3, <2>1, <3>2, <3>3, HistoryConstants
  <2> QED BY <2>2, <2>3
<1>9. /\ ends' \in Seq(Nat) /\ SentEnd' = a + c
      /\ c = 0 => ends' = ends
      /\ c > 0 => /\ Len(ends') = Len(ends) + 1 /\ ends'[Len(ends')] = a + c
                  /\ \A i \in 1 .. Len(ends) : ends'[i] = ends[i]
  <2>1. ends \in Seq(Nat) /\ Len(ends) \in Nat
    BY LenProperties DEF ReadInv, EndsInv
  <2>2. CASE c = 0
    BY <1>1, <1>4, <2>1, <2>2 DEF SentEnd
  <2>3. CASE c > 0
    <3>1. ends' = Append(ends, a + c)
      BY <1>4, <1>6, <2>3
    <3>2. /\ ends' \in Seq(Nat) /\ Len(ends') = Len(ends) + 1 /\ ends'[Len(ends) + 1] = a + c
          /\ \A i \in 1 .. Len(ends) : ends'[i] = ends[i]
      BY <1>6, <2>1, <3>1, AppendProperties
    <3>3. ends' # <<>>
      BY <2>1, <3>2
    <3> QED BY <2>1, <2>3, <3>2, <3>3 DEF SentEnd
  <2> QED BY <1>2, <1>3, <2>2, <2>3
<1>10. c > 0 => Start(ends', Len(ends')) = a
  <2>1. ends \in Seq(Nat) /\ Len(ends) \in Nat
    BY LenProperties DEF ReadInv, EndsInv
  <2>2. CASE Len(ends) = 0
    <3>1. ends = <<>> /\ SentEnd = 0
      BY <2>1, <2>2, EmptySeq DEF SentEnd
    <3> QED BY <1>9, <2>2, <3>1 DEF Start
  <2>3. CASE Len(ends) # 0
    <3>1. ends # <<>> /\ SentEnd = ends[Len(ends)]
      BY <2>1, <2>3 DEF SentEnd
    <3> SUFFICES ASSUME c > 0 PROVE ends'[Len(ends') - 1] = a /\ Len(ends') # 1
      BY DEF Start
    <3>2. Len(ends') - 1 = Len(ends) /\ Len(ends) \in 1 .. Len(ends) /\ Len(ends') # 1
      BY <1>9, <2>1, <2>3
    <3>3. ends'[Len(ends)] = ends[Len(ends)]
      BY <1>9, <3>2
    <3> QED BY <3>1, <3>2, <3>3
  <2> QED BY <2>2, <2>3
<1>11. EndsInv'
  <2>1. Len(ends) \in Nat
    BY LenProperties DEF ReadInv, EndsInv
  <2>2. ASSUME NEW i \in 1 .. Len(ends)
        PROVE  /\ ends'[i] = ends[i] /\ Start(ends', i) = Start(ends, i)
               /\ ends[i] \in Boundaries /\ Start(ends, i) <= ends[i] /\ ends[i] <= Start(ends, i) + ReadSize + UTFMax
    <3>1. ends'[i] = ends[i] /\ (i # 1 => ends'[i - 1] = ends[i - 1])
      BY <1>2, <1>3, <1>9, <2>1
    <3>2. /\ ends[i] \in Boundaries /\ Start(ends, i) <= ends[i] /\ ends[i] <= Start(ends, i) + ReadSize + UTFMax
      BY DEF ReadInv, EndsInv
    <3> QED BY <3>1, <3>2 DEF Start
  <2>3. CASE c = 0
    BY <1>5, <1>9, <2>2, <2>3 DEF EndsInv
  <2>4. CASE c > 0
    <3> DEFINE m == Len(ends')
    <3>1. m = Len(ends) + 1 /\ ends'[m] = a + c /\ Start(ends', m) = a
      BY <1>9, <1>10, <2>4
    <3>2. a <= a + c /\ a + c <= a + ReadSize + UTFMax
      BY <1>1, <1>2, <1>3, <1>6, HistoryConstants
    <3>3. ASSUME NEW i \in 1 .. m
          PROVE  ends'[i] \in Boundaries /\ Start(ends', i) <= ends'[i] /\ ends'[i] <= Start(ends', i) + ReadSize + UTFMax
      <4>1. CASE i = m
        BY <1>3, <3>1, <3>2, <4>1
      <4>2. CASE i \in 1 .. Len(ends)
        BY <2>2, <4>2
      <4> QED BY <2>1, <3>1, <4>1, <4>2
    <3> QED BY <1>5, <1>9, <3>3 DEF EndsInv
  <2> QED BY <1>2, <1>3, <2>3, <2>4
<1>12. PendingInv'
  <2>1. eof' => a + c = Len(input)
    BY <1>1, <1>2, <1>3
  <2>2. pos' \in 0 .. Len(input)
    BY <1>1
  <2> QED BY <1>1, <1>3, <1>5, <1>6, <1>7, <1>8, <1>9, <2>1, <2>2 DEF PendingInv
<1>13. ChunkInv'
  <2>1. CASE c = 0
    <3>1. chunk' \in Seq(Byte) /\ Len(chunk') = (a + c) - a
      <4> HIDE DEF a
      <4> QED BY <1>1, <1>6, <1>7, Slice, <1>3, <1>2
    <3>2. chunk' = <<>>
      BY <1>1, <2>1, <3>1, EmptySeq
    <3> QED BY <3>2 DEF ChunkInv
  <2>2. CASE c > 0
    <3>1. Len(ends') > 0 /\ ends'[Len(ends')] = a + c /\ Start(ends', Len(ends')) = a
      BY <1>9, <1>10, <2>2, LenProperties DEF ReadInv, EndsInv
    <3> QED BY <1>7, <3>1 DEF ChunkInv
  <2> QED BY <1>2, <1>3, <2>1, <2>2
<1> QED BY <1>11, <1>12, <1>13 DEF ReadInv

\* Read returns some bytes.
LEMMA ReadStep == ASSUME ReadInv, Read PROVE ReadInv'
<1>1. PICK n \in 1 .. ReadSize + UTFMax - Len(pending) :
          /\ pos + n <= Len(input) /\ pos' = pos + n
          /\ SendChunk(pending \o SubSeq(input, pos + 1, pos + n), FALSE)
  BY DEF Read
<1>2. input' = input /\ eof' = eof
  BY DEF Read
<1> DEFINE a == SentEnd
           e == pos + n
<1>3. /\ input \in Seq(Byte) /\ Len(input) \in Nat /\ a \in Nat /\ a <= pos /\ pos \in Nat
      /\ pending = SubSeq(input, a + 1, pos) /\ pos <= Len(input)
      /\ eof => a = Len(input)
  BY LenProperties, BoundariesAre DEF ReadInv, PendingInv
<1>4. Len(pending) = pos - a
  <2> HIDE DEF a
  <2> QED BY <1>3, Slice
<1>5. n \in Nat /\ n >= 1 /\ n <= ReadSize + UTFMax - Len(pending)
  BY <1>1, <1>3, <1>4, HistoryConstants
<1>6. e \in Nat /\ a <= e /\ pos <= e /\ e <= Len(input) /\ e - a <= ReadSize + UTFMax /\ ~eof
  <2> HIDE DEF a
  <2> QED BY <1>1, <1>3, <1>4, <1>5, HistoryConstants
<1> HIDE DEF e
<1>7. pending \o SubSeq(input, pos + 1, e) = SubSeq(input, a + 1, e)
  <2> HIDE DEF a
  <2> QED BY <1>3, <1>6, SliceConcat
<1>8. SendChunk(SubSeq(input, a + 1, e), FALSE)
  <2> DEFINE b == pending \o SubSeq(input, pos + 1, e)
  <2>1. SendChunk(b, FALSE)
    BY <1>1 DEF e
  <2>2. b = SubSeq(input, a + 1, e)
    BY <1>7
  <2> HIDE DEF b, a
  <2> QED BY <2>1, <2>2
<1>9. pos' = e
  BY <1>1 DEF e
<1> QED BY <1>2, <1>6, <1>8, <1>9, SendStep

\* Read returns an error.
LEMMA ReadErrorStep == ASSUME ReadInv, ReadError PROVE ReadInv'
<1>1. pos = Len(input) /\ pos' = pos /\ input' = input /\ SendChunk(pending, TRUE)
  BY DEF ReadError
<1>2. /\ input \in Seq(Byte) /\ Len(input) \in Nat /\ SentEnd \in Nat /\ SentEnd <= pos /\ pos \in Nat
      /\ pending = SubSeq(input, SentEnd + 1, pos) /\ pos <= Len(input) /\ Len(pending) < UTFMax
  BY LenProperties, BoundariesAre DEF ReadInv, PendingInv
<1>3. Len(pending) = pos - SentEnd
  BY <1>2, Slice
<1>4. pos - SentEnd <= ReadSize + UTFMax
  BY <1>2, <1>3, HistoryConstants
<1>5. SendChunk(SubSeq(input, SentEnd + 1, pos), TRUE)
  BY <1>1, <1>2
<1> QED BY <1>1, <1>2, <1>4, <1>5, SendStep

\* A step that leaves the reader alone.
LEMMA ReaderFrame ==
    ASSUME ReadInv, UNCHANGED <<input, pos, pending, eof, ends>>, chunk' = chunk \/ chunk' = <<>>
    PROVE  ReadInv'
<1>1. Boundaries' = Boundaries
  BY DEF Boundaries
<1>2. SentEnd' = SentEnd
  BY DEF SentEnd
<1>3. EndsInv'
  BY <1>1 DEF ReadInv, EndsInv
<1>4. PendingInv'
  BY <1>1, <1>2 DEF ReadInv, PendingInv
<1>5. ChunkInv'
  BY DEF ReadInv, ChunkInv
<1> QED BY <1>3, <1>4, <1>5 DEF ReadInv

\* The invariant of the reader is kept by every step.
LEMMA ReaderStep == ASSUME ReadInv, [Next]_vars PROVE ReadInv'
<1>1. CASE Read
  BY <1>1, ReadStep
<1>2. CASE ReadError
  BY <1>2, ReadErrorStep
<1>3. CASE AppendHistory
  BY <1>3, ReaderFrame DEF AppendHistory
<1>4. CASE UNCHANGED vars
  BY <1>4, ReaderFrame DEF vars
<1> QED BY <1>1, <1>2, <1>3, <1>4 DEF Next, Terminated

\* However the output arrives in reads, no rune is split between two chunks.
THEOREM NoRuneIsSplit == Spec => []NoRuneSplit
<1>1. ReadInv => NoRuneSplit
  BY DEF ReadInv, EndsInv, NoRuneSplit
<1> QED BY <1>1, ReadInit, ReaderStep, PTL DEF Spec

\* Every byte that is read is sent or pending, less than a rune is pending, and nothing
\* in the end.
THEOREM NothingIsLost == Spec => []NothingLost
<1>1. ReadInv => NothingLost
  BY DEF ReadInv, PendingInv, NothingLost
<1> QED BY <1>1, ReadInit, ReaderStep, PTL DEF Spec

-----------------------------------------------------------------------------
(* The size of chunks, and chunks put together.                             *)

\* The sums of Size, step by step.
SizeSteps(g, cs, k) == g[0] = 0 /\ \A i \in 1 .. k : g[i] = g[i - 1] + Len(cs[i])

\* The sums exist.
LEMMA SizeLoop ==
    ASSUME NEW S, NEW cs \in Seq(Seq(S)), NEW k \in 0 .. Len(cs)
    PROVE  \E g \in [0 .. k -> Nat] : Size(cs, k) = g[k] /\ SizeSteps(g, cs, k)
<1> DEFINE F == [i \in 1 .. k |-> [v \in Nat |-> v + Len(cs[i])]]
           body(f) == [i \in 0 .. k |-> IF i = 0 THEN 0 ELSE f[i - 1] + Len(cs[i])]
<1>1. k \in Nat /\ \A i \in 1 .. k : Len(cs[i]) \in Nat
  <2>1. Len(cs) \in Nat
    BY LenProperties
  <2>2. \A i \in 1 .. k : cs[i] \in Seq(S)
    BY <2>1, ElementOfSeq
  <2> QED BY <2>1, <2>2, LenProperties
<1>2. F \in [1 .. k -> [Nat -> Nat]]
  BY <1>1
<1>3. PICK g \in [0 .. k -> Nat] : UpSteps(g, k, 0, F)
  <2> DEFINE R == Nat
             e == 0
  <2>1. e \in R /\ F \in [1 .. k -> [R -> R]]
    BY <1>2
  <2> HIDE DEF F, R, e
  <2>2. \E g \in [0 .. k -> R] : UpSteps(g, k, e, F)
    BY <1>1, <2>1, Recursion
  <2> QED BY <2>2 DEF R, e
<1>4. \A i \in 1 .. k : g[i] = g[i - 1] + Len(cs[i])
  <2> SUFFICES ASSUME NEW i \in 1 .. k PROVE g[i] = g[i - 1] + Len(cs[i])
    OBVIOUS
  <2>1. g[i - 1] \in Nat
    BY <1>1
  <2> QED BY <1>3, <2>1 DEF UpSteps
<1>5. g = body(g)
  <2>1. \A i \in 0 .. k : g[i] = IF i = 0 THEN 0 ELSE g[i - 1] + Len(cs[i])
    <3> SUFFICES ASSUME NEW i \in 0 .. k, i # 0 PROVE i \in 1 .. k
      BY <1>3, <1>4 DEF UpSteps
    <3> QED BY <1>1
  <2>2. g = [i \in 0 .. k |-> g[i]]
    OBVIOUS
  <2> QED BY <2>1, <2>2, Zenon
<1>6. ASSUME NEW f, f = body(f) PROVE f = g
  <2> DEFINE T == {i \in 0 .. k : f[i] = g[i]}
  <2>1. 0 \in T
    BY <1>1, <1>3, <1>6 DEF UpSteps
  <2>2. ASSUME NEW i \in 1 .. k, i - 1 \in T PROVE i \in T
    <3>1. i \in 0 .. k /\ i # 0 /\ f[i - 1] = g[i - 1]
      BY <1>1, <2>2
    <3>2. f[i] = f[i - 1] + Len(cs[i])
      BY <1>6, <3>1
    <3> QED BY <1>4, <3>1, <3>2
  <2> HIDE DEF T
  <2>3. 0 .. k \subseteq T
    BY <1>1, <2>1, <2>2, UpTo
  <2>4. \A i \in 0 .. k : f[i] = g[i]
    BY <2>3 DEF T
  <2> QED BY <1>5, <1>6, <2>4
<1>7. (CHOOSE f : f = body(f)) = g
  <2> HIDE DEF body
  <2> QED BY <1>5, <1>6
<1>8. Size(cs, k) = g[k]
  BY <1>7 DEF Size
<1> QED BY <1>3, <1>4, <1>8 DEF SizeSteps, UpSteps

\* One more chunk adds its length.
LEMMA SizeNext ==
    ASSUME NEW S, NEW cs \in Seq(Seq(S))
    PROVE  /\ Size(cs, 0) = 0
           /\ \A k \in 0 .. Len(cs) : Size(cs, k) \in Nat
           /\ \A k \in 1 .. Len(cs) : Size(cs, k) = Size(cs, k - 1) + Len(cs[k])
<1>1. Len(cs) \in Nat
  BY LenProperties
<1>2. ASSUME NEW k \in 0 .. Len(cs) PROVE Size(cs, k) \in Nat
  <2>1. PICK g \in [0 .. k -> Nat] : Size(cs, k) = g[k] /\ SizeSteps(g, cs, k)
    BY SizeLoop
  <2> QED BY <1>1, <2>1
<1>3. Size(cs, 0) = 0
  <2>1. 0 \in 0 .. Len(cs)
    BY <1>1
  <2>2. PICK g \in [0 .. 0 -> Nat] : Size(cs, 0) = g[0] /\ SizeSteps(g, cs, 0)
    BY <2>1, SizeLoop
  <2> QED BY <2>2 DEF SizeSteps
<1>4. ASSUME NEW k \in 1 .. Len(cs) PROVE Size(cs, k) = Size(cs, k - 1) + Len(cs[k])
  <2>1. k \in 0 .. Len(cs) /\ k - 1 \in 0 .. Len(cs) /\ k - 1 \in Nat
    BY <1>1
  <2>2. PICK g \in [0 .. k -> Nat] : Size(cs, k) = g[k] /\ SizeSteps(g, cs, k)
    BY <2>1, SizeLoop
  <2>3. PICK h \in [0 .. k - 1 -> Nat] : Size(cs, k - 1) = h[k - 1] /\ SizeSteps(h, cs, k - 1)
    BY <2>1, SizeLoop
  <2> DEFINE T == {i \in 0 .. k - 1 : g[i] = h[i]}
  <2>4. 0 \in T
    BY <2>1, <2>2, <2>3 DEF SizeSteps
  <2>5. ASSUME NEW i \in 1 .. k - 1, i - 1 \in T PROVE i \in T
    <3>1. i \in 1 .. k /\ i \in 0 .. k - 1 /\ g[i - 1] = h[i - 1]
      BY <2>5
    <3>2. g[i] = g[i - 1] + Len(cs[i]) /\ h[i] = h[i - 1] + Len(cs[i])
      BY <2>2, <2>3, <3>1 DEF SizeSteps
    <3> QED BY <3>1, <3>2
  <2> HIDE DEF T
  <2>6. 0 .. k - 1 \subseteq T
    BY <2>1, <2>4, <2>5, UpTo
  <2>7. g[k - 1] = h[k - 1]
    BY <2>1, <2>6 DEF T
  <2>8. g[k] = g[k - 1] + Len(cs[k])
    BY <1>1, <2>2 DEF SizeSteps
  <2> QED BY <2>2, <2>3, <2>7, <2>8
<1> QED BY <1>2, <1>3, <1>4

\* More chunks are not smaller.
LEMMA SizeGrows ==
    ASSUME NEW S, NEW cs \in Seq(Seq(S)), NEW k \in 0 .. Len(cs), NEW l \in 0 .. Len(cs), k <= l
    PROVE  Size(cs, k) <= Size(cs, l)
<1> DEFINE T == {m \in 0 .. l - k : Size(cs, k) <= Size(cs, k + m)}
<1>1. Len(cs) \in Nat /\ l - k \in Nat /\ \A i \in 1 .. Len(cs) : Len(cs[i]) \in Nat
  <2>1. Len(cs) \in Nat /\ \A i \in 1 .. Len(cs) : cs[i] \in Seq(S)
    BY LenProperties, ElementOfSeq
  <2> QED BY <2>1, LenProperties
<1>2. 0 \in T
  <2>1. k + 0 = k /\ 0 \in 0 .. l - k /\ Size(cs, k) \in Nat
    BY <1>1, SizeNext
  <2> QED BY <2>1
<1>3. ASSUME NEW m \in 1 .. l - k, m - 1 \in T PROVE m \in T
  <2>1. k + m \in 1 .. Len(cs) /\ (k + m) - 1 = k + (m - 1) /\ m \in 0 .. l - k /\ k + (m - 1) \in 0 .. Len(cs)
    BY <1>1
  <2>2. Size(cs, k + m) = Size(cs, k + (m - 1)) + Len(cs[k + m])
    BY <2>1, SizeNext
  <2>3. Size(cs, k) \in Nat /\ Size(cs, k + (m - 1)) \in Nat /\ Size(cs, k) <= Size(cs, k + (m - 1))
    BY <1>3, <2>1, SizeNext
  <2>4. Len(cs[k + m]) \in Nat
    BY <1>1, <2>1
  <2> QED BY <2>1, <2>2, <2>3, <2>4
<1> HIDE DEF T
<1>4. 0 .. l - k \subseteq T
  BY <1>1, <1>2, <1>3, UpTo
<1>5. l - k \in T /\ k + (l - k) = l
  BY <1>1, <1>4
<1> QED BY <1>5 DEF T

\* The m chunks of p after position a are those of q after position b.
SameChunks(p, a, q, b, m) ==
    a + m <= Len(p) /\ b + m <= Len(q) /\ \A i \in 1 .. m : p[a + i] = q[b + i]

\* The same chunks have the same size wherever they are.
LEMMA SizeShift ==
    ASSUME NEW S, NEW p \in Seq(Seq(S)), NEW q \in Seq(Seq(S)),
           NEW a \in Nat, NEW b \in Nat, NEW m \in Nat, SameChunks(p, a, q, b, m)
    PROVE  Size(p, a + m) - Size(p, a) = Size(q, b + m) - Size(q, b)
<1> USE DEF SameChunks
<1> DEFINE T == {k \in 0 .. m : Size(p, a + k) - Size(p, a) = Size(q, b + k) - Size(q, b)}
<1>1. /\ Len(p) \in Nat /\ Len(q) \in Nat
      /\ \A i \in 1 .. Len(p) : Len(p[i]) \in Nat
  <2>1. Len(p) \in Nat /\ Len(q) \in Nat /\ \A i \in 1 .. Len(p) : p[i] \in Seq(S)
    BY LenProperties, ElementOfSeq
  <2> QED BY <2>1, LenProperties
<1>2. /\ \A k \in 0 .. m : a + k \in 0 .. Len(p) /\ b + k \in 0 .. Len(q)
      /\ \A k \in 0 .. Len(p) : Size(p, k) \in Nat
      /\ \A k \in 0 .. Len(q) : Size(q, k) \in Nat
  BY <1>1, SizeNext
<1>3. 0 \in T
  <2>1. a + 0 = a /\ b + 0 = b /\ Size(p, a) \in Nat /\ Size(q, b) \in Nat /\ 0 \in 0 .. m
    BY <1>2
  <2> QED BY <2>1
<1>4. ASSUME NEW k \in 1 .. m, k - 1 \in T PROVE k \in T
  <2>1. /\ a + k \in 1 .. Len(p) /\ (a + k) - 1 = a + (k - 1)
        /\ b + k \in 1 .. Len(q) /\ (b + k) - 1 = b + (k - 1)
    BY <1>1
  <2>2. /\ Size(p, a + k) = Size(p, a + (k - 1)) + Len(p[a + k])
        /\ Size(q, b + k) = Size(q, b + (k - 1)) + Len(q[b + k])
    BY <2>1, SizeNext
  <2>3. p[a + k] = q[b + k] /\ Len(p[a + k]) \in Nat
    BY <1>1, <2>1
  <2>4. /\ Size(p, a + (k - 1)) \in Nat /\ Size(q, b + (k - 1)) \in Nat
        /\ Size(p, a) \in Nat /\ Size(q, b) \in Nat /\ k \in 0 .. m
        /\ Size(p, a + (k - 1)) - Size(p, a) = Size(q, b + (k - 1)) - Size(q, b)
    <3>1. k - 1 \in 0 .. m /\ 0 \in 0 .. m /\ a + 0 = a /\ b + 0 = b /\ k \in 0 .. m
      BY <1>1
    <3> QED BY <1>2, <1>4, <3>1
  <2>5. Len(q[b + k]) = Len(p[a + k])
    BY <2>3
  <2>6. Size(p, a + k) - Size(p, a) = Size(q, b + k) - Size(q, b)
    <3> DEFINE x == Size(p, a)
               y == Size(q, b)
               u == Size(p, a + (k - 1))
               v == Size(q, b + (k - 1))
               l == Len(p[a + k])
    <3>1. Size(p, a + k) = u + l /\ Size(q, b + k) = v + l
      BY <2>2, <2>5
    <3>2. x \in Int /\ y \in Int /\ u \in Int /\ v \in Int /\ l \in Int /\ u - x = v - y
      BY <2>3, <2>4
    <3> HIDE DEF x, y, u, v, l
    <3>3. (u + l) - x = (v + l) - y
      BY <3>2
    <3> QED BY <3>1, <3>3 DEF x, y
  <2> QED BY <2>4, <2>6
<1> HIDE DEF T
<1>5. 0 .. m \subseteq T
  BY <1>3, <1>4, UpTo
<1> QED BY <1>5 DEF T

\* FlattenSeq, step by step.
FlatSteps(g, q) ==
    /\ FlattenSeq(q) = g[Len(q)]
    /\ g[1] = q[1]
    /\ \A i \in 2 .. Len(q) : g[i] = g[i - 1] \o q[i]

\* The chunks are put together one by one.
LEMMA FlatLoop ==
    ASSUME NEW S, NEW q \in Seq(Seq(S)), Len(q) # 0
    PROVE  \E g : FlatSteps(g, q)
<1> DEFINE n == Len(q)
           F == [i \in 1 .. n |-> [v \in Seq(S) |-> IF i = 1 THEN q[i] ELSE v \o q[i]]]
           body(f) == [i \in 1 .. n |-> IF i = 1 THEN q[i] ELSE f[i - 1] \o q[i]]
<1>1. n \in Nat /\ <<>> \in Seq(S) /\ \A i \in 1 .. n : q[i] \in Seq(S)
  BY LenProperties, ElementOfSeq, EmptySeq
<1>2. F \in [1 .. n -> [Seq(S) -> Seq(S)]]
  <2> SUFFICES ASSUME NEW i \in 1 .. n, NEW v \in Seq(S)
               PROVE  (IF i = 1 THEN q[i] ELSE v \o q[i]) \in Seq(S)
    OBVIOUS
  <2> QED BY <1>1, ConcatProperties
<1>3. PICK h \in [0 .. n -> Seq(S)] : UpSteps(h, n, <<>>, F)
  <2> DEFINE R == Seq(S)
             e == <<>>
  <2>1. n \in Nat /\ e \in R /\ F \in [1 .. n -> [R -> R]]
    BY <1>1, <1>2
  <2> HIDE DEF F, R, e, n
  <2>2. \E g \in [0 .. n -> R] : UpSteps(g, n, e, F)
    BY <2>1, Recursion
  <2> QED BY <2>2 DEF R, e
<1> DEFINE g == [i \in 1 .. n |-> h[i]]
<1>4. g = body(g)
  <2>1. ASSUME NEW i \in 1 .. n PROVE h[i] = IF i = 1 THEN q[i] ELSE g[i - 1] \o q[i]
    <3>1. h[i - 1] \in Seq(S)
      <4>1. i - 1 \in 0 .. n
        BY <1>1
      <4> QED BY <4>1
    <3>2. h[i] = F[i][h[i - 1]]
      BY <1>3 DEF UpSteps
    <3>4. h[i] = IF i = 1 THEN q[i] ELSE h[i - 1] \o q[i]
      BY <3>1, <3>2
    <3>3. i # 1 => i - 1 \in 1 .. n
      BY <1>1
    <3> QED BY <3>4, <3>3
  <2> QED BY <2>1, Zenon
<1> DEFINE f == CHOOSE f : f = body(f)
<1>5. f = body(f)
  <2> HIDE DEF body
  <2> QED BY <1>4
<1>6. FlattenSeq(q) = f[n]
  BY DEF FlattenSeq
<1> HIDE DEF f
<1>7. \A i \in 1 .. n : f[i] = IF i = 1 THEN q[i] ELSE f[i - 1] \o q[i]
  BY <1>5
<1>8. f[1] = q[1] /\ \A i \in 2 .. n : f[i] = f[i - 1] \o q[i]
  <2>1. 1 \in 1 .. n /\ \A i \in 2 .. n : i \in 1 .. n /\ i # 1
    BY <1>1
  <2> QED BY <1>7, <2>1
<1> QED BY <1>6, <1>8 DEF FlatSteps

\* Put together, chunks have the bytes they had.
LEMMA FlattenSize ==
    ASSUME NEW S, NEW q \in Seq(Seq(S))
    PROVE  FlattenSeq(q) \in Seq(S) /\ Len(FlattenSeq(q)) = Size(q, Len(q))
<1>1. Len(q) \in Nat /\ \A i \in 1 .. Len(q) : q[i] \in Seq(S)
  BY LenProperties, ElementOfSeq
<1>2. CASE Len(q) = 0
  <2>1. q = <<>> /\ FlattenSeq(q) = q
    BY <1>2, EmptySeq DEF FlattenSeq
  <2>2. Size(q, 0) = 0
    BY SizeNext
  <2>3. q \in Seq(S)
    BY <2>1, EmptySeq
  <2>4. FlattenSeq(q) \in Seq(S) /\ Len(FlattenSeq(q)) = 0
    BY <1>2, <2>1, <2>3
  <2> QED BY <1>2, <2>2, <2>4
<1>3. CASE Len(q) # 0
  <2> DEFINE n == Len(q)
  <2>1. PICK g : FlatSteps(g, q)
    BY <1>3, FlatLoop
  <2> DEFINE T == {i \in 0 .. n - 1 : g[i + 1] \in Seq(S) /\ Len(g[i + 1]) = Size(q, i + 1)}
  <2>2. 0 \in T
    <3>1. g[0 + 1] = q[1] /\ 1 \in 1 .. n /\ 0 \in 0 .. n - 1
      BY <1>1, <1>3, <2>1 DEF FlatSteps
    <3>2. Size(q, 1) = Size(q, 1 - 1) + Len(q[1]) /\ Size(q, 0) = 0
      BY <3>1, SizeNext
    <3>3. q[1] \in Seq(S) /\ Len(q[1]) \in Nat
      BY <1>1, <3>1, LenProperties
    <3> QED BY <3>1, <3>2, <3>3
  <2>3. ASSUME NEW i \in 1 .. n - 1, i - 1 \in T PROVE i \in T
    <3>1. i + 1 \in 2 .. n /\ (i + 1) - 1 = i /\ (i - 1) + 1 = i /\ i \in 0 .. n - 1 /\ i + 1 \in 1 .. n
      BY <1>1
    <3>2. g[i + 1] = g[i] \o q[i + 1] /\ g[i] \in Seq(S) /\ Len(g[i]) = Size(q, i)
      BY <2>1, <2>3, <3>1 DEF FlatSteps
    <3>3. Size(q, i + 1) = Size(q, i) + Len(q[i + 1])
      BY <3>1, SizeNext
    <3>4. q[i + 1] \in Seq(S)
      BY <1>1, <3>1
    <3>5. g[i + 1] \in Seq(S) /\ Len(g[i + 1]) = Len(g[i]) + Len(q[i + 1])
      BY <3>2, <3>4, ConcatProperties, ZenonT(60)
    <3> QED BY <3>1, <3>2, <3>3, <3>5
  <2> HIDE DEF T
  <2>4. n - 1 \in Nat /\ (n - 1) + 1 = n /\ n - 1 \in 0 .. n - 1
    BY <1>1, <1>3
  <2>5. 0 .. n - 1 \subseteq T
    BY <2>2, <2>3, <2>4, UpTo
  <2>6. g[n] \in Seq(S) /\ Len(g[n]) = Size(q, n)
    BY <2>4, <2>5 DEF T
  <2> QED BY <2>1, <2>6 DEF FlatSteps
<1> QED BY <1>2, <1>3

\* The chunks of q are slices of s that follow each other, from at[0] on.
Consecutive(s, q, at) ==
    /\ \A i \in 0 .. Len(q) : at[i] \in Nat /\ at[i] <= Len(s)
    /\ \A i \in 1 .. Len(q) : at[i - 1] <= at[i] /\ q[i] = SubSeq(s, at[i - 1] + 1, at[i])

\* Put together, they are a slice.
LEMMA FlattenSlices ==
    ASSUME NEW S, NEW s \in Seq(S), NEW q \in Seq(Seq(S)), NEW at, Consecutive(s, q, at)
    PROVE  at[0] <= at[Len(q)] /\ FlattenSeq(q) = SubSeq(s, at[0] + 1, at[Len(q)])
<1>1. Len(q) \in Nat /\ \A i \in 0 .. Len(q) : at[i] \in Nat /\ at[i] <= Len(s)
  BY LenProperties DEF Consecutive
<1>2. CASE Len(q) = 0
  <2>1. q = <<>> /\ FlattenSeq(q) = q /\ at[0] \in Nat /\ at[0] <= Len(s)
    BY <1>1, <1>2, EmptySeq DEF FlattenSeq
  <2> DEFINE p == SubSeq(s, at[0] + 1, at[0])
  <2>2. p \in Seq(S) /\ Len(p) = 0
    BY <2>1, Slice
  <2> HIDE DEF p
  <2>3. p = <<>>
    BY <2>2, EmptySeq
  <2>4. FlattenSeq(q) = p
    BY <2>1, <2>3
  <2> QED BY <1>2, <2>1, <2>4 DEF p
<1>3. CASE Len(q) # 0
  <2> DEFINE n == Len(q)
  <2>1. PICK g : FlatSteps(g, q)
    BY <1>3, FlatLoop
  <2> DEFINE Good(i) == at[0] <= at[i] /\ g[i] = SubSeq(s, at[0] + 1, at[i])
             T == {i \in 0 .. n - 1 : Good(i + 1)}
  <2>2. 0 \in T
    <3>1. g[1] = q[1] /\ 1 \in 1 .. n /\ 0 \in 0 .. n - 1 /\ 0 + 1 = 1 /\ 1 - 1 = 0
      BY <1>1, <1>3, <2>1 DEF FlatSteps
    <3>2. at[1 - 1] <= at[1] /\ q[1] = SubSeq(s, at[1 - 1] + 1, at[1])
      BY <3>1 DEF Consecutive
    <3>3. Good(1)
      BY <3>1, <3>2
    <3> HIDE DEF Good
    <3> QED BY <3>1, <3>3
  <2>3. ASSUME NEW i \in 1 .. n - 1, i - 1 \in T PROVE i \in T
    <3>1. i + 1 \in 2 .. n /\ (i + 1) - 1 = i /\ (i - 1) + 1 = i /\ i \in 0 .. n - 1 /\ i + 1 \in 1 .. n
      BY <1>1
    <3>2. Good(i)
      <4> HIDE DEF Good
      <4> QED BY <2>3, <3>1
    <3>3. g[i + 1] = g[i] \o q[i + 1]
      BY <2>1, <3>1 DEF FlatSteps
    <3>4. at[i] <= at[i + 1] /\ q[i + 1] = SubSeq(s, at[i] + 1, at[i + 1])
      BY <3>1 DEF Consecutive
    <3>5. at[0] \in Nat /\ at[i] \in Nat /\ at[i + 1] \in Nat /\ at[i + 1] <= Len(s)
      BY <1>1, <3>1
    <3>6. SubSeq(s, at[0] + 1, at[i]) \o SubSeq(s, at[i] + 1, at[i + 1]) = SubSeq(s, at[0] + 1, at[i + 1])
      BY <3>2, <3>4, <3>5, SliceConcat
    <3>7. Good(i + 1)
      <4>1. g[i + 1] = SubSeq(s, at[0] + 1, at[i + 1])
        BY <3>2, <3>3, <3>4, <3>6, Zenon
      <4>2. at[0] <= at[i + 1]
        BY <3>2, <3>4, <3>5, SMTT(60)
      <4> QED BY <4>1, <4>2
    <3> HIDE DEF Good
    <3> QED BY <3>1, <3>7
  <2> HIDE DEF T
  <2>4. n - 1 \in Nat /\ (n - 1) + 1 = n /\ n - 1 \in 0 .. n - 1
    BY <1>1, <1>3
  <2>5. 0 .. n - 1 \subseteq T
    BY <2>2, <2>3, <2>4, UpTo
  <2>6. Good(n)
    <3> HIDE DEF Good
    <3> QED BY <2>4, <2>5 DEF T
  <2> QED BY <2>1, <2>6 DEF FlatSteps
<1> QED BY <1>2, <1>3

\* Of two slices with one end, the shorter is a suffix of the longer.
LEMMA SliceSuffix ==
    ASSUME NEW S, NEW s \in Seq(S), NEW a \in Nat, NEW e \in Nat, a <= e, e <= Len(s)
    PROVE  IsSuffix(SubSeq(s, a + 1, e), SubSeq(s, 0 + 1, e))
<1> DEFINE p == SubSeq(s, a + 1, e)
           q == SubSeq(s, 0 + 1, e)
           x == Reverse(p)
           y == Reverse(q)
<1>1. p \in Seq(S) /\ Len(p) = e - a /\ \A i \in 1 .. e - a : p[i] = s[a + i]
  BY Slice
<1>2. q \in Seq(S) /\ Len(q) = e /\ \A i \in 1 .. e : q[i] = s[i]
  <2>1. q \in Seq(S) /\ Len(q) = e - 0 /\ \A i \in 1 .. e - 0 : q[i] = s[0 + i]
    BY Slice
  <2> QED BY <2>1
<1>3. \A i \in 1 .. Len(s) : s[i] \in S
  BY ElementOfSeq
<1> HIDE DEF p, q
<1>4. x \in Seq(S) /\ Len(x) = e - a /\ \A i \in 1 .. e - a : x[i] = s[e - i + 1]
  <2>1. x = [i \in 1 .. e - a |-> p[((e - a) - i) + 1]]
    BY <1>1 DEF Reverse
  <2> HIDE DEF x
  <2>2. \A i \in 1 .. e - a : ((e - a) - i) + 1 \in 1 .. e - a /\ a + (((e - a) - i) + 1) = e - i + 1
    OBVIOUS
  <2>3. \A i \in 1 .. e - a : x[i] = s[e - i + 1]
    BY <1>1, <2>1, <2>2
  <2>4. \A i \in 1 .. e - a : x[i] \in S
    BY <1>3, <2>3, LenProperties
  <2>5. x \in [1 .. e - a -> S]
    BY <2>1, <2>4
  <2>6. x \in Seq(S) /\ Len(x) = e - a
    BY <2>5
  <2> QED BY <2>3, <2>6
<1>5. y \in Seq(S) /\ Len(y) = e /\ \A i \in 1 .. e : y[i] = s[e - i + 1]
  <2>1. y = [i \in 1 .. e |-> q[(e - i) + 1]]
    BY <1>2 DEF Reverse
  <2> HIDE DEF y
  <2>2. \A i \in 1 .. e : (e - i) + 1 \in 1 .. e
    OBVIOUS
  <2>3. \A i \in 1 .. e : y[i] = s[e - i + 1]
    BY <1>2, <2>1, <2>2
  <2>4. \A i \in 1 .. e : y[i] \in S
    BY <1>3, <2>2, <2>3, LenProperties
  <2>5. y \in [1 .. e -> S]
    BY <2>1, <2>4
  <2>6. y \in Seq(S) /\ Len(y) = e
    BY <2>5
  <2> QED BY <2>3, <2>6
<1> HIDE DEF x, y
<1>6. SubSeq(x, 0 + 1, e - a) = SubSeq(y, 0 + 1, e - a)
  <2> DEFINE u == SubSeq(x, 0 + 1, e - a)
  <2>1. e - a \in Nat /\ e - a <= e
    OBVIOUS
  <2>2. u \in Seq(S) /\ Len(u) = (e - a) - 0 /\ \A i \in 1 .. (e - a) - 0 : u[i] = x[0 + i]
    BY <1>4, <2>1, Slice
  <2> HIDE DEF u
  <2>3. \A i \in 1 .. (e - a) - 0 : u[i] = y[0 + i]
    <3> SUFFICES ASSUME NEW i \in 1 .. (e - a) - 0 PROVE u[i] = y[0 + i]
      OBVIOUS
    <3>1. i \in 1 .. e - a /\ i \in 1 .. e /\ 0 + i = i
      BY <2>1
    <3>2. u[i] = x[i] /\ x[i] = s[e - i + 1]
      BY <1>4, <2>2, <3>1
    <3>3. y[i] = s[e - i + 1]
      BY <1>5, <3>1
    <3> QED BY <3>1, <3>2, <3>3
  <2>4. u = SubSeq(y, 0 + 1, e - a)
    BY <1>5, <2>1, <2>2, <2>3, SliceIs
  <2> QED BY <2>4 DEF u
<1>7. IsPrefix(x, y)
  <2>1. Len(x) <= Len(y) /\ 0 + 1 = 1
    BY <1>4, <1>5
  <2> QED BY <1>4, <1>6, <2>1 DEF IsPrefix
<1> QED BY <1>7 DEF IsSuffix, x, y, p, q

-----------------------------------------------------------------------------
(* The history.                                                            *)

\* Max and Min of numbers within a bound.
LEMMA MaxIs ==
    ASSUME NEW n \in Nat, NEW T \in SUBSET (0 .. n), T # {}
    PROVE  Max(T) \in T /\ \A k \in T : k <= Max(T)
<1>1. \E m \in T : \A k \in T : m >= k
  <2>1. PICK m \in T : \A k \in T : k <= m
    BY Greatest
  <2> QED BY <2>1
<1>2. Max(T) \in T /\ \A k \in T : Max(T) >= k
  BY <1>1 DEF Max
<1> QED BY <1>2

\* As above.
LEMMA MinIs ==
    ASSUME NEW n \in Nat, NEW T \in SUBSET (0 .. n), T # {}
    PROVE  Min(T) \in T /\ \A k \in T : Min(T) <= k
<1>1. \E m \in T : \A k \in T : m <= k
  <2>1. T \in SUBSET Nat
    OBVIOUS
  <2> QED BY <2>1, Least
<1> QED BY <1>1 DEF Min

\* Trim, for a limit m.
TrimTo(m, c) ==
    IF Len(c) <= m THEN c
    ELSE LET from == Len(c) - m + 1
             skip == {k \in 0 .. m : \A j \in from .. from + k - 1 : ~RuneStart(c[j])}
         IN  SubSeq(c, from + Max(skip), Len(c))

\* What is cut off the front of a chunk: nothing if it fits, and otherwise so much that
\* the rest fits and is empty or begins a rune.
Drops(m, c, k) ==
    /\ TrimTo(m, c) = SubSeq(c, k + 1, Len(c))
    /\ Len(c) - k <= m
    /\ Len(c) <= m => k = 0
    /\ k = 0 \/ k = Len(c) \/ c[k + 1] # 0

\* There is such a place.
LEMMA TrimIs ==
    ASSUME NEW m \in Nat \ {0}, NEW c \in Seq(Byte)
    PROVE  \E k \in 0 .. Len(c) : Drops(m, c, k)
<1>1. Len(c) \in Nat
  BY LenProperties
<1>2. CASE Len(c) <= m
  <2>1. c = SubSeq(c, 0 + 1, Len(c))
    BY <1>1, SliceIs
  <2>2. TrimTo(m, c) = SubSeq(c, 0 + 1, Len(c)) /\ Len(c) - 0 <= m /\ 0 \in 0 .. Len(c)
    BY <1>1, <1>2, <2>1 DEF TrimTo
  <2> QED BY <2>2 DEF Drops
<1>3. CASE ~(Len(c) <= m)
  <2> DEFINE from == Len(c) - m + 1
             skip == {k \in 0 .. m : \A j \in from .. from + k - 1 : ~RuneStart(c[j])}
             x == Max(skip)
             k == Len(c) - m + x
  <2>1. skip \in SUBSET (0 .. m) /\ 0 \in skip
    BY <1>1
  <2>2. x \in skip /\ \A y \in skip : y <= x
    <3> HIDE DEF skip
    <3> QED BY <2>1, MaxIs
  <2>3. TrimTo(m, c) = SubSeq(c, from + x, Len(c))
    BY <1>3 DEF TrimTo
  <2> HIDE DEF x
  <2>4. x \in 0 .. m /\ \A j \in from .. from + x - 1 : ~RuneStart(c[j])
    BY <2>2
  <2>5. k \in 0 .. Len(c) /\ from + x = k + 1 /\ Len(c) - k <= m /\ k # 0
    BY <1>1, <1>3, <2>4
  <2>6. k = Len(c) \/ c[k + 1] # 0
    <3> SUFFICES ASSUME k # Len(c), c[k + 1] = 0 PROVE FALSE
      OBVIOUS
    <3>1. x + 1 \in 0 .. m
      BY <1>1, <2>4
    <3>2. ASSUME NEW j \in from .. from + (x + 1) - 1 PROVE ~RuneStart(c[j])
      <4>1. j \in from .. from + x - 1 \/ j = k + 1
        <5>1. from \in Int /\ from + x = k + 1 /\ x \in Int
          BY <1>1, <2>4, <2>5
        <5> HIDE DEF from, k
        <5> QED BY <5>1
      <4> QED BY <2>4, <4>1 DEF RuneStart
    <3>3. x + 1 \in skip
      BY <3>1, <3>2
    <3>4. x + 1 <= x
      BY <2>2, <3>3
    <3> QED BY <2>4, <3>4
  <2> HIDE DEF k
  <2>7. TrimTo(m, c) = SubSeq(c, k + 1, Len(c))
    BY <2>3, <2>5
  <2>8. Drops(m, c, k)
    BY <1>3, <2>5, <2>6, <2>7 DEF Drops
  <2> QED BY <2>5, <2>8
<1> QED BY <1>2, <1>3

\* A trimmed chunk fits.
LEMMA TrimFits ==
    ASSUME NEW m \in Nat \ {0}, NEW c \in Seq(Byte)
    PROVE  TrimTo(m, c) \in Seq(Byte) /\ Len(TrimTo(m, c)) \in Nat /\ Len(TrimTo(m, c)) <= m
<1>1. PICK k \in 0 .. Len(c) : Drops(m, c, k)
  BY TrimIs
<1>2. Len(c) \in Nat
  BY LenProperties
<1> DEFINE d == SubSeq(c, k + 1, Len(c))
<1>3. d \in Seq(Byte) /\ Len(d) = Len(c) - k
  BY <1>2, Slice
<1> HIDE DEF d
<1>4. TrimTo(m, c) = d /\ Len(c) - k <= m
  BY <1>1 DEF Drops, d
<1> QED BY <1>2, <1>3, <1>4

\* Chunk i, as it was cut from s.
Piece(s, es, i) == SubSeq(s, Start(es, i) + 1, es[i])

\* The number of chunks that have been appended to the history.
Count == IF chunk = <<>> THEN Len(ends) ELSE Len(ends) - 1

\* The history holds the last chunks, trimmed; it counts their bytes, which are within
\* the limit, and the chunk before the first it holds would not have fitted.
KeptInv ==
    /\ maxBytes \in Nat \ {0}
    /\ chunks \in Seq(Seq(Byte)) /\ Len(chunks) <= Count
    /\ \A i \in 1 .. Len(chunks) :
          chunks[i] = TrimTo(maxBytes, Piece(input, ends, Count - Len(chunks) + i))

FullInv ==
    /\ bytes = Size(chunks, Len(chunks)) /\ bytes <= maxBytes
    /\ \/ Len(chunks) = Count
       \/ bytes + Len(TrimTo(maxBytes, Piece(input, ends, Count - Len(chunks)))) > maxBytes

HistoryInv == KeptInv /\ FullInv

\* Initially the history is empty.
LEMMA HistoryInit == Init => HistoryInv
<1> SUFFICES ASSUME Init PROVE HistoryInv
  OBVIOUS
<1>1. ends = <<>> /\ chunk = <<>> /\ chunks = <<>> /\ bytes = 0 /\ maxBytes \in Nat \ {0}
  BY HistoryConstants DEF Init
<1>2. Count = 0 /\ Len(chunks) = 0 /\ chunks \in Seq(Seq(Byte))
  BY <1>1 DEF Count
<1>3. Size(chunks, 0) = 0
  BY <1>2, SizeNext
<1> QED BY <1>1, <1>2, <1>3 DEF HistoryInv, KeptInv, FullInv

\* The pieces of the input.
LEMMA PieceIs ==
    ASSUME ReadInv, NEW i \in 1 .. Len(ends)
    PROVE  /\ ends[i] \in Nat /\ Start(ends, i) \in Nat /\ Start(ends, i) <= ends[i] /\ ends[i] <= Len(input)
           /\ Start(ends, i) \in Boundaries
           /\ Piece(input, ends, i) \in Seq(Byte)
           /\ Len(Piece(input, ends, i)) = ends[i] - Start(ends, i)
           /\ \A k \in 1 .. ends[i] - Start(ends, i) : Piece(input, ends, i)[k] = input[Start(ends, i) + k]
<1>1. /\ input \in Seq(Byte) /\ Len(input) \in Nat /\ Len(ends) \in Nat
      /\ \A j \in 1 .. Len(ends) : ends[j] \in Boundaries
      /\ Start(ends, i) <= ends[i]
  BY LenProperties DEF ReadInv, EndsInv, PendingInv
<1>2. \A p \in Boundaries : p \in Nat /\ p <= Len(input)
  BY <1>1, BoundariesAre
<1>3. Start(ends, i) \in Boundaries
  <2>1. CASE i = 1
    BY <1>1, <2>1, BoundariesAre DEF Start
  <2>2. CASE i # 1
    <3>1. i - 1 \in 1 .. Len(ends)
      BY <1>1, <2>2
    <3> QED BY <1>1, <2>2, <3>1 DEF Start
  <2> QED BY <2>1, <2>2
<1>4. ends[i] \in Nat /\ Start(ends, i) \in Nat /\ ends[i] <= Len(input)
  BY <1>1, <1>2, <1>3
<1> DEFINE a == Start(ends, i)
           e == ends[i]
<1> HIDE DEF a, e
<1>5. a \in Nat /\ e \in Nat /\ a <= e /\ e <= Len(input)
  BY <1>1, <1>4 DEF a, e
<1>6. /\ SubSeq(input, a + 1, e) \in Seq(Byte) /\ Len(SubSeq(input, a + 1, e)) = e - a
      /\ \A k \in 1 .. e - a : SubSeq(input, a + 1, e)[k] = input[a + k]
  BY <1>1, <1>5, Slice
<1>7. Piece(input, ends, i) = SubSeq(input, a + 1, e)
  BY DEF Piece, a, e
<1>8. /\ Piece(input, ends, i) \in Seq(Byte) /\ Len(Piece(input, ends, i)) = e - a
      /\ \A k \in 1 .. e - a : Piece(input, ends, i)[k] = input[a + k]
  BY <1>6, <1>7
<1> QED BY <1>1, <1>3, <1>4, <1>8 DEF a, e

\* A step that leaves the history and the chunks appended to it alone.
LEMMA HistoryFrame ==
    ASSUME ReadInv, HistoryInv, UNCHANGED <<input, maxBytes, chunks, bytes>>, Count' = Count,
           \A i \in 1 .. Len(ends) : ends'[i] = ends[i]
    PROVE  HistoryInv'
<1> DEFINE n == Count
           m == Len(chunks)
<1>1. Len(ends) \in Nat /\ m \in Nat /\ m <= n /\ n \in Int /\ n <= Len(ends)
  BY LenProperties DEF ReadInv, EndsInv, HistoryInv, KeptInv, Count
<1>2. \A i \in 1 .. Len(ends) : Piece(input, ends', i) = Piece(input, ends, i)
  <2> SUFFICES ASSUME NEW i \in 1 .. Len(ends) PROVE Piece(input, ends', i) = Piece(input, ends, i)
    OBVIOUS
  <2>1. ends'[i] = ends[i] /\ (i # 1 => ends'[i - 1] = ends[i - 1])
    BY <1>1
  <2> QED BY <2>1 DEF Piece, Start
<1>3. \A i \in 1 .. m : Piece(input, ends', n - m + i) = Piece(input, ends, n - m + i)
  BY <1>1, <1>2
<1>4. m # n => Piece(input, ends', n - m) = Piece(input, ends, n - m)
  BY <1>1, <1>2
<1>5. KeptInv'
  BY <1>3 DEF HistoryInv, KeptInv
<1>6. FullInv'
  BY <1>4 DEF HistoryInv, FullInv
<1> QED BY <1>5, <1>6 DEF HistoryInv

\* Sending a chunk does not change what has been appended.
LEMMA SendCount ==
    ASSUME ReadInv, ReadInv', chunk = <<>>, NEW b \in Seq(Byte), NEW err \in BOOLEAN, SendChunk(b, err)
    PROVE  Count' = Count /\ \A i \in 1 .. Len(ends) : ends'[i] = ends[i]
<1> DEFINE c == Cut(b, err)
<1>1. Len(b) \in Nat /\ Len(ends) \in Nat /\ ends \in Seq(Nat) /\ pos' \in Int
  <2>1. Len(b) \in Nat /\ Len(ends) \in Nat /\ ends \in Seq(Nat) /\ Len(input') \in Nat
    BY LenProperties DEF ReadInv, EndsInv, PendingInv
  <2>2. pos' \in 0 .. Len(input')
    BY DEF ReadInv, PendingInv
  <2> QED BY <2>1, <2>2
<1>2. c \in 0 .. Len(b)
  <2>1. \A i \in 1 .. Len(b) : i - 1 + RuneSize(b, i) \in Nat
    BY <1>1, RuneSizeBounds
  <2> QED BY <2>1, CutIs
<1>3. /\ chunk' = SubSeq(b, 0 + 1, c)
      /\ ends' = IF c > 0 THEN Append(ends, pos' - (Len(b) - c)) ELSE ends
  BY DEF SendChunk
<1> HIDE DEF c
<1>4. chunk' \in Seq(Byte) /\ Len(chunk') = c
  <2> DEFINE d == SubSeq(b, 0 + 1, c)
  <2>1. d \in Seq(Byte) /\ Len(d) = c - 0
    BY <1>1, <1>2, Slice
  <2> HIDE DEF d
  <2>2. chunk' = d
    BY <1>3 DEF d
  <2> QED BY <1>2, <2>1, <2>2
<1>5. CASE c = 0
  <2>1. chunk' = <<>> /\ ends' = ends
    BY <1>3, <1>4, <1>5, EmptySeq
  <2> QED BY <2>1 DEF Count
<1>6. CASE c > 0
  <2>1. chunk' # <<>>
    BY <1>4, <1>6
  <2>2. ends' = Append(ends, pos' - (Len(b) - c)) /\ pos' - (Len(b) - c) \in Int /\ ends \in Seq(Int)
    BY <1>1, <1>2, <1>3, <1>6, SeqMonotonic
  <2>3. Len(ends') = Len(ends) + 1 /\ \A i \in 1 .. Len(ends) : ends'[i] = ends[i]
    BY <2>2, AppendProperties
  <2>4. Count' = Len(ends') - 1 /\ Count = Len(ends)
    BY <2>1 DEF Count
  <2> QED BY <1>1, <2>3, <2>4
<1> QED BY <1>2, <1>5, <1>6

\* Reading does not touch the history.
LEMMA ReadHistoryStep == ASSUME ReadInv, ReadInv', HistoryInv, Read \/ ReadError PROVE HistoryInv'
<1>1. UNCHANGED <<input, maxBytes, chunks, bytes>> /\ chunk = <<>>
  BY DEF Read, ReadError
<1>2. \E b \in Seq(Byte), err \in BOOLEAN : SendChunk(b, err)
  <2>1. /\ input \in Seq(Byte) /\ Len(input) \in Nat /\ SentEnd \in Nat /\ SentEnd <= pos /\ pos \in Nat
        /\ pending = SubSeq(input, SentEnd + 1, pos) /\ pos <= Len(input)
    BY LenProperties, BoundariesAre DEF ReadInv, PendingInv
  <2>2. pending \in Seq(Byte) /\ Len(pending) \in Nat
    BY <2>1, Slice
  <2>3. CASE ReadError
    BY <2>2, <2>3 DEF ReadError
  <2>4. CASE Read
    <3>1. PICK n \in 1 .. ReadSize + UTFMax - Len(pending) :
              /\ pos + n <= Len(input)
              /\ SendChunk(pending \o SubSeq(input, pos + 1, pos + n), FALSE)
      BY <2>4 DEF Read
    <3>2. pos + n \in Nat /\ pos <= pos + n
      BY <2>1, <2>2, HistoryConstants
    <3>3. SubSeq(input, pos + 1, pos + n) \in Seq(Byte)
      BY <2>1, <3>1, <3>2, Slice
    <3>4. pending \o SubSeq(input, pos + 1, pos + n) \in Seq(Byte)
      BY <2>2, <3>3, ConcatProperties
    <3> QED BY <3>1, <3>4
  <2> QED BY <2>3, <2>4
<1>3. Count' = Count /\ \A i \in 1 .. Len(ends) : ends'[i] = ends[i]
  BY <1>1, <1>2, SendCount
<1> QED BY <1>1, <1>3, HistoryFrame

\* A chunk is appended, trimmed, and the oldest ones are dropped.
LEMMA AppendStep == ASSUME ReadInv, HistoryInv, AppendHistory PROVE HistoryInv'
<1> DEFINE m == maxBytes
           n == Count
           k == Len(chunks)
           new == TrimTo(m, chunk)
           cs == Append(chunks, new)
           total == bytes + Len(new)
           D == {d \in 0 .. Len(cs) : d = Len(cs) \/ total - Size(cs, d) <= m}
           drop == Min(D)
<1>1. /\ chunk # <<>> /\ chunk' = <<>> /\ UNCHANGED <<input, ends, maxBytes>>
      /\ chunks' = SubSeq(cs, drop + 1, Len(cs)) /\ bytes' = total - Size(cs, drop)
  <2>1. chunk # <<>> /\ chunk' = <<>> /\ UNCHANGED <<input, ends, maxBytes>>
    BY DEF AppendHistory
  <2>2. Trim(chunk) = new
    BY DEF Trim, TrimTo
  <2>3. chunks' = Evict(Append(chunks, Trim(chunk)), bytes + Len(Trim(chunk)))[1]
        /\ bytes' = Evict(Append(chunks, Trim(chunk)), bytes + Len(Trim(chunk)))[2]
    BY DEF AppendHistory
  <2> HIDE DEF new
  <2>4. Evict(cs, total) = <<SubSeq(cs, drop + 1, Len(cs)), total - Size(cs, drop)>>
    BY DEF Evict
  <2> HIDE DEF cs, total, D, drop
  <2>5. chunks' = Evict(cs, total)[1] /\ bytes' = Evict(cs, total)[2]
    BY <2>2, <2>3 DEF cs, total
  <2> DEFINE x == SubSeq(cs, drop + 1, Len(cs))
             y == total - Size(cs, drop)
  <2>6. Evict(cs, total) = <<x, y>>
    BY <2>4
  <2> HIDE DEF x, y
  <2>7. chunks' = x /\ bytes' = y
    BY <2>5, <2>6
  <2> QED BY <2>1, <2>7 DEF x, y
<1>2. /\ m \in Nat \ {0} /\ chunks \in Seq(Seq(Byte)) /\ k \in Nat /\ k <= n
      /\ n = Len(ends) - 1 /\ n \in Nat /\ Len(ends) = n + 1 /\ Len(ends) \in 1 .. Len(ends)
      /\ chunk = Piece(input, ends, Len(ends)) /\ chunk \in Seq(Byte)
  <2>1. m \in Nat \ {0} /\ chunks \in Seq(Seq(Byte)) /\ k \in Nat /\ k <= n
    BY LenProperties DEF HistoryInv, KeptInv
  <2>2. Len(ends) \in Nat /\ Len(ends) > 0 /\ chunk = Piece(input, ends, Len(ends))
    BY <1>1, LenProperties DEF ReadInv, EndsInv, ChunkInv, Piece
  <2>3. n = Len(ends) - 1 /\ Len(ends) \in 1 .. Len(ends)
    BY <1>1, <2>2 DEF Count
  <2>4. Piece(input, ends, Len(ends)) \in Seq(Byte)
    BY <2>3, PieceIs
  <2> QED BY <2>1, <2>2, <2>3, <2>4
<1>3. /\ new \in Seq(Byte) /\ Len(new) \in Nat /\ Len(new) <= m
      /\ new = TrimTo(m, Piece(input, ends, Len(ends)))
  BY <1>2, TrimFits
<1> HIDE DEF new, m, n, k
<1>4. /\ cs \in Seq(Seq(Byte)) /\ Len(cs) = k + 1 /\ cs[k + 1] = new
      /\ \A i \in 1 .. k : cs[i] = chunks[i]
  BY <1>2, <1>3, AppendProperties DEF k
<1> HIDE DEF cs
<1>5. \A i \in 1 .. k + 1 : cs[i] = TrimTo(m, Piece(input, ends, n - k + i))
  <2> SUFFICES ASSUME NEW i \in 1 .. k + 1 PROVE cs[i] = TrimTo(m, Piece(input, ends, n - k + i))
    OBVIOUS
  <2>1. CASE i = k + 1
    <3>1. n - k + i = Len(ends)
      BY <1>2, <2>1
    <3> QED BY <1>3, <1>4, <2>1, <3>1
  <2>2. CASE i \in 1 .. k
    BY <1>4, <2>2 DEF HistoryInv, KeptInv, m, n, k
  <2> QED BY <1>2, <2>1, <2>2
<1>6. /\ Size(cs, 0) = 0 /\ \A i \in 0 .. k + 1 : Size(cs, i) \in Nat
      /\ \A i \in 1 .. k + 1 : Size(cs, i) = Size(cs, i - 1) + Len(cs[i])
  BY <1>4, SizeNext
<1>7. total = Size(cs, k + 1) /\ bytes = Size(cs, k) /\ bytes \in Nat /\ bytes <= m
  <2>1. bytes = Size(chunks, k) /\ bytes <= m
    BY DEF HistoryInv, FullInv, k, m
  <2>2. Size(chunks, 0) = 0 /\ Size(chunks, k) \in Nat
    BY <1>2, SizeNext DEF k
  <2>3. Size(cs, 0 + k) - Size(cs, 0) = Size(chunks, 0 + k) - Size(chunks, 0)
    <3>1. 0 + k <= Len(cs) /\ 0 + k <= Len(chunks) /\ \A i \in 1 .. k : cs[0 + i] = chunks[0 + i]
      BY <1>2, <1>4 DEF k
    <3>2. SameChunks(cs, 0, chunks, 0, k) /\ 0 \in Nat /\ k \in Nat
      BY <1>2, <3>1 DEF SameChunks
    <3> QED BY <1>2, <1>4, <3>2, SizeShift
  <2>4. Size(cs, k) \in Nat /\ 0 + k = k /\ (k + 1) - 1 = k /\ k + 1 \in 1 .. k + 1
    BY <1>2, <1>6
  <2>5. Size(cs, k) = Size(chunks, k)
    BY <1>6, <2>2, <2>3, <2>4
  <2>6. Size(cs, k + 1) = Size(cs, k) + Len(new)
    BY <1>4, <1>6, <2>4
  <2> QED BY <2>1, <2>2, <2>5, <2>6
<1> HIDE DEF total
<1>8. drop \in D /\ \A d \in D : drop <= d
  <2>1. D \in SUBSET (0 .. k + 1) /\ k + 1 \in D /\ k + 1 \in Nat
    BY <1>2, <1>4
  <2> HIDE DEF D
  <2> QED BY <2>1, MinIs
<1> HIDE DEF drop
<1>9. drop \in 0 .. k + 1 /\ (drop = k + 1 \/ total - Size(cs, drop) <= m)
  BY <1>4, <1>8
<1>10. drop > 0 => total - Size(cs, drop - 1) > m
  <2> SUFFICES ASSUME drop > 0, ~(total - Size(cs, drop - 1) > m) PROVE FALSE
    OBVIOUS
  <2>1. drop - 1 \in 0 .. k + 1 /\ Size(cs, drop - 1) \in Nat /\ total \in Nat
    BY <1>2, <1>6, <1>7, <1>9
  <2>2. drop - 1 \in D
    BY <1>2, <1>4, <2>1
  <2> QED BY <1>8, <1>9, <2>2
<1> HIDE DEF D
<1> DEFINE l == (k + 1) - drop
<1>11. /\ chunks' \in Seq(Seq(Byte)) /\ Len(chunks') = l /\ l \in Nat
       /\ \A i \in 1 .. l : chunks'[i] = cs[drop + i]
  <2> DEFINE p == SubSeq(cs, drop + 1, k + 1)
  <2>1. p \in Seq(Seq(Byte)) /\ Len(p) = l /\ l \in Nat /\ \A i \in 1 .. l : p[i] = cs[drop + i]
    <3>1. drop \in Nat /\ k + 1 \in Nat /\ drop <= k + 1 /\ k + 1 <= Len(cs) /\ l \in Nat
      BY <1>2, <1>4, <1>9
    <3>2. /\ p \in Seq(Seq(Byte)) /\ Len(p) = (k + 1) - drop
          /\ \A i \in 1 .. (k + 1) - drop : p[i] = cs[drop + i]
      <4> DEFINE e == k + 1
                 B == Seq(Byte)
      <4>1. e \in Nat /\ drop <= e /\ e <= Len(cs) /\ cs \in Seq(B)
        BY <1>4, <3>1
      <4> HIDE DEF e, B
      <4>2. /\ SubSeq(cs, drop + 1, e) \in Seq(B) /\ Len(SubSeq(cs, drop + 1, e)) = e - drop
            /\ \A i \in 1 .. e - drop : SubSeq(cs, drop + 1, e)[i] = cs[drop + i]
        BY <3>1, <4>1, Slice
      <4> QED BY <4>2 DEF e, B
    <3> HIDE DEF p
    <3> QED BY <3>1, <3>2
  <2> HIDE DEF p
  <2>2. chunks' = p
    BY <1>1, <1>4 DEF p
  <2> QED BY <2>1, <2>2
<1>12. Count' = n + 1 /\ (n + 1) - l = (n - k) + drop
  BY <1>1, <1>2, <1>9 DEF Count
<1>13. KeptInv'
  <2>1. l <= n + 1
    BY <1>2, <1>9
  <2>2. ASSUME NEW i \in 1 .. l
        PROVE  chunks'[i] = TrimTo(m, Piece(input, ends, (n + 1) - l + i))
    <3>1. drop + i \in 1 .. k + 1 /\ n - k + (drop + i) = (n + 1) - l + i
      BY <1>2, <1>9
    <3> QED BY <1>5, <1>11, <3>1
  <2>3. maxBytes' \in Nat \ {0} /\ maxBytes' = m /\ input' = input /\ ends' = ends
    BY <1>1, <1>2 DEF m
  <2> HIDE DEF l
  <2> QED BY <1>11, <1>12, <2>1, <2>2, <2>3 DEF KeptInv
<1>14. bytes' = Size(chunks', l)
  <2>1. Size(cs, drop + l) - Size(cs, drop) = Size(chunks', 0 + l) - Size(chunks', 0)
    <3>1. drop + l <= Len(cs) /\ 0 + l <= Len(chunks') /\ \A i \in 1 .. l : cs[drop + i] = chunks'[0 + i]
      BY <1>2, <1>4, <1>9, <1>11
    <3>2. drop \in Nat
      BY <1>2, <1>9
    <3>3. l \in Nat /\ 0 \in Nat /\ chunks' \in Seq(Seq(Byte))
      BY <1>11
    <3>4. SameChunks(cs, drop, chunks', 0, l)
      <4> HIDE DEF l
      <4> QED BY <3>1 DEF SameChunks
    <3> HIDE DEF l
    <3> QED BY <1>4, <3>2, <3>3, <3>4, SizeShift
  <2>2. Size(chunks', 0) = 0 /\ Size(chunks', l) \in Nat
    <3>1. l \in 0 .. Len(chunks')
      BY <1>11
    <3> HIDE DEF l
    <3> QED BY <1>11, <3>1, SizeNext
  <2>3. drop + l = k + 1 /\ 0 + l = l
    BY <1>2, <1>9
  <2> HIDE DEF l
  <2> QED BY <1>1, <1>7, <2>1, <2>2, <2>3
<1>15. bytes' \in Int /\ bytes' <= m
  <2>1. total \in Nat /\ Size(cs, drop) \in Nat /\ bytes' = total - Size(cs, drop)
    BY <1>1, <1>2, <1>6, <1>7, <1>9
  <2>2. CASE drop = k + 1
    BY <1>2, <1>7, <2>1, <2>2
  <2>3. CASE drop # k + 1
    BY <1>9, <2>1, <2>3
  <2> QED BY <2>2, <2>3
<1>16. l = n + 1 \/ bytes' + Len(TrimTo(m, Piece(input, ends, (n + 1) - l))) > m
  <2>1. CASE drop > 0
    <3>1. drop \in 1 .. k + 1 /\ cs[drop] = TrimTo(m, Piece(input, ends, (n + 1) - l))
      <4>1. drop \in 1 .. k + 1 /\ n - k + drop = (n + 1) - l
        BY <1>2, <1>9, <2>1
      <4> QED BY <1>5, <4>1
    <3>2. Size(cs, drop) = Size(cs, drop - 1) + Len(cs[drop])
      BY <1>6, <3>1
    <3>3. cs[drop] \in Seq(Byte) /\ Len(cs[drop]) \in Nat
      BY <1>4, <3>1, ElementOfSeq, LenProperties
    <3>4. total \in Nat /\ Size(cs, drop - 1) \in Nat
      <4>1. drop - 1 \in 0 .. k + 1 /\ k + 1 \in 0 .. k + 1
        BY <1>2, <3>1
      <4> QED BY <1>6, <1>7, <4>1
    <3>5. bytes' + Len(cs[drop]) > m
      <4>1. total - Size(cs, drop - 1) > m
        BY <1>10, <2>1
      <4>2. bytes' = total - (Size(cs, drop - 1) + Len(cs[drop]))
        BY <1>1, <3>2
      <4> QED BY <3>3, <3>4, <4>1, <4>2
    <3> HIDE DEF l
    <3> QED BY <3>1, <3>5
  <2>2. CASE drop = 0
    <3>1. l = k + 1 /\ (n + 1) - l = n - k
      BY <1>2, <2>2
    <3>2. bytes' = bytes + Len(new)
      <4>1. total - 0 = total /\ total \in Nat
        BY <1>3, <1>7 DEF total
      <4> QED BY <1>1, <1>6, <2>2, <4>1 DEF total
    <3>3. CASE k = n
      BY <3>1, <3>3
    <3>4. CASE k # n
      <4>1. bytes + Len(TrimTo(m, Piece(input, ends, n - k))) > m
        BY <3>4 DEF HistoryInv, FullInv, m, n, k
      <4>2. Len(TrimTo(m, Piece(input, ends, n - k))) \in Nat
        <5>1. n - k \in 1 .. Len(ends)
          BY <1>2, <3>4
        <5>2. Piece(input, ends, n - k) \in Seq(Byte)
          BY <5>1, PieceIs
        <5> QED BY <1>2, <5>2, TrimFits
      <4>3. bytes' + Len(TrimTo(m, Piece(input, ends, n - k))) > m
        BY <1>2, <1>3, <1>7, <3>2, <4>1, <4>2, SMTT(60)
      <4> HIDE DEF l
      <4> QED BY <3>1, <4>3
    <3> QED BY <3>3, <3>4
  <2> QED BY <1>2, <1>9, <2>1, <2>2
<1>17. FullInv'
  <2>1. maxBytes' = m /\ input' = input /\ ends' = ends
    BY <1>1 DEF m
  <2> HIDE DEF l
  <2> QED BY <1>11, <1>12, <1>14, <1>15, <1>16, <2>1 DEF FullInv
<1> QED BY <1>13, <1>17 DEF HistoryInv

\* The invariant of the history is kept by every step.
LEMMA HistoryStep == ASSUME ReadInv, ReadInv', HistoryInv, [Next]_vars PROVE HistoryInv'
<1>1. CASE Read \/ ReadError
  BY <1>1, ReadHistoryStep
<1>2. CASE AppendHistory
  BY <1>2, AppendStep
<1>3. CASE UNCHANGED vars
  <2>1. UNCHANGED <<input, maxBytes, chunks, bytes>> /\ Count' = Count /\ ends' = ends
    BY <1>3 DEF vars, Count
  <2> QED BY <2>1, HistoryFrame
<1> QED BY <1>1, <1>2, <1>3 DEF Next, Terminated
-----------------------------------------------------------------------------
(* What a client is replayed.                                              *)

\* The chunks that have been appended are the first pieces of the input.
LEMMA AppendedIs ==
    ASSUME ReadInv, HistoryInv
    PROVE  /\ Count \in Nat /\ Count <= Len(ends) /\ Len(ends) \in Nat
           /\ Len(chunks) \in Nat /\ Len(chunks) <= Count
           /\ Appended \in Seq(Seq(Byte)) /\ Len(Appended) = Count
           /\ \A i \in 1 .. Count : Appended[i] = Piece(input, ends, i)
<1> DEFINE n == Count
<1>1. Len(ends) \in Nat /\ Len(chunks) \in Nat /\ Len(chunks) <= n
  BY LenProperties DEF ReadInv, EndsInv, HistoryInv, KeptInv
<1>2. n \in Nat /\ n <= Len(ends)
  <2>1. n = Len(ends) \/ n = Len(ends) - 1
    BY DEF Count
  <2> HIDE DEF n
  <2> QED BY <1>1, <2>1
<1>3. Appended = [i \in 1 .. n |-> Piece(input, ends, i)]
  BY DEF Appended, Piece, Start, Count
<1>4. \A i \in 1 .. n : Piece(input, ends, i) \in Seq(Byte)
  <2> SUFFICES ASSUME NEW i \in 1 .. n PROVE Piece(input, ends, i) \in Seq(Byte)
    OBVIOUS
  <2>1. i \in 1 .. Len(ends)
    BY <1>1, <1>2
  <2> QED BY <2>1, PieceIs
<1> HIDE DEF n
<1>5. Appended \in [1 .. n -> Seq(Byte)]
  BY <1>3, <1>4
<1>6. Appended \in Seq(Seq(Byte)) /\ Len(Appended) = n
  BY <1>2, <1>5
<1>7. \A i \in 1 .. n : Appended[i] = Piece(input, ends, i)
  BY <1>3
<1> QED BY <1>1, <1>2, <1>6, <1>7 DEF n

\* The replay is within the limit and starts no piece inside a rune.
LEMMA Bounded == ASSUME ReadInv, HistoryInv PROVE ReplayBounded
<1> DEFINE n == Count
           m == Len(chunks)
<1>1. n \in Nat /\ n <= Len(ends) /\ Len(ends) \in Nat /\ m \in Nat /\ m <= n /\ Len(Appended) = n
  BY AppendedIs
<1>2. bytes = Len(Dump) /\ bytes <= maxBytes
  <2>1. chunks \in Seq(Seq(Byte)) /\ bytes = Size(chunks, Len(chunks)) /\ bytes <= maxBytes
    BY DEF HistoryInv, KeptInv, FullInv
  <2> QED BY <2>1, FlattenSize DEF Dump
<1>3. ASSUME NEW i \in 1 .. m, chunks[i] # <<>>
      PROVE  ends[n - m + i] - Len(chunks[i]) \in Boundaries
  <2> DEFINE j == n - m + i
             p == Piece(input, ends, j)
             a == Start(ends, j)
             e == ends[j]
  <2>1. j \in 1 .. Len(ends)
    BY <1>1
  <2>2. maxBytes \in Nat \ {0} /\ chunks[i] = TrimTo(maxBytes, p)
    BY DEF HistoryInv, KeptInv
  <2> HIDE DEF j
  <2>3. /\ e \in Nat /\ a \in Nat /\ a <= e /\ e <= Len(input) /\ a \in Boundaries
        /\ p \in Seq(Byte) /\ Len(p) = e - a /\ \A k \in 1 .. e - a : p[k] = input[a + k]
    BY <2>1, PieceIs
  <2> HIDE DEF p, a, e
  <2>4. PICK k \in 0 .. Len(p) : Drops(maxBytes, p, k)
    BY <2>2, <2>3, TrimIs
  <2> DEFINE c == SubSeq(p, k + 1, Len(p))
  <2>5. c \in Seq(Byte) /\ Len(c) = Len(p) - k
    BY <2>3, Slice
  <2>6. chunks[i] = c
    BY <2>2, <2>4 DEF Drops
  <2> HIDE DEF c
  <2>7. Len(c) # 0
    BY <1>3, <2>5, <2>6, EmptySeq
  <2>8. k \in Nat /\ k < e - a /\ e - Len(c) = a + k
    BY <2>3, <2>5, <2>7
  <2>9. a + k \in Boundaries
    <3>1. CASE k = 0
      BY <2>3, <3>1
    <3>2. CASE k # 0
      <4>1. p[k + 1] # 0
        BY <2>3, <2>4, <2>8, <3>2 DEF Drops
      <4>2. k + 1 \in 1 .. e - a /\ a + (k + 1) = (a + k) + 1
        BY <2>3, <2>8
      <4>3. input[(a + k) + 1] # 0
        BY <2>3, <4>1, <4>2
      <4>4. input \in Seq(Byte) /\ Len(input) \in Nat
        BY LenProperties DEF ReadInv, PendingInv
      <4>5. a + k \in 0 .. Len(input) /\ a + k < Len(input)
        BY <2>3, <2>8, <4>4
      <4> QED BY <4>3, <4>4, <4>5, RuneStartIsBoundary
    <3> QED BY <3>1, <3>2
  <2>10. e - Len(chunks[i]) \in Boundaries
    BY <2>6, <2>8, <2>9
  <2> QED BY <2>10 DEF e, j
<1> QED BY <1>1, <1>2, <1>3 DEF ReplayBounded

\* The replay is of as many chunks as fit.
LEMMA Longest == ASSUME ReadInv, HistoryInv PROVE ReplayIsLongest
<1> DEFINE n == Count
           m == Len(chunks)
           w == [i \in 1 .. n |-> TrimTo(maxBytes, Piece(input, ends, i))]
           last(k) == [i \in 1 .. k |-> Trim(Appended[Len(Appended) - k + i])]
           fits(k) == Len(FlattenSeq(last(k))) <= maxBytes
           F == {k \in 0 .. n : fits(k)}
<1>1. /\ n \in Nat /\ n <= Len(ends) /\ Len(ends) \in Nat /\ m \in Nat /\ m <= n /\ Len(Appended) = n
      /\ \A i \in 1 .. n : Appended[i] = Piece(input, ends, i)
  BY AppendedIs
<1>2. /\ maxBytes \in Nat \ {0} /\ chunks \in Seq(Seq(Byte)) /\ bytes = Size(chunks, m) /\ bytes <= maxBytes
      /\ \A i \in 1 .. m : chunks[i] = TrimTo(maxBytes, Piece(input, ends, n - m + i))
      /\ m # n => bytes + Len(TrimTo(maxBytes, Piece(input, ends, n - m))) > maxBytes
  BY DEF HistoryInv, KeptInv, FullInv
<1> HIDE DEF n, m
<1>3. w \in Seq(Seq(Byte)) /\ Len(w) = n /\ \A i \in 1 .. n : w[i] = TrimTo(maxBytes, Piece(input, ends, i))
  <2>1. \A i \in 1 .. n : TrimTo(maxBytes, Piece(input, ends, i)) \in Seq(Byte)
    <3> SUFFICES ASSUME NEW i \in 1 .. n PROVE TrimTo(maxBytes, Piece(input, ends, i)) \in Seq(Byte)
      OBVIOUS
    <3>1. i \in 1 .. Len(ends)
      BY <1>1
    <3>2. Piece(input, ends, i) \in Seq(Byte)
      BY <3>1, PieceIs
    <3> QED BY <1>2, <3>2, TrimFits
  <2>2. w \in [1 .. n -> Seq(Byte)]
    BY <2>1
  <2>3. \A i \in 1 .. n : w[i] = TrimTo(maxBytes, Piece(input, ends, i))
    OBVIOUS
  <2> HIDE DEF w
  <2> QED BY <1>1, <2>2, <2>3
<1> HIDE DEF w
<1>4. /\ \A k \in 0 .. n : Size(w, k) \in Nat
      /\ \A k \in 1 .. n : Size(w, k) = Size(w, k - 1) + Len(w[k])
  BY <1>3, SizeNext
<1>5. ASSUME NEW k \in 0 .. n PROVE Len(FlattenSeq(last(k))) = Size(w, n) - Size(w, n - k)
  <2> DEFINE q == last(k)
  <2>1. \A i \in 1 .. k : n - k + i \in 1 .. n /\ (n - k) + i = n - k + i
    BY <1>1
  <2>2. \A i \in 1 .. k : q[i] = w[(n - k) + i]
    <3> SUFFICES ASSUME NEW i \in 1 .. k PROVE q[i] = w[(n - k) + i]
      OBVIOUS
    <3>1. q[i] = Trim(Appended[n - k + i])
      BY <1>1
    <3>2. Appended[n - k + i] = Piece(input, ends, n - k + i)
      BY <1>1, <2>1
    <3>3. \A c : Trim(c) = TrimTo(maxBytes, c)
      BY DEF Trim, TrimTo
    <3> HIDE DEF q
    <3> QED BY <1>3, <2>1, <3>1, <3>2, <3>3
  <2>3. q = [i \in 1 .. k |-> q[i]]
    OBVIOUS
  <2> HIDE DEF q
  <2>4. \A i \in 1 .. k : w[(n - k) + i] \in Seq(Byte)
    BY <1>3, <2>1, ElementOfSeq
  <2>5. q \in [1 .. k -> Seq(Byte)]
    BY <2>2, <2>3, <2>4
  <2>6. q \in Seq(Seq(Byte)) /\ Len(q) = k
    BY <1>1, <2>5
  <2>7. SameChunks(w, n - k, q, 0, k)
    <3>1. (n - k) + k <= Len(w) /\ 0 + k <= Len(q) /\ \A i \in 1 .. k : q[0 + i] = q[i]
      BY <1>1, <1>3, <2>6
    <3> QED BY <2>2, <3>1 DEF SameChunks
  <2>8. n - k \in Nat /\ 0 \in Nat /\ k \in Nat
    BY <1>1
  <2>9. Size(w, (n - k) + k) - Size(w, n - k) = Size(q, 0 + k) - Size(q, 0)
    BY <1>3, <2>6, <2>7, <2>8, SizeShift
  <2>10. (n - k) + k = n /\ 0 + k = k /\ Size(q, 0) = 0 /\ Size(q, k) \in Nat
    BY <1>1, <2>6, SizeNext
  <2>11. Len(FlattenSeq(q)) = Size(q, k)
    BY <2>6, FlattenSize
  <2>12. Size(w, n) - Size(w, n - k) = Size(q, k)
    BY <2>9, <2>10
  <2> QED BY <2>11, <2>12 DEF q
<1>6. bytes = Size(w, n) - Size(w, n - m)
  <2>1. \A i \in 1 .. m : n - m + i \in 1 .. n /\ (n - m) + i = n - m + i
    BY <1>1
  <2>2. SameChunks(w, n - m, chunks, 0, m)
    <3>1. (n - m) + m <= Len(w) /\ 0 + m <= Len(chunks) /\ \A i \in 1 .. m : chunks[0 + i] = chunks[i]
      BY <1>1, <1>3 DEF m
    <3>2. \A i \in 1 .. m : w[(n - m) + i] = chunks[i]
      BY <1>2, <1>3, <2>1
    <3> QED BY <3>1, <3>2 DEF SameChunks
  <2>3. n - m \in Nat /\ 0 \in Nat /\ m \in Nat
    BY <1>1
  <2>4. Size(w, (n - m) + m) - Size(w, n - m) = Size(chunks, 0 + m) - Size(chunks, 0)
    BY <1>2, <1>3, <2>2, <2>3, SizeShift
  <2>5. (n - m) + m = n /\ 0 + m = m /\ Size(chunks, 0) = 0 /\ Size(chunks, m) \in Nat
    BY <1>1, <1>2, SizeNext DEF m
  <2> QED BY <1>2, <2>4, <2>5
<1> DEFINE rest(k) == Size(w, n) - Size(w, n - k)
<1>7. F = {k \in 0 .. n : rest(k) <= maxBytes}
  BY <1>5
<1>8. m \in F
  <2>1. m \in 0 .. n /\ rest(m) <= maxBytes
    BY <1>1, <1>2, <1>6
  <2> HIDE DEF F, rest
  <2> QED BY <1>7, <2>1
<1>9. ASSUME NEW k \in F PROVE k <= m
  <2> SUFFICES ASSUME ~(k <= m) PROVE FALSE
    OBVIOUS
  <2>1. k \in 0 .. n /\ Size(w, n) - Size(w, n - k) <= maxBytes
    BY <1>7
  <2>2. n - m \in 1 .. n /\ n - k \in 0 .. n /\ (n - m) - 1 \in 0 .. n /\ n - k <= (n - m) - 1 /\ m # n /\ n \in 0 .. n
    BY <1>1, <2>1
  <2>3. Size(w, n - m) = Size(w, (n - m) - 1) + Len(w[n - m]) /\ Size(w, (n - m) - 1) \in Nat
    BY <1>4, <2>2
  <2>4. Size(w, n - k) <= Size(w, (n - m) - 1)
    BY <1>3, <2>2, SizeGrows
  <2>5. bytes + Len(w[n - m]) > maxBytes
    BY <1>2, <1>3, <2>2
  <2>6. w[n - m] \in Seq(Byte) /\ Len(w[n - m]) \in Nat
    BY <1>3, <2>2, ElementOfSeq, LenProperties
  <2>7. Size(w, n) \in Nat /\ Size(w, n - k) \in Nat
    BY <1>4, <2>2
  <2> DEFINE x == Size(w, n)
             y == Size(w, n - k)
             z == Size(w, (n - m) - 1)
             l == Len(w[n - m])
  <2>8. x - y <= maxBytes /\ y <= z /\ x - (z + l) + l > maxBytes /\ bytes = x - (z + l)
    BY <1>6, <2>1, <2>3, <2>4, <2>5
  <2>9. x \in Int /\ y \in Int /\ z \in Int /\ l \in Int /\ maxBytes \in Int
    BY <1>2, <2>3, <2>6, <2>7
  <2> HIDE DEF x, y, z, l
  <2> QED BY <2>8, <2>9
<1>10. m = Max(F)
  <2>1. F \in SUBSET (0 .. n)
    OBVIOUS
  <2> HIDE DEF F
  <2>2. Max(F) \in F /\ \A k \in F : k <= Max(F)
    BY <1>1, <1>8, <2>1, MaxIs
  <2>3. Max(F) <= m /\ m <= Max(F) /\ Max(F) \in 0 .. n
    BY <1>8, <1>9, <2>1, <2>2
  <2> QED BY <1>1, <2>3
<1>11. F = {k \in 0 .. Len(Appended) : fits(k)}
  BY <1>1
<1> QED BY <1>10, <1>11 DEF ReplayIsLongest, m

\* With a limit that no chunk exceeds, the replay is the end of what was appended.
LEMMA Suffix == ASSUME ReadInv, HistoryInv PROVE LargeReplayIsSuffix
<1> SUFFICES ASSUME maxBytes >= ReadSize + UTFMax PROVE IsSuffix(Dump, FlattenSeq(Appended))
  BY DEF LargeReplayIsSuffix
<1> DEFINE n == Count
           m == Len(chunks)
           all == [i \in 0 .. n |-> IF i = 0 THEN 0 ELSE ends[i]]
           at == [i \in 0 .. m |-> all[n - m + i]]
<1>1. /\ n \in Nat /\ n <= Len(ends) /\ Len(ends) \in Nat /\ m \in Nat /\ m <= n
      /\ Appended \in Seq(Seq(Byte)) /\ Len(Appended) = n
      /\ \A i \in 1 .. n : Appended[i] = Piece(input, ends, i)
  BY AppendedIs
<1>2. /\ maxBytes \in Nat \ {0} /\ chunks \in Seq(Seq(Byte))
      /\ \A i \in 1 .. m : chunks[i] = TrimTo(maxBytes, Piece(input, ends, n - m + i))
  BY DEF HistoryInv, KeptInv
<1>3. input \in Seq(Byte) /\ Len(input) \in Nat
  BY LenProperties DEF ReadInv, PendingInv
<1>4. \A i \in 1 .. n : TrimTo(maxBytes, Piece(input, ends, i)) = Piece(input, ends, i)
  <2> SUFFICES ASSUME NEW i \in 1 .. n
               PROVE  TrimTo(maxBytes, Piece(input, ends, i)) = Piece(input, ends, i)
    OBVIOUS
  <2>1. i \in 1 .. Len(ends)
    <3> HIDE DEF n
    <3> QED BY <1>1
  <2>2. /\ Len(Piece(input, ends, i)) = ends[i] - Start(ends, i)
        /\ ends[i] \in Nat /\ Start(ends, i) \in Nat
    BY <2>1, PieceIs
  <2>3. ends[i] <= Start(ends, i) + ReadSize + UTFMax
    BY <2>1 DEF ReadInv, EndsInv
  <2>4. Len(Piece(input, ends, i)) <= maxBytes
    BY <1>2, <2>2, <2>3, HistoryConstants
  <2> QED BY <2>4 DEF TrimTo
<1> HIDE DEF n, m
<1>5. /\ \A i \in 0 .. n : all[i] \in Nat /\ all[i] <= Len(input)
      /\ \A i \in 1 .. n : all[i - 1] <= all[i] /\ Piece(input, ends, i) = SubSeq(input, all[i - 1] + 1, all[i])
  <2>1. ASSUME NEW i \in 1 .. n
        PROVE  /\ all[i] = ends[i] /\ all[i - 1] = Start(ends, i)
               /\ ends[i] \in Nat /\ ends[i] <= Len(input) /\ Start(ends, i) <= ends[i]
    <3>1. i \in 1 .. Len(ends) /\ i \in 0 .. n /\ i - 1 \in 0 .. n /\ i # 0
      BY <1>1
    <3>2. ends[i] \in Nat /\ ends[i] <= Len(input) /\ Start(ends, i) <= ends[i]
      BY <3>1, PieceIs
    <3>3. all[i - 1] = Start(ends, i)
      BY <3>1 DEF Start
    <3> QED BY <3>1, <3>2, <3>3
  <2>2. all[0] = 0
    BY <1>1
  <2> HIDE DEF all
  <2>3. \A i \in 0 .. n : all[i] \in Nat /\ all[i] <= Len(input)
    <3> SUFFICES ASSUME NEW i \in 0 .. n PROVE all[i] \in Nat /\ all[i] <= Len(input)
      OBVIOUS
    <3>1. CASE i = 0
      BY <1>3, <2>2, <3>1
    <3>2. CASE i \in 1 .. n
      BY <2>1, <3>2
    <3> QED BY <1>1, <3>1, <3>2
  <2> QED BY <2>1, <2>3 DEF Piece
<1> HIDE DEF all
<1>6. Consecutive(input, Appended, all)
  BY <1>1, <1>5 DEF Consecutive
<1>7. FlattenSeq(Appended) = SubSeq(input, all[0] + 1, all[n])
  BY <1>1, <1>3, <1>6, FlattenSlices
<1>8. Consecutive(input, chunks, at)
  <2>1. \A i \in 0 .. m : at[i] = all[n - m + i] /\ n - m + i \in 0 .. n
    BY <1>1
  <2> HIDE DEF at
  <2>2. \A i \in 0 .. m : at[i] \in Nat /\ at[i] <= Len(input)
    BY <1>5, <2>1
  <2>3. ASSUME NEW i \in 1 .. m
        PROVE  at[i - 1] <= at[i] /\ chunks[i] = SubSeq(input, at[i - 1] + 1, at[i])
    <3> DEFINE j == n - m + i
    <3>1. j \in 1 .. n /\ i - 1 \in 0 .. m /\ i \in 0 .. m /\ n - m + (i - 1) = j - 1
      BY <1>1
    <3>2. at[i] = all[j] /\ at[i - 1] = all[j - 1]
      BY <2>1, <3>1
    <3>3. chunks[i] = Piece(input, ends, j)
      BY <1>2, <1>4, <3>1
    <3> HIDE DEF j
    <3> QED BY <1>5, <3>1, <3>2, <3>3
  <2> QED BY <2>2, <2>3 DEF Consecutive, m
<1>9. at[0] <= at[m] /\ FlattenSeq(chunks) = SubSeq(input, at[0] + 1, at[m])
  BY <1>2, <1>3, <1>8, FlattenSlices DEF m
<1>10. at[m] = all[n] /\ at[0] \in Nat /\ all[n] \in Nat /\ all[n] <= Len(input) /\ all[0] = 0
  <2>1. 0 \in 0 .. m /\ m \in 0 .. m /\ n - m + m = n /\ n - m + 0 \in 0 .. n /\ n \in 0 .. n /\ 0 \in 0 .. n
    BY <1>1
  <2>2. at[m] = all[n] /\ at[0] = all[n - m + 0]
    BY <2>1
  <2> HIDE DEF at
  <2> QED BY <1>5, <2>1, <2>2 DEF all
<1> HIDE DEF at
<1>11. IsSuffix(SubSeq(input, at[0] + 1, all[n]), SubSeq(input, 0 + 1, all[n]))
  BY <1>3, <1>9, <1>10, SliceSuffix
<1> QED BY <1>7, <1>9, <1>10, <1>11 DEF Dump

\* However the output is cut into reads and whatever the limit, a client is replayed the
\* newest chunks there is room for, within the limit, from rune starts on and, if the limit
\* is at least a chunk, without a gap.
THEOREM ReplayIsSound == Spec => []ReplaySound
<1>1. Init => ReadInv /\ HistoryInv
  BY ReadInit, HistoryInit
<1>2. ReadInv /\ HistoryInv /\ [Next]_vars => (ReadInv /\ HistoryInv)'
  BY ReaderStep, HistoryStep
<1>3. ReadInv /\ HistoryInv => ReplaySound
  BY Bounded, Longest, Suffix DEF ReplaySound
<1> QED BY <1>1, <1>2, <1>3, PTL DEF Spec
=============================================================================
