------------------------- MODULE StringCallsProofs -------------------------
(***************************************************************************)
(* Proofs about the calls of StringCalls: the size that grow finds, for    *)
(* every request that half a word can hold, and what is in the block while *)
(* webvtt_string_replace_all replaces a byte, for every text and bytes.    *)
(***************************************************************************)
EXTENDS StringCalls, FiniteSetTheorems, SequenceTheorems, WellFoundedInduction, TLAPS

\* What halving a page can leave.
Halves == {4096, 2048, 1024, 512, 256, 128, 64, 32, 16, 8, 4, 2, 1}

\* While it halves, the size is still larger than the request, and doubling
\* the half brings it back; while it doubles, it is a page or too small, so
\* that its double is below a word.
IInv ==
  /\ grow \in Requests /\ n \in Nat /\ at \in {"halving", "doubling", "done"}
  /\ at = "halving" => n \in Halves /\ n > grow
  /\ at = "doubling" => n = Page \/ n < grow
  /\ BigEnough

\* One turn of either loop, and the size it may stop at.
LEMMA NextKeeps == IInv /\ [Next]_vars => IInv'
  <1> SUFFICES ASSUME IInv, [Next]_vars PROVE IInv'
    OBVIOUS
  <1>1. grow \in Nat /\ 2 * grow <= Word /\ Word \in Nat /\ Word > 16384
    BY RealSizes, RequestsFit DEF IInv
  <1>2. CASE Halve
    <2> DEFINE half == n \div 2
    <2>1. n \in Halves /\ n > grow /\ at = "halving" /\ grow' = grow
      BY <1>2 DEF Halve, IInv
    <2>2. half \in Halves \cup {0} /\ half \in Nat /\ half * 2 <= n /\ n <= half * 2 + 1
      BY <2>1 DEF Halves
    <2>3. CASE half > grow
      <3>1. n' = half /\ at' = "halving"
        BY <1>2, <2>3 DEF Halve
      <3>2. half \in Halves
        BY <1>1, <2>2, <2>3
      <3> QED BY <2>1, <2>2, <2>3, <3>1, <3>2 DEF IInv, BigEnough
    <2>4. CASE ~(half > grow)
      <3>1. n' = Settled(half) /\ at' = "done"
        BY <1>2, <2>4 DEF Halve
      <3>2. Settled(half) \in Nat /\ Settled(half) >= grow
        <4>1. CASE half < 64
          <5>1. half <= 32
            BY <2>2, <4>1 DEF Halves
          <5>2. n <= 64
            BY <2>1, <2>2, <5>1 DEF Halves
          <5> QED BY <1>1, <2>1, <4>1, <5>2, RealSizes DEF Settled, Halves
        <4>2. CASE half >= 64
          <5>1. Settled(half) = half * 2
            BY <2>2, <4>2, RealSizes DEF Settled
          <5>2. half * 2 >= grow
            <6>1. half \in Nat /\ n <= half * 2 + 1 /\ n > grow /\ n \in Nat /\ grow \in Nat
              BY <1>1, <2>1, <2>2 DEF IInv
            <6> HIDE DEF half
            <6> QED BY <6>1
          <5> QED BY <2>2, <5>1, <5>2
        <4> QED BY <2>2, <4>1, <4>2
      <3> QED BY <2>1, <3>1, <3>2 DEF IInv, BigEnough
    <2> QED BY <2>3, <2>4
  <1>3. CASE Double
    <2>1. n \in Nat /\ n * 2 < Word /\ grow' = grow /\ n' = Doubled(n)
      BY <1>1, <1>3, RealSizes DEF Double, IInv
    <2>2. Doubled(n) = n * 2
      BY <1>1, <2>1 DEF Doubled
    <2>3. CASE Doubled(n) < grow
      BY <1>1, <1>3, <2>1, <2>2, <2>3 DEF Double, IInv, BigEnough
    <2>4. CASE ~(Doubled(n) < grow)
      BY <1>1, <1>3, <2>1, <2>2, <2>4 DEF Double, IInv, BigEnough
    <2> QED BY <2>3, <2>4
  <1>4. CASE Finished
    BY <1>4 DEF Finished, vars, IInv, BigEnough
  <1>5. CASE UNCHANGED vars
    BY <1>5 DEF vars, IInv, BigEnough
  <1> QED BY <1>2, <1>3, <1>4, <1>5 DEF Next

\* However much is asked for, up to half a word, the block holds it.
THEOREM GrowsEnough == Spec => []BigEnough
  <1>1. Init => IInv
    BY RealSizes, RequestsFit DEF Init, IInv, BigEnough, Halves
  <1>2. IInv => BigEnough
    BY DEF IInv
  <1> QED BY <1>1, <1>2, NextKeeps, PTL DEF Spec

-----------------------------------------------------------------------------
(* The size that is found is the one that the other modules rely on.       *)

\* The powers of two, one by one.
LEMMA PowersAre ==
  Powers = {1, 2, 4, 8, 16, 32, 64, 128, 256, 512, 1024, 2048, 4096, 8192, 16384, 32768,
            65536, 131072, 262144, 524288, 1048576, 2097152, 4194304, 8388608, 16777216,
            33554432, 67108864, 134217728, 268435456, 536870912, 1073741824}
  <1> DEFINE S == {2^0, 2^1, 2^2, 2^3, 2^4, 2^5, 2^6, 2^7, 2^8, 2^9, 2^10, 2^11, 2^12,
                   2^13, 2^14, 2^15, 2^16, 2^17, 2^18, 2^19, 2^20, 2^21, 2^22, 2^23,
                   2^24, 2^25, 2^26, 2^27, 2^28, 2^29, 2^30}
  <1>1. \A k \in 0 .. 30 :
          \/ k = 0 \/ k = 1 \/ k = 2 \/ k = 3 \/ k = 4 \/ k = 5 \/ k = 6 \/ k = 7
          \/ k = 8 \/ k = 9 \/ k = 10 \/ k = 11 \/ k = 12 \/ k = 13 \/ k = 14 \/ k = 15
          \/ k = 16 \/ k = 17 \/ k = 18 \/ k = 19 \/ k = 20 \/ k = 21 \/ k = 22 \/ k = 23
          \/ k = 24 \/ k = 25 \/ k = 26 \/ k = 27 \/ k = 28 \/ k = 29 \/ k = 30
    BY SMT
  <1>2. S \subseteq Powers
    BY SMT DEF Powers
  <1>3. Powers \subseteq S
    BY <1>1, Zenon DEF Powers
  <1>4. Powers = S
    BY <1>2, <1>3
  <1> QED BY <1>4, SMT

\* From one power of two to the next there is nothing.
LEMMA NextPower ==
  ASSUME NEW r \in Powers, NEW q \in Powers
  PROVE  /\ r \in Nat /\ r > 0
         /\ r < q => 2 * r <= q /\ 2 * r \in Powers
  BY PowersAre, SMTT(60)

\* Halving a power of two.
LEMMA HalfPower ==
  ASSUME NEW r \in Powers
  PROVE  r = 1 \/ (r \div 2 \in Powers /\ 2 * (r \div 2) = r)
  BY PowersAre, SMTT(60)

\* The least of some powers is the one that is not larger than any of them.
LEMMA MinIs ==
  ASSUME NEW S \in SUBSET Powers, NEW m \in S, \A r \in S : m <= r
  PROVE  Min(S) = m
  <1>1. S \subseteq Nat
    BY NextPower
  <1>2. \A x \in S : (\A y \in S : x <= y) <=> x = m
    <2> SUFFICES ASSUME NEW x \in S PROVE (\A y \in S : x <= y) <=> x = m
      OBVIOUS
    <2>1. x \in Nat /\ m \in Nat /\ m <= x
      BY <1>1
    <2> QED BY <2>1
  <1> QED BY <1>2 DEF Min

\* The larger of two numbers.
LEMMA MaxIs ==
  ASSUME NEW a \in Nat, NEW b \in Nat
  PROVE  Max({a, b}) = IF a >= b THEN a ELSE b
  <1> DEFINE m == IF a >= b THEN a ELSE b
  <1>1. \A x \in {a, b} : (\A y \in {a, b} : x >= y) <=> x = m
    OBVIOUS
  <1>2. m \in {a, b}
    OBVIOUS
  <1> HIDE DEF m
  <1>3. Max({a, b}) = m
    BY <1>1, <1>2 DEF Max
  <1> QED BY <1>3 DEF m

\* A request of less than a page is rounded to the power that it is below but
\* not half of, if that is not below the smallest.
LEMMA SmallSize ==
  ASSUME NEW g \in Nat, g < Page, NEW m \in Powers, g < m, m \div 2 <= g
  PROVE  NewSize(g) = IF 64 >= m THEN 64 ELSE m
  <1> DEFINE S == {r \in Powers : r > g}
  <1>1. m \in S /\ m \in Nat
    BY NextPower
  <1>2. \A r \in S : m <= r
    <2> SUFFICES ASSUME NEW r \in Powers, r > g PROVE m <= r
      OBVIOUS
    <2>1. r \in Nat /\ m \in Nat /\ (r < m => 2 * r <= m)
      BY NextPower
    <2> QED BY <2>1
  <1>3. Min(S) = m
    BY <1>1, <1>2, MinIs
  <1>4. NewSize(g) = Max({Least, Min(S)})
    BY DEF NewSize
  <1> HIDE DEF S
  <1> QED BY <1>1, <1>3, <1>4, MaxIs, RealSizes

\* A larger request is rounded to twice the power that is a page or too small
\* for it.
LEMMA LargeSize ==
  ASSUME NEW g \in Nat, g >= Page, NEW m \in Powers, m = 4096 \/ (m > 4096 /\ m < g),
         2 * m \in Powers, 2 * m >= g
  PROVE  NewSize(g) = 2 * m
  <1> DEFINE S == {r \in Powers : r > Page /\ r >= g}
  <1>1. 2 * m \in S /\ m \in Nat
    BY NextPower, RealSizes
  <1>2. \A r \in S : 2 * m <= r
    <2> SUFFICES ASSUME NEW r \in S PROVE 2 * m <= r
      OBVIOUS
    <2>1. r \in Powers /\ r \in Nat /\ r > 4096 /\ r >= g
      BY NextPower, RealSizes
    <2>2. m < r
      BY <1>1, <2>1
    <2> QED BY <2>1, <2>2, NextPower
  <1>3. Min(S) = 2 * m
    BY <1>1, <1>2, MinIs
  <1>4. NewSize(g) = Min(S)
    BY RealSizes DEF NewSize
  <1> QED BY <1>3, <1>4

\* As it is on the way there: while it halves, the request is below a page; while it
\* doubles, it is not.
Exact ==
  /\ grow \in Nat /\ n \in Powers
  /\ at = "halving" => grow < Page /\ n > grow
  /\ at = "doubling" => grow >= Page /\ (n = 4096 \/ (n > 4096 /\ n < grow))
  /\ at = "done" => n = NewSize(grow)

\* What grow finds for every request is NewSize.
SizeIsRight == at = "done" => n = NewSize(grow)

\* Every turn of the loops comes closer to it.
LEMMA NextExact ==
  ASSUME \A g \in Requests : g <= 1073741824, IInv, Exact, [Next]_vars
  PROVE  Exact'
  <1>1. grow \in Nat /\ n \in Powers /\ n \in Nat /\ n > 0 /\ grow \in Requests
    BY NextPower DEF Exact, IInv
  <1>2. CASE Halve
    <2> DEFINE half == n \div 2
    <2>1. at = "halving" /\ grow' = grow /\ n > grow /\ grow < Page
      BY <1>2 DEF Halve, Exact
    <2>2. half \in Nat /\ (n = 1 \/ (half \in Powers /\ 2 * half = n))
      BY <1>1, HalfPower
    <2>3. CASE half > grow
      <3>1. n' = half /\ at' = "halving"
        BY <1>2, <2>3 DEF Halve
      <3>2. half \in Powers
        BY <1>1, <2>2, <2>3
      <3> QED BY <2>1, <2>3, <3>1, <3>2 DEF Exact
    <2>4. CASE ~(half > grow)
      <3>1. n' = Settled(half) /\ at' = "done"
        BY <1>2, <2>4 DEF Halve
      <3>2. half <= grow /\ grow < n
        BY <1>1, <2>1, <2>2, <2>4
      <3>3. NewSize(grow) = IF 64 >= n THEN 64 ELSE n
        BY <1>1, <2>1, <3>2, SmallSize
      <3>4. Settled(half) = IF half < 64 THEN 64 ELSE half * 2
        BY RealSizes DEF Settled
      <3>5. 64 \in Powers
        BY PowersAre
      <3>6. Settled(half) = IF 64 >= n THEN 64 ELSE n
        <4>1. CASE n = 1
          BY <3>4, <4>1
        <4>2. CASE half \in Powers /\ 2 * half = n
          <5>1. half < 64 => 2 * half <= 64
            BY <3>5, <4>2, NextPower
          <5> HIDE DEF half
          <5> QED BY <1>1, <2>2, <3>4, <4>2, <5>1
        <4> QED BY <2>2, <4>1, <4>2
      <3> QED BY <1>1, <2>1, <3>1, <3>3, <3>5, <3>6 DEF Exact
    <2> QED BY <2>3, <2>4
  <1>3. CASE Double
    <2>1. /\ at = "doubling" /\ grow' = grow /\ n' = Doubled(n) /\ grow >= 4096
          /\ n = 4096 \/ (n > 4096 /\ n < grow)
      BY <1>3, RealSizes DEF Double, Exact
    <2>2. grow <= 1073741824 /\ 2 * grow <= Word /\ Word \in Nat /\ Word > 16384
      BY <1>1, RequestsFit, RealSizes
    <2>3. Doubled(n) = 2 * n
      BY <1>1, <2>1, <2>2 DEF Doubled
    <2>4. 2 * n \in Powers
      <3>1. 1073741824 \in Powers /\ n < 1073741824
        BY <1>1, <2>1, <2>2, PowersAre, SMT
      <3> DEFINE most == 1073741824
      <3>2. n \in Powers /\ most \in Powers /\ n < most
        BY <1>1, <3>1
      <3> HIDE DEF most
      <3> QED BY <3>2, NextPower
    <2>5. CASE Doubled(n) < grow
      <3>1. at' = "doubling"
        BY <1>3, <2>5 DEF Double
      <3> QED BY <1>1, <2>1, <2>3, <2>4, <2>5, <3>1, RealSizes DEF Exact
    <2>6. CASE ~(Doubled(n) < grow)
      <3>1. at' = "done"
        BY <1>3, <2>6 DEF Double
      <3>2. 2 * n >= grow
        BY <1>1, <2>3, <2>6
      <3>3. NewSize(grow) = 2 * n
        BY <1>1, <2>1, <2>4, <3>2, LargeSize, RealSizes
      <3> QED BY <1>1, <2>1, <2>3, <2>4, <3>1, <3>3 DEF Exact
    <2> QED BY <2>5, <2>6
  <1>4. CASE Finished
    BY <1>4 DEF Finished, vars, Exact
  <1>5. CASE UNCHANGED vars
    BY <1>5 DEF vars, Exact
  <1> QED BY <1>2, <1>3, <1>4, <1>5 DEF Next

\* However large the word, for every request up to a gigabyte the loops of grow
\* stop at no other size than NewSize, which is what Strings relies on.
THEOREM GrowFindsNewSize ==
  ASSUME \A g \in Requests : g <= 1073741824
  PROVE  Spec => []SizeIsRight
  <1>1. Init => IInv
    BY RealSizes, RequestsFit DEF Init, IInv, BigEnough, Halves
  <1>2. Init => Exact
    <2>1. 4096 \in Powers
      BY PowersAre
    <2> QED BY <2>1, RealSizes, RequestsFit DEF Init, Exact
  <1>3. IInv /\ Exact /\ [Next]_vars => Exact'
    BY NextExact
  <1>4. Exact => SizeIsRight
    BY DEF Exact, SizeIsRight
  <1> QED BY <1>1, <1>2, <1>3, <1>4, NextKeeps, PTL DEF Spec

-----------------------------------------------------------------------------
(* webvtt_string_replace_all.                                              *)

\* A set of numbers that is not empty has a least one.
LEMMA LeastNumber ==
  ASSUME NEW S \in SUBSET Nat, S # {} PROVE \E z \in S : \A m \in S : z <= m
  <1>1. PICK k \in S : TRUE
    OBVIOUS
  <1> DEFINE Spans == {X \in FiniteSubsetsOf(Nat) : \E z \in S : X = 0 .. z}
  <1>2. 0 .. k \in Spans
    BY FS_Interval DEF FiniteSubsetsOf
  <1>3. PICK X \in Spans : \A Y \in Spans : <<Y, X>> \notin StrictSubsetOrdering(Nat)
    <2> HIDE DEF Spans
    <2>1. Spans \subseteq FiniteSubsetsOf(Nat) /\ Spans # {}
      BY <1>2 DEF Spans
    <2> QED BY <2>1, FS_StrictSubsetOrderingWellFounded, WFMin
  <1>4. PICK z \in S : X = 0 .. z
    OBVIOUS
  <1>5. ASSUME NEW m \in S, m < z PROVE FALSE
    <2>1. 0 .. m \in Spans
      BY FS_Interval DEF FiniteSubsetsOf
    <2>2. <<0 .. m, X>> \in StrictSubsetOrdering(Nat)
      BY <1>4, <1>5 DEF StrictSubsetOrdering
    <2> QED BY <1>3, <2>1, <2>2
  <1> QED BY <1>5

\* The block for a request of less than a gigabyte holds it, also with sizes that are
\* scaled down.
LEMMA SizeHolds ==
  ASSUME NEW g \in Nat, g < 2^30
  PROVE  Replacing!NewSize(g) \in Nat /\ Replacing!NewSize(g) >= g
  <1>1. /\ 2^30 \in Powers /\ Powers \subseteq Nat
        /\ SmallPage \in Nat /\ SmallPage < 2^30 /\ SmallLeast \in Nat
    <2>1. 2^30 \in Powers
      BY DEF Powers
    <2> QED BY <2>1, NextPower, SmallSizes
  <1>2. /\ Replacing!Powers = Powers
        /\ \A a : Replacing!Min(a) = Min(a) /\ Replacing!Max(a) = Max(a)
    BY Zenon DEF Replacing!Powers, Powers, Replacing!Min, Min, Replacing!Max, Max
  <1>3. ASSUME NEW a \in SUBSET Powers, a # {} PROVE Min(a) \in a
    <2>1. a \in SUBSET Nat
      BY <1>1
    <2>2. \E x \in a : \A y \in a : x <= y
      BY <1>3, <2>1, LeastNumber
    <2> QED BY <2>2 DEF Min
  <1>4. CASE g < SmallPage
    <2> DEFINE a == {r \in Powers : r > g}
    <2>1. a \in SUBSET Powers /\ a # {}
      BY <1>1
    <2>2. Min(a) \in a
      BY <1>3, <2>1
    <2> DEFINE m == Min(a)
    <2>3. m \in Nat /\ m >= g
      <3>1. m \in Powers /\ m > g
        BY <2>2
      <3> HIDE DEF m
      <3> QED BY <1>1, <3>1
    <2>4. Replacing!NewSize(g) = Max({SmallLeast, m})
      BY <1>2, <1>4 DEF Replacing!NewSize
    <2> HIDE DEF m
    <2>5. Max({SmallLeast, m}) = IF SmallLeast >= m THEN SmallLeast ELSE m
      BY <1>1, <2>3, MaxIs
    <2> QED BY <1>1, <2>3, <2>4, <2>5
  <1>5. CASE ~(g < SmallPage)
    <2> DEFINE a == {r \in Powers : r > SmallPage /\ r >= g}
    <2>1. a \in SUBSET Powers /\ a # {}
      BY <1>1
    <2>2. Min(a) \in a
      BY <1>3, <2>1
    <2>3. Replacing!NewSize(g) = Min(a)
      BY <1>2, <1>5 DEF Replacing!NewSize
    <2> DEFINE m == Min(a)
    <2>4. m \in Powers /\ m >= g
      BY <2>2
    <2> HIDE DEF m
    <2>5. m \in Nat
      BY <1>1, <2>4
    <2> QED BY <2>3, <2>4, <2>5 DEF m
  <1> QED BY <1>4, <1>5

\* What FlattenSeq is defined by, for the first m of some sequences.
IsFlat(f, seqs, m) ==
  f = [i \in 1 .. m |-> IF i = 1 THEN seqs[i] ELSE f[i - 1] \o seqs[i]]

\* Each of its values.
LEMMA FlatAt ==
  ASSUME NEW f, NEW seqs, NEW m, IsFlat(f, seqs, m), NEW i \in 1 .. m
  PROVE  f[i] = IF i = 1 THEN seqs[i] ELSE f[i - 1] \o seqs[i]
  BY DEF IsFlat

\* There is such a function,
LEMMA FlatExists ==
  ASSUME NEW seqs, NEW m \in Nat PROVE \E f : IsFlat(f, seqs, m)
  <1> DEFINE Bad == {k \in Nat : ~\E f : IsFlat(f, seqs, k)}
  <1> SUFFICES ASSUME Bad # {} PROVE FALSE
    OBVIOUS
  <1>1. PICK k \in Bad : \A j \in Bad : k <= j
    BY LeastNumber
  <1>2. k \in Nat /\ ~\E f : IsFlat(f, seqs, k)
    BY <1>1
  <1>3. CASE k = 0
    <2> DEFINE f == [i \in 1 .. 0 |-> seqs[i]]
    <2>1. f = [i \in 1 .. 0 |-> IF i = 1 THEN seqs[i] ELSE f[i - 1] \o seqs[i]]
      OBVIOUS
    <2> HIDE DEF f
    <2> QED BY <1>2, <1>3, <2>1 DEF IsFlat
  <1>4. CASE k # 0
    <2>1. k - 1 \in Nat /\ k - 1 < k
      BY <1>2, <1>4
    <2>2. k - 1 \notin Bad
      BY <1>1, <1>2, <2>1
    <2>3. PICK g : IsFlat(g, seqs, k - 1)
      BY <2>1, <2>2
    <2> DEFINE f == [i \in 1 .. k |-> IF i = 1 THEN seqs[i] ELSE g[i - 1] \o seqs[i]]
    <2>4. ASSUME NEW i \in 1 .. k PROVE f[i] = IF i = 1 THEN seqs[i] ELSE f[i - 1] \o seqs[i]
      <3>1. CASE i = 1
        BY <3>1
      <3>2. CASE i # 1
        <4>1. i - 1 \in 1 .. k - 1 /\ i - 1 \in 1 .. k
          BY <1>2, <3>2
        <4>2. g[i - 1] = IF i - 1 = 1 THEN seqs[i - 1] ELSE g[i - 1 - 1] \o seqs[i - 1]
          BY <2>3, <4>1 DEF IsFlat
        <4>3. f[i - 1] = IF i - 1 = 1 THEN seqs[i - 1] ELSE g[i - 1 - 1] \o seqs[i - 1]
          BY <4>1
        <4> HIDE DEF f
        <4>4. g[i - 1] = f[i - 1]
          BY <4>2, <4>3
        <4>5. f[i] = g[i - 1] \o seqs[i]
          BY <3>2 DEF f
        <4> QED BY <3>2, <4>4, <4>5
      <3> QED BY <3>1, <3>2
    <2>5. f = [i \in 1 .. k |-> f[i]]
      OBVIOUS
    <2> HIDE DEF f
    <2>6. IsFlat(f, seqs, k)
      BY <2>4, <2>5 DEF IsFlat
    <2> QED BY <1>2, <2>6
  <1> QED BY <1>3, <1>4

\* and it gives sequences.
LEMMA FlatGives ==
  ASSUME NEW S, NEW seqs \in Seq(Seq(S)), NEW m \in 0 .. Len(seqs), NEW f, IsFlat(f, seqs, m)
  PROVE  \A i \in 1 .. m : f[i] \in Seq(S)
  <1> DEFINE Bad == {i \in 1 .. m : f[i] \notin Seq(S)}
  <1> SUFFICES ASSUME Bad # {} PROVE FALSE
    OBVIOUS
  <1>1. Bad \in SUBSET Nat
    OBVIOUS
  <1> HIDE DEF Bad
  <1>2. PICK i \in Bad : \A j \in Bad : i <= j
    BY <1>1, LeastNumber
  <1>3. i \in 1 .. m /\ f[i] \notin Seq(S)
    BY <1>2 DEF Bad
  <1>4. i \in 1 .. Len(seqs) /\ seqs[i] \in Seq(S)
    BY <1>3
  <1>5. f[i] = IF i = 1 THEN seqs[i] ELSE f[i - 1] \o seqs[i]
    BY <1>3 DEF IsFlat
  <1>6. i # 1
    BY <1>3, <1>4, <1>5
  <1>7. i - 1 \in 1 .. m /\ ~(i <= i - 1)
    BY <1>3, <1>6
  <1>8. f[i - 1] \in Seq(S)
    BY <1>2, <1>7 DEF Bad
  <1>9. f[i - 1] \o seqs[i] \in Seq(S)
    BY <1>4, <1>8, ConcatProperties
  <1> QED BY <1>3, <1>5, <1>6, <1>9

\* FlattenSeq is its last value.
LEMMA FlattenIs ==
  ASSUME NEW S, NEW seqs \in Seq(S), seqs # << >>
  PROVE  \E f : IsFlat(f, seqs, Len(seqs)) /\ Replacing!FlattenSeq(seqs) = f[Len(seqs)]
  <1> DEFINE K == Len(seqs)
             f == CHOOSE g : IsFlat(g, seqs, K)
  <1>1. K \in Nat \ {0}
    BY EmptySeq, LenProperties
  <1>2. IsFlat(f, seqs, K)
    BY <1>1, FlatExists
  <1>3. Replacing!FlattenSeq(seqs) = f[K]
    BY <1>1, Zenon DEF Replacing!FlattenSeq, IsFlat
  <1> QED BY <1>2, <1>3

\* With one more sequence there is that much more.
LEMMA FlattenMore ==
  ASSUME NEW S, NEW seqs \in Seq(Seq(S)), NEW x \in Seq(S)
  PROVE  /\ Replacing!FlattenSeq(seqs) \in Seq(S)
         /\ Replacing!FlattenSeq(Append(seqs, x)) = Replacing!FlattenSeq(seqs) \o x
  <1> DEFINE more == Append(seqs, x)
             m == Len(seqs)
  <1>1. /\ more \in Seq(Seq(S)) /\ more # << >> /\ Len(more) = m + 1 /\ m \in Nat
        /\ more[m + 1] = x /\ \A i \in 1 .. m : more[i] = seqs[i]
    BY AppendProperties, LenProperties
  <1>2. PICK g : IsFlat(g, more, m + 1) /\ Replacing!FlattenSeq(more) = g[m + 1]
    <2> HIDE DEF more
    <2> QED BY <1>1, FlattenIs
  <1> HIDE DEF more, m
  <1>3. m + 1 \in 1 .. m + 1 /\ (m # 0 => m + 1 # 1 /\ m \in 1 .. m /\ m + 1 - 1 = m)
    BY <1>1
  <1>4. g[m + 1] = IF m + 1 = 1 THEN more[m + 1] ELSE g[m + 1 - 1] \o more[m + 1]
    BY <1>2, <1>3, FlatAt
  <1>5. CASE seqs = << >>
    <2>1. m = 0 /\ Replacing!FlattenSeq(seqs) = << >> /\ << >> \in Seq(S) /\ << >> \o x = x
      BY <1>5 DEF Replacing!FlattenSeq, m
    <2>2. g[m + 1] = x
      BY <1>1, <1>4, <2>1
    <2> QED BY <1>2, <2>1, <2>2 DEF more
  <1>6. CASE seqs # << >>
    <2>1. m # 0
      BY <1>6, EmptySeq DEF m
    <2>2. PICK f : IsFlat(f, seqs, m) /\ Replacing!FlattenSeq(seqs) = f[m]
      BY <1>6, FlattenIs DEF m
    <2>3. m \in Nat /\ m \in 0 .. m
      BY <1>1
    <2>4. \A i \in 1 .. m : g[i] = f[i]
      <3> DEFINE Bad == {i \in 1 .. m : g[i] # f[i]}
      <3> SUFFICES ASSUME Bad # {} PROVE FALSE
        OBVIOUS
      <3>1. Bad \in SUBSET Nat
        OBVIOUS
      <3> HIDE DEF Bad
      <3>2. PICK i \in Bad : \A j \in Bad : i <= j
        BY <3>1, LeastNumber
      <3>3. i \in 1 .. m /\ i \in 1 .. m + 1 /\ g[i] # f[i] /\ more[i] = seqs[i]
        BY <1>1, <3>2 DEF Bad
      <3>4. f[i] = IF i = 1 THEN seqs[i] ELSE f[i - 1] \o seqs[i]
        BY <2>2, <3>3, FlatAt
      <3>5. g[i] = IF i = 1 THEN more[i] ELSE g[i - 1] \o more[i]
        BY <1>2, <3>3, FlatAt
      <3>6. i # 1
        BY <3>3, <3>4, <3>5
      <3>7. i - 1 \in 1 .. m /\ ~(i <= i - 1)
        BY <2>3, <3>3, <3>6
      <3>8. g[i - 1] = f[i - 1]
        BY <3>2, <3>7 DEF Bad
      <3> QED BY <3>3, <3>4, <3>5, <3>6, <3>8
    <2>5. f[m] \in Seq(S)
      BY <1>3, <2>1, <2>2, <2>3, FlatGives DEF m
    <2>6. g[m + 1] = f[m] \o x
      BY <1>1, <1>3, <1>4, <2>1, <2>4
    <2> QED BY <1>2, <2>2, <2>5, <2>6 DEF more
  <1> QED BY <1>5, <1>6

\* What stands for a byte of the original, for so many of them, and what follows those.
Stead(x) == IF <<x>> = call[1] THEN call[2] ELSE <<x>>
EachTo(k) == Replacing!Each(SubSeq(original, 1, k))
RestOf(k) == SubSeq(original, k + 1, Len(original))

\* One byte is searched for, and replaced by bytes of S.
OneByte(S) == /\ original \in Seq(S) /\ Len(call[1]) = 1 /\ call[1] \in Seq(S)
              /\ call[2] \in Seq(S) /\ \A j \in 1 .. Len(call[2]) : call[2][j] # call[1][1]

\* The text is the original, replaced as far as k.
ReplacedTo(S, k) ==
  /\ EachTo(k) \in Seq(S) /\ Len(EachTo(k)) <= k * (Len(call[2]) + 1)
  /\ \A j \in 1 .. Len(EachTo(k)) : EachTo(k)[j] # call[1][1]
  /\ Replacing!Text = EachTo(k) \o RestOf(k)

\* What stands for a byte.
LEMMA SteadIs ==
  ASSUME NEW S, OneByte(S), NEW x \in S
  PROVE  /\ Stead(x) \in Seq(S) /\ Len(Stead(x)) \in Nat /\ Len(Stead(x)) <= Len(call[2]) + 1
         /\ \A j \in 1 .. Len(Stead(x)) : Stead(x)[j] # call[1][1]
         /\ x = call[1][1] => Stead(x) = call[2]
         /\ x # call[1][1] => Stead(x) = <<x>>
  <1>1. Len(call[2]) \in Nat /\ <<x>> \in Seq(S) /\ Len(<<x>>) = 1 /\ <<x>>[1] = x
    BY LenProperties DEF OneByte
  <1>2. x = call[1][1] => <<x>> = call[1]
    <2>1. \A i \in 1 .. Len(<<x>>) : i = 1
      BY <1>1
    <2> QED BY <1>1, <2>1, SeqEqual DEF OneByte
  <1>3. CASE <<x>> = call[1]
    <2>1. Stead(x) = call[2] /\ x = call[1][1]
      BY <1>1, <1>3 DEF Stead
    <2> QED BY <1>1, <2>1 DEF OneByte
  <1>4. CASE <<x>> # call[1]
    <2>1. Stead(x) = <<x>> /\ x # call[1][1]
      BY <1>2, <1>4 DEF Stead
    <2>2. \A j \in 1 .. 1 : j = 1
      OBVIOUS
    <2> QED BY <1>1, <2>1, <2>2
  <1> QED BY <1>3, <1>4

\* With one more byte of the original there is one more of these, and the rest is shorter.
LEMMA OneMoreByte ==
  ASSUME NEW S, OneByte(S), NEW k \in 0 .. Len(original) - 1
  PROVE  /\ EachTo(k) \in Seq(S) /\ EachTo(k + 1) = EachTo(k) \o Stead(original[k + 1])
         /\ RestOf(k) = <<original[k + 1]>> \o RestOf(k + 1)
         /\ original[k + 1] \in S /\ RestOf(k + 1) \in Seq(S)
  <1> DEFINE x == original[k + 1]
             t == SubSeq(original, 1, k)
             u == SubSeq(original, 1, k + 1)
             f == [i \in DOMAIN t |-> Stead(t[i])]
             g == [i \in DOMAIN u |-> Stead(u[i])]
             N == Len(original)
  <1>1. /\ original \in Seq(S) /\ N \in Nat /\ k \in Nat /\ k + 1 \in 1 .. N /\ k + 1 \in Nat
        /\ k + 1 \in Int /\ k \in Int /\ 1 \in Int /\ N \in Int /\ k + 2 \in Int
    BY LenProperties DEF OneByte
  <1>2. x \in S
    BY <1>1, ElementOfSeq
  <1>3. \A i \in 1 .. N : original[i] \in S
    BY <1>1, ElementOfSeq
  <1>4. /\ t \in Seq(S) /\ Len(t) = k /\ \A i \in 1 .. k : t[i] = original[i]
    <2>1. \A i \in 1 .. k : original[i] \in S
      BY <1>1, <1>3
    <2>2. t \in Seq(S) /\ Len(t) = (IF 1 <= k THEN k - 1 + 1 ELSE 0)
          /\ \A i \in 1 .. k - 1 + 1 : t[i] = original[1 + i - 1]
      BY <1>1, <2>1, SubSeqProperties
    <2>3. /\ (IF 1 <= k THEN k - 1 + 1 ELSE 0) = k
          /\ \A i \in 1 .. k : i \in 1 .. k - 1 + 1 /\ 1 + i - 1 = i
      BY <1>1
    <2> HIDE DEF t
    <2> QED BY <2>2, <2>3
  <1>5. /\ u \in Seq(S) /\ Len(u) = k + 1 /\ \A i \in 1 .. k + 1 : u[i] = original[i]
    <2>1. \A i \in 1 .. k + 1 : original[i] \in S
      BY <1>1, <1>3
    <2>2. u \in Seq(S) /\ Len(u) = (IF 1 <= k + 1 THEN k + 1 - 1 + 1 ELSE 0)
          /\ \A i \in 1 .. k + 1 - 1 + 1 : u[i] = original[1 + i - 1]
      BY <1>1, <2>1, SubSeqProperties
    <2>3. /\ (IF 1 <= k + 1 THEN k + 1 - 1 + 1 ELSE 0) = k + 1
          /\ \A i \in 1 .. k + 1 : i \in 1 .. k + 1 - 1 + 1 /\ 1 + i - 1 = i
      BY <1>1
    <2> HIDE DEF u
    <2> QED BY <2>2, <2>3
  <1>6. EachTo(k) = Replacing!FlattenSeq(f) /\ EachTo(k + 1) = Replacing!FlattenSeq(g)
    BY DEF EachTo, Replacing!Each, Stead, Replacing!search, Replacing!replace
  <1>7. f \in Seq(Seq(S)) /\ Len(f) = k /\ \A i \in 1 .. k : f[i] = Stead(original[i])
    <2>1. DOMAIN t = 1 .. k
      BY <1>4, LenProperties
    <2>2. ASSUME NEW i \in 1 .. k PROVE f[i] = Stead(original[i]) /\ f[i] \in Seq(S)
      <3>1. original[i] \in S /\ t[i] = original[i]
        BY <1>1, <1>3, <1>4
      <3>2. f[i] = Stead(t[i])
        BY <2>1
      <3>3. Stead(original[i]) \in Seq(S)
        BY <3>1, SteadIs
      <3> HIDE DEF f, t
      <3> QED BY <3>1, <3>2, <3>3
    <2>3. f = [i \in 1 .. k |-> f[i]]
      BY <2>1
    <2> HIDE DEF f
    <2>4. f \in [1 .. k -> Seq(S)]
      BY <2>2, <2>3
    <2>5. f \in Seq(Seq(S)) /\ Len(f) = k
      BY <1>1, <2>4
    <2> QED BY <2>2, <2>5
  <1>8. g \in Seq(Seq(S)) /\ Len(g) = k + 1 /\ \A i \in 1 .. k + 1 : g[i] = Stead(original[i])
    <2>1. DOMAIN u = 1 .. k + 1
      BY <1>5, LenProperties
    <2>2. ASSUME NEW i \in 1 .. k + 1 PROVE g[i] = Stead(original[i]) /\ g[i] \in Seq(S)
      <3>1. original[i] \in S /\ u[i] = original[i]
        BY <1>1, <1>3, <1>5
      <3>2. g[i] = Stead(u[i])
        BY <2>1
      <3>3. Stead(original[i]) \in Seq(S)
        BY <3>1, SteadIs
      <3> HIDE DEF g, u
      <3> QED BY <3>1, <3>2, <3>3
    <2>3. g = [i \in 1 .. k + 1 |-> g[i]]
      BY <2>1
    <2> HIDE DEF g
    <2>4. g \in [1 .. k + 1 -> Seq(S)]
      BY <2>2, <2>3
    <2>5. g \in Seq(Seq(S)) /\ Len(g) = k + 1
      BY <1>1, <2>4
    <2> QED BY <2>2, <2>5
  <1> HIDE DEF f, g
  <1>9. g = Append(f, Stead(x))
    <2> DEFINE h == Append(f, Stead(x))
    <2>1. Stead(x) \in Seq(S)
      BY <1>2, SteadIs
    <2>2. h \in Seq(Seq(S)) /\ Len(h) = k + 1 /\ h[k + 1] = Stead(x)
          /\ \A i \in 1 .. k : h[i] = f[i]
      BY <1>7, <2>1, AppendProperties
    <2> HIDE DEF h
    <2>3. \A i \in 1 .. k + 1 : i = k + 1 \/ i \in 1 .. k
      BY <1>1
    <2>4. \A i \in 1 .. k + 1 : g[i] = h[i]
      BY <1>7, <1>8, <2>2, <2>3
    <2>5. g = h
      BY <1>8, <2>2, <2>4, SeqEqual
    <2> QED BY <2>5 DEF h
  <1>10. EachTo(k) \in Seq(S) /\ EachTo(k + 1) = EachTo(k) \o Stead(x)
    <2>1. Stead(x) \in Seq(S)
      BY <1>2, SteadIs
    <2> QED BY <1>6, <1>7, <1>9, <2>1, FlattenMore
  <1>11. RestOf(k) = <<x>> \o RestOf(k + 1)
    <2>1. N \in k + 1 .. N /\ k + 1 + 1 = k + 2
      BY <1>1
    <2> QED BY <1>1, <2>1, SubSeqRecursiveFirst DEF RestOf
  <1>12. RestOf(k + 1) \in Seq(S)
    <2>1. \A i \in k + 1 + 1 .. N : original[i] \in S
      BY <1>1, <1>3
    <2>2. k + 1 + 1 \in Int
      BY <1>1
    <2> QED BY <1>1, <2>1, <2>2, SubSeqProperties DEF RestOf
  <1> QED BY <1>2, <1>10, <1>11, <1>12

\* The block has room for the text, and for what alloc does not count.
BlockHolds(S) == block \in Seq(S \cup {Junk}) /\ length \in Nat /\ length + Spare <= Len(block)

\* The first so many values of a sequence.
LEMMA FirstOnes ==
  ASSUME NEW T, NEW b \in Seq(T), NEW l \in Nat, l <= Len(b)
  PROVE  /\ SubSeq(b, 1, l) \in Seq(T) /\ Len(SubSeq(b, 1, l)) = l
         /\ \A i \in 1 .. l : SubSeq(b, 1, l)[i] = b[i]
  <1> DEFINE t == SubSeq(b, 1, l)
  <1>1. \A i \in 1 .. l : b[i] \in T
    BY LenProperties, ElementOfSeq
  <1>2. t \in Seq(T) /\ Len(t) = (IF 1 <= l THEN l - 1 + 1 ELSE 0)
        /\ \A i \in 1 .. l - 1 + 1 : t[i] = b[1 + i - 1]
    <2>1. 1 \in Int /\ l \in Int
      OBVIOUS
    <2> QED BY <1>1, <2>1, SubSeqProperties
  <1>3. /\ (IF 1 <= l THEN l - 1 + 1 ELSE 0) = l
        /\ \A i \in 1 .. l : i \in 1 .. l - 1 + 1 /\ 1 + i - 1 = i
    OBVIOUS
  <1> HIDE DEF t
  <1>4. t \in Seq(T) /\ Len(t) = l /\ \A i \in 1 .. l : t[i] = b[i]
    BY <1>2, <1>3
  <1> QED BY <1>4 DEF t

\* The text is what the block begins with.
LEMMA BlockText ==
  ASSUME NEW S, BlockHolds(S), Spare \in Nat
  PROVE  /\ Replacing!Text \in Seq(S \cup {Junk}) /\ Len(Replacing!Text) = length
         /\ \A i \in 1 .. length : Replacing!Text[i] = block[i]
  <1>1. /\ length \in Nat /\ length <= Len(block) /\ block \in Seq(S \cup {Junk})
    BY LenProperties DEF BlockHolds
  <1> QED BY <1>1, FirstOnes DEF Replacing!Text

\* It is found where its byte is.
LEMMA FoundIs ==
  ASSUME NEW S, BlockHolds(S), OneByte(S), Spare \in Nat
  PROVE  \A i : i \in Replacing!Found <=> i \in 1 .. length /\ block[i] = call[1][1]
  <1>1. /\ length \in Nat /\ length <= Len(block) /\ block \in Seq(S \cup {Junk})
        /\ Len(block) \in Nat
    BY LenProperties DEF BlockHolds
  <1>2. call[1] \in Seq(S \cup {Junk}) /\ Len(call[1]) = 1
    BY DEF OneByte
  <1>3. ASSUME NEW i \in 1 .. length
        PROVE  SubSeq(block, i, i) = call[1] <=> block[i] = call[1][1]
    <2> DEFINE t == SubSeq(block, i, i)
    <2>1. i \in Int /\ block[i] \in S \cup {Junk} /\ i <= i /\ i - i + 1 = 1 /\ i + 1 - 1 = i
          /\ 1 \in 1 .. 1
      BY <1>1, ElementOfSeq
    <2>2. \A j \in i .. i : block[j] \in S \cup {Junk}
      BY <2>1
    <2>3. /\ t \in Seq(S \cup {Junk}) /\ Len(t) = (IF i <= i THEN i - i + 1 ELSE 0)
          /\ \A j \in 1 .. i - i + 1 : t[j] = block[i + j - 1]
      BY <2>1, <2>2, SubSeqProperties
    <2> HIDE DEF t
    <2>4. Len(t) = 1 /\ t[1] = block[i]
      BY <2>1, <2>3
    <2>5. block[i] = call[1][1] => t = call[1]
      <3>1. \A j \in 1 .. 1 : j = 1
        OBVIOUS
      <3> QED BY <1>2, <2>3, <2>4, <3>1, SeqEqual
    <2>6. t = call[1] => block[i] = call[1][1]
      BY <2>4
    <2> QED BY <2>5, <2>6 DEF t
  <1>4. Replacing!Found = {i \in 1 .. length - 1 + 1 : SubSeq(block, i, i + 1 - 1) = call[1]}
    BY <1>2 DEF Replacing!Found, Replacing!search
  <1>5. \A i \in 1 .. length : i + 1 - 1 = i
    BY <1>1
  <1>6. length - 1 + 1 = length
    BY <1>1
  <1> QED BY <1>3, <1>4, <1>5, <1>6

\* One byte more, and all that is before it is still free of what is searched for.
LEMMA EachGrows ==
  ASSUME NEW S, OneByte(S), NEW k \in 0 .. Len(original) - 1,
         Len(EachTo(k)) <= k * (Len(call[2]) + 1),
         \A j \in 1 .. Len(EachTo(k)) : EachTo(k)[j] # call[1][1]
  PROVE  /\ EachTo(k + 1) \in Seq(S) /\ Len(EachTo(k + 1)) <= (k + 1) * (Len(call[2]) + 1)
         /\ \A j \in 1 .. Len(EachTo(k + 1)) : EachTo(k + 1)[j] # call[1][1]
  <1> DEFINE x == original[k + 1]
             e == EachTo(k)
             s == Stead(x)
             L == Len(e)
             M == Len(s)
             R == Len(call[2]) + 1
  <1>1. /\ e \in Seq(S) /\ EachTo(k + 1) = e \o s /\ x \in S
    BY OneMoreByte
  <1>2. s \in Seq(S) /\ M \in Nat /\ M <= R /\ \A j \in 1 .. M : s[j] # call[1][1]
    BY <1>1, SteadIs
  <1>3. L \in Nat /\ R \in Nat /\ k \in Nat
    BY <1>1, LenProperties DEF OneByte
  <1>4. e \o s \in Seq(S) /\ Len(e \o s) = L + M
        /\ \A i \in 1 .. L + M : (e \o s)[i] = IF i <= L THEN e[i] ELSE s[i - L]
    BY <1>1, <1>2, ConcatProperties
  <1>5. L <= k * R /\ \A j \in 1 .. L : e[j] # call[1][1]
    OBVIOUS
  <1> HIDE DEF e, s, L, M, R
  <1>6. L + M <= (k + 1) * R
    <2>1. (k + 1) * R = k * R + R /\ k * R \in Nat
      BY <1>3
    <2> QED BY <1>2, <1>3, <1>5, <2>1
  <1>7. ASSUME NEW j \in 1 .. L + M PROVE (e \o s)[j] # call[1][1]
    <2>1. CASE j <= L
      BY <1>3, <1>4, <1>5, <2>1
    <2>2. CASE ~(j <= L)
      <3>1. j - L \in 1 .. M
        BY <1>2, <1>3, <2>2
      <3> QED BY <1>2, <1>4, <2>2, <3>1
    <2> QED BY <2>1, <2>2
  <1> QED BY <1>1, <1>4, <1>6, <1>7 DEF R

\* A byte that is not searched for may as well be counted as replaced,
LEMMA OneFurther ==
  ASSUME NEW S, OneByte(S), NEW k \in 0 .. Len(original) - 1, ReplacedTo(S, k),
         original[k + 1] # call[1][1]
  PROVE  ReplacedTo(S, k + 1)
  <1> DEFINE x == original[k + 1]
  <1>1. /\ EachTo(k) \in Seq(S) /\ EachTo(k + 1) = EachTo(k) \o Stead(x)
        /\ RestOf(k) = <<x>> \o RestOf(k + 1) /\ x \in S /\ RestOf(k + 1) \in Seq(S)
    BY OneMoreByte
  <1>2. Stead(x) = <<x>> /\ <<x>> \in Seq(S)
    BY <1>1, SteadIs
  <1>3. Replacing!Text = EachTo(k + 1) \o RestOf(k + 1)
    <2>1. (EachTo(k) \o <<x>>) \o RestOf(k + 1) = EachTo(k) \o (<<x>> \o RestOf(k + 1))
      BY <1>1, <1>2, ConcatAssociative
    <2> QED BY <1>1, <1>2, <2>1 DEF ReplacedTo
  <1> QED BY <1>3, EachGrows DEF ReplacedTo

\* so that the next one is the one to be replaced, or there is none.
LEMMA Furthest ==
  ASSUME NEW S, OneByte(S), \E k \in 0 .. Len(original) : ReplacedTo(S, k)
  PROVE  \E k \in 0 .. Len(original) :
           ReplacedTo(S, k) /\ (k < Len(original) => original[k + 1] = call[1][1])
  <1> DEFINE N == Len(original)
             Left == {m \in 0 .. N : ReplacedTo(S, N - m)}
  <1>1. N \in Nat
    BY LenProperties DEF OneByte
  <1>2. Left \in SUBSET Nat /\ Left # {}
    <2>1. PICK k \in 0 .. N : ReplacedTo(S, k)
      OBVIOUS
    <2>2. N - k \in 0 .. N /\ N - (N - k) = k
      BY <1>1
    <2>3. N - k \in Left
      BY <2>1, <2>2
    <2>4. Left \in SUBSET Nat
      OBVIOUS
    <2> HIDE DEF Left
    <2> QED BY <2>3, <2>4
  <1> HIDE DEF Left
  <1>3. PICK m \in Left : \A j \in Left : m <= j
    BY <1>2, LeastNumber
  <1>4. m \in 0 .. N /\ ReplacedTo(S, N - m)
    BY <1>3 DEF Left
  <1>5. ASSUME N - m < N, original[N - m + 1] # call[1][1] PROVE FALSE
    <2>1. /\ N - m \in 0 .. N - 1 /\ m - 1 \in 0 .. N /\ N - (m - 1) = N - m + 1
          /\ ~(m <= m - 1)
      BY <1>1, <1>4, <1>5
    <2>2. ReplacedTo(S, N - m + 1)
      BY <1>4, <1>5, <2>1, OneFurther
    <2>3. m - 1 \in Left
      BY <2>1, <2>2 DEF Left
    <2> QED BY <1>3, <2>1, <2>3
  <1>6. N - m \in 0 .. N
    BY <1>1, <1>4
  <1> QED BY <1>4, <1>5, <1>6

\* Then it is the first that is found, right behind what is replaced already.
LEMMA FoundBehind ==
  ASSUME NEW S, BlockHolds(S), OneByte(S), Spare \in Nat, Replacing!Found # {},
         NEW k \in 0 .. Len(original), ReplacedTo(S, k),
         k < Len(original) => original[k + 1] = call[1][1]
  PROVE  /\ k < Len(original) /\ Replacing!Min(Replacing!Found) = Len(EachTo(k)) + 1
         /\ length = Len(EachTo(k)) + 1 + Len(RestOf(k + 1))
  <1> DEFINE e == EachTo(k)
             L == Len(e)
             c == call[1][1]
             F == Replacing!Found
             N == Len(original)
             t == Replacing!Text
  <1>1. /\ e \in Seq(S) /\ L \in Nat /\ \A j \in 1 .. L : e[j] # c
        /\ t = e \o RestOf(k)
    BY LenProperties DEF ReplacedTo
  <1>2. Len(t) = length /\ \A i \in 1 .. length : t[i] = block[i]
    BY BlockText
  <1>3. \A i : i \in F <=> i \in 1 .. length /\ t[i] = c
    BY <1>2, FoundIs
  <1>4. N \in Nat /\ original \in Seq(S) /\ length \in Nat
    BY LenProperties DEF OneByte, BlockHolds
  <1> HIDE DEF e, F, c, t
  <1>5. k < N
    <2> SUFFICES ASSUME k = N PROVE FALSE
      BY <1>4 DEF N
    <2>1. RestOf(k) = << >>
      <3>1. N < k + 1 /\ k + 1 \in Int /\ N \in Int
        BY <1>4
      <3> QED BY <3>1, SubSeqEmpty DEF RestOf
    <2>2. t = e
      BY <1>1, <2>1, ConcatEmptySeq
    <2>3. \A i : i \notin F
      BY <1>1, <1>2, <1>3, <2>2
    <2> QED BY <2>3 DEF F
  <1> DEFINE r == RestOf(k + 1)
  <1>6. RestOf(k) = <<c>> \o r /\ r \in Seq(S) /\ c \in S
    <2>1. k \in 0 .. N - 1
      BY <1>4, <1>5
    <2> QED BY <1>5, <2>1, OneMoreByte DEF c, N
  <1> HIDE DEF r, L
  <1>7. Len(r) \in Nat /\ Len(<<c>> \o r) = 1 + Len(r) /\ (<<c>> \o r)[1] = c
        /\ <<c>> \o r \in Seq(S)
    <2>1. <<c>> \in Seq(S) /\ Len(<<c>>) = 1 /\ <<c>>[1] = c
      BY <1>6
    <2>2. Len(r) \in Nat /\ 1 \in 1 .. 1 + Len(r) /\ 1 <= 1
      BY <1>6, LenProperties
    <2> QED BY <1>6, <2>1, <2>2, ConcatProperties
  <1>8. /\ Len(t) = L + (1 + Len(r))
        /\ \A i \in 1 .. L + (1 + Len(r)) :
             t[i] = IF i <= L THEN e[i] ELSE (<<c>> \o r)[i - L]
    <2> DEFINE w == <<c>> \o r
    <2>1. w \in Seq(S) /\ Len(w) = 1 + Len(r) /\ t = e \o w
      BY <1>1, <1>6, <1>7
    <2> HIDE DEF w
    <2>2. Len(e \o w) = Len(e) + Len(w) /\ \A i \in 1 .. Len(e) + Len(w) :
             (e \o w)[i] = IF i <= Len(e) THEN e[i] ELSE w[i - Len(e)]
      BY <1>1, <2>1, ConcatProperties
    <2> QED BY <2>1, <2>2 DEF w, L
  <1>9. L + 1 \in F
    <2>1. L + 1 \in 1 .. L + (1 + Len(r)) /\ ~(L + 1 <= L) /\ L + 1 - L = 1
      BY <1>1, <1>7
    <2>2. t[L + 1] = c
      <3>1. t[L + 1] = (<<c>> \o r)[1]
        <4> DEFINE z == L + 1
                   w == <<c>> \o r
                   M == L + (1 + Len(r))
        <4>1. z \in 1 .. M /\ ~(z <= L)
          BY <2>1
        <4>2. \A i \in 1 .. M : t[i] = IF i <= L THEN e[i] ELSE w[i - L]
          BY <1>8
        <4>3. z - L = 1
          BY <1>1
        <4> HIDE DEF z, w, M
        <4>4. t[z] = w[1]
          BY ONLY <4>1, <4>2, <4>3
        <4> QED BY <4>4, Zenon DEF z, w
      <3> QED BY <1>7, <2>1, <3>1
    <2> QED BY <1>2, <1>3, <1>8, <2>1, <2>2
  <1>10. ASSUME NEW i \in F PROVE L + 1 <= i
    <2>1. i \in 1 .. length /\ t[i] = c
      BY <1>3
    <2>2. CASE i <= L
      <3>1. i \in 1 .. L /\ i \in 1 .. L + (1 + Len(r))
        BY <1>1, <1>4, <1>7, <2>1, <2>2
      <3>2. t[i] = e[i]
        BY <1>8, <2>2, <3>1
      <3> QED BY <1>1, <2>1, <3>1, <3>2
    <2>3. CASE ~(i <= L)
      BY <1>1, <1>4, <2>1, <2>3
    <2> QED BY <2>2, <2>3
  <1>11. Replacing!Min(F) = L + 1
    <2> DEFINE m == Replacing!Min(F)
    <2>1. m \in F /\ \A i \in F : m <= i
      BY <1>9, <1>10 DEF Replacing!Min
    <2>2. m \in Nat /\ L + 1 <= m /\ m <= L + 1
      BY <1>3, <1>4, <1>9, <1>10, <2>1
    <2> HIDE DEF m
    <2>3. m = L + 1
      BY <1>1, <2>2
    <2> QED BY <2>3 DEF m
  <1>12. length = L + 1 + Len(r)
    BY <1>1, <1>2, <1>7, <1>8
  <1> QED BY <1>5, <1>11, <1>12 DEF F, L, N, e, r

\* A block that replaces another begins with the same text, and there is room for
\* what is put in.
LEMMA GrownHolds ==
  ASSUME NEW S, BlockHolds(S), OneByte(S), Spare \in Nat,
         Header + (length + Len(call[2])) < 2^30
  PROVE  /\ Replacing!Grown \in Seq(S \cup {Junk})
         /\ length + Len(call[2]) + Spare <= Len(Replacing!Grown)
         /\ \A i \in 1 .. length : Replacing!Grown[i] = block[i]
  <1> DEFINE R == Len(call[2])
  <1>1. /\ R \in Nat /\ length \in Nat /\ Header \in Nat /\ Len(block) \in Nat
        /\ block \in Seq(S \cup {Junk})
    BY BlocksAssumption, LenProperties DEF OneByte, BlockHolds
  <1>2. CASE length + R <= Replacing!alloc
    <2>1. Replacing!Grown = block /\ length + R <= Len(block) - Spare
      BY <1>2 DEF Replacing!Grown, Replacing!alloc, Replacing!replace
    <2> HIDE DEF R
    <2>2. length + R + Spare <= Len(block)
      BY <1>1, <2>1
    <2> QED BY <1>1, <2>1, <2>2 DEF R
  <1>3. CASE ~(length + R <= Replacing!alloc)
    <2> DEFINE room == Replacing!Capacity(length + R)
               t == Replacing!Text
               b == Replacing!Block(room, t)
    <2>1. Replacing!Grown = b
      BY <1>3 DEF Replacing!Grown, Replacing!replace
    <2>2. room \in Nat /\ length + R <= room
      <3> DEFINE g == Header + (length + R)
      <3>1. g \in Nat /\ g < 2^30
        <4> HIDE DEF R
        <4>1. g \in Nat
          BY <1>1
        <4> QED BY <4>1 DEF R
      <3>2. Replacing!NewSize(g) \in Nat /\ Replacing!NewSize(g) >= g
        BY <3>1, SizeHolds
      <3>4. room = Replacing!NewSize(g) - Header
        BY DEF Replacing!Capacity
      <3> HIDE DEF room, R
      <3> QED BY <1>1, <3>2, <3>4
    <2>3. t \in Seq(S \cup {Junk}) /\ Len(t) = length /\ \A i \in 1 .. length : t[i] = block[i]
      BY BlockText
    <2> HIDE DEF room, t, R
    <2>4. b = [i \in 1 .. room + Spare |-> IF i <= Len(t) THEN t[i] ELSE Junk]
      BY DEF Replacing!Block
    <2> HIDE DEF b
    <2>5. b \in [1 .. room + Spare -> S \cup {Junk}]
      <3>1. ASSUME NEW i \in 1 .. room + Spare, i <= Len(t) PROVE t[i] \in S \cup {Junk}
        <4>1. i \in 1 .. Len(t)
          BY <1>1, <2>2, <2>3, <3>1
        <4> QED BY <2>3, <4>1, ElementOfSeq
      <3> QED BY <2>4, <3>1
    <2>6. b \in Seq(S \cup {Junk}) /\ Len(b) = room + Spare
      <3>1. room + Spare \in Nat
        BY <2>2
      <3> QED BY <2>5, <3>1
    <2>7. ASSUME NEW i \in 1 .. length PROVE b[i] = block[i]
      <3>1. i \in 1 .. room + Spare /\ i <= Len(t)
        BY <1>1, <2>2, <2>3
      <3> QED BY <2>3, <2>4, <3>1
    <2>8. length + R + Spare <= room + Spare
      BY <1>1, <2>2
    <2> QED BY <2>1, <2>6, <2>7, <2>8 DEF R
  <1> QED BY <1>2, <1>3

\* What the moves of memory make of a block g whose text has l bytes, and s for that at i:
MovedBlock(g, s, l, i) ==
  LET z == IF 1 = Len(s) THEN 0 ELSE l - i
  IN  [Replacing!MemCpy(Replacing!MemMove(g, i + Len(s), i + 1, z), i, s)
         EXCEPT ![l - 1 + Len(s) + 1] = Junk]
MovesAs(b, g, s, l, i) ==
  \A j \in 1 .. l - 1 + Len(s) :
    b[j] = IF j < i THEN g[j]
           ELSE IF j < i + Len(s) THEN s[j - i + 1] ELSE g[j - Len(s) + 1]

\* s is written there, and what follows the byte that was there is behind it.
LEMMA MovesGive ==
  ASSUME NEW T, NEW g \in Seq(T), Junk \in T, NEW s \in Seq(T), NEW l \in Nat,
         NEW i \in 1 .. l, l + Len(s) <= Len(g)
  PROVE  /\ MovedBlock(g, s, l, i) \in Seq(T) /\ Len(MovedBlock(g, s, l, i)) = Len(g)
         /\ MovesAs(MovedBlock(g, s, l, i), g, s, l, i)
  <1> DEFINE R == Len(s)
             K == Len(g)
             z == IF 1 = R THEN 0 ELSE l - i
             m == Replacing!MemMove(g, i + R, i + 1, z)
             c == Replacing!MemCpy(m, i, s)
             b == MovedBlock(g, s, l, i)
  <1>1. R \in Nat /\ K \in Nat /\ DOMAIN g = 1 .. K /\ \A j \in 1 .. K : g[j] \in T
    BY LenProperties, ElementOfSeq
  <1>2. \A j \in 1 .. R : s[j] \in T
    BY ElementOfSeq
  <1>3. z \in Nat /\ (R # 1 => z = l - i) /\ (R = 1 => z = 0) /\ l + R <= K
    OBVIOUS
  <1>4. b = [c EXCEPT ![l - 1 + R + 1] = Junk]
    BY DEF MovedBlock
  <1> HIDE DEF b
  <1> HIDE DEF z, K
  <1>5. m = [j \in 1 .. K |-> IF j \in i + R .. i + R + z - 1 THEN g[j - (i + R) + (i + 1)]
                                                            ELSE g[j]]
    BY <1>1 DEF Replacing!MemMove
  <1> HIDE DEF m
  <1>6. DOMAIN m = 1 .. K
    BY <1>5
  <1>7. c = [j \in 1 .. K |-> IF j \in i .. i + R - 1 THEN s[j - i + 1] ELSE m[j]]
    BY <1>6 DEF Replacing!MemCpy
  <1> HIDE DEF c
  <1>8. b = [j \in 1 .. K |-> IF j = l - 1 + R + 1 THEN Junk ELSE c[j]]
    BY <1>4, <1>7
  <1> HIDE DEF R
  <1>9. ASSUME NEW j \in 1 .. K PROVE m[j] \in T
    <2>1. CASE j \in i + R .. i + R + z - 1
      <3>1. j - (i + R) + (i + 1) \in 1 .. K
        BY <1>1, <1>3, <2>1
      <3> QED BY <1>1, <1>5, <2>1, <3>1
    <2>2. CASE j \notin i + R .. i + R + z - 1
      BY <1>1, <1>5, <2>2
    <2> QED BY <2>1, <2>2
  <1>10. ASSUME NEW j \in 1 .. K PROVE c[j] \in T
    <2>1. CASE j \in i .. i + R - 1
      <3>1. j - i + 1 \in 1 .. R
        BY <1>1, <2>1
      <3> QED BY <1>2, <1>7, <2>1, <3>1 DEF R
    <2>2. CASE j \notin i .. i + R - 1
      BY <1>7, <1>9, <2>2
    <2> QED BY <2>1, <2>2
  <1>11. b \in Seq(T) /\ Len(b) = K
    <2>1. b \in [1 .. K -> T]
      BY <1>8, <1>10
    <2>2. K \in Nat
      BY <1>1
    <2> QED BY ONLY <2>1, <2>2
  <1>12. ASSUME NEW j \in 1 .. l - 1 + R
         PROVE  b[j] = IF j < i THEN g[j] ELSE IF j < i + R THEN s[j - i + 1] ELSE g[j - R + 1]
    <2>1. j \in 1 .. K /\ j # l - 1 + R + 1
      BY <1>1, <1>3
    <2>2. b[j] = c[j]
      BY <1>8, <2>1
    <2>3. CASE j < i
      <3>1. j \notin i .. i + R - 1 /\ j \notin i + R .. i + R + z - 1
        BY <1>1, <1>3, <2>3
      <3> QED BY <1>5, <1>7, <2>1, <2>2, <2>3, <3>1
    <2>4. CASE ~(j < i) /\ j < i + R
      <3>1. j \in i .. i + R - 1
        BY <1>1, <2>4
      <3> QED BY <1>7, <2>1, <2>2, <2>4, <3>1
    <2>5. CASE ~(j < i) /\ ~(j < i + R)
      <3>1. j \notin i .. i + R - 1
        BY <1>1, <2>5
      <3>2. c[j] = m[j]
        BY <1>7, <2>1, <3>1
      <3>3. CASE R = 1
        <4>1. j \notin i + R .. i + R + z - 1 /\ j - R + 1 = j
          BY <1>1, <1>3, <3>3
        <4> QED BY <1>5, <2>1, <2>2, <2>5, <3>2, <4>1
      <3>4. CASE R # 1
        <4>1. j \in i + R .. i + R + z - 1 /\ j - (i + R) + (i + 1) = j - R + 1
          BY <1>1, <1>3, <2>5, <3>4
        <4>2. m[j] = g[j - (i + R) + (i + 1)]
          BY <1>5, <2>1, <4>1
        <4> QED BY <2>2, <2>5, <3>2, <4>1, <4>2
      <3> QED BY <3>3, <3>4
    <2> QED BY <2>3, <2>4, <2>5
  <1> QED BY <1>11, <1>12 DEF K, R, b, MovesAs

\* Texts stay so short that grow finds a block for them.
OneByteFits == Header + MaxLength * (Len(call[2]) + 1) + Len(call[2]) < 2^30

\* Then what is asked of grow is below what its loops can find.
LEMMA LengthBounded ==
  ASSUME NEW S, OneByte(S), NEW k \in 0 .. Len(original), k < Len(original), MaxLength \in Nat,
         Len(original) <= MaxLength, Len(EachTo(k)) <= k * (Len(call[2]) + 1),
         EachTo(k) \in Seq(S), length = Len(EachTo(k)) + 1 + Len(RestOf(k + 1)), OneByteFits
  PROVE  Header + (length + Len(call[2])) < 2^30
  <1> DEFINE N == Len(original)
             L == Len(EachTo(k))
             R == Len(call[2])
             Q == R + 1
             M == N - k
  <1>1. N \in Nat /\ L \in Nat /\ R \in Nat /\ Header \in Nat /\ k \in Nat /\ M \in Nat
    BY LenProperties, BlocksAssumption DEF OneByte
  <1>2. Len(RestOf(k + 1)) = M - 1
    <2> DEFINE r == SubSeq(original, k + 1 + 1, N)
    <2>1. \A i \in k + 1 + 1 .. N : original[i] \in S
      BY <1>1, ElementOfSeq DEF OneByte
    <2>2. Len(r) = IF k + 1 + 1 <= N THEN N - (k + 1 + 1) + 1 ELSE 0
      <3>1. k + 1 + 1 \in Int /\ N \in Int
        BY <1>1
      <3> HIDE DEF N
      <3> QED BY <2>1, <3>1, SubSeqProperties
    <2>3. r = RestOf(k + 1)
      BY DEF RestOf
    <2> HIDE DEF r
    <2>4. Len(r) = M - 1
      BY <1>1, <2>2
    <2> QED BY <2>3, <2>4
  <1>3. L <= k * Q /\ N <= MaxLength /\ Header + MaxLength * Q + R < 2^30
        /\ length = L + 1 + (M - 1)
    BY <1>2 DEF OneByteFits
  <1>4. N = k + M /\ Q \in Nat /\ Q = R + 1
    BY <1>1
  <1> HIDE DEF N, L, R, Q, M
  <1>5. k * Q + M * Q <= MaxLength * Q /\ M * Q = M * R + M /\ M * R \in Nat
        /\ k * Q \in Nat /\ M * Q \in Nat /\ MaxLength * Q \in Nat
    <2> DEFINE B == MaxLength - (k + M)
    <2>1. B \in Nat /\ MaxLength = k + M + B
      BY <1>1, <1>3, <1>4
    <2> HIDE DEF B
    <2>2. B * Q \in Nat /\ k * Q \in Nat /\ M * Q \in Nat /\ M * R \in Nat
      BY <1>1, <1>4, <2>1
    <2>3. (k + M + B) * Q = k * Q + M * Q + B * Q
      BY <1>1, <1>4, <2>1
    <2>4. M * (R + 1) = M * R + M
      BY <1>1
    <2> DEFINE kQ == k * Q
               MQ == M * Q
               BQ == B * Q
               MR == M * R
               XQ == MaxLength * Q
    <2>5. /\ XQ = kQ + MQ + BQ /\ MQ = MR + M
          /\ BQ \in Nat /\ kQ \in Nat /\ MQ \in Nat /\ MR \in Nat
      <3>1. MQ = MR + M
        BY <1>4, <2>4, Zenon
      <3>2. XQ = kQ + MQ + BQ
        BY <2>1, <2>3, Zenon
      <3>3. BQ \in Nat /\ kQ \in Nat /\ MQ \in Nat /\ MR \in Nat
        BY <2>2, Zenon
      <3> QED BY <3>1, <3>2, <3>3, Zenon
    <2> HIDE DEF kQ, MQ, BQ, MR, XQ
    <2>6. kQ + MQ <= XQ /\ XQ \in Nat
      BY ONLY <2>5
    <2>7. kQ + MQ <= XQ /\ MQ = MR + M /\ MR \in Nat /\ kQ \in Nat /\ MQ \in Nat /\ XQ \in Nat
      BY <2>5, <2>6
    <2> QED BY <2>7, Zenon DEF kQ, MQ, MR, XQ
  <1> DEFINE A == 2^30
             kQ == k * Q
             MQ == M * Q
             MR == M * R
             XQ == MaxLength * Q
  <1>6. /\ kQ + MQ <= XQ /\ MQ = MR + M /\ MR \in Nat /\ kQ \in Nat /\ MQ \in Nat /\ XQ \in Nat
        /\ L <= kQ /\ Header + XQ + R < A /\ length = L + 1 + (M - 1) /\ A \in Nat
    BY <1>3, <1>5
  <1> HIDE DEF A, kQ, MQ, MR, XQ
  <1>7. Header + (length + R) < A
    BY <1>1, <1>6
  <1> QED BY <1>7 DEF A, R

\* What stands for the original while that stays.
LEMMA SameOriginal ==
  ASSUME UNCHANGED <<original, call>>, NEW k
  PROVE  EachTo(k)' = EachTo(k) /\ RestOf(k)' = RestOf(k)
  BY DEF EachTo, RestOf, Replacing!Each, Replacing!search, Replacing!replace

\* What is replaced is what is found first; the moves are within the block.
LEMMA MovedWithin ==
  ASSUME NEW S, BlockHolds(S), OneByte(S), Replacing!Found # {}, MaxLength \in Nat,
         Len(original) <= MaxLength, OneByteFits,
         NEW k \in 0 .. Len(original), ReplacedTo(S, k),
         k < Len(original) => original[k + 1] = call[1][1],
         Replacing!ReplaceOne
  PROVE  LET i == Len(EachTo(k)) + 1
             g == Replacing!Grown
             m == IF 1 = Len(call[2]) THEN 0 ELSE length - i
         IN  /\ i \in 1 .. length /\ k < Len(original)
             /\ length = i + Len(RestOf(k + 1))
             /\ g \in Seq(S \cup {Junk}) /\ length + Len(call[2]) + Spare <= Len(g)
             /\ \A j \in 1 .. length : g[j] = block[j]
             /\ length' = length - 1 + Len(call[2]) /\ status' = "running"
             /\ block' = [Replacing!MemCpy(Replacing!MemMove(g, i + Len(call[2]), i + 1, m),
                                           i, call[2])
                            EXCEPT ![length - 1 + Len(call[2]) + 1] = Junk]
  <1> DEFINE i == Len(EachTo(k)) + 1
             g == Replacing!Grown
             m == IF 1 = Len(call[2]) THEN 0 ELSE length - i
             R == Len(call[2])
  <1>1. /\ k < Len(original) /\ Replacing!Min(Replacing!Found) = i
        /\ length = i + Len(RestOf(k + 1))
    BY FoundBehind, BlocksAssumption
  <1>2. Header + (length + Len(call[2])) < 2^30
    BY <1>1, LengthBounded DEF ReplacedTo
  <1>3. /\ g \in Seq(S \cup {Junk}) /\ length + R + Spare <= Len(g)
        /\ \A j \in 1 .. length : g[j] = block[j]
    BY <1>2, GrownHolds, BlocksAssumption
  <1>4. i \in 1 .. length /\ R \in Nat /\ length \in Nat /\ Spare \in Nat /\ Len(g) \in Nat
    <2>1. RestOf(k + 1) \in Seq(S)
      <3>1. k \in 0 .. Len(original) - 1
        BY <1>1, LenProperties DEF OneByte
      <3> QED BY <3>1, OneMoreByte
    <2>2. Len(RestOf(k + 1)) \in Nat /\ Len(EachTo(k)) \in Nat /\ R \in Nat /\ Len(g) \in Nat
      BY <1>3, <2>1, LenProperties DEF ReplacedTo, OneByte
    <2>3. length \in Nat /\ Spare \in Nat
      BY BlocksAssumption DEF BlockHolds
    <2> DEFINE r == Len(RestOf(k + 1))
               e == Len(EachTo(k))
    <2>4. i = e + 1 /\ length = i + r /\ r \in Nat /\ e \in Nat
      BY <1>1, <2>2
    <2> HIDE DEF r, e, i, g, R
    <2> QED BY <2>2, <2>3, <2>4
  <1>5. Replacing!Replaced(i)
    BY <1>1 DEF Replacing!ReplaceOne
  <1>6. m > 0 => ~(Replacing!Max({i + 1, i + R}) + m - 1 > Len(g))
    <2> SUFFICES ASSUME m > 0 PROVE ~(Replacing!Max({i + 1, i + R}) + m - 1 > Len(g))
      OBVIOUS
    <2> HIDE DEF i, g, R
    <2>1. m = length - i
      BY DEF R
    <2> HIDE DEF m
    <2>2. i + 1 \in Nat /\ i + R \in Nat
      BY <1>4
    <2>3. Replacing!Max({i + 1, i + R}) = Max({i + 1, i + R})
      BY Zenon DEF Replacing!Max, Max
    <2>4. Max({i + 1, i + R}) = IF i + 1 >= i + R THEN i + 1 ELSE i + R
      BY <2>2, MaxIs
    <2> DEFINE x == Max({i + 1, i + R})
    <2>5. x = i + 1 \/ x = i + R
      BY <2>4
    <2>6. Replacing!Max({i + 1, i + R}) = x
      BY <2>3
    <2> HIDE DEF x
    <2>7. ~(x + m - 1 > Len(g))
      <3> DEFINE K == Len(g)
      <3>1. K \in Nat /\ length + R + Spare <= K
        BY <1>3, <1>4 DEF R
      <3> HIDE DEF K
      <3>2. ~(x + m - 1 > K)
        BY <1>4, <2>1, <2>5, <3>1
      <3> QED BY <3>2 DEF K
    <2> QED BY <2>6, <2>7
  <1>7. /\ length' = length - 1 + R /\ status' = "running"
        /\ block' = [Replacing!MemCpy(Replacing!MemMove(g, i + R, i + 1, m), i, call[2])
                       EXCEPT ![length' + 1] = Junk]
    <2>1. Len(call[1]) = 1
      BY DEF OneByte
    <2> HIDE DEF i, g
    <2> QED BY <1>5, <1>6, <2>1 DEF Replacing!Replaced, Replacing!search, Replacing!replace,
              Replacing!Moved, Replacing!Again, g
  <1> QED BY <1>1, <1>3, <1>4, <1>7

\* A text in three parts, one behind the other.
InParts(t, e, s, r) ==
  \A j \in 1 .. Len(t) : t[j] = IF j <= Len(e) THEN e[j]
                                ELSE IF j <= Len(e) + Len(s) THEN s[j - Len(e)]
                                ELSE r[j - Len(e) - Len(s)]

\* It is the three of them.
LEMMA ThreeParts ==
  ASSUME NEW S, NEW e \in Seq(S), NEW s \in Seq(S), NEW r \in Seq(S), NEW T, NEW t \in Seq(T),
         Len(t) = Len(e) + Len(s) + Len(r), InParts(t, e, s, r)
  PROVE  t = (e \o s) \o r
  <1> DEFINE f == e \o s
             h == f \o r
             L == Len(e)
             R == Len(s)
             M == Len(r)
             K == Len(t)
  <1>1. L \in Nat /\ R \in Nat /\ M \in Nat /\ K \in Nat /\ K = L + R + M
    BY LenProperties
  <1>2. f \in Seq(S) /\ Len(f) = L + R /\ \A j \in 1 .. L + R : f[j] = IF j <= L THEN e[j] ELSE s[j - L]
    BY ConcatProperties
  <1> HIDE DEF f
  <1>3. h \in Seq(S) /\ Len(h) = Len(f) + M
        /\ \A j \in 1 .. Len(f) + M : h[j] = IF j <= Len(f) THEN f[j] ELSE r[j - Len(f)]
    BY <1>2, ConcatProperties
  <1> HIDE DEF h
  <1>4. \A j \in 1 .. K : t[j] = IF j <= L THEN e[j] ELSE IF j <= L + R THEN s[j - L]
                                 ELSE r[j - L - R]
    BY DEF InParts
  <1> HIDE DEF L, R, M, K
  <1>5. ASSUME NEW j \in 1 .. K PROVE h[j] = t[j]
    <2>1. j \in 1 .. Len(f) + M
      BY <1>1, <1>2
    <2>2. CASE j <= L
      <3>1. j \in 1 .. L + R /\ j <= Len(f)
        BY <1>1, <1>2, <2>2
      <3> QED BY <1>2, <1>3, <1>4, <2>1, <2>2, <3>1
    <2>3. CASE ~(j <= L) /\ j <= L + R
      <3>1. j \in 1 .. L + R /\ j <= Len(f)
        BY <1>1, <1>2, <2>3
      <3> QED BY <1>2, <1>3, <1>4, <2>1, <2>3, <3>1
    <2>4. CASE ~(j <= L) /\ ~(j <= L + R)
      <3>1. ~(j <= Len(f)) /\ j - Len(f) = j - L - R
        BY <1>1, <1>2, <2>4
      <3> QED BY <1>3, <1>4, <2>1, <2>4, <3>1
    <2> QED BY <2>2, <2>3, <2>4
  <1>6. h \in Seq(S \cup T) /\ t \in Seq(S \cup T) /\ Len(h) = K /\ Len(t) = K
    <2>1. Len(h) = K /\ Len(t) = K
      BY <1>1, <1>2, <1>3 DEF K
    <2>2. h \in Seq(S \cup T) /\ t \in Seq(S \cup T)
      BY <1>3
    <2> QED BY <2>1, <2>2
  <1>7. h = t
    BY <1>5, <1>6, SeqEqual
  <1> QED BY <1>7 DEF h, f

\* One replacement makes the text the original replaced one byte further.
LEMMA ReplacedOnce ==
  ASSUME NEW S, BlockHolds(S), OneByte(S), Replacing!Found # {}, MaxLength \in Nat,
         Len(original) <= MaxLength, OneByteFits,
         NEW k \in 0 .. Len(original), ReplacedTo(S, k),
         k < Len(original) => original[k + 1] = call[1][1],
         Replacing!ReplaceOne
  PROVE  /\ BlockHolds(S)' /\ ReplacedTo(S, k + 1)' /\ k + 1 \in 0 .. Len(original)
         /\ status' = "running"
  <1> DEFINE e == EachTo(k)
             r == RestOf(k + 1)
             s == call[2]
             c == call[1][1]
             T == S \cup {Junk}
             i == Len(e) + 1
             g == Replacing!Grown
             m == IF 1 = Len(s) THEN 0 ELSE length - i
             L == Len(e)
             R == Len(s)
             M == Len(r)
             t == Replacing!Text
             u == SubSeq(block', 1, length')
  <1>1. UNCHANGED <<original, call>>
    BY DEF Replacing!ReplaceOne
  <1>2. /\ i \in 1 .. length /\ k < Len(original) /\ length = i + M
        /\ g \in Seq(T) /\ length + R + Spare <= Len(g)
        /\ \A j \in 1 .. length : g[j] = block[j]
        /\ length' = length - 1 + R /\ status' = "running"
        /\ block' = [Replacing!MemCpy(Replacing!MemMove(g, i + R, i + 1, m), i, s)
                       EXCEPT ![length - 1 + R + 1] = Junk]
    BY MovedWithin
  <1>3. k \in 0 .. Len(original) - 1 /\ k + 1 \in 0 .. Len(original)
    BY <1>2, LenProperties DEF OneByte
  <1>4. /\ e \in Seq(S) /\ EachTo(k + 1) = e \o Stead(original[k + 1])
        /\ RestOf(k) = <<original[k + 1]>> \o r /\ r \in Seq(S) /\ original[k + 1] = c /\ c \in S
    BY <1>2, <1>3, OneMoreByte
  <1>5. Stead(c) = s /\ s \in Seq(S)
    BY <1>4, SteadIs DEF OneByte
  <1>6. EachTo(k + 1) = e \o s /\ t = e \o (<<c>> \o r)
    BY <1>4, <1>5 DEF ReplacedTo
  <1>7. /\ Len(t) = length /\ \A j \in 1 .. length : t[j] = block[j]
    BY BlockText, BlocksAssumption
  <1>8. L \in Nat /\ R \in Nat /\ M \in Nat /\ Spare \in Nat /\ i = L + 1 /\ length \in Nat
    BY <1>4, <1>5, LenProperties, BlocksAssumption DEF BlockHolds
  <1> HIDE DEF g, i
  <1>9. /\ block' \in Seq(T) /\ Len(block') = Len(g)
        /\ \A j \in 1 .. length - 1 + R :
             block'[j] = IF j < i THEN g[j] ELSE IF j < i + R THEN s[j - i + 1] ELSE g[j - R + 1]
    <2> DEFINE l == length
    <2>1. block' = MovedBlock(g, s, l, i)
      BY <1>2 DEF MovedBlock
    <2>2. /\ g \in Seq(T) /\ Junk \in T /\ s \in Seq(T) /\ l \in Nat /\ i \in 1 .. l
          /\ l + Len(s) <= Len(g)
      <3>1. Len(g) \in Nat /\ s \in Seq(T)
        BY <1>2, <1>5, LenProperties
      <3> DEFINE K == Len(g)
      <3>2. K \in Nat /\ l + R + Spare <= K
        BY <1>2, <3>1
      <3> HIDE DEF K, R
      <3>3. l + R <= K
        BY <1>8, <3>2
      <3> QED BY <1>2, <1>8, <3>1, <3>3 DEF K, R
    <2> DEFINE b == MovedBlock(g, s, l, i)
    <2> HIDE DEF s, T, l
    <2>3. b \in Seq(T) /\ Len(b) = Len(g) /\ MovesAs(b, g, s, l, i)
      BY ONLY <2>2, MovesGive
    <2> HIDE DEF b
    <2>4. block' = b
      BY <2>1 DEF b, l
    <2>5. /\ block' \in Seq(T) /\ Len(block') = Len(g)
          /\ \A j \in 1 .. l - 1 + Len(s) :
               block'[j] = IF j < i THEN g[j]
                           ELSE IF j < i + Len(s) THEN s[j - i + 1] ELSE g[j - Len(s) + 1]
      BY <2>3, <2>4 DEF MovesAs
    <2> QED BY <2>5 DEF l
  <1>10. BlockHolds(S)' /\ length' \in Nat /\ length' = L + R + M /\ length' <= Len(block')
    <2> DEFINE K == Len(g)
               l == length'
    <2>1. K \in Nat /\ length + R + Spare <= K /\ Len(block') = K /\ length = i + M
          /\ l = length - 1 + R
      BY <1>2, <1>9, LenProperties
    <2> HIDE DEF K, R, M, L, l
    <2>2. l \in Nat /\ l + Spare <= K /\ l = L + R + M /\ l <= K
      BY <1>8, <2>1
    <2> QED BY <1>9, <2>1, <2>2 DEF BlockHolds, l, L, R, M
  <1>11. u \in Seq(T) /\ Len(u) = length' /\ \A j \in 1 .. length' : u[j] = block'[j]
    <2> DEFINE b == block'
               l == length'
    <2>1. b \in Seq(T) /\ l \in Nat /\ l <= Len(b)
      BY <1>9, <1>10
    <2> HIDE DEF b, l
    <2>2. SubSeq(b, 1, l) \in Seq(T) /\ Len(SubSeq(b, 1, l)) = l
          /\ \A j \in 1 .. l : SubSeq(b, 1, l)[j] = b[j]
      BY <2>1, FirstOnes
    <2> QED BY <2>2 DEF b, l
  <1>12. \A j \in 1 .. L + (1 + M) : t[j] = IF j <= L THEN e[j] ELSE (<<c>> \o r)[j - L]
    <2> DEFINE w == <<c>> \o r
    <2>1. w \in Seq(S) /\ Len(w) = 1 + M
      BY <1>4
    <2> HIDE DEF w
    <2>2. \A j \in 1 .. Len(e) + Len(w) : (e \o w)[j] = IF j <= Len(e) THEN e[j] ELSE w[j - Len(e)]
      BY <1>4, <2>1, ConcatProperties
    <2>3. t = e \o w
      BY <1>6 DEF w
    <2> QED BY <2>1, <2>2, <2>3 DEF w
  <1>13. \A j \in 2 .. 1 + M : (<<c>> \o r)[j] = r[j - 1]
    BY <1>4
  <1> HIDE DEF e, s, c, r, t, u, T, L, M, R
  <1>14. ASSUME NEW j \in 1 .. L + R + M
         PROVE  u[j] = IF j <= L THEN e[j] ELSE IF j <= L + R THEN s[j - L] ELSE r[j - L - R]
    <2>1. j \in 1 .. length - 1 + R /\ length = L + 1 + M /\ j \in 1 .. length'
      BY <1>2, <1>8, <1>10
    <2>2. u[j] = IF j < i THEN g[j] ELSE IF j < i + R THEN s[j - i + 1] ELSE g[j - R + 1]
      BY <1>9, <1>11, <2>1
    <2>3. CASE j <= L
      <3>1. j < i /\ j \in 1 .. length /\ j \in 1 .. L + (1 + M)
        BY <1>8, <2>1, <2>3
      <3>2. g[j] = e[j]
        BY <1>2, <1>7, <1>12, <2>3, <3>1
      <3> QED BY <2>2, <2>3, <3>1, <3>2
    <2>4. CASE ~(j <= L) /\ j <= L + R
      <3>1. ~(j < i) /\ j < i + R /\ j - i + 1 = j - L
        BY <1>8, <2>4
      <3> QED BY <2>2, <2>4, <3>1
    <2>5. CASE ~(j <= L) /\ ~(j <= L + R)
      <3> DEFINE q == j - R + 1
      <3>1. /\ ~(j < i) /\ ~(j < i + R) /\ q \in 1 .. length /\ q \in 1 .. L + (1 + M)
            /\ ~(q <= L) /\ q - L \in 2 .. 1 + M /\ q - L - 1 = j - L - R
        BY <1>8, <2>1, <2>5
      <3>2. u[j] = g[q]
        BY <2>2, <3>1
      <3> HIDE DEF q
      <3>3. g[q] = (<<c>> \o r)[q - L]
        BY <1>2, <1>7, <1>12, <3>1
      <3> DEFINE o == q - L
      <3>4. o \in 2 .. 1 + M /\ o - 1 = j - L - R /\ g[q] = (<<c>> \o r)[o]
        BY <3>1, <3>3
      <3> HIDE DEF o
      <3>5. g[q] = r[j - L - R]
        BY <1>13, <3>4
      <3> QED BY <2>5, <3>2, <3>5
    <2> QED BY <2>3, <2>4, <2>5
  <1>15. u = (e \o s) \o r
    <2>1. /\ e \in Seq(S) /\ s \in Seq(S) /\ r \in Seq(S) /\ u \in Seq(T)
          /\ Len(u) = Len(e) + Len(s) + Len(r)
      BY <1>4, <1>5, <1>10, <1>11 DEF L, R, M
    <2>2. ASSUME NEW j \in 1 .. Len(u)
          PROVE  u[j] = IF j <= Len(e) THEN e[j]
                        ELSE IF j <= Len(e) + Len(s) THEN s[j - Len(e)]
                        ELSE r[j - Len(e) - Len(s)]
      <3>1. j \in 1 .. L + R + M
        BY <2>1 DEF L, R, M
      <3> QED BY <1>14, <3>1 DEF L, R
    <2>3. InParts(u, e, s, r)
      BY <2>2 DEF InParts
    <2> QED BY ONLY <2>1, <2>3, ThreeParts
  <1>16. /\ EachTo(k + 1) \in Seq(S) /\ Len(EachTo(k + 1)) <= (k + 1) * (Len(call[2]) + 1)
         /\ \A j \in 1 .. Len(EachTo(k + 1)) : EachTo(k + 1)[j] # call[1][1]
    BY <1>3, EachGrows DEF ReplacedTo
  <1>17. ReplacedTo(S, k + 1)'
    <2>1. EachTo(k + 1)' = EachTo(k + 1) /\ RestOf(k + 1)' = RestOf(k + 1) /\ call' = call
      BY <1>1, SameOriginal
    <2>2. Replacing!Text' = EachTo(k + 1) \o RestOf(k + 1)
      <3>1. Replacing!Text' = u
        BY DEF Replacing!Text, u
      <3> QED BY <1>6, <1>15, <3>1 DEF e, s, r
    <2> QED BY <1>16, <2>1, <2>2 DEF ReplacedTo
  <1> QED BY <1>2, <1>3, <1>10, <1>17

\* While one byte is replaced, the block holds the text, the text is the original replaced as
\* far as some byte, and nothing outside the block was moved.
SoFar(S) ==
  Len(call[1]) = 1 =>
    /\ BlockHolds(S) /\ status # "outside"
    /\ \E k \in 0 .. Len(original) : ReplacedTo(S, k)

ReplaceInv(S) ==
  status # "none" =>
    original \in Seq(S) /\ Len(original) <= MaxLength /\ call \in Calls /\ SoFar(S)

\* The calls: texts and replacements of any bytes.  One byte is not replaced by what it is
\* in again, which would have no end, and texts are so short that grow finds a block.
CallsAre(S) ==
  /\ Bytes \subseteq S /\ MaxLength \in Nat
  /\ \A c \in Calls :
       /\ c[1] \in Seq(S) /\ c[2] \in Seq(S)
       /\ Len(c[1]) = 1 => /\ \A j \in 1 .. Len(c[2]) : c[2][j] # c[1][1]
                           /\ Header + MaxLength * (Len(c[2]) + 1) + Len(c[2]) < 2^30

\* What is known of a call that looks for one byte.
LEMMA OneByteCall ==
  ASSUME NEW S, CallsAre(S), original \in Seq(S), call \in Calls, Len(call[1]) = 1
  PROVE  OneByte(S) /\ OneByteFits
  BY DEF CallsAre, OneByte, OneByteFits

\* The block it starts with holds its text, nothing of which is replaced.
LEMMA ReplaceBegins ==
  ASSUME NEW S, CallsAre(S), Replacing!Init PROVE ReplaceInv(S)
  <1>1. /\ original \in UNION {[1 .. z -> Bytes] : z \in 0 .. MaxLength} /\ call \in Calls
        /\ length = Len(original) /\ status = "running"
    BY DEF Replacing!Init
  <1>2. PICK room \in {Replacing!Capacity(z) : z \in 0 .. MaxLength} :
          Len(original) <= room /\ block = Replacing!Block(room, original)
    BY DEF Replacing!Init
  <1>3. original \in Seq(S) /\ Len(original) \in 0 .. MaxLength /\ Len(original) \in Nat
    <2>1. PICK z \in 0 .. MaxLength : original \in [1 .. z -> Bytes]
      BY <1>1
    <2>2. z \in Nat /\ Bytes \subseteq S
      BY DEF CallsAre
    <2>3. original \in Seq(Bytes) /\ Len(original) = z
      BY <2>1, <2>2
    <2> QED BY <2>2, <2>3
  <1>4. ASSUME Len(call[1]) = 1
        PROVE  BlockHolds(S) /\ ReplacedTo(S, 0)
    <2>1. OneByte(S) /\ OneByteFits
      BY <1>1, <1>3, <1>4, OneByteCall
    <2>2. /\ MaxLength \in Nat /\ Header \in Nat /\ Spare \in Nat /\ Len(call[2]) \in Nat
          /\ call[2] \in Seq(S)
      BY <2>1, BlocksAssumption, LenProperties DEF OneByte, CallsAre
    <2>3. PICK z \in 0 .. MaxLength : room = Replacing!Capacity(z)
      BY <1>2
    <2>4. Header + z \in Nat /\ Header + z < 2^30
      <3> DEFINE R == Len(call[2])
                 A == 2^30
      <3>1. Header + MaxLength * (R + 1) + R < A /\ R \in Nat /\ A \in Nat
        BY <2>1, <2>2 DEF OneByteFits
      <3> HIDE DEF R, A
      <3>2. MaxLength * (R + 1) = MaxLength * R + MaxLength /\ MaxLength * R \in Nat
        BY <2>2, <3>1
      <3> DEFINE Q == MaxLength * R
                 X == MaxLength * (R + 1)
      <3>3. X = Q + MaxLength /\ Q \in Nat /\ Header + X + R < A
        BY <3>1, <3>2
      <3> HIDE DEF Q, X
      <3>4. z \in Nat /\ z <= MaxLength
        BY <2>2
      <3>5. Header + z \in Nat /\ Header + z < A
        <4>1. MaxLength \in Nat /\ Header \in Nat
          BY <2>2
        <4> QED BY ONLY <3>1, <3>3, <3>4, <4>1
      <3> QED BY <3>5 DEF A
    <2>5. room \in Nat /\ Len(original) <= room
      <3>1. Replacing!NewSize(Header + z) \in Nat /\ Replacing!NewSize(Header + z) >= Header + z
        BY <2>4, SizeHolds
      <3>2. room = Replacing!NewSize(Header + z) - Header
        BY <2>3 DEF Replacing!Capacity
      <3> DEFINE q == Replacing!NewSize(Header + z)
      <3>3. q \in Nat /\ q >= Header + z /\ room = q - Header
        BY <3>1, <3>2
      <3> HIDE DEF q
      <3> QED BY <1>2, <2>2, <2>3, <3>3
    <2>6. block = [i \in 1 .. room + Spare |-> IF i <= Len(original) THEN original[i] ELSE Junk]
      BY <1>2 DEF Replacing!Block
    <2>7. block \in Seq(S \cup {Junk}) /\ Len(block) = room + Spare
      <3>1. ASSUME NEW i \in 1 .. room + Spare, i <= Len(original) PROVE original[i] \in S
        <4>1. i \in 1 .. Len(original)
          BY <1>3, <2>2, <2>5, <3>1
        <4> QED BY <1>3, <4>1, ElementOfSeq
      <3>2. block \in [1 .. room + Spare -> S \cup {Junk}]
        BY <2>6, <3>1
      <3>3. room + Spare \in Nat
        BY <2>2, <2>5
      <3> QED BY ONLY <3>2, <3>3
    <2>8. BlockHolds(S)
      BY <1>1, <1>3, <2>2, <2>5, <2>7 DEF BlockHolds
    <2>9. Replacing!Text = original
      <3>1. /\ Replacing!Text \in Seq(S \cup {Junk}) /\ Len(Replacing!Text) = length
            /\ \A i \in 1 .. length : Replacing!Text[i] = block[i]
        BY <2>2, <2>8, BlockText
      <3>2. \A i \in 1 .. length : block[i] = original[i]
        BY <1>1, <1>3, <2>2, <2>5, <2>6
      <3>3. original \in Seq(S \cup {Junk})
        BY <1>3
      <3> QED BY <1>1, <3>1, <3>2, <3>3, SeqEqual
    <2>10. EachTo(0) = << >> /\ RestOf(0) = original
      <3>1. SubSeq(original, 1, 0) = << >>
        BY SubSeqEmpty
      <3>2. EachTo(0) = << >>
        <4>1. Replacing!FlattenSeq(<< >>) = << >>
          BY DEF Replacing!FlattenSeq
        <4>2. [i \in DOMAIN << >> |-> IF <<(<< >>)[i]>> = Replacing!search
                                     THEN Replacing!replace ELSE <<(<< >>)[i]>>] = << >>
          OBVIOUS
        <4> QED BY <3>1, <4>1, <4>2 DEF EachTo, Replacing!Each
      <3>3. SubSeq(original, 1, Len(original)) = original
        BY <1>3, SubSeqFull
      <3> QED BY <3>2, <3>3 DEF RestOf
    <2>11. << >> \o original = original /\ << >> \in Seq(S) /\ Len(<< >>) = 0
      BY <1>3
    <2>12. 0 <= 0 * (Len(call[2]) + 1)
      BY <2>2
    <2>13. ReplacedTo(S, 0)
      <3> DEFINE e == << >>
      <3>1. e \in Seq(S) /\ Len(e) <= 0 * (Len(call[2]) + 1) /\ \A j : j \notin 1 .. Len(e)
        BY <2>11, <2>12
      <3>2. EachTo(0) = e /\ Replacing!Text = e \o RestOf(0)
        BY <2>9, <2>10, <2>11
      <3> HIDE DEF e
      <3> QED BY <3>1, <3>2 DEF ReplacedTo
    <2> QED BY <2>8, <2>13
  <1>5. 0 \in 0 .. Len(original) /\ Len(original) <= MaxLength /\ status # "outside"
    BY <1>1, <1>3 DEF CallsAre
  <1> QED BY <1>1, <1>3, <1>4, <1>5 DEF ReplaceInv, SoFar

\* When nothing of the call changes but what it returns, the text stays.
LEMMA ReplaceStays ==
  ASSUME NEW S, ReplaceInv(S), UNCHANGED <<original, call, block, length>>,
         status # "none", status' # "outside"
  PROVE  ReplaceInv(S)'
  <1>1. \A k : EachTo(k)' = EachTo(k) /\ RestOf(k)' = RestOf(k)
    BY SameOriginal
  <1>2. Replacing!Text' = Replacing!Text /\ BlockHolds(S)' = BlockHolds(S)
    BY DEF Replacing!Text, BlockHolds
  <1>3. \A k : ReplacedTo(S, k) => ReplacedTo(S, k)'
    BY <1>1, <1>2 DEF ReplacedTo
  <1> QED BY <1>2, <1>3 DEF ReplaceInv, SoFar

\* Every step of the call keeps it.
LEMMA ReplaceKeeps ==
  ASSUME NEW S, CallsAre(S), ReplaceInv(S), Replacing!Next \/ UNCHANGED replacing
  PROVE  ReplaceInv(S)'
  <1>1. CASE Replacing!ReplaceOne
    <2>1. /\ original \in Seq(S) /\ Len(original) <= MaxLength /\ call \in Calls /\ SoFar(S)
          /\ Replacing!Found # {} /\ UNCHANGED <<original, call>>
      BY <1>1 DEF ReplaceInv, Replacing!ReplaceOne
    <2>2. ASSUME Len(call[1]) = 1 PROVE SoFar(S)'
      <3>1. OneByte(S) /\ OneByteFits /\ MaxLength \in Nat
        BY <2>1, <2>2, OneByteCall DEF CallsAre
      <3>2. BlockHolds(S) /\ \E k \in 0 .. Len(original) : ReplacedTo(S, k)
        BY <2>1, <2>2 DEF SoFar
      <3>3. PICK k \in 0 .. Len(original) :
              ReplacedTo(S, k) /\ (k < Len(original) => original[k + 1] = call[1][1])
        BY <3>1, <3>2, Furthest
      <3>4. /\ BlockHolds(S)' /\ ReplacedTo(S, k + 1)' /\ k + 1 \in 0 .. Len(original)
            /\ status' = "running"
        BY <1>1, <2>1, <3>1, <3>2, <3>3, ReplacedOnce
      <3>5. \E q \in 0 .. Len(original)' : ReplacedTo(S, q)'
        BY <2>1, <3>4
      <3> QED BY <3>4, <3>5 DEF SoFar
    <2>3. Len(call[1]) # 1 => SoFar(S)'
      BY <2>1 DEF SoFar
    <2> QED BY <2>1, <2>2, <2>3 DEF ReplaceInv
  <1>2. CASE Replacing!NoMemory
    BY <1>2, ReplaceStays DEF Replacing!NoMemory
  <1>3. CASE Replacing!NoneLeft
    BY <1>3, ReplaceStays DEF Replacing!NoneLeft
  <1>4. CASE UNCHANGED replacing
    <2>1. CASE status = "none"
      BY <1>4, <2>1 DEF replacing, ReplaceInv
    <2>2. CASE status # "none"
      <3>1. CASE Len(call[1]) = 1
        <4>1. status' # "outside" /\ UNCHANGED <<original, call, block, length>>
          BY <1>4, <2>2, <3>1 DEF replacing, ReplaceInv, SoFar
        <4> QED BY <2>2, <4>1, ReplaceStays
      <3>2. CASE Len(call[1]) # 1
        BY <1>4, <2>2, <3>2 DEF replacing, ReplaceInv, SoFar
      <3> QED BY <3>1, <3>2
    <2> QED BY <2>1, <2>2
  <1>5. CASE Replacing!Returned
    BY <1>4, <1>5 DEF Replacing!Returned, Replacing!vars, replacing
  <1> QED BY <1>1, <1>2, <1>3, <1>4, <1>5 DEF Replacing!Next

\* Nothing that a byte is replaced by is moved out of the block, or into it from there.
NothingOutside == status # "none" /\ Len(call[1]) = 1 => status # "outside"

\* While webvtt_string_replace_all replaces a byte, as the parser does with NUL, in any text
\* that is short enough for a block, by any bytes, the text is the original replaced as far as
\* some byte, however tightly the block held it, and when memory runs out too; and every byte
\* moved is one of the block.
THEOREM ReplacedInPlace ==
  ASSUME NEW S, CallsAre(S) PROVE CallSpec => [](ReplacedSoFar /\ NothingOutside)
  <1>1. OneCall => ReplaceInv(S)
    BY ReplaceBegins DEF OneCall, NoReplacing, ReplaceInv
  <1>2. ReplaceInv(S) /\ [Step]_all => ReplaceInv(S)'
    BY ReplaceKeeps DEF Step, all
  <1>3. ReplaceInv(S) => ReplacedSoFar /\ NothingOutside
    <2>1. Replacing!search = call[1]
      BY DEF Replacing!search
    <2>2. ASSUME ReplaceInv(S), status # "none", Len(call[1]) = 1 PROVE Replacing!ReplacedSoFar
      <3>1. PICK k \in 0 .. Len(original) : ReplacedTo(S, k)
        BY <2>2 DEF ReplaceInv, SoFar
      <3>2. Replacing!Text = Replacing!Each(SubSeq(original, 1, k))
                             \o SubSeq(original, k + 1, Len(original))
        BY <3>1 DEF ReplacedTo, EachTo, RestOf
      <3> QED BY <3>2 DEF Replacing!ReplacedSoFar
    <2> QED BY <2>1, <2>2 DEF ReplacedSoFar, Replacing!ReplacedSoFar, NothingOutside, ReplaceInv, SoFar
  <1> QED BY <1>1, <1>2, <1>3, PTL DEF CallSpec

=============================================================================
