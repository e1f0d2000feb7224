---------------------- MODULE SimulationDetection_proof ----------------------
(***************************************************************************)
(* Proofs about the two components whose data are series and tables of     *)
(* numbers: a detection build and the simulation that writes the tables it *)
(* watches, for any configuration, any number of sessions, series and      *)
(* periods and whatever is drawn.                                          *)
(*                                                                         *)
(* The adjustment the engine makes of the p-values is the step-up rule,    *)
(* its events partition the alerts, its change points are where the CUSUM  *)
(* passes the threshold, its benchmark accounts for every injection and    *)
(* what it publishes passes the validator of its own package.  The tables  *)
(* the simulation leaves agree, to the cents its validator allows, however *)
(* each amount was rounded.                                                *)
(***************************************************************************)
EXTENDS Detector, Commerce, FiniteSetTheorems, FunctionTheorems, TLAPS

-----------------------------------------------------------------------------
(* Least and greatest elements.                                            *)

\* A set of natural numbers that is not empty has a least element.
LEMMA MinOfNaturals ==
    ASSUME NEW S, S \subseteq Nat, S # {}
    PROVE  Min(S) \in S /\ \A y \in S : Min(S) <= y
  <1>1. PICK x \in S : \A y \in S : ~(<<y, x>> \in OpToRel(<, Nat))
    BY NatLessThanWellFounded, WFMin
  <1>2. \A y \in S : x <= y
    <2>. SUFFICES ASSUME NEW y \in S PROVE x <= y
      OBVIOUS
    <2>1. <<y, x>> \in Nat \X Nat /\ <<y, x>>[1] = y /\ <<y, x>>[2] = x
      OBVIOUS
    <2>2. ~(y < x)
      BY <1>1, <2>1 DEF OpToRel
    <2>. QED
      BY <2>2
  <1>. QED
    BY <1>2 DEF Min

\* One that is bounded as well has a greatest element.
LEMMA MaxOfNaturals ==
    ASSUME NEW S, S \subseteq Nat, S # {}, NEW n \in Nat, \A y \in S : y <= n
    PROVE  Max(S) \in S /\ \A y \in S : Max(S) >= y
  <1>. DEFINE T == {n - y : y \in S}
  <1>1. T \subseteq Nat /\ T # {}
    <2>1. \A y \in S : n - y \in Nat
      OBVIOUS
    <2>. QED
      BY <2>1
  <1>2. PICK x \in S : Min(T) = n - x
    BY <1>1, MinOfNaturals
  <1>3. \A y \in S : n - x <= n - y
    BY <1>1, <1>2, MinOfNaturals
  <1>4. \A y \in S : x >= y
    BY <1>3
  <1>. QED
    BY <1>4 DEF Max

\* Induction, for a set of naturals.
LEMMA SetInduction ==
    ASSUME NEW S, 0 \in S, \A n \in Nat : n \in S => n + 1 \in S
    PROVE  \A n \in Nat : n \in S
  <1>. SUFFICES ASSUME NEW n \in Nat, n \notin S PROVE FALSE
    OBVIOUS
  <1>. DEFINE T == {k \in Nat : k \notin S}
  <1>1. T \subseteq Nat /\ T # {}
    OBVIOUS
  <1>2. Min(T) \in T /\ \A y \in T : Min(T) <= y
    BY <1>1, MinOfNaturals
  <1>. DEFINE m == Min(T)
  <1>3. m \in Nat /\ m \notin S /\ m # 0
    BY <1>2
  <1>. HIDE DEF m
  <1>4. m - 1 \in Nat /\ (m - 1) + 1 = m
    BY <1>3
  <1>5. m - 1 \notin T
    <2>1. ~(m <= m - 1)
      BY <1>3
    <2>. QED
      BY <1>2, <2>1 DEF m
  <1>. QED
    BY <1>3, <1>4, <1>5

\* A finite set of integers that is not empty has a greatest element.
LEMMA MaxOfFinite ==
    ASSUME NEW S, S \subseteq Int, S # {}, IsFiniteSet(S)
    PROVE  Max(S) \in S /\ \A y \in S : Max(S) >= y
  <1>. DEFINE G == {n \in Nat : \A T \in SUBSET S :
                       T # {} /\ Cardinality(T) = n => \E x \in T : \A y \in T : x >= y}
  <1>1. 0 \in G
    <2>1. \A T \in SUBSET S : Cardinality(T) = 0 => T = {}
      BY FS_Subset, FS_EmptySet
    <2>. QED
      BY <2>1
  <1>2. ASSUME NEW n \in Nat, n \in G PROVE n + 1 \in G
    <2>. SUFFICES ASSUME NEW T \in SUBSET S, T # {}, Cardinality(T) = n + 1
                  PROVE  \E x \in T : \A y \in T : x >= y
      OBVIOUS
    <2>1. IsFiniteSet(T)
      BY FS_Subset
    <2>2. PICK e \in T : TRUE
      OBVIOUS
    <2>3. T \ {e} \in SUBSET S /\ Cardinality(T \ {e}) = n
      <3>1. Cardinality(T \ {e}) = Cardinality(T) - 1
        BY <2>1, FS_RemoveElement
      <3>. QED
        BY <3>1
    <2>4. CASE T \ {e} = {}
      BY <2>4
    <2>5. CASE T \ {e} # {}
      <3>1. PICK x \in T \ {e} : \A y \in T \ {e} : x >= y
        BY <1>2, <2>3, <2>5
      <3>2. x \in Int /\ e \in Int /\ \A y \in T : y \in Int
        OBVIOUS
      <3>3. CASE x >= e
        BY <3>1, <3>3
      <3>4. CASE ~(x >= e)
        <4>1. \A y \in T : e >= y
          BY <3>1, <3>2, <3>4
        <4>. QED
          BY <4>1
      <3>. QED
        BY <3>3, <3>4
    <2>. QED
      BY <2>4, <2>5
  <1>3. \A n \in Nat : n \in G
    <2>. HIDE DEF G
    <2>. QED
      BY <1>1, <1>2, SetInduction
  <1>4. Cardinality(S) \in G
    BY <1>3, FS_CardinalityType
  <1>5. \E x \in S : \A y \in S : x >= y
    BY <1>4
  <1>. QED
    BY <1>5 DEF Max

\* The greater of two integers.
LEMMA MaxOfTwo ==
    ASSUME NEW a \in Int, NEW b \in Int
    PROVE  Max({a, b}) = IF a >= b THEN a ELSE b
  <1>1. Max({a, b}) \in {a, b} /\ \A y \in {a, b} : Max({a, b}) >= y
    <2>1. IsFiniteSet({a, b})
      <3>1. {a, b} = {a} \cup {b} /\ IsFiniteSet({a})
        BY FS_Singleton
      <3>. QED
        BY <3>1, FS_AddElement
    <2>. QED
      BY <2>1, MaxOfFinite
  <1>2. Max({a, b}) >= a /\ Max({a, b}) >= b /\ (Max({a, b}) = a \/ Max({a, b}) = b)
    BY <1>1
  <1>. QED
    BY <1>2

-----------------------------------------------------------------------------
(* Running sums.  The recursive function exists because every initial      *)
(* segment of it does.                                                     *)

\* A function that satisfies the equations of the running sum up to n.
SumsTo(g, seq, n) ==
    g \in [0 .. n -> Int] /\ g[0] = 0 /\ \A i \in 1 .. n : g[i] = g[i - 1] + seq[i]

LEMMA SumsExist ==
    ASSUME NEW seq \in Seq(Int)
    PROVE  \E g : SumsTo(g, seq, Len(seq))
  <1>. DEFINE S == {n \in Nat : n <= Len(seq) => \E g : SumsTo(g, seq, n)}
  <1>1. 0 \in S
    <2>1. SumsTo([i \in 0 .. 0 |-> 0], seq, 0)
      BY DEF SumsTo
    <2>. QED
      BY <2>1
  <1>2. ASSUME NEW n \in Nat, n \in S PROVE n + 1 \in S
    <2>. SUFFICES ASSUME n + 1 <= Len(seq) PROVE \E g : SumsTo(g, seq, n + 1)
      OBVIOUS
    <2>0. Len(seq) \in Nat /\ \A i \in 1 .. Len(seq) : seq[i] \in Int
      OBVIOUS
    <2>1. PICK g : SumsTo(g, seq, n)
      BY <1>2, <2>0
    <2>. DEFINE h == [i \in 0 .. (n + 1) |-> IF i = n + 1 THEN g[n] + seq[n + 1] ELSE g[i]]
    <2>2. \A i \in 0 .. (n + 1) : h[i] \in Int
      <3>1. seq[n + 1] \in Int /\ g[n] \in Int
        BY <2>0, <2>1 DEF SumsTo
      <3>2. \A i \in 0 .. (n + 1) : i # n + 1 => i \in 0 .. n
        OBVIOUS
      <3>. QED
        BY <2>1, <3>1, <3>2 DEF SumsTo
    <2>3. h[0] = 0
      BY <2>1 DEF SumsTo
    <2>4. ASSUME NEW i \in 1 .. (n + 1) PROVE h[i] = h[i - 1] + seq[i]
      <3>1. CASE i = n + 1
        BY <3>1
      <3>2. CASE i # n + 1
        <4>1. i \in 1 .. n /\ i - 1 \in 0 .. n /\ i - 1 # n + 1
          BY <3>2
        <4>. QED
          BY <2>1, <3>2, <4>1 DEF SumsTo
      <3>. QED
        BY <3>1, <3>2
    <2>5. SumsTo(h, seq, n + 1)
      BY <2>2, <2>3, <2>4 DEF SumsTo
    <2>. QED
      BY <2>5
  <1>3. \A n \in Nat : n \in S
    <2>. HIDE DEF S
    <2>. QED
      BY <1>1, <1>2, SetInduction
  <1>. QED
    BY <1>3

\* The equations determine the sums.
LEMMA SumsUnique ==
    ASSUME NEW seq, NEW n \in Nat, NEW f, NEW g, SumsTo(g, seq, n),
           f[0] = 0, \A i \in 1 .. n : f[i] = f[i - 1] + seq[i]
    PROVE  \A i \in 0 .. n : f[i] = g[i]
  <1>. DEFINE S == {i \in Nat : i <= n => f[i] = g[i]}
  <1>1. 0 \in S
    BY DEF SumsTo
  <1>2. ASSUME NEW i \in Nat, i \in S PROVE i + 1 \in S
    <2>. SUFFICES ASSUME i + 1 <= n PROVE f[i + 1] = g[i + 1]
      OBVIOUS
    <2>1. i + 1 \in 1 .. n /\ (i + 1) - 1 = i /\ f[i] = g[i]
      BY <1>2
    <2>. QED
      BY <2>1 DEF SumsTo
  <1>3. \A i \in Nat : i \in S
    <2>. HIDE DEF S
    <2>. QED
      BY <1>1, <1>2, SetInduction
  <1>. QED
    BY <1>3

\* What the recursive definition computes.
LEMMA RunningSumIs ==
    ASSUME NEW seq \in Seq(Int)
    PROVE  SumsTo(RunningSum(seq), seq, Len(seq))
  <1>. DEFINE n == Len(seq)
  <1>1. PICK g : SumsTo(g, seq, n)
    BY SumsExist
  <1>2. n \in Nat
    OBVIOUS
  <1>. DEFINE F(sum) == [i \in 0 .. n |-> IF i = 0 THEN 0 ELSE sum[i - 1] + seq[i]]
  <1>3. g = F(g)
    <2>1. \A i \in 0 .. n : g[i] = IF i = 0 THEN 0 ELSE g[i - 1] + seq[i]
      BY <1>1 DEF SumsTo
    <2>2. g = [i \in 0 .. n |-> g[i]]
      BY <1>1 DEF SumsTo
    <2>. QED
      BY <2>1, <2>2
  <1>. DEFINE f == RunningSum(seq)
  <1>4. f = F(f)
    <2>1. f = CHOOSE sum : sum = F(sum)
      BY DEF RunningSum
    <2>. HIDE DEF f, F
    <2>. QED
      BY <1>3, <2>1
  <1>. HIDE DEF f
  <1>5. f[0] = 0 /\ \A i \in 1 .. n : f[i] = f[i - 1] + seq[i]
    <2>1. \A i \in 0 .. n : f[i] = IF i = 0 THEN 0 ELSE f[i - 1] + seq[i]
      BY <1>4
    <2>. QED
      BY <1>2, <2>1
  <1>6. \A i \in 0 .. n : f[i] = g[i]
    BY <1>1, <1>2, <1>5, SumsUnique
  <1>7. f = g
    <2>1. f = [i \in 0 .. n |-> f[i]]
      BY <1>4
    <2>2. g = [i \in 0 .. n |-> g[i]]
      BY <1>1 DEF SumsTo
    <2>. QED
      BY <1>6, <2>1, <2>2
  <1>. QED
    BY <1>1, <1>7 DEF f

\* One more element.
LEMMA RunningSumAppend ==
    ASSUME NEW seq \in Seq(Int), NEW e \in Int
    PROVE  /\ \A i \in 0 .. Len(seq) : RunningSum(Append(seq, e))[i] = RunningSum(seq)[i]
           /\ Total(Append(seq, e)) = Total(seq) + e
  <1>. DEFINE n == Len(seq)
              h == Append(seq, e)
              f == RunningSum(h)
              g == RunningSum(seq)
  <1>1. /\ h \in Seq(Int) /\ Len(h) = n + 1 /\ n \in Nat /\ h[n + 1] = e
        /\ \A i \in 1 .. n : h[i] = seq[i]
    OBVIOUS
  <1>. HIDE DEF h
  <1>2. SumsTo(f, h, n + 1) /\ SumsTo(g, seq, n)
    BY <1>1, RunningSumIs
  <1>. HIDE DEF f, g
  <1>3. f[0] = 0 /\ \A i \in 1 .. n : f[i] = f[i - 1] + seq[i]
    BY <1>1, <1>2 DEF SumsTo
  <1>4. \A i \in 0 .. n : f[i] = g[i]
    BY <1>1, <1>2, <1>3, SumsUnique
  <1>5. f[n + 1] = f[n] + e
    BY <1>1, <1>2 DEF SumsTo
  <1>. QED
    BY <1>1, <1>4, <1>5 DEF Total, f, g, h

\* Dividing a multiple of k by k.
LEMMA ExactQuotient ==
    ASSUME NEW k \in Nat, k > 0, NEW j \in Nat
    PROVE  /\ (k * j) \div k = j
           /\ \A a \in Nat : j <= a <=> k * j <= k * a
  OBVIOUS

-----------------------------------------------------------------------------
(* The rows of a period.                                                   *)

\* A family of rows with one row per series, as Family gives it.
IsFamily(f) ==
    /\ \A r \in f : /\ r.series \in Series /\ r.p \in Nat
                    /\ \A k \in 1 .. Cardinality(Series) : Divides(k, r.p)
    /\ \A r, x \in f : r.series = x.series => r = x

\* A family has at most one row per series.
LEMMA FamilyFinite ==
    ASSUME NEW f, IsFamily(f)
    PROVE  /\ IsFiniteSet(f) /\ Cardinality(f) \in Nat
           /\ Cardinality(f) <= Cardinality(Series)
  <1>. DEFINE g == [r \in f |-> r.series]
  <1>1. g \in Injection(f, Series)
    BY DEF IsFamily, Injection, IsInjective
  <1>. QED
    BY <1>1, FS_Injection, FS_CardinalityType, FeedAssumption DEF FeedAssumption

\* The ranks of a family are between one and its size.
LEMMA RankType ==
    ASSUME NEW f, IsFamily(f), NEW r \in f
    PROVE  Rank(f, r) \in 1 .. Cardinality(f)
  <1>. DEFINE below == {x \in f : x.p < r.p \/ (x.p = r.p /\ x.series <= r.series)}
  <1>1. below \subseteq f /\ IsFiniteSet(f)
    BY FamilyFinite
  <1>2. IsFiniteSet(below) /\ Cardinality(below) \in Nat /\ Cardinality(f) \in Nat
        /\ Cardinality(below) <= Cardinality(f)
    BY <1>1, FS_Subset, FS_CardinalityType
  <1>3. r \in below
    <2>1. r.series \in Nat
      BY FeedAssumption DEF IsFamily, FeedAssumption
    <2>. QED
      BY <2>1
  <1>4. Cardinality(below) # 0
    BY <1>2, <1>3, FS_EmptySet
  <1>. QED
    BY <1>2, <1>4 DEF Rank

\* What a row contributes to the adjusted values of the rows before it.
Quotient(f, x) == (x.p * Cardinality(f)) \div Rank(f, x)

\* It is below the level exactly if the p-value is below its share of it.
LEMMA QuotientExact ==
    ASSUME NEW f, IsFamily(f), NEW x \in f
    PROVE  /\ Quotient(f, x) \in Nat
           /\ Quotient(f, x) <= Config.alpha
                <=> x.p * Cardinality(f) <= Rank(f, x) * Config.alpha
  <1>. DEFINE k == Rank(f, x)
              m == Cardinality(f)
  <1>1. /\ k \in 1 .. m /\ m \in Nat /\ m <= Cardinality(Series)
        /\ Cardinality(Series) \in Nat
    BY RankType, FamilyFinite, FS_CardinalityType, FeedAssumption DEF FeedAssumption
  <1>2. x.p \in Nat /\ Divides(k, x.p)
    BY <1>1 DEF IsFamily
  <1>3. PICK j \in Nat : x.p = k * j
    BY <1>2 DEF Divides
  <1>4. j * m \in Nat /\ x.p * m = k * (j * m)
    <2>. HIDE DEF k, m
    <2>. QED
      BY <1>1, <1>3
  <1>5. Config.alpha \in Nat
    BY FeedAssumption DEF FeedAssumption
  <1>. HIDE DEF k, m
  <1>6. k \in Nat /\ k > 0
    BY <1>1
  <1>7. (k * (j * m)) \div k = j * m
        /\ (j * m <= Config.alpha <=> k * (j * m) <= k * Config.alpha)
    BY <1>4, <1>5, <1>6, ExactQuotient
  <1>8. Quotient(f, x) = (x.p * m) \div k
    BY DEF Quotient, k, m
  <1>. QED
    BY <1>4, <1>7, <1>8 DEF k, m

\* The ranks at which a p-value is within its share of the level.
UnderLine(f) ==
    {k \in 1 .. Cardinality(f) :
        \E r \in f : /\ Rank(f, r) = k
                     /\ r.p * Cardinality(f) <= k * Config.alpha}

\* benjamini_hochberg: a row is significant exactly if a row of its rank or a
\* larger one is within its share.
LEMMA AdjustedIsStepUp ==
    ASSUME NEW f, IsFamily(f), NEW r \in f
    PROVE  Adjusted(f, r) <= Config.alpha
             <=> UnderLine(f) # {} /\ Rank(f, r) <= Max(UnderLine(f))
  <1>. DEFINE after == {x \in f : Rank(f, x) >= Rank(f, r)}
              A == {Quotient(f, x) : x \in after}
  <1>1. Adjusted(f, r) = Min(A)
    BY DEF Adjusted, Quotient
  <1>2. /\ \A x \in f : /\ Rank(f, x) \in 1 .. Cardinality(f)
                        /\ Quotient(f, x) \in Nat
        /\ Cardinality(f) \in Nat /\ Config.alpha \in Nat
    BY RankType, QuotientExact, FamilyFinite, FeedAssumption DEF FeedAssumption
  <1>3. r \in after
    BY <1>2
  <1>4. A \subseteq Nat /\ A # {}
    BY <1>2, <1>3
  <1>5. Min(A) \in A /\ \A y \in A : Min(A) <= y
    BY <1>4, MinOfNaturals
  <1>6. Min(A) <= Config.alpha <=> \E x \in after : Quotient(f, x) <= Config.alpha
    <2>1. ASSUME Min(A) <= Config.alpha
          PROVE  \E x \in after : Quotient(f, x) <= Config.alpha
      BY <1>5, <2>1
    <2>2. ASSUME NEW x \in after, Quotient(f, x) <= Config.alpha
          PROVE  Min(A) <= Config.alpha
      <3>1. Min(A) <= Quotient(f, x) /\ Min(A) \in Nat /\ Quotient(f, x) \in Nat
        BY <1>4, <1>5
      <3>. QED
        BY <1>2, <2>2, <3>1
    <2>. QED
      BY <2>1, <2>2
  <1>7. (\E x \in after : Quotient(f, x) <= Config.alpha)
          <=> \E k \in UnderLine(f) : Rank(f, r) <= k
    <2>1. ASSUME NEW x \in after, Quotient(f, x) <= Config.alpha
          PROVE  Rank(f, x) \in UnderLine(f) /\ Rank(f, r) <= Rank(f, x)
      BY <1>2, <2>1, QuotientExact DEF UnderLine
    <2>2. ASSUME NEW k \in UnderLine(f), Rank(f, r) <= k
          PROVE  \E x \in after : Quotient(f, x) <= Config.alpha
      <3>1. PICK x \in f : /\ Rank(f, x) = k
                           /\ x.p * Cardinality(f) <= k * Config.alpha
        BY DEF UnderLine
      <3>2. x \in after
        BY <1>2, <2>2, <3>1
      <3>. QED
        BY <3>1, <3>2, QuotientExact
    <2>. QED
      BY <2>1, <2>2
  <1>8. (\E k \in UnderLine(f) : Rank(f, r) <= k)
          <=> UnderLine(f) # {} /\ Rank(f, r) <= Max(UnderLine(f))
    <2>1. UnderLine(f) \subseteq Nat /\ \A k \in UnderLine(f) : k <= Cardinality(f)
      BY <1>2 DEF UnderLine
    <2>2. UnderLine(f) # {} =>
            Max(UnderLine(f)) \in UnderLine(f) /\ \A k \in UnderLine(f) : Max(UnderLine(f)) >= k
      BY <1>2, <2>1, MaxOfNaturals
    <2>3. Rank(f, r) \in Nat
      BY <1>2
    <2>. QED
      BY <2>1, <2>2, <2>3
  <1>. QED
    BY <1>1, <1>6, <1>7, <1>8

\* Ranks and adjusted values see nothing of a row but its series and p-value.
LEMMA AdjustedKept ==
    ASSUME NEW f, IsFamily(f), NEW g, NEW h \in Bijection(f, g),
           \A x \in f : h[x].p = x.p /\ h[x].series = x.series,
           NEW r \in f
    PROVE  Adjusted(g, h[r]) = Adjusted(f, r)
  <1>1. /\ IsFiniteSet(f) /\ Cardinality(g) = Cardinality(f)
        /\ h \in [f -> g] /\ \A y \in g : \E x \in f : h[x] = y
        /\ \A x, y \in f : h[x] = h[y] => x = y
    BY FamilyFinite, FS_Bijection
       DEF ExistsBijection, Bijection, Injection, IsInjective, Surjection
  <1>2. ASSUME NEW x \in f PROVE Rank(g, h[x]) = Rank(f, x)
    <2>. DEFINE F == {y \in f : y.p < x.p \/ (y.p = x.p /\ y.series <= x.series)}
                G == {y \in g : y.p < h[x].p \/ (y.p = h[x].p /\ y.series <= h[x].series)}
                b == [y \in F |-> h[y]]
    <2>1. IsFiniteSet(F)
      BY <1>1, FS_Subset
    <2>2. b \in [F -> G]
      BY <1>1
    <2>3. \A y \in G : \E z \in F : b[z] = y
      BY <1>1
    <2>4. \A y, z \in F : b[y] = b[z] => y = z
      BY <1>1
    <2>5. b \in Bijection(F, G)
      BY <2>2, <2>3, <2>4 DEF Bijection, Injection, IsInjective, Surjection
    <2>6. Cardinality(G) = Cardinality(F)
      BY <2>1, <2>5, FS_Bijection DEF ExistsBijection
    <2>. QED
      BY <2>6 DEF Rank
  <1>. DEFINE A == {(x.p * Cardinality(f)) \div Rank(f, x) :
                       x \in {y \in f : Rank(f, y) >= Rank(f, r)}}
              B == {(x.p * Cardinality(g)) \div Rank(g, x) :
                       x \in {y \in g : Rank(g, y) >= Rank(g, h[r])}}
  <1>3. \A v : v \in A <=> v \in B
    <2>1. ASSUME NEW v \in A PROVE v \in B
      <3>1. PICK x \in f : /\ Rank(f, x) >= Rank(f, r)
                           /\ v = (x.p * Cardinality(f)) \div Rank(f, x)
        OBVIOUS
      <3>2. /\ h[x] \in g /\ Rank(g, h[x]) >= Rank(g, h[r])
            /\ v = (h[x].p * Cardinality(g)) \div Rank(g, h[x])
        BY <1>1, <1>2, <3>1
      <3>. QED
        BY <3>2
    <2>2. ASSUME NEW v \in B PROVE v \in A
      <3>1. PICK y \in g : /\ Rank(g, y) >= Rank(g, h[r])
                           /\ v = (y.p * Cardinality(g)) \div Rank(g, y)
        OBVIOUS
      <3>2. PICK x \in f : h[x] = y
        BY <1>1
      <3>3. /\ Rank(f, x) >= Rank(f, r)
            /\ v = (x.p * Cardinality(f)) \div Rank(f, x)
        BY <1>1, <1>2, <3>1, <3>2
      <3>. QED
        BY <3>3
    <2>. QED
      BY <2>1, <2>2
  <1>4. A = B
    BY <1>3
  <1>. QED
    BY <1>4 DEF Adjusted

-----------------------------------------------------------------------------
(* The inductive invariant.                                                 *)

RowField ==
    {"series", "start", "scenario", "last", "expected", "z", "direction",
     "historyGate", "sampleGate", "eligible", "p", "q", "cusum", "changed",
     "changeStart", "llr", "effectGate", "supports", "anomaly", "score", "severity"}

\* What holds of a row from its scoring on.
Known(r) ==
    /\ DOMAIN r = RowField
    /\ r.p # None => r.p \in Nat /\ \A k \in 1 .. Cardinality(Series) : Divides(k, r.p)
    /\ r.eligible => r.historyGate /\ r.sampleGate

Listed(q) == \E S : q \in Seq(S)

\* A row is known by its series and its period.
Keyed ==
    /\ DOMAIN carried = Series /\ DOMAIN rows = Series
    /\ \A s \in Series :
         /\ DOMAIN carried[s] = {"state", "next"}
         /\ carried[s].next \in 1 .. (Periods + 1)
         /\ Listed(rows[s])
         /\ \A i \in 1 .. Len(rows[s]) :
              /\ Known(rows[s][i]) /\ rows[s][i].series = s
              /\ rows[s][i].start \in 1 .. (carried[s].next - 1)
         /\ \A i, j \in 1 .. Len(rows[s]) : i < j => rows[s][i].start < rows[s][j].start

\* Every q-value is the adjustment of its p-value in the family of its period.
AdjustedRows ==
    stage = "decide" =>
      \A t \in 1 .. Periods : \A r \in Family(t) : r.q = Adjusted(Family(t), r)

\* What is decided of a row is what the validator decides again.
ExplainedRows ==
    stage \in {"events", "evaluate", "quality", "published"} =>
      \A r \in Rows : Explained(r)

\* A summary without a mean delay has detected nothing.
Summed ==
    summary # None =>
      /\ stage \in {"quality", "published", "refused"}
      /\ summary.meanDelay = NoMean => summary.detected = 0

\* What is published passed the quality gate and was counted in the tables.
Recorded ==
    stage = "published" =>
      /\ QualityHolds
      /\ artifact = [anomalies |-> Cardinality(Anomalies),
                     events |-> Cardinality(events),
                     changes |-> Cardinality(Changes),
                     scenarios |-> Cardinality(benchmark),
                     meanDelay |-> IF summary = None THEN NoMean
                                   ELSE summary.meanDelay]

Inv == Keyed /\ AdjustedRows /\ ExplainedRows /\ Summed /\ Recorded

-----------------------------------------------------------------------------
(* Consequences of the invariant.                                           *)

\* The rows by series and position.
LEMMA RowsAre ==
    ASSUME Keyed
    PROVE  \A r : r \in Rows <=> \E s \in Series : \E i \in 1 .. Len(rows[s]) : r = rows[s][i]
  <1>1. \A s \in Series : DOMAIN rows[s] = 1 .. Len(rows[s])
    BY DEF Keyed, Listed
  <1>. QED
    BY <1>1 DEF Rows, Range

LEMMA NextRowsAre ==
    ASSUME Keyed'
    PROVE  \A r : r \in Rows' <=> \E s \in Series : \E i \in 1 .. Len(rows'[s]) : r = rows'[s][i]
  <1>1. \A s \in Series : DOMAIN rows'[s] = 1 .. Len(rows'[s])
    BY DEF Keyed, Listed
  <1>. QED
    BY <1>1 DEF Rows, Range

\* The rows of a period that have a p-value are a family.
LEMMA FamilyIs ==
    ASSUME Keyed, NEW t
    PROVE  IsFamily(Family(t))
  <1>1. ASSUME NEW r \in Family(t)
        PROVE  /\ r.series \in Series /\ r.p \in Nat
               /\ \A k \in 1 .. Cardinality(Series) : Divides(k, r.p)
    <2>1. r \in Rows /\ r.p # None
      BY DEF Family
    <2>2. PICK s \in Series, i \in Nat : i \in 1 .. Len(rows[s]) /\ r = rows[s][i]
      BY <2>1, RowsAre
    <2>3. Known(r) /\ r.series = s
      BY <2>2 DEF Keyed
    <2>. QED
      BY <2>1, <2>3 DEF Known
  <1>2. ASSUME NEW r \in Family(t), NEW x \in Family(t), r.series = x.series
        PROVE  r = x
    <2>1. r \in Rows /\ x \in Rows /\ r.start = t /\ x.start = t
      BY DEF Family
    <2>2. PICK s \in Series, i \in Nat : i \in 1 .. Len(rows[s]) /\ r = rows[s][i]
      BY <2>1, RowsAre
    <2>3. PICK u \in Series, j \in Nat : j \in 1 .. Len(rows[u]) /\ x = rows[u][j]
      BY <2>1, RowsAre
    <2>4. s = u
      BY <1>2, <2>2, <2>3 DEF Keyed
    <2>5. /\ i < j => rows[s][i].start < rows[s][j].start
          /\ j < i => rows[s][j].start < rows[s][i].start
          /\ rows[s][i].start \in Int /\ rows[s][j].start \in Int
          /\ i \in Int /\ j \in Int
      BY <2>2, <2>3, <2>4 DEF Keyed
    <2>. QED
      BY <2>1, <2>2, <2>3, <2>4, <2>5
  <1>. QED
    BY <1>1, <1>2 DEF IsFamily

\* A row after a stage that only fills in what is decided of it.
Same(x, r) ==
    /\ DOMAIN x = DOMAIN r
    /\ x.series = r.series /\ x.start = r.start /\ x.scenario = r.scenario
    /\ x.p = r.p /\ x.eligible = r.eligible
    /\ x.historyGate = r.historyGate /\ x.sampleGate = r.sampleGate

\* Such a stage keeps the keys.
LEMMA KeyedKept ==
    ASSUME Keyed, carried' = carried, DOMAIN rows' = Series,
           \A s \in Series :
             /\ Listed(rows[s])' /\ Len(rows[s])' = Len(rows[s])
             /\ \A i \in 1 .. Len(rows[s]) : Same(rows[s][i]', rows[s][i])
    PROVE  Keyed'
  <1>1. ASSUME NEW s \in Series, NEW i \in 1 .. Len(rows[s])
        PROVE  /\ Known(rows[s][i])' /\ rows[s][i]'.series = s
               /\ rows[s][i]'.start = rows[s][i].start
    BY DEF Keyed, Known, Same
  <1>2. ASSUME NEW s \in Series
        PROVE  /\ (DOMAIN carried[s])' = {"state", "next"}
               /\ carried[s]'.next \in 1 .. (Periods + 1) /\ Listed(rows[s])'
               /\ Len(rows[s])' = Len(rows[s]) /\ carried[s]'.next = carried[s].next
    BY DEF Keyed
  <1>3. ASSUME NEW s \in Series, NEW i \in 1 .. Len(rows[s])'
        PROVE  /\ Known(rows[s][i])' /\ rows[s][i]'.series = s
               /\ rows[s][i]'.start \in 1 .. (carried[s]'.next - 1)
    BY <1>1, <1>2 DEF Keyed
  <1>4. ASSUME NEW s \in Series, NEW i \in 1 .. Len(rows[s])',
               NEW j \in 1 .. Len(rows[s])', i < j
        PROVE  rows[s][i]'.start < rows[s][j]'.start
    BY <1>1, <1>2, <1>4 DEF Keyed
  <1>5. (DOMAIN carried)' = Series /\ (DOMAIN rows)' = Series
    BY DEF Keyed
  <1>. QED
    BY <1>2, <1>3, <1>4, <1>5 DEF Keyed

-----------------------------------------------------------------------------
(* Every step preserves the invariant.                                      *)

\* A build starts without rows.
LEMMA InitInv == Init => Inv
  <1>. SUFFICES ASSUME Init PROVE Inv
    OBVIOUS
  <1>1. \A s \in Series : rows[s] = <<>> /\ carried[s] = [state |-> FreshState, next |-> 1]
    BY DEF Init
  <1>2. DOMAIN rows = Series /\ DOMAIN carried = Series
    BY DEF Init
  <1>3. Listed(<<>>) /\ Len(<<>>) = 0
    BY DEF Listed
  <1>4. Keyed
    <2>1. ASSUME NEW s \in Series
          PROVE  /\ DOMAIN carried[s] = {"state", "next"} /\ carried[s].next = 1
                 /\ Listed(rows[s]) /\ 1 .. Len(rows[s]) = {}
      BY <1>1, <1>3
    <2>2. 1 \in 1 .. (Periods + 1)
      BY FeedAssumption DEF FeedAssumption
    <2>. QED
      BY <1>2, <2>1, <2>2 DEF Keyed
  <1>. QED
    BY <1>4 DEF Init, Inv, AdjustedRows, ExplainedRows, Summed, Recorded

\* A scored row.
LEMMA ObservationKnown ==
    ASSUME NEW s, NEW now, NEW row, NEW sc, NEW st,
           row.p \in Nat, \A k \in 1 .. Cardinality(Series) : Divides(k, row.p)
    PROVE  LET r == Observation(s, now, row, sc, st)
           IN  Known(r) /\ r.series = s /\ r.start = now
  <1>. DEFINE r == Observation(s, now, row, sc, st)
              recent == Latest(st.history, Config.lookback)
  <1>1. DOMAIN r = RowField
    BY DEF Observation, RowField
  <1>2. r.series = s /\ r.start = now
    BY DEF Observation
  <1>3. r.p \in {row.p, None}
    BY DEF Observation
  <1>4. /\ r.eligible = Eligible(row, recent)
        /\ r.historyGate = (Cardinality(recent) >= Config.minimumHistory)
        /\ r.sampleGate = (row.sample >= Config.minimumSample)
    BY DEF Observation
  <1>5. r.eligible => r.historyGate /\ r.sampleGate
    BY <1>4 DEF Eligible
  <1>. QED
    BY <1>1, <1>2, <1>3, <1>5 DEF Known

\* What a perturbation leaves of a source row.
LEMMA InjectedP ==
    ASSUME NEW s \in Series, NEW t \in 1 .. Periods, NEW source \in Feed[s][t] \ {Absent},
           NEW sc
    PROVE  /\ Injected(source, sc, t).p \in Nat
           /\ \A k \in 1 .. Cardinality(Series) : Divides(k, Injected(source, sc, t).p)
  <1>1. /\ "p" \in DOMAIN source /\ source.p \in Nat
        /\ \A k \in 1 .. Cardinality(Series) : Divides(k, source.p)
    BY FeedAssumption DEF FeedAssumption
  <1>2. Injected(source, sc, t).p = source.p
    BY <1>1 DEF Injected
  <1>. QED
    BY <1>1, <1>2

LEMMA ScoreInv ==
    ASSUME Inv, NEW s \in Series, ScoreRow(s) \/ SkipPeriod(s)
    PROVE  Inv'
  <1>1. /\ stage = "score" /\ stage' = stage /\ summary' = summary /\ results' = results
        /\ carried[s].next \in 1 .. Periods
    BY FeedAssumption DEF ScoreRow, SkipPeriod, Turn, Inv, Keyed, FeedAssumption
  <1>2. AdjustedRows' /\ ExplainedRows' /\ Recorded' /\ Summed'
    BY <1>1, Zenon DEF Inv, AdjustedRows, ExplainedRows, Recorded, Summed
  <1>3. CASE SkipPeriod(s)
    <2>1. /\ rows' = rows /\ DOMAIN carried' = Series
          /\ carried'[s].next = carried[s].next + 1 /\ DOMAIN carried'[s] = DOMAIN carried[s]
          /\ \A u \in Series : u # s => carried'[u] = carried[u]
      BY <1>3 DEF SkipPeriod, Inv, Keyed
    <2>2. carried[s].next + 1 \in 1 .. (Periods + 1)
      BY <1>1, FeedAssumption DEF FeedAssumption
    <2>3. \A i \in 1 .. Len(rows[s]) :
            rows[s][i].start \in 1 .. (carried'[s].next - 1)
      <3>. SUFFICES ASSUME NEW i \in 1 .. Len(rows[s])
                    PROVE  rows[s][i].start \in 1 .. (carried'[s].next - 1)
        OBVIOUS
      <3>1. rows[s][i].start \in 1 .. (carried[s].next - 1)
        BY DEF Inv, Keyed
      <3>. QED
        BY <1>1, <2>1, <3>1
    <2>4. ASSUME NEW u \in Series
          PROVE  /\ DOMAIN carried'[u] = {"state", "next"}
                 /\ carried'[u].next \in 1 .. (Periods + 1)
                 /\ \A i \in 1 .. Len(rows[u]) :
                      rows[u][i].start \in 1 .. (carried'[u].next - 1)
      <3>1. CASE u = s
        BY <2>1, <2>2, <2>3, <3>1 DEF Inv, Keyed
      <3>2. CASE u # s
        BY <2>1, <3>2 DEF Inv, Keyed
      <3>. QED
        BY <3>1, <3>2
    <2>5. Keyed'
      BY <2>1, <2>4 DEF Inv, Keyed
    <2>. QED
      BY <1>2, <2>5 DEF Inv
  <1>4. CASE ScoreRow(s)
    <2>. DEFINE t == carried[s].next
    <2>1. PICK source \in Feed[s][t] \ {Absent} :
            LET sc == ScenarioOf(s, t)
                st == carried[s].state
                row == Injected(source, sc, t)
            IN  /\ rows' = [rows EXCEPT ![s] = Append(@, Observation(s, t, row, sc, st))]
                /\ carried' = [carried EXCEPT ![s] = [state |-> Carry(t, row, st),
                                                      next |-> t + 1]]
      BY <1>4 DEF ScoreRow
    <2>. DEFINE r == Observation(s, t, Injected(source, ScenarioOf(s, t), t),
                                 ScenarioOf(s, t), carried[s].state)
    <2>2. Known(r) /\ r.series = s /\ r.start = t
      BY <1>1, InjectedP, ObservationKnown
    <2>3. /\ DOMAIN carried' = Series /\ DOMAIN rows' = Series
          /\ rows'[s] = Append(rows[s], r)
          /\ carried'[s].next = t + 1 /\ DOMAIN carried'[s] = {"state", "next"}
          /\ \A u \in Series : u # s => carried'[u] = carried[u] /\ rows'[u] = rows[u]
      BY <2>1 DEF Inv, Keyed
    <2>. HIDE DEF r
    <2>4. PICK S : rows[s] \in Seq(S)
      BY DEF Inv, Keyed, Listed
    <2>5. /\ Append(rows[s], r) \in Seq(S \cup {r})
          /\ Len(Append(rows[s], r)) = Len(rows[s]) + 1 /\ Len(rows[s]) \in Nat
          /\ Append(rows[s], r)[Len(rows[s]) + 1] = r
          /\ \A i \in 1 .. Len(rows[s]) : Append(rows[s], r)[i] = rows[s][i]
      <3>1. rows[s] \in Seq(S \cup {r})
        BY <2>4
      <3>. QED
        BY <3>1
    <2>6. \A i \in 1 .. Len(rows[s]) :
            /\ Known(rows[s][i]) /\ rows[s][i].series = s
            /\ rows[s][i].start \in 1 .. (t - 1)
      BY DEF Inv, Keyed
    <2>7. Listed(rows'[s])
      BY <2>3, <2>5 DEF Listed
    <2>8. \A i \in 1 .. Len(rows'[s]) :
            /\ Known(rows'[s][i]) /\ rows'[s][i].series = s
            /\ rows'[s][i].start \in 1 .. t
      <3>. SUFFICES ASSUME NEW i \in 1 .. Len(rows'[s])
                    PROVE  /\ Known(rows'[s][i]) /\ rows'[s][i].series = s
                           /\ rows'[s][i].start \in 1 .. t
        OBVIOUS
      <3>1. CASE i = Len(rows[s]) + 1
        BY <1>1, <2>2, <2>3, <2>5, <3>1
      <3>2. CASE i \in 1 .. Len(rows[s])
        <4>1. rows'[s][i] = rows[s][i]
          BY <2>3, <2>5, <3>2
        <4>2. rows[s][i].start \in 1 .. (t - 1) /\ t \in Nat
          BY <1>1, <2>6, <3>2
        <4>3. rows[s][i].start \in 1 .. t
          BY <4>2
        <4>. QED
          BY <2>6, <3>2, <4>1, <4>3
      <3>. QED
        BY <2>3, <2>5, <3>1, <3>2
    <2>9. \A i, j \in 1 .. Len(rows'[s]) : i < j => rows'[s][i].start < rows'[s][j].start
      <3>. SUFFICES ASSUME NEW i \in 1 .. Len(rows'[s]), NEW j \in 1 .. Len(rows'[s]), i < j
                    PROVE  rows'[s][i].start < rows'[s][j].start
        OBVIOUS
      <3>1. i \in 1 .. Len(rows[s]) /\ rows'[s][i] = rows[s][i]
        BY <2>3, <2>5
      <3>2. CASE j = Len(rows[s]) + 1
        <4>1. rows'[s][j].start = t
          BY <2>2, <2>3, <2>5, <3>2
        <4>2. rows[s][i].start \in 1 .. (t - 1) /\ t \in Nat
          BY <1>1, <2>6, <3>1
        <4>. QED
          BY <3>1, <4>1, <4>2
      <3>3. CASE j \in 1 .. Len(rows[s])
        <4>1. rows'[s][j] = rows[s][j]
          BY <2>3, <2>5, <3>3
        <4>. QED
          BY <3>1, <3>3, <4>1 DEF Inv, Keyed
      <3>. QED
        BY <2>3, <2>5, <3>2, <3>3
    <2>10. t + 1 \in 1 .. (Periods + 1) /\ (t + 1) - 1 = t
      BY <1>1, FeedAssumption DEF FeedAssumption
    <2>11. Keyed'
      <3>1. ASSUME NEW u \in Series
            PROVE  /\ DOMAIN carried'[u] = {"state", "next"}
                   /\ carried'[u].next \in 1 .. (Periods + 1)
                   /\ Listed(rows'[u])
                   /\ \A i \in 1 .. Len(rows'[u]) :
                        /\ Known(rows'[u][i]) /\ rows'[u][i].series = u
                        /\ rows'[u][i].start \in 1 .. (carried'[u].next - 1)
                   /\ \A i, j \in 1 .. Len(rows'[u]) :
                        i < j => rows'[u][i].start < rows'[u][j].start
        <4>1. CASE u = s
          BY <2>3, <2>7, <2>8, <2>9, <2>10, <4>1
        <4>2. CASE u # s
          BY <2>3, <4>2 DEF Inv, Keyed
        <4>. QED
          BY <4>1, <4>2
      <3>. QED
        BY <2>3, <3>1 DEF Keyed, Known, Listed
    <2>. QED
      BY <1>2, <2>11 DEF Inv
  <1>. QED
    BY <1>3, <1>4

\* What benjamini_hochberg leaves of a row.
LEMMA WithQSame ==
    ASSUME NEW r, DOMAIN r = RowField
    PROVE  Same(WithQ(r), r) /\ (r \in Family(r.start) =>
             WithQ(r).q = Adjusted(Family(r.start), r))
  <1>1. CASE r \in Family(r.start)
    <2>1. WithQ(r) = [r EXCEPT !.q = Adjusted(Family(r.start), r)]
      BY <1>1 DEF WithQ
    <2>. QED
      BY <2>1 DEF Same, RowField
  <1>2. CASE r \notin Family(r.start)
    BY <1>2 DEF WithQ, Same
  <1>. QED
    BY <1>1, <1>2

LEMMA FdrSame ==
    ASSUME Inv, ApplyFdr, NEW s \in Series
    PROVE  /\ Listed(rows[s])' /\ Len(rows[s])' = Len(rows[s])
           /\ \A i \in 1 .. Len(rows[s]) :
                rows[s][i]' = WithQ(rows[s][i]) /\ Same(rows[s][i]', rows[s][i])
  <1>1. DOMAIN rows[s] = 1 .. Len(rows[s]) /\ Len(rows[s]) \in Nat
    BY DEF Inv, Keyed, Listed
  <1>2. rows'[s] = [i \in 1 .. Len(rows[s]) |-> WithQ(rows[s][i])]
    BY <1>1 DEF ApplyFdr
  <1>3. rows'[s] \in Seq({WithQ(rows[s][i]) : i \in 1 .. Len(rows[s])})
    BY <1>1, <1>2
  <1>4. Len(rows'[s]) = Len(rows[s])
    BY <1>1, <1>2
  <1>5. \A i \in 1 .. Len(rows[s]) : DOMAIN rows[s][i] = RowField
    BY DEF Inv, Keyed, Known
  <1>. QED
    BY <1>2, <1>3, <1>4, <1>5, WithQSame DEF Listed

\* benjamini_hochberg over every period: the new rows of a period are a family
\* in bijection with the old.
LEMMA FdrInv == ASSUME Inv, ApplyFdr PROVE Inv'
  <1>. USE DEF ApplyFdr
  <1>1. /\ stage' = "decide" /\ summary' = summary /\ results' = results /\ carried' = carried
        /\ DOMAIN rows' = Series
    OBVIOUS
  <1>3. \A r : DOMAIN r = RowField =>
           Same(WithQ(r), r) /\ (r \in Family(r.start) =>
             WithQ(r).q = Adjusted(Family(r.start), r))
    BY WithQSame
  <1>4. \A s \in Series : \A i \in 1 .. Len(rows[s]) : DOMAIN rows[s][i] = RowField
    BY DEF Inv, Keyed, Known
  <1>5. \A s \in Series :
          /\ Listed(rows[s])' /\ Len(rows[s])' = Len(rows[s])
          /\ \A i \in 1 .. Len(rows[s]) :
               rows[s][i]' = WithQ(rows[s][i]) /\ Same(rows[s][i]', rows[s][i])
    BY FdrSame
  <1>6. Keyed'
    BY <1>1, <1>5, KeyedKept DEF Inv
  <1>7. \A x : x \in Rows' <=> \E r \in Rows : x = WithQ(r)
    <2>1. \A x : x \in Rows' <=> \E s \in Series : \E i \in 1 .. Len(rows'[s]) : x = rows'[s][i]
      BY <1>6, NextRowsAre
    <2>2. \A x : x \in Rows <=> \E s \in Series : \E i \in 1 .. Len(rows[s]) : x = rows[s][i]
      BY RowsAre DEF Inv
    <2>. QED
      BY <1>5, <2>1, <2>2
  <1>8. \A r \in Rows : DOMAIN r = RowField
    BY <1>4, RowsAre DEF Inv
  <1>9. AdjustedRows'
    <2>. SUFFICES ASSUME NEW t \in 1 .. Periods, NEW x \in Family(t)'
                  PROVE  x.q = Adjusted(Family(t)', x)
      BY DEF AdjustedRows
    <2>. DEFINE f == Family(t)
                h == [r \in f |-> WithQ(r)]
    <2>1. \A y : y \in Family(t)' <=> \E r \in f : y = WithQ(r)
      <3>1. \A y : y \in Family(t)' <=>
              y \in Rows' /\ y.start = t /\ y.eligible /\ y.p # None
        BY DEF Family
      <3>2. \A r : r \in f <=> r \in Rows /\ r.start = t /\ r.eligible /\ r.p # None
        BY DEF Family
      <3>3. \A r \in Rows : Same(WithQ(r), r)
        BY <1>3, <1>8
      <3>. QED
        BY <1>7, <3>1, <3>2, <3>3 DEF Same
    <2>2. \A r \in f : /\ Same(WithQ(r), r) /\ r.start = t
                       /\ WithQ(r).q = Adjusted(f, r)
      BY <1>3, <1>8 DEF Family
    <2>3. IsFamily(f)
      BY FamilyIs DEF Inv
    <2>4. h \in Bijection(f, Family(t)')
      <3>1. h \in [f -> Family(t)'] /\ \A y \in Family(t)' : \E r \in f : h[r] = y
        BY <2>1
      <3>2. \A r, y \in f : h[r] = h[y] => r = y
        BY <2>2, <2>3 DEF Same, IsFamily
      <3>. QED
        BY <3>1, <3>2 DEF Bijection, Injection, IsInjective, Surjection
    <2>5. PICK r \in f : x = h[r]
      BY <2>1
    <2>6. \A y \in f : h[y].p = y.p /\ h[y].series = y.series
      BY <2>2 DEF Same
    <2>7. Adjusted(Family(t)', h[r]) = Adjusted(f, r)
      <3>. HIDE DEF f, h
      <3>. QED
        BY <2>3, <2>4, <2>5, <2>6, AdjustedKept
    <2>8. x.q = Adjusted(f, r)
      BY <2>2, <2>5
    <2>. QED
      BY <2>5, <2>7, <2>8
  <1>. QED
    BY <1>1, <1>6, <1>9 DEF Inv, ExplainedRows, Recorded, Summed

\* The decision is a function of what the row keeps.
LEMMA DecidedExplained ==
    ASSUME NEW r, Known(r)
    PROVE  Same(Decided(r), r) /\ Explained(Decided(r))
  <1>. DEFINE x == Decided(r)
              decision == /\ r.eligible /\ "fdr" \in Supports(r) /\ Effect(r)
                          /\ Cardinality(Supports(r)) >= Config.minimumSupport
  <1>1. DOMAIN r = RowField
    BY DEF Known
  <1>2. /\ DOMAIN x = DOMAIN r
        /\ x.series = r.series /\ x.start = r.start /\ x.scenario = r.scenario
        /\ x.p = r.p /\ x.eligible = r.eligible
        /\ x.historyGate = r.historyGate /\ x.sampleGate = r.sampleGate
        /\ x.z = r.z /\ x.q = r.q /\ x.cusum = r.cusum /\ x.llr = r.llr
        /\ x.expected = r.expected
    BY <1>1 DEF Decided, RowField
  <1>3. /\ x.supports = Supports(r) /\ x.effectGate = Effect(r)
        /\ x.anomaly = decision
    BY <1>1 DEF Decided, RowField
  <1>. HIDE DEF x
  <1>4. Supports(x) = Supports(r)
    BY <1>2 DEF Supports
  <1>5. Effect(x) = Effect(r)
    BY <1>2 DEF Effect, HasRelative
  <1>6. x.anomaly <=> decision
    BY <1>3
  <1>7. r.eligible => r.historyGate /\ r.sampleGate
    BY DEF Known
  <1>8. Explained(x)
    BY <1>2, <1>3, <1>4, <1>5, <1>6, <1>7 DEF Explained
  <1>9. Same(x, r)
    BY <1>2 DEF Same
  <1>. QED
    BY <1>8, <1>9 DEF x

\* What the alert policy leaves of a row.
LEMMA AlertsSame ==
    ASSUME Inv, FinalizeAlerts, NEW s \in Series
    PROVE  /\ Listed(rows[s])' /\ Len(rows[s])' = Len(rows[s])
           /\ \A i \in 1 .. Len(rows[s]) :
                rows[s][i]' = Decided(rows[s][i]) /\ Same(rows[s][i]', rows[s][i])
  <1>1. DOMAIN rows[s] = 1 .. Len(rows[s]) /\ Len(rows[s]) \in Nat
    BY DEF Inv, Keyed, Listed
  <1>2. rows'[s] = [i \in 1 .. Len(rows[s]) |-> Decided(rows[s][i])]
    BY <1>1 DEF FinalizeAlerts
  <1>3. rows'[s] \in Seq({Decided(rows[s][i]) : i \in 1 .. Len(rows[s])})
    BY <1>1, <1>2
  <1>4. Len(rows'[s]) = Len(rows[s])
    BY <1>1, <1>2
  <1>5. \A i \in 1 .. Len(rows[s]) : Known(rows[s][i])
    BY DEF Inv, Keyed
  <1>. QED
    BY <1>2, <1>3, <1>4, <1>5, DecidedExplained DEF Listed

\* The alert policy over every row.
LEMMA AlertsInv == ASSUME Inv, FinalizeAlerts PROVE Inv'
  <1>. USE DEF FinalizeAlerts
  <1>1. /\ stage' = "events" /\ summary' = summary /\ results' = results /\ carried' = carried
        /\ DOMAIN rows' = Series
    OBVIOUS
  <1>2. \A s \in Series : \A i \in 1 .. Len(rows[s]) : Known(rows[s][i])
    BY DEF Inv, Keyed
  <1>3. \A s \in Series :
          /\ Listed(rows[s])' /\ Len(rows[s])' = Len(rows[s])
          /\ \A i \in 1 .. Len(rows[s]) :
               rows[s][i]' = Decided(rows[s][i]) /\ Same(rows[s][i]', rows[s][i])
    BY AlertsSame
  <1>4. Keyed'
    BY <1>1, <1>3, KeyedKept DEF Inv
  <1>5. ASSUME NEW x \in Rows' PROVE Explained(x)
    <2>1. PICK s \in Series, i \in Nat : i \in 1 .. Len(rows[s]) /\ x = Decided(rows[s][i])
      <3>1. \E s \in Series : \E i \in 1 .. Len(rows'[s]) : x = rows'[s][i]
        BY <1>4, <1>5, NextRowsAre
      <3>. QED
        BY <1>3, <3>1
    <2>. QED
      BY <1>2, <2>1, DecidedExplained
  <1>6. ExplainedRows'
    BY <1>5 DEF ExplainedRows
  <1>. QED
    BY <1>1, <1>4, <1>6 DEF Inv, AdjustedRows, Recorded, Summed

\* The later stages read the rows and leave them alone.
LEMMA TailInv ==
    ASSUME Inv,
           \/ Inject \/ InjectRefused \/ (\E s \in Series : TargetRefused(s) \/ GroupAlert(s))
           \/ BuildEvents \/ BuildEventsRaises \/ EvaluateBenchmark \/ Export
    PROVE  Inv'
  <1>1. /\ UNCHANGED <<rows, carried, benchmark>>
        /\ stage' \in {"score", "refused"}
             \/ (stage' = "events" /\ stage = "events")
             \/ (stage' = "evaluate" /\ stage = "events")
             \/ (stage' = "quality" /\ stage = "evaluate")
             \/ (stage' = "published" /\ stage = "quality")
    BY DEF Inject, InjectRefused, TargetRefused, GroupAlert, Grouped,
           BuildEvents, BuildEventsRaises,
           EvaluateBenchmark, Export, Refuse
  <1>2. Rows' = Rows
    BY <1>1 DEF Rows
  <1>3. Keyed'
    BY <1>1 DEF Inv, Keyed
  <1>4. AdjustedRows' /\ ExplainedRows'
    BY <1>1, <1>2 DEF Inv, AdjustedRows, ExplainedRows
  <1>5. Summed'
    <2>1. CASE EvaluateBenchmark
      <3>1. /\ stage' = "quality"
            /\ summary' # None => summary' = Summary(results')
        BY <2>1 DEF EvaluateBenchmark
      <3>. DEFINE found == {r \in results' : r.detected}
      <3>2. summary' # None => /\ summary'.detected = Cardinality(found)
                               /\ summary'.meanDelay = NoMean => found = {}
        BY <2>1, <3>1 DEF EvaluateBenchmark, Summary, NoMean
      <3>. QED
        BY <3>1, <3>2, FS_EmptySet DEF Summed
    <2>2. CASE ~EvaluateBenchmark
      BY <2>2 DEF Inject, InjectRefused, TargetRefused, GroupAlert, Grouped,
           BuildEvents, BuildEventsRaises,
           Export, Refuse, Turn, Inv, Summed
    <2>. QED
      BY <2>1, <2>2
  <1>6. Recorded'
    <2>. SUFFICES ASSUME stage' = "published" PROVE Recorded'
      BY DEF Recorded
    <2>1. Export /\ QualityHolds
      BY DEF Inject, InjectRefused, TargetRefused, GroupAlert, Grouped,
           BuildEvents, BuildEventsRaises,
             EvaluateBenchmark, Export, Refuse
    <2>2. UNCHANGED <<benchmark, rows, events, results, summary>>
      BY <2>1 DEF Export
    <2>3. /\ artifact' = [anomalies |-> Cardinality(Anomalies),
                          events |-> Cardinality(events),
                          changes |-> Cardinality(Changes),
                          scenarios |-> Cardinality(benchmark),
                          meanDelay |-> IF summary = None THEN NoMean
                                        ELSE summary.meanDelay]
      BY <2>1 DEF Export
    <2>4. Rows' = Rows /\ Anomalies' = Anomalies /\ Changes' = Changes
      BY <1>2 DEF Anomalies, Changes
    <2>5. QualityHolds'
      BY <2>1, <2>2, <2>4 DEF QualityHolds
    <2>. QED
      BY <2>2, <2>3, <2>4, <2>5 DEF Recorded
  <1>. QED
    BY <1>3, <1>4, <1>5, <1>6 DEF Inv

LEMMA NextInv == Inv /\ [Next]_vars => Inv'
  <1>. SUFFICES ASSUME Inv, [Next]_vars PROVE Inv'
    OBVIOUS
  <1>1. CASE UNCHANGED vars
    <2>1. /\ UNCHANGED <<stage, benchmark, rows, carried, groups, events, results, summary, artifact>>
          /\ Rows' = Rows
      BY <1>1 DEF vars, Rows
    <2>2. Anomalies' = Anomalies /\ Changes' = Changes /\ \A t : Family(t)' = Family(t)
      BY <2>1 DEF Anomalies, Changes, Family
    <2>3. QualityHolds' = QualityHolds
      BY <2>1, <2>2 DEF QualityHolds
    <2>4. Keyed'
      BY <2>1 DEF Inv, Keyed
    <2>5. AdjustedRows' /\ ExplainedRows'
      BY <2>1, <2>2 DEF Inv, AdjustedRows, ExplainedRows
    <2>6. Summed' /\ Recorded'
      BY <2>1, <2>2, <2>3 DEF Inv, Summed, Recorded
    <2>. QED
      BY <2>4, <2>5, <2>6 DEF Inv
  <1>2. CASE Next
    BY <1>2, ScoreInv, FdrInv, AlertsInv, TailInv DEF Next
  <1>. QED
    BY <1>1, <1>2

LEMMA Invariance == Spec => []Inv
  BY InitInv, NextInv, PTL DEF Spec

-----------------------------------------------------------------------------
(* The alerts of one series, and the groups the loop of _build_events       *)
(* makes of them.                                                           *)

\* Alerts at most one to a period.
IsAlerts(A) ==
    /\ \A r \in A : r.start \in Nat
    /\ \A r, x \in A : r.start = x.start => r = x

\* A group is a run of periods, every one an alert.
IsRun(g, A) ==
    /\ Listed(g) /\ Len(g) >= 1
    /\ \A k \in 1 .. Len(g) : g[k] \in A /\ g[k].start = g[1].start + (k - 1)

\* Groups are runs in time order, with a period between one and the next.
AreRuns(gs, A) ==
    /\ Listed(gs)
    /\ \A i \in 1 .. Len(gs) : IsRun(gs[i], A)
    /\ \A i, j \in 1 .. Len(gs) : i < j => Last(gs[i]).start + 1 < gs[j][1].start

\* An alert later than every group.
Later(gs, r) == gs = <<>> \/ r.start > Last(Last(gs)).start

\* An alert is in a group or later than every group.
Covered(gs, A) ==
    \A r \in A : \/ Later(gs, r)
                 \/ \E i \in 1 .. Len(gs) : \E k \in 1 .. Len(gs[i]) : r = gs[i][k]

\* The last row of a group, and the length of a group by its periods.
LEMMA RunEnds ==
    ASSUME NEW A, IsAlerts(A), NEW g, IsRun(g, A)
    PROVE  /\ Len(g) \in Nat /\ Len(g) >= 1 /\ DOMAIN g = 1 .. Len(g)
           /\ g[1] \in A /\ g[1].start \in Nat
           /\ Last(g) = g[Len(g)] /\ Last(g) \in A /\ Last(g).start \in Nat
           /\ Last(g).start = g[1].start + (Len(g) - 1)
  <1>1. Len(g) \in Nat /\ DOMAIN g = 1 .. Len(g) /\ Len(g) >= 1
    BY DEF IsRun, Listed
  <1>2. 1 \in 1 .. Len(g) /\ Len(g) \in 1 .. Len(g) /\ Last(g) = g[Len(g)]
    BY <1>1 DEF Last
  <1>. QED
    BY <1>1, <1>2 DEF IsRun, IsAlerts

\* A group of one alert.
LEMMA NewRun ==
    ASSUME NEW A, IsAlerts(A), NEW r \in A
    PROVE  IsRun(<<r>>, A) /\ <<r>>[1] = r /\ Last(<<r>>) = r /\ Len(<<r>>) = 1
  <1>1. <<r>> \in Seq(A) /\ Len(<<r>>) = 1 /\ <<r>>[1] = r
    OBVIOUS
  <1>2. r.start \in Nat /\ r.start = r.start + (1 - 1)
    BY DEF IsAlerts
  <1>3. \A k \in 1 .. 1 : k = 1
    OBVIOUS
  <1>. QED
    BY <1>1, <1>2, <1>3 DEF IsRun, Listed, Last

\* A group that the alert of the next period joins.
LEMMA LongerRun ==
    ASSUME NEW A, IsAlerts(A), NEW g, IsRun(g, A), NEW r \in A,
           r.start = Last(g).start + 1
    PROVE  /\ IsRun(Append(g, r), A) /\ Append(g, r)[1] = g[1]
           /\ Last(Append(g, r)) = r /\ Len(Append(g, r)) = Len(g) + 1
           /\ \A k \in 1 .. Len(g) : Append(g, r)[k] = g[k]
  <1>. DEFINE h == Append(g, r)
  <1>1. PICK S : g \in Seq(S)
    BY DEF IsRun, Listed
  <1>2. Len(g) \in Nat /\ Len(g) >= 1
    BY RunEnds
  <1>3. g \in Seq(S \cup {r})
    BY <1>1
  <1>4. /\ h \in Seq(S \cup {r}) /\ Len(h) = Len(g) + 1
        /\ \A k \in 1 .. Len(g) : h[k] = g[k]
        /\ h[Len(g) + 1] = r
    BY <1>2, <1>3
  <1>. HIDE DEF h
  <1>5. h[1] = g[1] /\ Last(h) = r
    BY <1>2, <1>4 DEF Last
  <1>6. r.start = g[1].start + ((Len(g) + 1) - 1)
    BY <1>2, RunEnds
  <1>7. \A k \in 1 .. Len(h) : h[k] \in A /\ h[k].start = h[1].start + (k - 1)
    <2>. SUFFICES ASSUME NEW k \in 1 .. Len(h)
                  PROVE  h[k] \in A /\ h[k].start = h[1].start + (k - 1)
      OBVIOUS
    <2>1. CASE k = Len(g) + 1
      BY <1>4, <1>5, <1>6, <2>1
    <2>2. CASE k \in 1 .. Len(g)
      BY <1>4, <1>5, <2>2 DEF IsRun
    <2>. QED
      BY <1>2, <1>4, <2>1, <2>2
  <1>8. IsRun(h, A)
    BY <1>2, <1>4, <1>7 DEF IsRun, Listed
  <1>. QED
    BY <1>4, <1>5, <1>8 DEF h

\* The groups end in order: the last of them ends last.
LEMMA LastRunEnds ==
    ASSUME NEW A, IsAlerts(A), NEW gs, AreRuns(gs, A), gs # <<>>
    PROVE  /\ Len(gs) \in Nat /\ Len(gs) >= 1 /\ Last(gs) = gs[Len(gs)]
           /\ IsRun(Last(gs), A)
           /\ \A i \in 1 .. Len(gs) : Last(gs[i]).start <= Last(Last(gs)).start
  <1>1. Len(gs) \in Nat /\ Len(gs) >= 1 /\ Last(gs) = gs[Len(gs)]
    BY DEF AreRuns, Listed, Last
  <1>2. \A i \in 1 .. Len(gs) : IsRun(gs[i], A)
    BY DEF AreRuns
  <1>3. ASSUME NEW i \in 1 .. Len(gs)
        PROVE  Last(gs[i]).start <= Last(gs[Len(gs)]).start
    <2>1. /\ Last(gs[i]).start \in Nat
          /\ gs[Len(gs)][1].start \in Nat
          /\ Last(gs[Len(gs)]).start \in Nat
          /\ gs[Len(gs)][1].start <= Last(gs[Len(gs)]).start
      <3>1. Len(gs) \in 1 .. Len(gs)
        BY <1>1
      <3>2. IsRun(gs[i], A) /\ IsRun(gs[Len(gs)], A)
        BY <1>2, <3>1
      <3>3. Last(gs[i]).start \in Nat
        BY <3>2, RunEnds
      <3>4. /\ gs[Len(gs)][1].start \in Nat /\ Len(gs[Len(gs)]) \in Nat
            /\ Len(gs[Len(gs)]) >= 1
            /\ Last(gs[Len(gs)]).start \in Nat
            /\ Last(gs[Len(gs)]).start = gs[Len(gs)][1].start + (Len(gs[Len(gs)]) - 1)
        BY <3>2, RunEnds
      <3>. QED
        BY <3>3, <3>4
    <2>2. CASE i = Len(gs)
      BY <2>1, <2>2
    <2>3. CASE i < Len(gs)
      <3>1. Last(gs[i]).start + 1 < gs[Len(gs)][1].start
        BY <1>1, <2>3 DEF AreRuns
      <3>. QED
        BY <2>1, <3>1
    <2>. QED
      BY <1>1, <2>2, <2>3
  <1>. QED
    BY <1>1, <1>2, <1>3

\* The alert that opens a group.
LEMMA OpenGroup ==
    ASSUME NEW A, IsAlerts(A), NEW gs, AreRuns(gs, A), Covered(gs, A), NEW r \in A,
           gs = <<>> \/ r.start > Last(Last(gs)).start + 1,
           \A x \in A : Later(gs, x) => r.start <= x.start
    PROVE  AreRuns(Append(gs, <<r>>), A) /\ Covered(Append(gs, <<r>>), A)
  <1>. DEFINE hs == Append(gs, <<r>>)
              n == Len(gs)
  <1>1. PICK S : gs \in Seq(S)
    BY DEF AreRuns, Listed
  <1>2. n \in Nat /\ (n = 0 <=> gs = <<>>)
    BY <1>1
  <1>3. gs \in Seq(S \cup {<<r>>})
    BY <1>1
  <1>4. /\ hs \in Seq(S \cup {<<r>>}) /\ Len(hs) = n + 1 /\ hs[n + 1] = <<r>>
        /\ \A i \in 1 .. n : hs[i] = gs[i]
    BY <1>3
  <1>5. hs # <<>> /\ Last(hs) = <<r>>
    BY <1>2, <1>4 DEF Last
  <1>. HIDE DEF hs
  <1>6. IsRun(<<r>>, A) /\ <<r>>[1] = r /\ Last(<<r>>) = r /\ Len(<<r>>) = 1
    BY NewRun
  <1>7. \A i \in 1 .. Len(hs) : i \in 1 .. n \/ i = n + 1
    BY <1>2, <1>4
  <1>8. \A i \in 1 .. Len(hs) : IsRun(hs[i], A)
    BY <1>4, <1>6, <1>7 DEF AreRuns
  <1>9. ASSUME NEW i \in 1 .. Len(hs), NEW j \in 1 .. Len(hs), i < j
        PROVE  Last(hs[i]).start + 1 < hs[j][1].start
    <2>1. i \in 1 .. n /\ hs[i] = gs[i]
      BY <1>2, <1>4, <1>9
    <2>2. CASE j = n + 1
      <3>1. gs # <<>>
        BY <1>2, <2>1
      <3>2. /\ Last(gs[i]).start <= Last(Last(gs)).start
            /\ IsRun(Last(gs), A) /\ IsRun(gs[i], A)
        BY <2>1, <3>1, LastRunEnds DEF AreRuns
      <3>3. Last(gs[i]).start \in Nat /\ Last(Last(gs)).start \in Nat /\ r.start \in Nat
        BY <3>2, RunEnds DEF IsAlerts
      <3>4. Last(gs[i]).start + 1 < r.start
        BY <3>1, <3>2, <3>3
      <3>. QED
        BY <1>4, <1>6, <2>1, <2>2, <3>4
    <2>3. CASE j \in 1 .. n
      BY <1>4, <1>9, <2>1, <2>3 DEF AreRuns
    <2>. QED
      BY <1>7, <2>2, <2>3
  <1>10. ASSUME NEW x \in A
         PROVE  \/ Later(hs, x)
                \/ \E i \in 1 .. Len(hs) : \E k \in 1 .. Len(hs[i]) : x = hs[i][k]
    <2>1. CASE Later(gs, x)
      <3>1. r.start <= x.start /\ r.start \in Nat /\ x.start \in Nat
        BY <2>1 DEF IsAlerts
      <3>2. CASE x.start = r.start
        <4>1. x = r
          BY <3>2 DEF IsAlerts
        <4>2. n + 1 \in 1 .. Len(hs) /\ 1 \in 1 .. Len(hs[n + 1]) /\ hs[n + 1][1] = r
          BY <1>2, <1>4, <1>6
        <4>. QED
          BY <4>1, <4>2
      <3>3. CASE x.start > r.start
        BY <1>5, <1>6, <3>3 DEF Later
      <3>. QED
        BY <3>1, <3>2, <3>3
    <2>2. CASE \E i \in 1 .. n : \E k \in 1 .. Len(gs[i]) : x = gs[i][k]
      <3>1. \A i \in 1 .. n : i \in 1 .. Len(hs)
        BY <1>2, <1>4
      <3>. QED
        BY <1>4, <2>2, <3>1
    <2>. QED
      BY <2>1, <2>2 DEF Covered
  <1>. QED
    BY <1>4, <1>8, <1>9, <1>10 DEF AreRuns, Covered, Listed, hs

\* The alert that joins the last group.
LEMMA JoinGroup ==
    ASSUME NEW A, IsAlerts(A), NEW gs, AreRuns(gs, A), Covered(gs, A), NEW r \in A,
           gs # <<>>, r.start = Last(Last(gs)).start + 1,
           \A x \in A : Later(gs, x) => r.start <= x.start
    PROVE  /\ AreRuns([gs EXCEPT ![Len(gs)] = Append(@, r)], A)
           /\ Covered([gs EXCEPT ![Len(gs)] = Append(@, r)], A)
  <1>. DEFINE n == Len(gs)
              g == Append(gs[n], r)
              hs == [gs EXCEPT ![n] = g]
  <1>1. PICK S : gs \in Seq(S)
    BY DEF AreRuns, Listed
  <1>2. /\ n \in Nat /\ n >= 1 /\ Last(gs) = gs[n] /\ IsRun(gs[n], A)
        /\ n \in 1 .. n
    BY LastRunEnds
  <1>3. /\ IsRun(g, A) /\ g[1] = gs[n][1] /\ Last(g) = r /\ Len(g) = Len(gs[n]) + 1
        /\ Len(gs[n]) \in Nat /\ \A k \in 1 .. Len(gs[n]) : g[k] = gs[n][k]
        /\ g[Len(g)] = r
    <2>1. r.start = Last(gs[n]).start + 1
      BY <1>2
    <2>2. /\ IsRun(g, A) /\ g[1] = gs[n][1] /\ Last(g) = r /\ Len(g) = Len(gs[n]) + 1
          /\ \A k \in 1 .. Len(gs[n]) : g[k] = gs[n][k]
      BY <1>2, <2>1, LongerRun
    <2>3. Len(gs[n]) \in Nat
      BY <1>2, RunEnds
    <2>. QED
      BY <2>2, <2>3 DEF Last
  <1>. HIDE DEF g
  <1>4. gs \in Seq(S \cup {g})
    BY <1>1
  <1>5. /\ hs \in Seq(S \cup {g}) /\ Len(hs) = n /\ hs[n] = g
        /\ \A i \in 1 .. n : i # n => hs[i] = gs[i]
    BY <1>2, <1>4
  <1>6. hs # <<>> /\ Last(hs) = g
    BY <1>2, <1>5 DEF Last
  <1>. HIDE DEF hs
  <1>7. \A i \in 1 .. n : IsRun(hs[i], A) /\ hs[i][1] = gs[i][1]
    BY <1>3, <1>5 DEF AreRuns
  <1>8. ASSUME NEW i \in 1 .. n, NEW j \in 1 .. n, i < j
        PROVE  Last(hs[i]).start + 1 < hs[j][1].start
    <2>1. i # n /\ hs[i] = gs[i]
      BY <1>2, <1>5, <1>8
    <2>2. Last(gs[i]).start + 1 < gs[j][1].start
      BY <1>8 DEF AreRuns
    <2>. QED
      BY <1>7, <2>1, <2>2
  <1>9. ASSUME NEW x \in A
        PROVE  \/ Later(hs, x)
               \/ \E i \in 1 .. n : \E k \in 1 .. Len(hs[i]) : x = hs[i][k]
    <2>1. CASE Later(gs, x)
      <3>1. r.start <= x.start /\ r.start \in Nat /\ x.start \in Nat
        BY <2>1 DEF IsAlerts
      <3>2. CASE x.start = r.start
        <4>1. x = r
          BY <3>2 DEF IsAlerts
        <4>2. Len(g) \in 1 .. Len(g)
          BY <1>3
        <4>. QED
          BY <1>2, <1>3, <1>5, <4>1, <4>2
      <3>3. CASE x.start > r.start
        BY <1>3, <1>6, <3>3 DEF Later
      <3>. QED
        BY <3>1, <3>2, <3>3
    <2>2. ASSUME NEW i \in 1 .. n, NEW k \in 1 .. Len(gs[i]), x = gs[i][k]
          PROVE  \E m \in 1 .. Len(hs[i]) : x = hs[i][m]
      <3>1. CASE i = n
        <4>1. k \in 1 .. Len(g) /\ g[k] = x
          BY <1>3, <2>2, <3>1
        <4>. QED
          BY <1>5, <3>1, <4>1
      <3>2. CASE i # n
        BY <1>5, <2>2, <3>2
      <3>. QED
        BY <3>1, <3>2
    <2>. QED
      BY <2>1, <2>2 DEF Covered
  <1>10. AreRuns(hs, A) /\ Covered(hs, A)
    BY <1>5, <1>7, <1>8, <1>9 DEF AreRuns, Covered, Listed
  <1>. QED
    BY <1>10 DEF hs, g

\* One pass of the loop keeps the groups runs, whichever way it goes.
LEMMA JoinRuns ==
    ASSUME NEW A, IsAlerts(A), NEW gs, AreRuns(gs, A), Covered(gs, A), NEW r \in A,
           Later(gs, r), \A x \in A : Later(gs, x) => r.start <= x.start
    PROVE  AreRuns(Join(gs, r), A) /\ Covered(Join(gs, r), A)
  <1>1. CASE gs = <<>> \/ r.start > Last(Last(gs)).start + 1
    BY <1>1, OpenGroup DEF Join
  <1>2. CASE ~(gs = <<>> \/ r.start > Last(Last(gs)).start + 1)
    <2>1. IsRun(Last(gs), A)
      BY <1>2, LastRunEnds
    <2>2. Last(Last(gs)).start \in Nat /\ r.start \in Nat
      BY <2>1, RunEnds DEF IsAlerts
    <2>3. r.start = Last(Last(gs)).start + 1
      BY <1>2, <2>2 DEF Later
    <2>4. Join(gs, r) = [gs EXCEPT ![Len(gs)] = Append(@, r)]
      BY <1>2 DEF Join
    <2>5. gs # <<>>
      BY <1>2
    <2>6. /\ AreRuns([gs EXCEPT ![Len(gs)] = Append(@, r)], A)
          /\ Covered([gs EXCEPT ![Len(gs)] = Append(@, r)], A)
      BY <2>3, <2>5, JoinGroup
    <2>. QED
      BY <2>4, <2>6
  <1>. QED
    BY <1>1, <1>2

-----------------------------------------------------------------------------
(* The groups of the build.                                                 *)

AlertsOf(s) == {r \in Anomalies : r.series = s}

\* Nothing is grouped before every alert is decided.
GroupsOfAlerts ==
    /\ DOMAIN groups = Series
    /\ stage \in {"inject", "score", "decide"} => \A s \in Series : groups[s] = <<>>
    /\ stage \in {"events", "evaluate", "quality", "published"} =>
         \A s \in Series : AreRuns(groups[s], AlertsOf(s)) /\ Covered(groups[s], AlertsOf(s))

\* The events are the groups, when no alert is left.
EventsOfGroups ==
    stage \in {"evaluate", "quality", "published"} =>
      /\ events = {Event(g) : g \in AllGroups}
      /\ \A s \in Series : Ungrouped(s) = {}

GroupInv == GroupsOfAlerts /\ EventsOfGroups

\* No two alerts of a series are of one period.
LEMMA AlertsAre == ASSUME Keyed, NEW s \in Series PROVE IsAlerts(AlertsOf(s))
  <1>1. ASSUME NEW r \in AlertsOf(s)
        PROVE  \E i \in 1 .. Len(rows[s]) : r = rows[s][i]
    <2>1. r \in Rows /\ r.series = s
      BY DEF AlertsOf, Anomalies
    <2>2. PICK u \in Series, i \in Nat : i \in 1 .. Len(rows[u]) /\ r = rows[u][i]
      BY <2>1, RowsAre
    <2>3. u = s
      BY <2>1, <2>2 DEF Keyed
    <2>. QED
      BY <2>2, <2>3
  <1>2. ASSUME NEW i \in 1 .. Len(rows[s]) PROVE rows[s][i].start \in Nat
    <2>1. rows[s][i].start \in 1 .. (carried[s].next - 1)
      BY DEF Keyed
    <2>. QED
      BY <2>1
  <1>3. \A r \in AlertsOf(s) : r.start \in Nat
    BY <1>1, <1>2
  <1>4. ASSUME NEW r \in AlertsOf(s), NEW x \in AlertsOf(s), r.start = x.start
        PROVE  r = x
    <2>1. PICK i \in 1 .. Len(rows[s]) : r = rows[s][i]
      BY <1>1
    <2>2. PICK j \in 1 .. Len(rows[s]) : x = rows[s][j]
      BY <1>1
    <2>3. /\ i < j => rows[s][i].start < rows[s][j].start
          /\ j < i => rows[s][j].start < rows[s][i].start
          /\ i \in Int /\ j \in Int
      BY DEF Keyed
    <2>4. rows[s][i].start \in Nat /\ rows[s][j].start \in Nat
      BY <1>2
    <2>. QED
      BY <1>4, <2>1, <2>2, <2>3, <2>4
  <1>. QED
    BY <1>3, <1>4 DEF IsAlerts

\* Without groups there is nothing to be wrong with them.
LEMMA NoGroups ==
    ASSUME NEW A PROVE AreRuns(<<>>, A) /\ Covered(<<>>, A)
  <1>1. <<>> \in Seq({}) /\ Len(<<>>) = 0
    OBVIOUS
  <1>. QED
    BY <1>1 DEF AreRuns, Covered, Later, Listed

\* What an alert of the series is to the groups so far.
LEMMA UngroupedIs ==
    \A s \in Series : \A r : r \in Ungrouped(s) <=> r \in AlertsOf(s) /\ Later(groups[s], r)
  BY DEF Ungrouped, AlertsOf, Later

LEMMA GroupInit == Init => GroupInv
  BY DEF Init, GroupInv, GroupsOfAlerts, EventsOfGroups

LEMMA GroupStep == ASSUME Inv, GroupInv, NEW s \in Series, GroupAlert(s) PROVE GroupInv'
  <1>1. PICK r \in Ungrouped(s) :
           /\ \A x \in Ungrouped(s) : r.start <= x.start
           /\ groups' = [groups EXCEPT ![s] = Join(@, r)]
    BY DEF GroupAlert
  <1>2. stage = "events" /\ stage' = "events" /\ rows' = rows
    BY DEF GroupAlert
  <1>3. \A u : AlertsOf(u)' = AlertsOf(u)
    BY <1>2 DEF AlertsOf, Anomalies, Rows
  <1>4. DOMAIN groups' = Series /\ groups'[s] = Join(groups[s], r)
        /\ \A u \in Series : u # s => groups'[u] = groups[u]
    BY <1>1 DEF GroupInv, GroupsOfAlerts
  <1>5. \A u \in Series : AreRuns(groups[u], AlertsOf(u)) /\ Covered(groups[u], AlertsOf(u))
    BY <1>2 DEF GroupInv, GroupsOfAlerts
  <1>6. AreRuns(groups'[s], AlertsOf(s)) /\ Covered(groups'[s], AlertsOf(s))
    <2>1. IsAlerts(AlertsOf(s))
      BY AlertsAre DEF Inv
    <2>2. r \in AlertsOf(s) /\ Later(groups[s], r)
      BY UngroupedIs
    <2>3. \A x \in AlertsOf(s) : Later(groups[s], x) => r.start <= x.start
      BY <1>1, UngroupedIs
    <2>. QED
      BY <1>4, <1>5, <2>1, <2>2, <2>3, JoinRuns
  <1>7. \A u \in Series : AreRuns(groups'[u], AlertsOf(u)) /\ Covered(groups'[u], AlertsOf(u))
    BY <1>4, <1>5, <1>6
  <1>8. GroupsOfAlerts'
    BY <1>2, <1>3, <1>4, <1>7 DEF GroupsOfAlerts
  <1>. QED
    BY <1>2, <1>8 DEF GroupInv, EventsOfGroups

\* The other steps, which leave the groups alone.
LEMMA GroupOther ==
    ASSUME Inv, GroupInv, [Next]_vars, ~\E s \in Series : GroupAlert(s)
    PROVE  GroupInv'
  <1>1. groups' = groups
    BY DEF Next, vars, Inject, InjectRefused, ScoreRow, SkipPeriod, TargetRefused, ApplyFdr,
           FinalizeAlerts, BuildEvents, BuildEventsRaises, EvaluateBenchmark, Export, Refuse
  <1>2. \/ stage' \in {"inject", "score", "decide"} /\ stage \in {"inject", "score", "decide"}
        \/ FinalizeAlerts
        \/ stage' = "refused"
        \/ BuildEvents
        \/ /\ UNCHANGED <<rows, events>>
           /\ stage' \in {"events", "evaluate", "quality", "published"}
           /\ stage = stage'
        \/ /\ UNCHANGED <<rows, events>>
           /\ stage' \in {"quality", "published"}
           /\ stage \in {"evaluate", "quality"}
        \/ stage' = stage /\ stage \notin {"inject", "score", "decide", "events",
                                           "evaluate", "quality", "published"}
    <2>1. CASE UNCHANGED vars
      BY <2>1 DEF vars
    <2>2. CASE Next
      BY <2>2 DEF Next, Inject, InjectRefused, ScoreRow, SkipPeriod, TargetRefused, ApplyFdr,
           BuildEventsRaises, EvaluateBenchmark, Export, Refuse, Turn
    <2>. QED
      BY <2>1, <2>2
  <1>3. CASE stage' \in {"inject", "score", "decide"} /\ stage \in {"inject", "score", "decide"}
    BY <1>1, <1>3 DEF GroupInv, GroupsOfAlerts, EventsOfGroups
  <1>4. CASE FinalizeAlerts
    <2>1. stage = "decide" /\ stage' = "events"
      BY <1>4 DEF FinalizeAlerts
    <2>2. \A s \in Series : groups'[s] = <<>>
      BY <1>1, <2>1 DEF GroupInv, GroupsOfAlerts
    <2>. QED
      BY <1>1, <2>1, <2>2, NoGroups DEF GroupInv, GroupsOfAlerts, EventsOfGroups
  <1>5. CASE stage' = "refused"
    BY <1>1, <1>5 DEF GroupInv, GroupsOfAlerts, EventsOfGroups
  <1>. DEFINE Kept == /\ \A s : AlertsOf(s)' = AlertsOf(s)
                      /\ \A s \in Series : Ungrouped(s)' = Ungrouped(s)
                      /\ AllGroups' = AllGroups
  <1>6. ASSUME rows' = rows PROVE Kept
    <2>1. Anomalies' = Anomalies
      BY <1>6 DEF Anomalies, Rows
    <2>. QED
      BY <1>1, <2>1 DEF AlertsOf, Ungrouped, AllGroups
  <1>7. CASE BuildEvents
    <2>1. /\ stage = "events" /\ stage' = "evaluate" /\ rows' = rows
          /\ \A s \in Series : Ungrouped(s) = {}
          /\ events' = {Event(g) : g \in AllGroups}
      BY <1>7 DEF BuildEvents, Grouped
    <2>. QED
      BY <1>1, <1>6, <2>1 DEF GroupInv, GroupsOfAlerts, EventsOfGroups
  <1>8. CASE /\ UNCHANGED <<rows, events>>
             /\ stage' \in {"events", "evaluate", "quality", "published"}
             /\ stage = stage'
    BY <1>1, <1>6, <1>8 DEF GroupInv, GroupsOfAlerts, EventsOfGroups
  <1>9. CASE /\ UNCHANGED <<rows, events>>
             /\ stage' \in {"quality", "published"}
             /\ stage \in {"evaluate", "quality"}
    BY <1>1, <1>6, <1>9 DEF GroupInv, GroupsOfAlerts, EventsOfGroups
  <1>10. CASE stage' = stage /\ stage \notin {"inject", "score", "decide", "events",
                                              "evaluate", "quality", "published"}
    BY <1>1, <1>10 DEF GroupInv, GroupsOfAlerts, EventsOfGroups
  <1>. QED
    BY <1>2, <1>3, <1>4, <1>5, <1>7, <1>8, <1>9, <1>10

LEMMA GroupInvariance == Spec => []GroupInv
  <1>1. Inv /\ GroupInv /\ [Next]_vars => GroupInv'
    BY GroupStep, GroupOther
  <1>. QED
    BY <1>1, GroupInit, Invariance, PTL DEF Spec

\* The events of the build: the partition, and that an event is not empty.
LEMMA EventsHold ==
    ASSUME Inv, GroupInv, stage \in {"evaluate", "quality", "published"}
    PROVE  /\ \A r \in Anomalies : Cardinality({e \in events :
                e.series = r.series /\ r.start \in e.start .. (e.end - 1)}) = 1
           /\ \A e \in events :
                /\ e.count = e.end - e.start
                /\ \A p \in e.start .. (e.end - 1) :
                     \E r \in Anomalies : r.series = e.series /\ r.start = p
           /\ \A d, e \in events :
                d # e /\ d.series = e.series => d.end < e.start \/ e.end < d.start
           /\ \A e \in events : e.start \in Nat /\ e.end \in Nat /\ e.start < e.end
  <1>1. \A s \in Series : /\ IsAlerts(AlertsOf(s)) /\ AreRuns(groups[s], AlertsOf(s))
                          /\ \A r \in AlertsOf(s) :
                               \E i \in 1 .. Len(groups[s]) :
                                 \E k \in 1 .. Len(groups[s][i]) : r = groups[s][i][k]
    <2>. SUFFICES ASSUME NEW s \in Series
                  PROVE  /\ IsAlerts(AlertsOf(s)) /\ AreRuns(groups[s], AlertsOf(s))
                         /\ \A r \in AlertsOf(s) :
                              \E i \in 1 .. Len(groups[s]) :
                                \E k \in 1 .. Len(groups[s][i]) : r = groups[s][i][k]
      OBVIOUS
    <2>1. IsAlerts(AlertsOf(s))
      BY AlertsAre DEF Inv
    <2>2. AreRuns(groups[s], AlertsOf(s)) /\ Covered(groups[s], AlertsOf(s))
      BY DEF GroupInv, GroupsOfAlerts
    <2>3. \A r \in AlertsOf(s) : ~Later(groups[s], r)
      BY UngroupedIs DEF GroupInv, EventsOfGroups
    <2>. QED
      BY <2>1, <2>2, <2>3 DEF Covered
  <1>2. ASSUME NEW s \in Series, NEW i \in 1 .. Len(groups[s])
        PROVE  LET g == groups[s][i] IN
               /\ g \in AllGroups /\ IsRun(g, AlertsOf(s))
               /\ Len(g) \in Nat /\ Len(g) >= 1 /\ g[1].start \in Nat
               /\ Last(g).start = g[1].start + (Len(g) - 1)
               /\ Event(g).series = s /\ Event(g).start = g[1].start
               /\ Event(g).end = g[1].start + Len(g) /\ Event(g).count = Len(g)
    <2>. DEFINE g == groups[s][i]
    <2>1. IsRun(g, AlertsOf(s)) /\ IsAlerts(AlertsOf(s))
      BY <1>1 DEF AreRuns
    <2>2. g \in AllGroups
      <3>1. DOMAIN groups[s] = 1 .. Len(groups[s])
        BY <1>1 DEF AreRuns, Listed
      <3>. QED
        BY <3>1 DEF AllGroups, Range
    <2>. HIDE DEF g
    <2>3. /\ Len(g) \in Nat /\ Len(g) >= 1 /\ g[1] \in AlertsOf(s) /\ g[1].start \in Nat
          /\ Last(g).start = g[1].start + (Len(g) - 1)
      BY <2>1, RunEnds
    <2>4. /\ Event(g).series = g[1].series /\ Event(g).start = g[1].start
          /\ Event(g).end = Last(g).start + 1 /\ Event(g).count = Len(g)
      BY DEF Event
    <2>5. g[1].series = s
      BY <2>3 DEF AlertsOf
    <2>6. Event(g).end = g[1].start + Len(g)
      BY <2>3, <2>4
    <2>. QED
      BY <2>1, <2>2, <2>3, <2>4, <2>5, <2>6 DEF g
  <1>3. \A e \in events : \E s \in Series : \E i \in 1 .. Len(groups[s]) : e = Event(groups[s][i])
    <2>1. \A g \in AllGroups : \E s \in Series : \E i \in 1 .. Len(groups[s]) : g = groups[s][i]
      <3>1. \A s \in Series : DOMAIN groups[s] = 1 .. Len(groups[s])
        BY <1>1 DEF AreRuns, Listed
      <3>. QED
        BY <3>1 DEF AllGroups, Range
    <2>. QED
      BY <2>1 DEF GroupInv, EventsOfGroups
  <1>4. ASSUME NEW s \in Series, NEW i \in 1 .. Len(groups[s]), NEW j \in 1 .. Len(groups[s]),
               i < j
        PROVE  Event(groups[s][i]).end < Event(groups[s][j]).start
    <2>1. Last(groups[s][i]).start + 1 < groups[s][j][1].start
      BY <1>1, <1>4 DEF AreRuns
    <2>2. /\ Event(groups[s][i]).end = groups[s][i][1].start + Len(groups[s][i])
          /\ Last(groups[s][i]).start = groups[s][i][1].start + (Len(groups[s][i]) - 1)
          /\ groups[s][i][1].start \in Nat /\ Len(groups[s][i]) \in Nat
      BY <1>2
    <2>3. Event(groups[s][j]).start = groups[s][j][1].start /\ groups[s][j][1].start \in Nat
      BY <1>2
    <2>. QED
      BY <2>1, <2>2, <2>3
  <1>5. ASSUME NEW d \in events, NEW e \in events, d # e, d.series = e.series
        PROVE  d.end < e.start \/ e.end < d.start
    <2>1. PICK s \in Series, i \in Nat : i \in 1 .. Len(groups[s]) /\ d = Event(groups[s][i])
      BY <1>3
    <2>2. PICK u \in Series, j \in Nat : j \in 1 .. Len(groups[u]) /\ e = Event(groups[u][j])
      BY <1>3
    <2>3. d.series = s /\ e.series = u
      BY <1>2, <2>1, <2>2
    <2>4. u = s /\ i # j
      BY <1>5, <2>1, <2>2, <2>3
    <2>5. i < j \/ j < i
      BY <2>4
    <2>. QED
      BY <1>4, <2>1, <2>2, <2>4, <2>5
  <1>6. ASSUME NEW e \in events
        PROVE  /\ e.count = e.end - e.start
               /\ \A p \in e.start .. (e.end - 1) :
                    \E r \in Anomalies : r.series = e.series /\ r.start = p
    <2>1. PICK s \in Series, i \in Nat : i \in 1 .. Len(groups[s]) /\ e = Event(groups[s][i])
      BY <1>3
    <2>. DEFINE g == groups[s][i]
    <2>2. /\ IsRun(g, AlertsOf(s)) /\ Len(g) \in Nat /\ g[1].start \in Nat
          /\ e.series = s /\ e.start = g[1].start
          /\ e.end = g[1].start + Len(g) /\ e.count = Len(g)
      BY <1>2, <2>1
    <2>. HIDE DEF g
    <2>3. ASSUME NEW p \in e.start .. (e.end - 1)
          PROVE  \E r \in Anomalies : r.series = e.series /\ r.start = p
      <3>. DEFINE k == p - g[1].start + 1
      <3>1. k \in 1 .. Len(g) /\ g[1].start + (k - 1) = p
        BY <2>2
      <3>2. g[k] \in AlertsOf(s) /\ g[k].start = g[1].start + (k - 1)
        BY <2>2, <3>1 DEF IsRun
      <3>. QED
        BY <2>2, <3>1, <3>2 DEF AlertsOf
    <2>. QED
      BY <2>2, <2>3
  <1>7. ASSUME NEW r \in Anomalies
        PROVE  Cardinality({e \in events :
                 e.series = r.series /\ r.start \in e.start .. (e.end - 1)}) = 1
    <2>1. r.series \in Series
      <3>1. r \in Rows
        BY DEF Anomalies
      <3>. QED
        BY <3>1, RowsAre DEF Inv, Keyed
    <2>. PICK s \in Series : s = r.series
      BY <2>1
    <2>. r \in AlertsOf(s)
      BY DEF AlertsOf
    <2>2. PICK i \in 1 .. Len(groups[s]) : \E k \in 1 .. Len(groups[s][i]) : r = groups[s][i][k]
      BY <1>1
    <2>. DEFINE g == groups[s][i]
                d == Event(g)
    <2>3. /\ g \in AllGroups /\ IsRun(g, AlertsOf(s)) /\ Len(g) \in Nat
          /\ g[1].start \in Nat /\ d.series = s /\ d.start = g[1].start
          /\ d.end = g[1].start + Len(g)
      BY <1>2, <2>1
    <2>4. d \in events
      BY <2>3 DEF GroupInv, EventsOfGroups
    <2>5. PICK k \in 1 .. Len(g) : r = g[k]
      BY <2>2
    <2>6. r.start = g[1].start + (k - 1)
      BY <2>3, <2>5 DEF IsRun
    <2>. HIDE DEF d, g
    <2>7. r.start \in d.start .. (d.end - 1) /\ d.start \in Int /\ d.end \in Int
          /\ r.start \in Int
      BY <2>3, <2>6
    <2>8. ASSUME NEW e \in events, e.series = s, r.start \in e.start .. (e.end - 1)
          PROVE  e = d
      <3>1. PICK u \in Series, j \in Nat : j \in 1 .. Len(groups[u]) /\ e = Event(groups[u][j])
        BY <1>3
      <3>2. e.start \in Int /\ e.end \in Int
        <4>1. /\ groups[u][j][1].start \in Nat /\ Len(groups[u][j]) \in Nat
              /\ e.start = groups[u][j][1].start
              /\ e.end = groups[u][j][1].start + Len(groups[u][j])
          BY <1>2, <3>1
        <4>. QED
          BY <4>1
      <3>3. e # d => e.end < d.start \/ d.end < e.start
        BY <1>5, <2>3, <2>4, <2>8
      <3>. QED
        BY <2>7, <2>8, <3>2, <3>3
    <2>9. {e \in events : e.series = r.series /\ r.start \in e.start .. (e.end - 1)} = {d}
      BY <2>3, <2>4, <2>7, <2>8
    <2>. QED
      BY <2>9, FS_Singleton
  <1>8. ASSUME NEW e \in events
        PROVE  e.start \in Nat /\ e.end \in Nat /\ e.start < e.end
    <2>1. PICK s \in Series, i \in Nat : i \in 1 .. Len(groups[s]) /\ e = Event(groups[s][i])
      BY <1>3
    <2>2. /\ Len(groups[s][i]) \in Nat /\ Len(groups[s][i]) >= 1 /\ groups[s][i][1].start \in Nat
          /\ e.start = groups[s][i][1].start
          /\ e.end = groups[s][i][1].start + Len(groups[s][i])
      BY <1>2, <2>1
    <2>. QED
      BY <2>2
  <1>. QED
    BY <1>5, <1>6, <1>7, <1>8

-----------------------------------------------------------------------------
(* Medians.                                                                 *)

IsPoints(P) == IsFiniteSet(P) /\ \A h \in P : h.period \in Nat /\ h.value \in Nat

\* The k-th smallest of at least k points is one of their values.
LEMMA SmallestIs ==
    ASSUME NEW P, IsPoints(P), P # {}, NEW k \in Nat, k <= Cardinality(P)
    PROVE  Smallest(P, k) \in Nat
  <1>. DEFINE V == {h.value : h \in P}
              f == [h \in P |-> h.value]
              Q == {x \in P : Cardinality({y \in P : y.value <= x.value}) >= k}
              W == {h.value : h \in Q}
  <1>1. f \in Surjection(P, V)
    BY DEF Surjection
  <1>2. IsFiniteSet(V) /\ V \subseteq Int /\ V # {}
    BY <1>1, FS_Surjection DEF IsPoints
  <1>3. Max(V) \in V /\ \A y \in V : Max(V) >= y
    BY <1>2, MaxOfFinite
  <1>4. PICK h \in P : Max(V) = h.value
    BY <1>3
  <1>5. {y \in P : y.value <= h.value} = P
    BY <1>2, <1>3, <1>4
  <1>6. h \in Q /\ Q \subseteq P
    BY <1>5, FS_CardinalityType DEF IsPoints
  <1>7. W \subseteq Nat /\ W # {}
    BY <1>6 DEF IsPoints
  <1>8. Min(W) \in W
    BY <1>7, MinOfNaturals
  <1>9. Smallest(P, k) = Min(W)
    BY DEF Smallest
  <1>. QED
    BY <1>7, <1>8, <1>9

LEMMA MedianIs ==
    ASSUME NEW P, IsPoints(P), P # {}
    PROVE  TwiceMedian(P) \in Nat
  <1>. DEFINE n == Cardinality(P)
  <1>1. n \in Nat /\ n # 0
    BY FS_CardinalityType, FS_EmptySet DEF IsPoints
  <1>. HIDE DEF n
  <1>2. /\ (n + 1) \div 2 \in Nat /\ (n + 1) \div 2 <= n
        /\ n \div 2 + 1 \in Nat /\ (n \div 2 + 1 <= n \/ n = 1)
    BY <1>1
  <1>3. (n + 1) \div 2 <= n /\ n \div 2 + 1 <= n
    BY <1>1, <1>2
  <1>4. Smallest(P, (n + 1) \div 2) \in Nat /\ Smallest(P, n \div 2 + 1) \in Nat
    BY <1>1, <1>2, <1>3, SmallestIs DEF n
  <1>. QED
    BY <1>4 DEF TwiceMedian, n

-----------------------------------------------------------------------------
(* The largest sum that ends in the last row.                               *)

\* Sums since a row are integers.
LEMMA SinceIs ==
    ASSUME NEW e \in Seq(Int)
    PROVE  /\ Total(e) \in Int
           /\ \A i \in 1 .. Len(e) : Since(e, i) \in Int
  <1>1. SumsTo(RunningSum(e), e, Len(e)) /\ Len(e) \in Nat
    BY RunningSumIs
  <1>2. Total(e) \in Int
    BY <1>1 DEF SumsTo, Total
  <1>3. \A i \in 1 .. Len(e) : RunningSum(e)[i - 1] \in Int
    <2>1. \A i \in 1 .. Len(e) : i - 1 \in 0 .. Len(e)
      BY <1>1
    <2>. QED
      BY <1>1, <2>1 DEF SumsTo
  <1>. QED
    BY <1>2, <1>3 DEF Since

\* Best is a bound of the sums, and one of them unless it is zero.
LEMMA BestIs ==
    ASSUME NEW e \in Seq(Int), NEW L, L \subseteq 1 .. Len(e)
    PROVE  /\ Best(e, L) \in Nat
           /\ \A i \in L : Since(e, i) <= Best(e, L)
           /\ Best(e, L) = 0 \/ \E i \in L : Since(e, i) = Best(e, L)
  <1>. DEFINE V == {Since(e, i) : i \in L}
              f == [i \in L |-> Since(e, i)]
  <1>1. f \in Surjection(L, V)
    BY DEF Surjection
  <1>2. IsFiniteSet(L)
    <2>1. IsFiniteSet(1 .. Len(e))
      BY FS_Interval
    <2>. QED
      BY <2>1, FS_Subset
  <1>3. IsFiniteSet(V)
    BY <1>1, <1>2, FS_Surjection
  <1>4. IsFiniteSet({0} \cup V) /\ {0} \cup V \subseteq Int /\ {0} \cup V # {}
    <2>1. {0} \cup V = V \cup {0}
      OBVIOUS
    <2>2. V \subseteq Int
      BY SinceIs
    <2>. QED
      BY <1>3, <2>1, <2>2, FS_AddElement
  <1>5. Best(e, L) = Max({0} \cup V)
    BY DEF Best
  <1>6. Best(e, L) \in {0} \cup V /\ \A y \in {0} \cup V : Best(e, L) >= y
    BY <1>4, <1>5, MaxOfFinite
  <1>7. Best(e, L) \in Int /\ Best(e, L) >= 0
    BY <1>4, <1>6
  <1>8. \A i \in L : Since(e, i) \in Int /\ Best(e, L) >= Since(e, i)
    BY <1>6, SinceIs
  <1>. QED
    BY <1>6, <1>7, <1>8

\* These two facts determine it.
LEMMA BestUnique ==
    ASSUME NEW e \in Seq(Int), NEW L, L \subseteq 1 .. Len(e), NEW b \in Nat,
           \A i \in L : Since(e, i) <= b, b = 0 \/ \E i \in L : Since(e, i) = b
    PROVE  Best(e, L) = b
  <1>1. /\ Best(e, L) \in Nat
        /\ \A i \in L : Since(e, i) <= Best(e, L)
        /\ Best(e, L) = 0 \/ \E i \in L : Since(e, i) = Best(e, L)
    BY BestIs
  <1>2. b <= Best(e, L)
    BY <1>1
  <1>3. Best(e, L) <= b
    BY <1>1
  <1>. QED
    BY <1>1, <1>2, <1>3

\* Where the largest sum is positive, its latest start is the greatest.
LEMMA StartIs ==
    ASSUME NEW e \in Seq(Int), NEW L, L \subseteq 1 .. Len(e), Best(e, L) > 0
    PROVE  /\ StartOfBest(e, L) \in L
           /\ Since(e, StartOfBest(e, L)) = Best(e, L)
           /\ \A i \in L : Since(e, i) = Best(e, L) => i <= StartOfBest(e, L)
  <1>. DEFINE S == {i \in L : Since(e, i) = Best(e, L)}
  <1>1. S # {}
    <2>1. /\ Best(e, L) \in Nat
          /\ Best(e, L) = 0 \/ \E i \in L : Since(e, i) = Best(e, L)
      BY BestIs
    <2>2. PICK i \in L : Since(e, i) = Best(e, L)
      BY <2>1
    <2>. QED
      BY <2>2
  <1>2. S \subseteq Nat /\ Len(e) \in Nat /\ \A y \in S : y <= Len(e)
    <2>1. Len(e) \in Nat /\ S \subseteq L
      OBVIOUS
    <2>2. \A y \in 1 .. Len(e) : y \in Nat /\ y <= Len(e)
      BY <2>1
    <2>3. S \subseteq 1 .. Len(e)
      BY <2>1
    <2>. HIDE DEF S
    <2>. QED
      BY <2>1, <2>2, <2>3
  <1>3. Max(S) \in S /\ \A y \in S : Max(S) >= y
    BY <1>1, <1>2, MaxOfNaturals
  <1>. QED
    BY <1>2, <1>3 DEF StartOfBest

LEMMA StartUnique ==
    ASSUME NEW e \in Seq(Int), NEW L, L \subseteq 1 .. Len(e), Best(e, L) > 0,
           NEW j \in L, Since(e, j) = Best(e, L),
           \A i \in L : Since(e, i) = Best(e, L) => i <= j
    PROVE  StartOfBest(e, L) = j
  <1>1. /\ StartOfBest(e, L) \in L
        /\ j <= StartOfBest(e, L) /\ StartOfBest(e, L) <= j
    BY StartIs
  <1>2. Len(e) \in Nat
    OBVIOUS
  <1>3. j \in 1 .. Len(e) /\ StartOfBest(e, L) \in 1 .. Len(e)
    BY <1>1
  <1>4. j \in Int /\ StartOfBest(e, L) \in Int
    BY <1>2, <1>3
  <1>. QED
    BY <1>1, <1>4

\* A step of a dead row changes nothing.
LEMMA DeadStep ==
    ASSUME NEW e \in Seq(Int), NEW L, L \subseteq 1 .. Len(e)
    PROVE  /\ Best(Append(e, 0), L) = Best(e, L)
           /\ StartOfBest(Append(e, 0), L) = StartOfBest(e, L)
  <1>1. ASSUME NEW i \in L PROVE Since(Append(e, 0), i) = Since(e, i)
    <2>1. i - 1 \in 0 .. Len(e)
      OBVIOUS
    <2>2. Total(e) \in Int
      BY SinceIs
    <2>3. Total(Append(e, 0)) = Total(e) + 0
          /\ RunningSum(Append(e, 0))[i - 1] = RunningSum(e)[i - 1]
      <3>1. 0 \in Int
        OBVIOUS
      <3>. QED
        BY <2>1, <3>1, RunningSumAppend
    <2>. QED
      BY <2>2, <2>3 DEF Since
  <1>2. {Since(Append(e, 0), i) : i \in L} = {Since(e, i) : i \in L}
    BY <1>1
  <1>3. Best(Append(e, 0), L) = Best(e, L)
    BY <1>2 DEF Best
  <1>4. {i \in L : Since(Append(e, 0), i) = Best(Append(e, 0), L)}
          = {i \in L : Since(e, i) = Best(e, L)}
    BY <1>1, <1>3
  <1>. QED
    BY <1>3, <1>4 DEF StartOfBest

\* A step of a live row: the sum is carried on, or begins anew with the row.
LEMMA LiveStep ==
    ASSUME NEW e \in Seq(Int), NEW L, L \subseteq 1 .. Len(e), NEW x \in Int
    PROVE  LET n == Len(e)
               b == Best(e, L)
               f == Append(e, x)
               M == L \cup {n + 1}
           IN  /\ f \in Seq(Int) /\ M \subseteq 1 .. Len(f)
               /\ Best(f, M) = IF b + x >= 0 THEN b + x ELSE 0
               /\ b + x > 0 => StartOfBest(f, M) = IF b = 0 THEN n + 1 ELSE StartOfBest(e, L)
  <1>. DEFINE n == Len(e)
              b == Best(e, L)
              f == Append(e, x)
              M == L \cup {n + 1}
              c == IF b + x >= 0 THEN b + x ELSE 0
  <1>1. n \in Nat /\ f \in Seq(Int) /\ Len(f) = n + 1 /\ M \subseteq 1 .. Len(f)
    <2>1. n \in Nat /\ f \in Seq(Int) /\ Len(f) = n + 1
      OBVIOUS
    <2>. HIDE DEF f
    <2>2. \A i \in 1 .. n : i \in 1 .. (n + 1)
      BY <2>1
    <2>3. n + 1 \in 1 .. (n + 1) /\ L \subseteq 1 .. n
      BY <2>1
    <2>. HIDE DEF n
    <2>. QED
      BY <2>1, <2>2, <2>3
  <1>2. /\ b \in Nat /\ (\A i \in L : Since(e, i) \in Int /\ Since(e, i) <= b)
        /\ b = 0 \/ \E i \in L : Since(e, i) = b
    BY BestIs, SinceIs
  <1>3. ASSUME NEW i \in L PROVE Since(f, i) = Since(e, i) + x
    <2>1. i - 1 \in 0 .. n
      OBVIOUS
    <2>2. Total(f) = Total(e) + x /\ Total(e) \in Int
          /\ RunningSum(f)[i - 1] = RunningSum(e)[i - 1]
      BY <2>1, RunningSumAppend, SinceIs
    <2>3. RunningSum(e)[i - 1] \in Int
      <3>1. SumsTo(RunningSum(e), e, n)
        BY RunningSumIs
      <3>. QED
        BY <2>1, <3>1 DEF SumsTo
    <2>. HIDE DEF f
    <2>. QED
      BY <2>2, <2>3 DEF Since
  <1>4. Since(f, n + 1) = x
    <2>1. n \in 0 .. n /\ (n + 1) - 1 = n
      BY <1>1
    <2>2. Total(f) = Total(e) + x /\ Total(e) \in Int
          /\ RunningSum(f)[n] = RunningSum(e)[n]
      BY <2>1, RunningSumAppend, SinceIs
    <2>3. Total(e) = RunningSum(e)[n]
      BY DEF Total
    <2>. HIDE DEF f
    <2>. QED
      BY <2>1, <2>2, <2>3 DEF Since
  <1>. HIDE DEF b, f, n
  <1>5. n + 1 \notin L
    BY <1>1 DEF n
  <1>6. c \in Nat
    BY <1>2
  <1>7. \A i \in M : Since(f, i) <= c
    BY <1>2, <1>3, <1>4
  <1>8. c = 0 \/ \E i \in M : Since(f, i) = c
    <2>1. CASE b = 0
      <3>1. c = 0 \/ c = x
        BY <2>1
      <3>. QED
        BY <1>4, <3>1
    <2>2. CASE b # 0
      <3>1. PICK i \in L : Since(e, i) = b
        BY <1>2, <2>2
      <3>2. i \in M /\ Since(f, i) = b + x
        BY <1>3, <3>1
      <3>. QED
        BY <3>2
    <2>. QED
      BY <2>1, <2>2
  <1>9. Best(f, M) = c
    <2>. HIDE DEF M, c
    <2>. QED
      BY <1>1, <1>6, <1>7, <1>8, BestUnique
  <1>10. ASSUME b + x > 0
         PROVE  StartOfBest(f, M) = IF b = 0 THEN n + 1 ELSE StartOfBest(e, L)
    <2>1. c = b + x /\ c > 0
      BY <1>2, <1>10
    <2>2. CASE b = 0
      <3>1. Since(f, n + 1) = c /\ n + 1 \in M
        BY <1>2, <1>4, <2>1, <2>2
      <3>2. \A i \in M : i <= n + 1
        BY <1>1 DEF n
      <3>. HIDE DEF M, c
      <3>. QED
        BY <1>1, <1>9, <2>1, <2>2, <3>1, <3>2, StartUnique
    <2>3. CASE b # 0
      <3>. DEFINE j == StartOfBest(e, L)
      <3>1. j \in L /\ Since(e, j) = b /\ \A i \in L : Since(e, i) = b => i <= j
        <4>1. Best(e, L) > 0
          BY <1>2, <2>3 DEF b
        <4>. QED
          BY <4>1, StartIs DEF b
      <3>2. j \in M /\ Since(f, j) = c
        BY <1>3, <2>1, <3>1
      <3>3. \A i \in M : Since(f, i) = c => i <= j
        <4>1. Since(f, n + 1) # c
          BY <1>2, <1>4, <2>1, <2>3
        <4>2. \A i \in L : Since(f, i) = c => Since(e, i) = b
          BY <1>2, <1>3, <2>1
        <4>. QED
          BY <3>1, <4>1, <4>2
      <3>. HIDE DEF M, c, j
      <3>4. StartOfBest(f, M) = j
        BY <1>1, <1>9, <2>1, <3>2, <3>3, StartUnique
      <3>. QED
        BY <2>3, <3>4 DEF j
    <2>. QED
      BY <2>2, <2>3
  <1>. QED
    BY <1>1, <1>9, <1>10 DEF b, f, n

-----------------------------------------------------------------------------
(* The CUSUM sums of a series.                                              *)

\* The rows of a sequence that moved the sums, and by what.
LiveIn(q) == {i \in DOMAIN q : q[i].p # None}
StepsIn(q, sign) == [i \in DOMAIN q |-> IF q[i].p = None THEN 0
                                        ELSE sign * q[i].z - Config.drift]

\* What ChangePointsAreCrossings says of the last row that moved them.
Reported(q) ==
    LET live   == LiveIn(q)
        n      == Max(live)
        r      == q[n]
        up     == Best(StepsIn(q, 1), live)
        down   == Best(StepsIn(q, -1), live)
        sign   == IF up >= down THEN 1 ELSE -1
        before == IF live = {n} THEN 0 ELSE q[Max(live \ {n})].cusum
    IN  /\ r.cusum = Max({up, down})
        /\ r.changed <=> r.cusum >= Config.cusumThreshold /\ before < Config.cusumThreshold
        /\ r.changed => /\ r.changeStart = q[StartOfBest(StepsIn(q, sign), live)].start
                        /\ r.direction = IF sign = 1 THEN "increase" ELSE "decrease"

\* One carried sum, with the start of the run it sums up.
SumOf(q, sign, sum, start) ==
    LET live == LiveIn(q)
        best == Best(StepsIn(q, sign), live)
    IN  /\ StepsIn(q, sign) \in Seq(Int)
        /\ sum = best
        /\ best > 0 => start = q[StartOfBest(StepsIn(q, sign), live)].start

\* The carried CUSUM state of the rows so far.
SumsOf(q, c) ==
    /\ SumOf(q, 1, c.up, c.upStart) /\ SumOf(q, -1, c.down, c.downStart)
    /\ c.above <=> Max({c.up, c.down}) >= Config.cusumThreshold
    /\ LiveIn(q) # {} => Reported(q)

\* The rows that moved the sums are finitely many.
LEMMA LiveIs ==
    ASSUME NEW q, Listed(q)
    PROVE  /\ Len(q) \in Nat /\ DOMAIN q = 1 .. Len(q) /\ LiveIn(q) \subseteq 1 .. Len(q)
           /\ \A sign : Len(StepsIn(q, sign)) = Len(q) /\ DOMAIN StepsIn(q, sign) = 1 .. Len(q)
           /\ \A live \in SUBSET LiveIn(q) :
                live # {} => Max(live) \in live /\ \A i \in live : Max(live) >= i
  <1>1. Len(q) \in Nat /\ DOMAIN q = 1 .. Len(q)
    BY DEF Listed
  <1>2. LiveIn(q) \subseteq 1 .. Len(q)
    BY <1>1 DEF LiveIn
  <1>3. ASSUME NEW sign
        PROVE  Len(StepsIn(q, sign)) = Len(q) /\ DOMAIN StepsIn(q, sign) = 1 .. Len(q)
    BY <1>1 DEF StepsIn
  <1>4. ASSUME NEW live \in SUBSET LiveIn(q), live # {}
        PROVE  Max(live) \in live /\ \A i \in live : Max(live) >= i
    <2>1. live \subseteq Nat /\ \A i \in live : i <= Len(q)
      BY <1>1, <1>2
    <2>. QED
      BY <1>1, <1>4, <2>1, MaxOfNaturals
  <1>. QED
    BY <1>1, <1>2, <1>3, <1>4

\* What a row more does to the rows that moved the sums.
LEMMA RowMore ==
    ASSUME NEW q, Listed(q), NEW r
    PROVE  LET n == Len(q)
           IN  /\ Listed(Append(q, r)) /\ Len(Append(q, r)) = n + 1
               /\ Append(q, r)[n + 1] = r /\ \A i \in 1 .. n : Append(q, r)[i] = q[i]
               /\ LiveIn(Append(q, r)) = IF r.p = None THEN LiveIn(q) ELSE LiveIn(q) \cup {n + 1}
  <1>. DEFINE n == Len(q)
              h == Append(q, r)
  <1>1. PICK S : q \in Seq(S)
    BY DEF Listed
  <1>2. q \in Seq(S \cup {r})
    BY <1>1
  <1>3. /\ h \in Seq(S \cup {r}) /\ Len(h) = n + 1 /\ n \in Nat /\ h[n + 1] = r
        /\ \A i \in 1 .. n : h[i] = q[i]
    BY <1>2
  <1>4. DOMAIN h = 1 .. (n + 1) /\ DOMAIN q = 1 .. n
    BY <1>2, <1>3
  <1>. HIDE DEF h
  <1>5. LiveIn(h) = IF r.p = None THEN LiveIn(q) ELSE LiveIn(q) \cup {n + 1}
    <2>1. \A i : i \in 1 .. (n + 1) <=> i \in 1 .. n \/ i = n + 1
      BY <1>3
    <2>. QED
      BY <1>3, <1>4, <2>1 DEF LiveIn
  <1>. QED
    BY <1>3, <1>5 DEF Listed, h

\* What it does to their steps.
LEMMA StepMore ==
    ASSUME NEW q, Listed(q), NEW r, NEW sign,
           StepsIn(q, sign) \in Seq(Int)
    PROVE  LET step == IF r.p = None THEN 0 ELSE sign * r.z - Config.drift
           IN  StepsIn(Append(q, r), sign) = Append(StepsIn(q, sign), step)
  <1>. DEFINE n == Len(q)
              step == IF r.p = None THEN 0 ELSE sign * r.z - Config.drift
              h == Append(q, r)
              e == StepsIn(q, sign)
  <1>1. /\ Listed(h) /\ Len(h) = n + 1 /\ h[n + 1] = r
        /\ \A i \in 1 .. n : h[i] = q[i]
    BY RowMore
  <1>2. n \in Nat /\ DOMAIN q = 1 .. n /\ Len(e) = n /\ DOMAIN e = 1 .. n
    BY LiveIs
  <1>. HIDE DEF h
  <1>3. DOMAIN h = 1 .. (n + 1)
    BY <1>1, LiveIs
  <1>4. \A i \in 1 .. (n + 1) : i \in 1 .. n \/ i = n + 1
    BY <1>2
  <1>5. \A i \in 1 .. n : e[i] = IF q[i].p = None THEN 0 ELSE sign * q[i].z - Config.drift
    BY <1>2 DEF StepsIn
  <1>6. Append(e, step) = [i \in 1 .. (n + 1) |-> IF i = n + 1 THEN step ELSE e[i]]
    <2>1. e \in Seq(Int \cup {step})
      OBVIOUS
    <2>. HIDE DEF step, e
    <2>. DEFINE k == Append(e, step)
    <2>2. /\ k \in Seq(Int \cup {step}) /\ Len(k) = n + 1 /\ k[n + 1] = step
          /\ \A i \in 1 .. n : k[i] = e[i]
      BY <1>2, <2>1
    <2>. HIDE DEF k
    <2>3. k = [i \in 1 .. (n + 1) |-> k[i]]
      BY <2>2
    <2>4. \A i \in 1 .. (n + 1) : k[i] = IF i = n + 1 THEN step ELSE e[i]
      BY <1>4, <2>2
    <2>5. k = [i \in 1 .. (n + 1) |-> IF i = n + 1 THEN step ELSE e[i]]
      BY <2>3, <2>4
    <2>. QED
      BY <2>5 DEF k
  <1>7. StepsIn(h, sign) = [i \in 1 .. (n + 1) |-> IF i = n + 1 THEN step ELSE e[i]]
    <2>1. \A i \in 1 .. (n + 1) :
            (IF h[i].p = None THEN 0 ELSE sign * h[i].z - Config.drift)
              = IF i = n + 1 THEN step ELSE e[i]
      BY <1>1, <1>4, <1>5
    <2>2. StepsIn(h, sign) = [i \in 1 .. (n + 1) |->
            IF h[i].p = None THEN 0 ELSE sign * h[i].z - Config.drift]
      BY <1>3 DEF StepsIn
    <2>. HIDE DEF step, e
    <2>. QED
      BY <2>1, <2>2
  <1>. QED
    BY <1>6, <1>7 DEF h

\* A row that is not eligible leaves a sum alone.
LEMMA SumDead ==
    ASSUME NEW q, Listed(q), NEW r, r.p = None, NEW sign, NEW sum, NEW start,
           SumOf(q, sign, sum, start)
    PROVE  /\ SumOf(Append(q, r), sign, sum, start)
           /\ Best(StepsIn(Append(q, r), sign), LiveIn(Append(q, r)))
                = Best(StepsIn(q, sign), LiveIn(q))
           /\ StartOfBest(StepsIn(Append(q, r), sign), LiveIn(Append(q, r)))
                = StartOfBest(StepsIn(q, sign), LiveIn(q))
  <1>. DEFINE h == Append(q, r)
              e == StepsIn(q, sign)
              L == LiveIn(q)
  <1>1. e \in Seq(Int) /\ L \subseteq 1 .. Len(e) /\ Len(e) = Len(q) /\ Len(q) \in Nat
    BY LiveIs DEF SumOf
  <1>2. LiveIn(h) = L /\ StepsIn(h, sign) = Append(e, 0)
        /\ \A i \in 1 .. Len(q) : h[i] = q[i]
    BY <1>1, RowMore, StepMore
  <1>3. Append(e, 0) \in Seq(Int)
    BY <1>1
  <1>. HIDE DEF h, e, L
  <1>4. Best(Append(e, 0), L) = Best(e, L) /\ StartOfBest(Append(e, 0), L) = StartOfBest(e, L)
    BY <1>1, DeadStep
  <1>5. Best(e, L) > 0 => StartOfBest(e, L) \in 1 .. Len(q)
    BY <1>1, StartIs
  <1>6. /\ sum = Best(e, L)
        /\ Best(e, L) > 0 => start = q[StartOfBest(e, L)].start
    BY DEF SumOf, e, L
  <1>7. SumOf(h, sign, sum, start)
    BY <1>2, <1>3, <1>4, <1>5, <1>6 DEF SumOf
  <1>. QED
    BY <1>2, <1>4, <1>7 DEF h, e, L

\* A row that is eligible carries the sum on or begins it anew.
LEMMA SumLive ==
    ASSUME NEW q, Listed(q), NEW r, r.p # None, r.z \in Int, NEW sign \in {1, -1},
           NEW sum, NEW start, SumOf(q, sign, sum, start)
    PROVE  /\ sum \in Nat /\ sign * r.z - Config.drift \in Int
           /\ SumOf(Append(q, r), sign, Max({0, sum + (sign * r.z - Config.drift)}),
                    IF sum <= 0 THEN r.start ELSE start)
  <1>. DEFINE h == Append(q, r)
              e == StepsIn(q, sign)
              L == LiveIn(q)
              x == sign * r.z - Config.drift
              n == Len(q)
  <1>1. e \in Seq(Int) /\ L \subseteq 1 .. Len(e) /\ Len(e) = n /\ n \in Nat
    BY LiveIs DEF SumOf
  <1>2. x \in Int
    BY ConfigAssumption DEF ConfigAssumption
  <1>3. LiveIn(h) = L \cup {n + 1} /\ StepsIn(h, sign) = Append(e, x)
        /\ h[n + 1] = r /\ \A i \in 1 .. n : h[i] = q[i]
    BY <1>1, RowMore, StepMore
  <1>4. /\ sum = Best(e, L)
        /\ Best(e, L) > 0 => start = q[StartOfBest(e, L)].start
    BY DEF SumOf
  <1>. HIDE DEF h, e, L, x, n
  <1>5. sum \in Nat
    BY <1>1, <1>4, BestIs
  <1>6. /\ Append(e, x) \in Seq(Int)
        /\ Best(Append(e, x), L \cup {n + 1}) = IF sum + x >= 0 THEN sum + x ELSE 0
        /\ sum + x > 0 => StartOfBest(Append(e, x), L \cup {n + 1})
                            = IF sum = 0 THEN n + 1 ELSE StartOfBest(e, L)
    <2>1. LET f == Append(e, x)
              M == L \cup {Len(e) + 1}
              b == Best(e, L)
          IN  /\ f \in Seq(Int) /\ M \subseteq 1 .. Len(f)
              /\ Best(f, M) = IF b + x >= 0 THEN b + x ELSE 0
              /\ b + x > 0 => StartOfBest(f, M) = IF b = 0 THEN Len(e) + 1
                                                          ELSE StartOfBest(e, L)
      BY <1>1, <1>2, LiveStep
    <2>. QED
      BY <1>1, <1>4, <2>1
  <1>7. Max({0, sum + x}) = IF sum + x >= 0 THEN sum + x ELSE 0
    <2>1. sum + x \in Int /\ 0 \in Int
      BY <1>2, <1>5
    <2>2. Max({0, sum + x}) = IF 0 >= sum + x THEN 0 ELSE sum + x
      BY <2>1, MaxOfTwo
    <2>. QED
      BY <2>1, <2>2
  <1>8. ASSUME Best(Append(e, x), L \cup {n + 1}) > 0
        PROVE  (IF sum <= 0 THEN r.start ELSE start)
                 = h[StartOfBest(Append(e, x), L \cup {n + 1})].start
    <2>1. sum + x > 0
      BY <1>2, <1>5, <1>6, <1>8
    <2>2. CASE sum = 0
      BY <1>3, <1>6, <2>1, <2>2
    <2>3. CASE sum # 0
      <3>1. sum > 0 /\ ~(sum <= 0)
        BY <1>5, <2>3
      <3>2. StartOfBest(e, L) \in 1 .. n /\ start = q[StartOfBest(e, L)].start
        BY <1>1, <1>4, <3>1, StartIs
      <3>. QED
        BY <1>3, <1>6, <2>1, <2>3, <3>1, <3>2
    <2>. QED
      BY <2>2, <2>3
  <1>9. SumOf(h, sign, Max({0, sum + x}), IF sum <= 0 THEN r.start ELSE start)
    BY <1>3, <1>6, <1>7, <1>8 DEF SumOf
  <1>. QED
    BY <1>2, <1>5, <1>9 DEF h, x

\* A row that is not eligible leaves the state alone.
LEMMA SumsDead ==
    ASSUME NEW q, Listed(q), NEW c, SumsOf(q, c), NEW r, r.p = None
    PROVE  SumsOf(Append(q, r), c)
  <1>. DEFINE h == Append(q, r)
              L == LiveIn(q)
              up == Best(StepsIn(q, 1), L)
              down == Best(StepsIn(q, -1), L)
  <1>1. /\ SumOf(h, 1, c.up, c.upStart)
        /\ Best(StepsIn(h, 1), LiveIn(h)) = up
        /\ StartOfBest(StepsIn(h, 1), LiveIn(h)) = StartOfBest(StepsIn(q, 1), L)
    BY SumDead DEF SumsOf
  <1>2. /\ SumOf(h, -1, c.down, c.downStart)
        /\ Best(StepsIn(h, -1), LiveIn(h)) = down
        /\ StartOfBest(StepsIn(h, -1), LiveIn(h)) = StartOfBest(StepsIn(q, -1), L)
    BY SumDead DEF SumsOf
  <1>3. LiveIn(h) = L /\ \A i \in 1 .. Len(q) : h[i] = q[i]
    BY RowMore
  <1>4. ASSUME L # {} PROVE Reported(h)
    <2>. DEFINE n == Max(L)
                sign == IF up >= down THEN 1 ELSE -1
                start == StartOfBest(StepsIn(q, sign), L)
    <2>1. Reported(q)
      BY <1>4 DEF SumsOf
    <2>2. n \in L /\ n \in 1 .. Len(q) /\ L \subseteq 1 .. Len(q)
      BY <1>4, LiveIs
    <2>3. h[n] = q[n]
      BY <1>3, <2>2
    <2>4. L # {n} => h[Max(L \ {n})] = q[Max(L \ {n})]
      <3>. SUFFICES ASSUME L # {n} PROVE h[Max(L \ {n})] = q[Max(L \ {n})]
        OBVIOUS
      <3>1. L \ {n} \in SUBSET L /\ L \ {n} # {}
        BY <2>2
      <3>2. Max(L \ {n}) \in L \ {n}
        BY <3>1, LiveIs
      <3>. QED
        BY <1>3, <2>2, <3>2
    <2>5. up \in Nat /\ down \in Nat
      BY LiveIs, BestIs DEF SumsOf, SumOf
    <2>6. q[n].changed => h[start] = q[start]
      <3>. SUFFICES ASSUME q[n].changed PROVE h[start] = q[start]
        OBVIOUS
      <3>1. q[n].cusum = Max({up, down}) /\ q[n].cusum >= Config.cusumThreshold
        BY <2>1 DEF Reported
      <3>2. Max({up, down}) = IF up >= down THEN up ELSE down
        BY <2>5, MaxOfTwo
      <3>3. Config.cusumThreshold \in Nat /\ Config.cusumThreshold > 0
        BY ConfigAssumption DEF ConfigAssumption
      <3>4. sign \in {1, -1} /\ Best(StepsIn(q, sign), L) = IF up >= down THEN up ELSE down
        OBVIOUS
      <3>5. Best(StepsIn(q, sign), L) > 0
        <4>. HIDE DEF up, down, sign
        <4>. QED
          BY <2>5, <3>1, <3>2, <3>3, <3>4
      <3>6. StepsIn(q, sign) \in Seq(Int) /\ L \subseteq 1 .. Len(StepsIn(q, sign))
        BY LiveIs, <3>4 DEF SumsOf, SumOf
      <3>7. start \in L
        BY <3>5, <3>6, StartIs
      <3>. QED
        BY <1>3, <2>2, <3>7
    <2>7. /\ q[n].cusum = Max({up, down})
          /\ q[n].changed <=>
               /\ q[n].cusum >= Config.cusumThreshold
               /\ (IF L = {n} THEN 0 ELSE q[Max(L \ {n})].cusum) < Config.cusumThreshold
          /\ q[n].changed =>
               /\ q[n].changeStart = q[start].start
               /\ q[n].direction = IF sign = 1 THEN "increase" ELSE "decrease"
      BY <2>1 DEF Reported
    <2>8. StartOfBest(StepsIn(h, sign), L) = start
      BY <1>1, <1>2, <1>3
    <2>9. /\ Best(StepsIn(h, 1), LiveIn(h)) = up /\ Best(StepsIn(h, -1), LiveIn(h)) = down
          /\ LiveIn(h) = L
      BY <1>1, <1>2, <1>3
    <2>10. (IF L = {n} THEN 0 ELSE h[Max(L \ {n})].cusum)
             = IF L = {n} THEN 0 ELSE q[Max(L \ {n})].cusum
      BY <2>4
    <2>11. q[n].changed => h[start].start = q[start].start
      BY <2>6
    <2>. HIDE DEF h, L, up, down, n, start
    <2>12. LET live == L
               r1 == h[n]
               before == IF L = {n} THEN 0 ELSE h[Max(L \ {n})].cusum
           IN  /\ r1.cusum = Max({up, down})
               /\ r1.changed <=> r1.cusum >= Config.cusumThreshold
                                 /\ before < Config.cusumThreshold
               /\ r1.changed => /\ r1.changeStart = h[start].start
                                /\ r1.direction = IF sign = 1 THEN "increase" ELSE "decrease"
      BY <2>3, <2>7, <2>10, <2>11
    <2>. QED
      BY <2>8, <2>9, <2>12 DEF Reported, n
  <1>. QED
    BY <1>1, <1>2, <1>3, <1>4 DEF SumsOf

\* A row that is eligible moves the state on, and reports what it should.
LEMMA SumsLive ==
    ASSUME NEW q, Listed(q), NEW c, SumsOf(q, c), NEW r, r.p # None, r.z \in Int,
           NEW d, d = UpdateCusum(c, r.z, r.start),
           r.cusum = Max({d.up, d.down}), r.changed <=> d.above /\ ~c.above,
           r.changed => r.changeStart = IF d.up >= d.down THEN d.upStart ELSE d.downStart,
           r.direction = Direction(r.z)
    PROVE  SumsOf(Append(q, r), d)
  <1>. DEFINE h == Append(q, r)
              L == LiveIn(q)
              n == Len(q) + 1
              T == Config.cusumThreshold
  <1>1. /\ d.up = Max({0, c.up + r.z - Config.drift})
        /\ d.down = Max({0, c.down - r.z - Config.drift})
        /\ d.upStart = IF c.up <= 0 THEN r.start ELSE c.upStart
        /\ d.downStart = IF c.down <= 0 THEN r.start ELSE c.downStart
        /\ d.above <=> Max({d.up, d.down}) >= T
    BY DEF UpdateCusum
  <1>2. c.up \in Nat /\ SumOf(h, 1, Max({0, c.up + (1 * r.z - Config.drift)}), d.upStart)
    BY <1>1, SumLive DEF SumsOf
  <1>3. c.down \in Nat /\ SumOf(h, -1, Max({0, c.down + ((-1) * r.z - Config.drift)}), d.downStart)
    BY <1>1, SumLive DEF SumsOf
  <1>4. Config.drift \in Nat \ {0} /\ T \in Nat \ {0}
    BY ConfigAssumption DEF ConfigAssumption
  <1>. HIDE DEF h, L, n, T
  <1>5. /\ c.up + (1 * r.z - Config.drift) = c.up + r.z - Config.drift
        /\ c.down + ((-1) * r.z - Config.drift) = c.down - r.z - Config.drift
    BY <1>2, <1>3, <1>4
  <1>6. SumOf(h, 1, d.up, d.upStart) /\ SumOf(h, -1, d.down, d.downStart)
    BY <1>1, <1>2, <1>3, <1>5
  <1>7. /\ d.up = (IF 0 >= c.up + r.z - Config.drift THEN 0 ELSE c.up + r.z - Config.drift)
        /\ d.down = (IF 0 >= c.down - r.z - Config.drift THEN 0 ELSE c.down - r.z - Config.drift)
    BY <1>1, <1>2, <1>3, <1>4, MaxOfTwo
  <1>8. d.up \in Nat /\ d.down \in Nat
    BY <1>2, <1>3, <1>4, <1>7
  <1>9. /\ Max({d.up, d.down}) = (IF d.up >= d.down THEN d.up ELSE d.down)
        /\ Max({c.up, c.down}) = (IF c.up >= c.down THEN c.up ELSE c.down)
    BY <1>2, <1>3, <1>8, MaxOfTwo
  <1>10. LiveIn(h) = L \cup {n} /\ h[n] = r /\ \A i \in 1 .. Len(q) : h[i] = q[i]
    BY RowMore DEF h, L, n
  <1>11. L \subseteq 1 .. Len(q) /\ Len(q) \in Nat /\ Listed(h)
    BY LiveIs, RowMore DEF h, L
  <1>12. n \notin L /\ (L \cup {n}) \ {n} = L /\ n \in LiveIn(h)
    BY <1>10, <1>11 DEF n
  <1>13. Max(LiveIn(h)) = n
    <2>1. Max(LiveIn(h)) \in LiveIn(h) /\ \A i \in LiveIn(h) : Max(LiveIn(h)) >= i
      BY <1>11, <1>12, LiveIs
    <2>2. Max(LiveIn(h)) >= n
      BY <1>12, <2>1
    <2>3. Max(LiveIn(h)) \in 1 .. Len(q) \/ Max(LiveIn(h)) = n
      BY <1>10, <1>11, <2>1
    <2>. QED
      BY <1>11, <2>2, <2>3 DEF n
  <1>14. (IF LiveIn(h) = {n} THEN 0 ELSE h[Max(LiveIn(h) \ {n})].cusum) = Max({c.up, c.down})
    <2>1. CASE L = {}
      <3>1. c.up = 0 /\ c.down = 0
        <4>1. /\ c.up = Best(StepsIn(q, 1), {}) /\ c.down = Best(StepsIn(q, -1), {})
              /\ StepsIn(q, 1) \in Seq(Int) /\ StepsIn(q, -1) \in Seq(Int)
          BY <2>1 DEF SumsOf, SumOf, L
        <4>2. \A e \in Seq(Int) : Best(e, {}) = 0
          <5>. SUFFICES ASSUME NEW e \in Seq(Int) PROVE Best(e, {}) = 0
            OBVIOUS
          <5>1. {} \subseteq 1 .. Len(e)
            OBVIOUS
          <5>2. Best(e, {}) = 0 \/ \E i \in {} : Since(e, i) = Best(e, {})
            BY <5>1, BestIs
          <5>. QED
            BY <5>2
        <4>. QED
          BY <4>1, <4>2
      <3>. QED
        BY <1>9, <1>10, <2>1, <3>1
    <2>2. CASE L # {}
      <3>1. Max(L) \in L
        BY <2>2, LiveIs DEF L
      <3>2. LiveIn(h) \ {n} = L /\ LiveIn(h) # {n}
        BY <1>10, <1>12, <2>2
      <3>3. h[Max(L)] = q[Max(L)]
        BY <1>10, <1>11, <3>1
      <3>4. q[Max(L)].cusum = Max({c.up, c.down})
        BY <2>2 DEF SumsOf, SumOf, Reported, L
      <3>. QED
        BY <3>2, <3>3, <3>4
    <2>. QED
      BY <2>1, <2>2
  <1>15. /\ d.up = Best(StepsIn(h, 1), LiveIn(h)) /\ d.down = Best(StepsIn(h, -1), LiveIn(h))
         /\ d.up > 0 => d.upStart = h[StartOfBest(StepsIn(h, 1), LiveIn(h))].start
         /\ d.down > 0 => d.downStart = h[StartOfBest(StepsIn(h, -1), LiveIn(h))].start
    BY <1>6 DEF SumOf
  <1>16. c.above <=> Max({c.up, c.down}) >= T
    BY DEF SumsOf, T
  <1>17. r.changed <=> Max({d.up, d.down}) >= T /\ Max({c.up, c.down}) < T
    <2>1. Max({c.up, c.down}) \in Nat /\ T \in Nat
      BY <1>2, <1>3, <1>4, <1>9
    <2>. QED
      BY <1>1, <1>16, <2>1
  <1>18. ASSUME r.changed, d.up >= d.down
         PROVE  /\ d.up > 0 /\ r.direction = "increase" /\ r.changeStart = d.upStart
    <2>1. d.up >= T /\ c.up < T
      BY <1>2, <1>3, <1>4, <1>9, <1>17, <1>18
    <2>2. r.z > 0 /\ d.up > 0
      BY <1>2, <1>4, <1>7, <2>1
    <2>3. r.z # None
      BY FeedAssumption DEF FeedAssumption
    <2>. QED
      BY <1>18, <2>2, <2>3 DEF Direction
  <1>19. ASSUME r.changed, ~(d.up >= d.down)
         PROVE  /\ d.down > 0 /\ r.direction = "decrease" /\ r.changeStart = d.downStart
    <2>1. d.down >= T /\ c.down < T
      BY <1>2, <1>3, <1>4, <1>8, <1>9, <1>17, <1>19
    <2>2. r.z < 0 /\ d.down > 0 /\ ~(r.z > 0)
      BY <1>3, <1>4, <1>7, <2>1
    <2>3. r.z # None
      BY FeedAssumption DEF FeedAssumption
    <2>. QED
      BY <1>19, <2>2, <2>3 DEF Direction
  <1>20. Reported(h)
    <2>. DEFINE sign == IF d.up >= d.down THEN 1 ELSE -1
    <2>1. r.changed => /\ r.changeStart = h[StartOfBest(StepsIn(h, sign), LiveIn(h))].start
                       /\ r.direction = IF sign = 1 THEN "increase" ELSE "decrease"
      BY <1>15, <1>18, <1>19
    <2>2. r.changed <=>
            /\ r.cusum >= T
            /\ (IF LiveIn(h) = {n} THEN 0 ELSE h[Max(LiveIn(h) \ {n})].cusum) < T
      BY <1>14, <1>17
    <2>3. h[Max(LiveIn(h))] = r
      BY <1>10, <1>13
    <2>. QED
      BY <1>13, <1>15, <2>1, <2>2, <2>3 DEF Reported, T
  <1>. QED
    BY <1>1, <1>6, <1>20 DEF SumsOf, h, T

\* What a row is worth to the CUSUM sums.
LEMMA ObservationMoves ==
    ASSUME NEW s, NEW now \in Nat, NEW row, row.value \in Nat \cup {None}, row.p \in Nat,
           NEW sc, NEW st, IsPoints(st.history)
    PROVE  LET r == Observation(s, now, row, sc, st)
               c == Carry(now, row, st)
               d == UpdateCusum(st.cusum, r.z, r.start)
           IN  /\ IsPoints(c.history)
               /\ r.p = None => c.cusum = st.cusum
               /\ r.p # None =>
                    /\ r.z \in Int /\ c.cusum = d
                    /\ r.cusum = Max({d.up, d.down})
                    /\ r.changed <=> d.above /\ ~st.cusum.above
                    /\ r.changed => r.changeStart = IF d.up >= d.down THEN d.upStart
                                                                     ELSE d.downStart
                    /\ r.direction = Direction(r.z)
  <1>. DEFINE recent == Latest(st.history, Config.lookback)
              base == Baseline(now, recent)
              z == 2 * row.value - TwiceMedian(base)
              live == Eligible(row, recent) /\ base # {}
              d == UpdateCusum(st.cusum, z, now)
              r == Observation(s, now, row, sc, st)
              c == Carry(now, row, st)
  <1>1. IsPoints(c.history)
    <2>1. CASE row.value # None /\ row.quality # "invalid"
      <3>1. c.history = st.history \cup {[period |-> now, value |-> row.value]}
        BY <2>1 DEF Carry
      <3>2. row.value \in Nat
        BY <2>1
      <3>3. IsFiniteSet(c.history)
        <4>1. IsFiniteSet(st.history)
          BY DEF IsPoints
        <4>2. IsFiniteSet(st.history \cup {[period |-> now, value |-> row.value]})
          BY <4>1, FS_AddElement
        <4>. QED
          BY <3>1, <4>2
      <3>4. \A x \in c.history : x.period \in Nat /\ x.value \in Nat
        BY <3>1, <3>2 DEF IsPoints
      <3>. QED
        BY <3>3, <3>4 DEF IsPoints
    <2>2. CASE ~(row.value # None /\ row.quality # "invalid")
      BY <2>2 DEF Carry
    <2>. QED
      BY <2>1, <2>2
  <1>2. base \subseteq st.history
    BY DEF Baseline, Seasonal, Latest
  <1>3. IsPoints(base)
    BY <1>2, FS_Subset DEF IsPoints
  <1>4. live => row.value # None
    BY DEF Eligible
  <1>5. live => z \in Int /\ z # None
    <2>. SUFFICES ASSUME live PROVE z \in Int /\ z # None
      OBVIOUS
    <2>1. row.value \in Nat
      BY <1>4
    <2>2. TwiceMedian(base) \in Nat
      BY <1>3, MedianIs
    <2>3. z \in Int
      <3>. HIDE DEF base
      <3>. QED
        BY <2>1, <2>2
    <2>. QED
      BY <2>3, FeedAssumption DEF FeedAssumption
  <1>6. /\ r.p = IF live THEN row.p ELSE None
        /\ r.start = now
        /\ live => r.z = z
        /\ live => r.cusum = Max({d.up, d.down})
        /\ r.changed <=> live /\ d.above /\ ~st.cusum.above
        /\ live /\ d.above => r.changeStart = IF d.up >= d.down THEN d.upStart ELSE d.downStart
        /\ live => r.direction = Direction(z)
    <2>1. live <=> Eligible(row, recent) /\ row.value # None /\ base # {}
      BY <1>4
    <2>. HIDE DEF d, z, base, recent
    <2>. QED
      BY <2>1 DEF Observation, d, z, base, recent
  <1>7. c.cusum = IF live THEN d ELSE st.cusum
    BY DEF Carry
  <1>8. row.p # None
    BY FeedAssumption DEF FeedAssumption
  <1>. HIDE DEF r, c, z, live
  <1>9. r.p # None <=> live
    BY <1>6, <1>8
  <1>. QED
    BY <1>1, <1>5, <1>6, <1>7, <1>9 DEF d, r, c

-----------------------------------------------------------------------------
(* The benchmark of the build, and the values of its rows.                  *)

\* The benchmark is one of the ones given, and injectable once injected.
BenchmarkKept ==
    /\ benchmark \in Benchmarks
    /\ stage \notin {"inject", "refused"} => Injectable

LEMMA BenchmarkInvariance == Spec => []BenchmarkKept
  <1>1. Init => BenchmarkKept
    BY DEF Init, BenchmarkKept
  <1>2. BenchmarkKept /\ [Next]_vars => BenchmarkKept'
    <2>. SUFFICES ASSUME BenchmarkKept, [Next]_vars PROVE BenchmarkKept'
      OBVIOUS
    <2>1. benchmark' = benchmark
      BY DEF Next, vars, Inject, InjectRefused, ScoreRow, SkipPeriod, TargetRefused, ApplyFdr,
             FinalizeAlerts, GroupAlert, BuildEvents, BuildEventsRaises, EvaluateBenchmark,
             Export, Refuse
    <2>2. Injectable' = Injectable
      BY <2>1 DEF Injectable, Overlapping, Unmatched
    <2>3. \/ Inject
          \/ stage' = "refused"
          \/ stage' = "inject"
          \/ stage \notin {"inject", "refused"}
          \/ stage' = stage
      BY DEF Next, vars, Inject, InjectRefused, ScoreRow, SkipPeriod, TargetRefused, ApplyFdr,
             FinalizeAlerts, GroupAlert, Grouped, BuildEvents, BuildEventsRaises,
             EvaluateBenchmark, Export, Refuse, Turn
    <2>4. CASE Inject
      BY <2>1, <2>2, <2>4 DEF Inject, BenchmarkKept
    <2>. QED
      BY <2>1, <2>2, <2>3, <2>4 DEF BenchmarkKept
  <1>. QED
    BY <1>1, <1>2, PTL DEF Spec

\* The scenario of a row, if it has one.
LEMMA ScenarioIs ==
    ASSUME NEW s, NEW p, ScenarioOf(s, p) # None
    PROVE  /\ ScenarioOf(s, p) \in benchmark /\ ScenarioOf(s, p).series = s
           /\ p \in Window(ScenarioOf(s, p))
  <1>. DEFINE mine == {sc \in benchmark : sc.series = s /\ p \in Window(sc)}
  <1>1. mine # {} /\ ScenarioOf(s, p) = CHOOSE sc \in mine : TRUE
    BY DEF ScenarioOf
  <1>2. ScenarioOf(s, p) \in mine
    BY <1>1
  <1>. QED
    BY <1>2

\* A perturbed count is a count.
LEMMA PerturbType ==
    ASSUME BenchmarkKept, NEW sc \in benchmark, NEW value \in Nat, NEW p \in Nat
    PROVE  Perturb(value, sc, p) \in Nat
  <1>. DEFINE share == IF sc.drift THEN p - sc.start + 1 ELSE sc.duration
              full == 100 * sc.duration
              x == value * (100 * sc.duration + sc.magnitude * share)
  <1>1. /\ sc.start \in Int /\ sc.duration \in Nat /\ sc.duration > 0 /\ sc.magnitude \in Int
    BY BenchmarkAssumption DEF BenchmarkAssumption, BenchmarkKept
  <1>2. share \in Int
    BY <1>1
  <1>. HIDE DEF share
  <1>3. full \in Nat /\ full > 0
    BY <1>1
  <1>4. sc.magnitude * share \in Int
    BY <1>1, <1>2
  <1>5. full + sc.magnitude * share \in Int
    BY <1>3, <1>4
  <1>6. x \in Int
    BY <1>5
  <1>7. Perturb(value, sc, p) = Max({0, x \div full})
    BY DEF Perturb, share
  <1>. HIDE DEF x, full
  <1>8. x \div full \in Int
    BY <1>3, <1>6
  <1>9. Max({0, x \div full}) = IF 0 >= x \div full THEN 0 ELSE x \div full
    BY <1>8, MaxOfTwo
  <1>. QED
    BY <1>7, <1>8, <1>9

\* What a perturbation leaves of a source row is a count, or no value.
LEMMA InjectedValue ==
    ASSUME BenchmarkKept, NEW s \in Series, NEW t \in 1 .. Periods,
           NEW source \in Feed[s][t] \ {Absent},
           ScenarioOf(s, t) # None => source.value # None
    PROVE  Injected(source, ScenarioOf(s, t), t).value \in Nat \cup {None}
  <1>. DEFINE sc == ScenarioOf(s, t)
  <1>1. DOMAIN source = {"value", "quality", "sample", "p"} /\ source.value \in Nat \cup {None}
    BY FeedAssumption DEF FeedAssumption
  <1>2. CASE sc = None
    BY <1>1, <1>2 DEF Injected
  <1>3. CASE sc # None
    <2>1. Injected(source, sc, t).value = Perturb(source.value, sc, t)
      BY <1>1, <1>3 DEF Injected
    <2>2. Perturb(source.value, sc, t) \in Nat
      BY <1>1, <1>3, ScenarioIs, PerturbType
    <2>. QED
      BY <2>1, <2>2
  <1>. QED
    BY <1>2, <1>3

-----------------------------------------------------------------------------
(* The CUSUM sums of every series while it is scored.                       *)

Sums(s) == IsPoints(carried[s].state.history) /\ SumsOf(rows[s], carried[s].state.cusum)

CusumInv == stage \in {"inject", "score"} => \A s \in Series : Sums(s)

LEMMA CusumInit == Init => CusumInv
  <1>. SUFFICES ASSUME Init, NEW s \in Series PROVE Sums(s)
    BY DEF CusumInv
  <1>. DEFINE q == rows[s]
              c == carried[s].state.cusum
  <1>1. /\ q = <<>> /\ carried[s].state = FreshState
    BY DEF Init
  <1>2. /\ c.up = 0 /\ c.down = 0 /\ c.above = FALSE
        /\ carried[s].state.history = {}
    BY <1>1 DEF FreshState
  <1>3. IsPoints({})
    BY FS_EmptySet DEF IsPoints
  <1>4. Listed(q) /\ Len(q) = 0
    BY <1>1 DEF Listed
  <1>5. LiveIn(q) = {}
    <2>1. LiveIn(q) \subseteq 1 .. 0
      BY <1>4, LiveIs
    <2>. QED
      BY <2>1
  <1>6. ASSUME NEW sign, NEW start PROVE SumOf(q, sign, 0, start)
    <2>1. StepsIn(q, sign) = <<>>
      BY <1>1 DEF StepsIn
    <2>2. StepsIn(q, sign) \in Seq(Int)
      BY <2>1
    <2>3. {} \subseteq 1 .. Len(StepsIn(q, sign))
      OBVIOUS
    <2>4. Best(StepsIn(q, sign), {}) = 0 \/ \E i \in {} : Since(StepsIn(q, sign), i) = Best(StepsIn(q, sign), {})
      BY <2>2, <2>3, BestIs
    <2>5. Best(StepsIn(q, sign), {}) = 0
      BY <2>4
    <2>. QED
      BY <1>5, <2>2, <2>5 DEF SumOf
  <1>7. Max({0, 0}) = 0 /\ ~(0 >= Config.cusumThreshold)
    BY MaxOfTwo, ConfigAssumption DEF ConfigAssumption
  <1>8. SumsOf(q, c)
    BY <1>2, <1>5, <1>6, <1>7 DEF SumsOf
  <1>. QED
    BY <1>2, <1>3, <1>8 DEF Sums

\* Scoring a row.
LEMMA CusumStep ==
    ASSUME Inv, BenchmarkKept, CusumInv, NEW s \in Series, ScoreRow(s)
    PROVE  CusumInv'
  <1>. DEFINE t == carried[s].next
              sc == ScenarioOf(s, t)
              st == carried[s].state
  <1>1. stage = "score" /\ t \in 1 .. Periods /\ t \in Nat
    BY FeedAssumption DEF ScoreRow, Turn, Inv, Keyed, FeedAssumption
  <1>2. PICK source \in Feed[s][t] \ {Absent} :
          LET row == Injected(source, sc, t)
          IN  /\ sc # None => source.value # None
              /\ rows' = [rows EXCEPT ![s] = Append(@, Observation(s, t, row, sc, st))]
              /\ carried' = [carried EXCEPT ![s] = [state |-> Carry(t, row, st),
                                                    next |-> t + 1]]
    BY DEF ScoreRow
  <1>. DEFINE row == Injected(source, sc, t)
              r == Observation(s, t, row, sc, st)
              c == Carry(t, row, st)
              d == UpdateCusum(st.cusum, r.z, r.start)
  <1>3. row.p \in Nat /\ row.value \in Nat \cup {None}
    BY <1>1, <1>2, InjectedP, InjectedValue
  <1>4. IsPoints(st.history) /\ SumsOf(rows[s], st.cusum)
    BY <1>1 DEF CusumInv, Sums
  <1>5. /\ IsPoints(c.history)
        /\ r.p = None => c.cusum = st.cusum
        /\ r.p # None =>
             /\ r.z \in Int /\ c.cusum = d
             /\ r.cusum = Max({d.up, d.down})
             /\ r.changed <=> d.above /\ ~st.cusum.above
             /\ r.changed => r.changeStart = IF d.up >= d.down THEN d.upStart ELSE d.downStart
             /\ r.direction = Direction(r.z)
    <2>1. t \in Nat /\ row.value \in Nat \cup {None} /\ row.p \in Nat /\ IsPoints(st.history)
      BY <1>1, <1>3, <1>4
    <2>. HIDE DEF row, t, sc, st
    <2>2. LET x == Observation(s, t, row, sc, st)
              y == Carry(t, row, st)
              z == UpdateCusum(st.cusum, x.z, x.start)
          IN  /\ IsPoints(y.history)
              /\ x.p = None => y.cusum = st.cusum
              /\ x.p # None =>
                   /\ x.z \in Int /\ y.cusum = z
                   /\ x.cusum = Max({z.up, z.down})
                   /\ x.changed <=> z.above /\ ~st.cusum.above
                   /\ x.changed => x.changeStart = IF z.up >= z.down THEN z.upStart
                                                                    ELSE z.downStart
                   /\ x.direction = Direction(x.z)
      BY <2>1, ObservationMoves
    <2>. QED
      BY <2>2
  <1>6. /\ rows'[s] = Append(rows[s], r) /\ carried'[s].state = c
        /\ \A u \in Series : u # s => carried'[u] = carried[u] /\ rows'[u] = rows[u]
    BY <1>2 DEF Inv, Keyed
  <1>7. Listed(rows[s])
    BY DEF Inv, Keyed
  <1>. HIDE DEF r, c, d, st
  <1>8. SumsOf(Append(rows[s], r), c.cusum)
    <2>1. CASE r.p = None
      BY <1>4, <1>5, <1>7, <2>1, SumsDead
    <2>2. CASE r.p # None
      BY <1>4, <1>5, <1>7, <2>2, SumsLive DEF d
    <2>. QED
      BY <2>1, <2>2
  <1>9. ASSUME NEW u \in Series
        PROVE  IsPoints(carried'[u].state.history) /\ SumsOf(rows'[u], carried'[u].state.cusum)
    <2>1. CASE u = s
      BY <1>5, <1>6, <1>8, <2>1
    <2>2. CASE u # s
      BY <1>1, <1>6, <2>2 DEF CusumInv, Sums
    <2>. QED
      BY <2>1, <2>2
  <1>. QED
    BY <1>9 DEF CusumInv, Sums, IsPoints, SumsOf, SumOf, Reported, LiveIn, StepsIn

LEMMA CusumInvariance == Spec => []CusumInv
  <1>1. Inv /\ BenchmarkKept /\ CusumInv /\ [Next]_vars => CusumInv'
    <2>. SUFFICES ASSUME Inv, BenchmarkKept, CusumInv, [Next]_vars PROVE CusumInv'
      OBVIOUS
    <2>1. CASE \E s \in Series : ScoreRow(s)
      BY <2>1, CusumStep
    <2>2. CASE \E s \in Series : SkipPeriod(s)
      <3>1. PICK s \in Series : SkipPeriod(s)
        BY <2>2
      <3>2. /\ stage = "score" /\ rows' = rows
            /\ carried' = [carried EXCEPT ![s].next = @ + 1]
        BY <3>1 DEF SkipPeriod, Turn
      <3>3. \A u \in Series : carried'[u].state = carried[u].state
        BY <3>2 DEF Inv, Keyed
      <3>. QED
        BY <3>2, <3>3 DEF CusumInv, Sums, SumsOf, SumOf, Reported, IsPoints
    <2>3. CASE stage' \notin {"inject", "score"}
      BY <2>3 DEF CusumInv
    <2>4. CASE /\ stage \in {"inject", "score"} /\ UNCHANGED <<rows, carried>>
      BY <2>4 DEF CusumInv, Sums, SumsOf, SumOf, Reported, IsPoints
    <2>. QED
      BY <2>1, <2>2, <2>3, <2>4 DEF Next, vars, Inject, InjectRefused, TargetRefused,
         ApplyFdr, FinalizeAlerts, GroupAlert, Grouped, BuildEvents, BuildEventsRaises,
         EvaluateBenchmark, Export, Refuse, Turn
  <1>. QED
    BY <1>1, CusumInit, Invariance, BenchmarkInvariance, PTL DEF Spec

-----------------------------------------------------------------------------
(* The scenarios of the rows.                                               *)

\* What a row is tagged with.
TagOf(s, p) == IF ScenarioOf(s, p) = None THEN None ELSE ScenarioOf(s, p).id

\* Every row carries the scenario of its period, no period of a scenario is
\* passed over, and every period has been visited once scoring is done.
TagInv ==
    /\ \A s \in Series : \A i \in 1 .. Len(rows[s]) :
         rows[s][i].scenario = TagOf(s, rows[s][i].start)
    /\ \A s \in Series : \A p \in 1 .. (carried[s].next - 1) :
         ScenarioOf(s, p) # None => \E i \in 1 .. Len(rows[s]) : rows[s][i].start = p
    /\ stage \in {"decide", "events", "evaluate", "quality", "published"} =>
         \A s \in Series : carried[s].next = Periods + 1

LEMMA TagInit == Init => TagInv
  <1>. SUFFICES ASSUME Init PROVE TagInv
    OBVIOUS
  <1>1. \A s \in Series : Len(rows[s]) = 0 /\ carried[s].next = 1
    BY DEF Init
  <1>2. stage = "inject"
    BY DEF Init
  <1>. QED
    BY <1>1, <1>2 DEF TagInv

\* A stage that only fills in what is decided keeps the tags.
LEMMA TagKept ==
    ASSUME Inv, TagInv, carried' = carried, benchmark' = benchmark,
           \A s \in Series :
             /\ Len(rows[s])' = Len(rows[s])
             /\ \A i \in 1 .. Len(rows[s]) : Same(rows[s][i]', rows[s][i]),
           stage' \in {"decide", "events", "evaluate", "quality", "published"} =>
             \A s \in Series : carried[s].next = Periods + 1
    PROVE  TagInv'
  <1>1. \A s, p : TagOf(s, p)' = TagOf(s, p) /\ ScenarioOf(s, p)' = ScenarioOf(s, p)
    BY DEF TagOf, ScenarioOf
  <1>2. ASSUME NEW s \in Series, NEW i \in 1 .. Len(rows[s])
        PROVE  rows'[s][i].start = rows[s][i].start /\ rows'[s][i].scenario = rows[s][i].scenario
    BY DEF Same
  <1>. QED
    BY <1>1, <1>2 DEF TagInv

LEMMA TagScore ==
    ASSUME Inv, TagInv, NEW s \in Series, ScoreRow(s)
    PROVE  TagInv'
  <1>. DEFINE t == carried[s].next
  <1>1. /\ stage = "score" /\ stage' = "score" /\ benchmark' = benchmark
        /\ t \in 1 .. Periods /\ t \in Nat
    BY FeedAssumption DEF ScoreRow, Turn, Inv, Keyed, FeedAssumption
  <1>. DEFINE sc == ScenarioOf(s, t)
              st == carried[s].state
  <1>2. PICK source :
          LET row == Injected(source, sc, t)
          IN  /\ rows' = [rows EXCEPT ![s] = Append(@, Observation(s, t, row, sc, st))]
              /\ carried' = [carried EXCEPT ![s] = [state |-> Carry(t, row, st),
                                                    next |-> t + 1]]
    BY DEF ScoreRow
  <1>. DEFINE o == Observation(s, t, Injected(source, sc, t), sc, st)
  <1>3. /\ o.start = t /\ o.scenario = TagOf(s, t)
        /\ rows'[s] = Append(rows[s], o) /\ carried'[s].next = t + 1
        /\ \A u \in Series : u # s => carried'[u] = carried[u] /\ rows'[u] = rows[u]
    <2>1. o.start = t /\ o.scenario = TagOf(s, t)
      BY DEF Observation, TagOf
    <2>. QED
      BY <1>2, <2>1 DEF Inv, Keyed
  <1>. HIDE DEF o, sc, st
  <1>4. /\ Len(rows'[s]) = Len(rows[s]) + 1 /\ rows'[s][Len(rows[s]) + 1] = o
        /\ \A i \in 1 .. Len(rows[s]) : rows'[s][i] = rows[s][i]
        /\ Len(rows[s]) \in Nat
    BY <1>3, RowMore, LiveIs DEF Inv, Keyed
  <1>5. \A u, p : TagOf(u, p)' = TagOf(u, p) /\ ScenarioOf(u, p)' = ScenarioOf(u, p)
    BY <1>1 DEF TagOf, ScenarioOf
  <1>6. ASSUME NEW u \in Series, NEW i \in 1 .. Len(rows'[u])
        PROVE  rows'[u][i].scenario = TagOf(u, rows'[u][i].start)
    <2>1. CASE u # s
      BY <1>3, <1>6, <2>1 DEF TagInv
    <2>2. CASE u = s /\ i = Len(rows[s]) + 1
      BY <1>3, <1>4, <2>2
    <2>3. CASE u = s /\ i \in 1 .. Len(rows[s])
      BY <1>4, <2>3 DEF TagInv
    <2>. QED
      BY <1>4, <1>6, <2>1, <2>2, <2>3
  <1>7. ASSUME NEW u \in Series, NEW p \in 1 .. (carried'[u].next - 1), ScenarioOf(u, p) # None
        PROVE  \E i \in 1 .. Len(rows'[u]) : rows'[u][i].start = p
    <2>1. CASE u # s
      BY <1>3, <1>7, <2>1 DEF TagInv
    <2>2. CASE u = s /\ p = t
      <3>1. Len(rows[s]) + 1 \in 1 .. Len(rows'[s])
        BY <1>4
      <3>. QED
        BY <1>3, <1>4, <2>2, <3>1
    <2>3. CASE u = s /\ p # t
      <3>1. p \in 1 .. (t - 1)
        BY <1>1, <1>3, <1>7, <2>3
      <3>2. PICK i \in 1 .. Len(rows[s]) : rows[s][i].start = p
        BY <1>7, <2>3, <3>1 DEF TagInv
      <3>3. i \in 1 .. Len(rows'[s])
        BY <1>4
      <3>. QED
        BY <1>4, <2>3, <3>2, <3>3
    <2>. QED
      BY <2>1, <2>2, <2>3
  <1>. QED
    BY <1>1, <1>5, <1>6, <1>7 DEF TagInv

LEMMA TagSkip ==
    ASSUME Inv, TagInv, NEW s \in Series, SkipPeriod(s)
    PROVE  TagInv'
  <1>. DEFINE t == carried[s].next
  <1>1. /\ stage = "score" /\ stage' = "score" /\ benchmark' = benchmark /\ rows' = rows
        /\ t \in 1 .. Periods /\ t \in Nat /\ ScenarioOf(s, t) = None
        /\ carried' = [carried EXCEPT ![s].next = @ + 1]
    BY FeedAssumption DEF SkipPeriod, Turn, Inv, Keyed, FeedAssumption
  <1>2. /\ carried'[s].next = t + 1
        /\ \A u \in Series : u # s => carried'[u] = carried[u]
    BY <1>1 DEF Inv, Keyed
  <1>3. \A u, p : TagOf(u, p)' = TagOf(u, p) /\ ScenarioOf(u, p)' = ScenarioOf(u, p)
    BY <1>1 DEF TagOf, ScenarioOf
  <1>4. ASSUME NEW u \in Series, NEW p \in 1 .. (carried'[u].next - 1), ScenarioOf(u, p) # None
        PROVE  \E i \in 1 .. Len(rows[u]) : rows[u][i].start = p
    <2>1. CASE u # s
      BY <1>2, <1>4, <2>1 DEF TagInv
    <2>2. CASE u = s
      <3>1. p # t
        BY <1>1, <1>4, <2>2
      <3>2. p \in 1 .. (t - 1)
        BY <1>1, <1>2, <1>4, <2>2, <3>1
      <3>. QED
        BY <1>4, <2>2, <3>2 DEF TagInv
    <2>. QED
      BY <2>1, <2>2
  <1>. QED
    BY <1>1, <1>3, <1>4 DEF TagInv

LEMMA TagInvariance == Spec => []TagInv
  <1>1. Inv /\ TagInv /\ [Next]_vars => TagInv'
    <2>. SUFFICES ASSUME Inv, TagInv, [Next]_vars PROVE TagInv'
      OBVIOUS
    <2>1. CASE \E s \in Series : ScoreRow(s) \/ SkipPeriod(s)
      BY <2>1, TagScore, TagSkip
    <2>2. CASE ApplyFdr
      <3>1. \A s \in Series : carried[s].next = Periods + 1
        <4>. SUFFICES ASSUME NEW s \in Series PROVE carried[s].next = Periods + 1
          OBVIOUS
        <4>1. carried[s].next \in 1 .. (Periods + 1) /\ carried[s].next > Periods
          BY <2>2 DEF ApplyFdr, Inv, Keyed
        <4>. QED
          BY <4>1, FeedAssumption DEF FeedAssumption
      <3>2. \A s \in Series : /\ Len(rows[s])' = Len(rows[s])
                              /\ \A i \in 1 .. Len(rows[s]) : Same(rows[s][i]', rows[s][i])
        BY <2>2, FdrSame
      <3>. QED
        BY <2>2, <3>1, <3>2, TagKept DEF ApplyFdr
    <2>3. CASE FinalizeAlerts
      <3>1. \A s \in Series : /\ Len(rows[s])' = Len(rows[s])
                              /\ \A i \in 1 .. Len(rows[s]) : Same(rows[s][i]', rows[s][i])
        BY <2>3, AlertsSame
      <3>2. \A s \in Series : carried[s].next = Periods + 1
        BY <2>3 DEF FinalizeAlerts, TagInv
      <3>. QED
        BY <2>3, <3>1, <3>2, TagKept DEF FinalizeAlerts
    <2>4. CASE /\ UNCHANGED <<rows, carried, benchmark>>
               /\ \/ stage' \notin {"decide", "events", "evaluate", "quality", "published"}
                  \/ stage \in {"decide", "events", "evaluate", "quality", "published"}
      <3>1. \A s \in Series : \A i \in 1 .. Len(rows[s]) : Same(rows[s][i]', rows[s][i])
        BY <2>4 DEF Same
      <3>. QED
        BY <2>4, <3>1, TagKept DEF TagInv
    <2>. QED
      BY <2>1, <2>2, <2>3, <2>4 DEF Next, vars, Inject, InjectRefused, TargetRefused,
         GroupAlert, Grouped, BuildEvents, BuildEventsRaises, EvaluateBenchmark, Export, Refuse
  <1>. QED
    BY <1>1, TagInit, Invariance, PTL DEF Spec

\* A period of a scenario is tagged with it and with nothing else.
LEMMA TagIs ==
    ASSUME BenchmarkKept, Injectable, NEW sc \in benchmark
    PROVE  /\ sc.series \in Series /\ Window(sc) \subseteq 1 .. Periods
           /\ \A p \in Window(sc) : ScenarioOf(sc.series, p) = sc
           /\ \A s, p : TagOf(s, p) = sc.id <=> s = sc.series /\ p \in Window(sc)
  <1>1. sc.series \in Series /\ Window(sc) \subseteq 1 .. Periods
    BY DEF Injectable, Unmatched
  <1>2. /\ \A x \in benchmark : x # None /\ x.id # None
        /\ \A x, y \in benchmark : x.id = y.id => x = y
    BY BenchmarkAssumption DEF BenchmarkAssumption, BenchmarkKept
  <1>3. ASSUME NEW p \in Window(sc) PROVE ScenarioOf(sc.series, p) = sc
    <2>. DEFINE mine == {x \in benchmark : x.series = sc.series /\ p \in Window(x)}
    <2>1. mine = {sc}
      <3>1. sc \in mine
        OBVIOUS
      <3>2. ASSUME NEW x \in mine PROVE x = sc
        BY DEF Injectable, Overlapping
      <3>. QED
        BY <3>1, <3>2
    <2>2. ScenarioOf(sc.series, p) = CHOOSE x \in mine : TRUE
      BY <2>1 DEF ScenarioOf
    <2>. QED
      BY <2>1, <2>2
  <1>4. ASSUME NEW s, NEW p, TagOf(s, p) = sc.id PROVE s = sc.series /\ p \in Window(sc)
    <2>1. ScenarioOf(s, p) # None /\ ScenarioOf(s, p).id = sc.id
      BY <1>2, <1>4 DEF TagOf
    <2>2. ScenarioOf(s, p) = sc
      BY <1>2, <2>1, ScenarioIs
    <2>. QED
      BY <2>1, <2>2, ScenarioIs
  <1>5. \A p \in Window(sc) : TagOf(sc.series, p) = sc.id
    BY <1>2, <1>3 DEF TagOf
  <1>. QED
    BY <1>1, <1>3, <1>4, <1>5

\* A tag is the identifier of a scenario.
LEMMA TagsAre ==
    ASSUME BenchmarkKept, NEW s, NEW p, TagOf(s, p) # None
    PROVE  \E sc \in benchmark : TagOf(s, p) = sc.id
  BY ScenarioIs DEF TagOf

-----------------------------------------------------------------------------
(* The accounts of the benchmark.                                           *)

\* The rows of a build are finitely many, and known by series and period.
LEMMA RowsFinite ==
    ASSUME Inv
    PROVE  /\ IsFiniteSet(Rows) /\ IsFiniteSet(Anomalies) /\ Anomalies \subseteq Rows
           /\ \A r, x \in Rows : r.series = x.series /\ r.start = x.start => r = x
           /\ \A r \in Rows : r.series \in Series /\ r.start \in 1 .. Periods
  <1>1. ASSUME NEW r \in Rows
        PROVE  \E s \in Series : \E i \in 1 .. Len(rows[s]) :
                 /\ r = rows[s][i] /\ r.series = s /\ r.start \in 1 .. Periods
    <2>1. PICK s \in Series, i \in Nat : i \in 1 .. Len(rows[s]) /\ r = rows[s][i]
      BY RowsAre DEF Inv
    <2>2. r.series = s /\ r.start \in 1 .. (carried[s].next - 1)
          /\ carried[s].next \in 1 .. (Periods + 1)
      BY <2>1 DEF Inv, Keyed
    <2>3. r.start \in 1 .. Periods
      BY <2>2, FeedAssumption DEF FeedAssumption
    <2>. QED
      BY <2>1, <2>2, <2>3
  <1>2. ASSUME NEW r \in Rows, NEW x \in Rows, r.series = x.series, r.start = x.start
        PROVE  r = x
    <2>1. PICK s \in Series, i \in Nat : i \in 1 .. Len(rows[s]) /\ r = rows[s][i] /\ r.series = s
      BY <1>1
    <2>2. PICK j \in 1 .. Len(rows[s]) : x = rows[s][j]
      BY <1>1, <1>2, <2>1
    <2>3. /\ i < j => rows[s][i].start < rows[s][j].start
          /\ j < i => rows[s][j].start < rows[s][i].start
          /\ rows[s][i].start \in 1 .. Periods
      BY <1>1, <2>1, <2>2 DEF Inv, Keyed
    <2>. QED
      BY <1>2, <2>1, <2>2, <2>3
  <1>. DEFINE f == [r \in Rows |-> <<r.series, r.start>>]
  <1>3. f \in Injection(Rows, Series \X (1 .. Periods))
    BY <1>1, <1>2 DEF Injection, IsInjective
  <1>4. IsFiniteSet(Series \X (1 .. Periods))
    <2>1. IsFiniteSet(1 .. Periods)
      BY FeedAssumption, FS_Interval DEF FeedAssumption
    <2>. QED
      BY <2>1, FeedAssumption, FS_Product DEF FeedAssumption
  <1>5. IsFiniteSet(Rows)
    BY <1>3, <1>4, FS_Injection
  <1>6. Anomalies \subseteq Rows
    BY DEF Anomalies
  <1>. QED
    BY <1>1, <1>2, <1>5, <1>6, FS_Subset

\* The rows of a scenario are the periods of its window.
LEMMA TargetIs ==
    ASSUME Inv, BenchmarkKept, Injectable, TagInv,
           \A s \in Series : carried[s].next = Periods + 1, NEW sc \in benchmark
    PROVE  /\ IsFiniteSet(Target(sc)) /\ Cardinality(Target(sc)) = sc.duration
           /\ \A r \in Rows : r.scenario = sc.id
                                <=> r.series = sc.series /\ r.start \in Window(sc)
  <1>1. /\ sc.series \in Series /\ Window(sc) \subseteq 1 .. Periods
        /\ \A p \in Window(sc) : ScenarioOf(sc.series, p) = sc
        /\ \A s, p : TagOf(s, p) = sc.id <=> s = sc.series /\ p \in Window(sc)
    BY TagIs
  <1>2. /\ sc.start \in Int /\ sc.duration \in Nat /\ sc.duration > 0 /\ sc # None
    BY BenchmarkAssumption DEF BenchmarkAssumption, BenchmarkKept
  <1>3. \A r \in Rows : r.scenario = TagOf(r.series, r.start)
    BY RowsAre DEF Inv, Keyed, TagInv
  <1>4. \A r \in Rows : r.scenario = sc.id
                          <=> r.series = sc.series /\ r.start \in Window(sc)
    BY <1>1, <1>3
  <1>. DEFINE f == [r \in Target(sc) |-> r.start]
  <1>5. Target(sc) \subseteq Rows
    BY DEF Target
  <1>6. f \in Injection(Target(sc), Window(sc))
    BY <1>4, RowsFinite DEF Target, Injection, IsInjective
  <1>7. ASSUME NEW p \in Window(sc) PROVE \E r \in Target(sc) : f[r] = p
    <2>1. p \in 1 .. (carried[sc.series].next - 1)
      BY <1>1, FeedAssumption DEF FeedAssumption
    <2>2. PICK i \in 1 .. Len(rows[sc.series]) : rows[sc.series][i].start = p
      BY <1>1, <1>2, <2>1 DEF TagInv
    <2>. DEFINE r == rows[sc.series][i]
    <2>3. r \in Rows /\ r.series = sc.series
      BY <1>1, RowsAre DEF Inv, Keyed
    <2>4. r \in Target(sc)
      BY <1>4, <2>2, <2>3 DEF Target
    <2>. QED
      BY <2>2, <2>4
  <1>8. f \in Bijection(Target(sc), Window(sc))
    BY <1>6, <1>7 DEF Bijection, Injection, Surjection
  <1>9. IsFiniteSet(Target(sc))
    BY <1>5, RowsFinite, FS_Subset
  <1>10. Cardinality(Window(sc)) = Cardinality(Target(sc))
    BY <1>8, <1>9, FS_Bijection DEF ExistsBijection
  <1>11. Cardinality(Window(sc)) = sc.duration
    <2>1. sc.start + sc.duration - 1 \in Int
          /\ ~(sc.start > sc.start + sc.duration - 1)
          /\ (sc.start + sc.duration - 1) - sc.start + 1 = sc.duration
      BY <1>2
    <2>. QED
      BY <1>2, <2>1, FS_Interval DEF Window
  <1>. QED
    BY <1>4, <1>9, <1>10, <1>11

\* What is recorded of a scenario.
LEMMA ResultIs ==
    ASSUME Inv, GroupInv, BenchmarkKept, Injectable, TagInv, stage = "evaluate",
           NEW sc \in benchmark
    PROVE  LET r == Result(sc) IN
           /\ r.scenario = sc.id /\ r.hits + r.misses = sc.duration
           /\ r.hits = Cardinality(Alerts(sc)) /\ IsFiniteSet(Alerts(sc))
           /\ r.detected => /\ r.delay \in 0 .. (sc.duration - 1)
                            /\ \E e \in events : /\ r.event = {e}
                                                 /\ r.first \in e.start .. (e.end - 1)
  <1>. DEFINE A == Alerts(sc)
              F == {x.start : x \in A}
              r == Result(sc)
  <1>1. \A s \in Series : carried[s].next = Periods + 1
    BY DEF TagInv
  <1>2. /\ IsFiniteSet(Target(sc)) /\ Cardinality(Target(sc)) = sc.duration
        /\ \A x \in Rows : x.scenario = sc.id
                             <=> x.series = sc.series /\ x.start \in Window(sc)
    BY <1>1, TargetIs
  <1>3. /\ sc.start \in Int /\ sc.duration \in Nat /\ sc.duration > 0
    BY BenchmarkAssumption DEF BenchmarkAssumption, BenchmarkKept
  <1>4. A \subseteq Target(sc) /\ A \subseteq Anomalies /\ A \subseteq Rows
    BY DEF Alerts, Anomalies, Target
  <1>5. IsFiniteSet(A) /\ Cardinality(A) \in Nat
    BY <1>2, <1>4, FS_Subset, FS_CardinalityType
  <1>6. /\ r.scenario = sc.id /\ r.hits = Cardinality(A)
        /\ r.misses = Cardinality(Target(sc)) - Cardinality(A)
        /\ r.detected <=> A # {}
        /\ A # {} => r.first = Min(F) /\ r.delay = Min(F) - sc.start /\ r.event = Matched(sc)
    BY DEF Result
  <1>. HIDE DEF r
  <1>7. r.hits + r.misses = sc.duration
    BY <1>2, <1>3, <1>5, <1>6
  <1>8. ASSUME A # {}
        PROVE  /\ r.delay \in 0 .. (sc.duration - 1)
               /\ \E e \in events : /\ r.event = {e}
                                    /\ r.first \in e.start .. (e.end - 1)
    <2>. DEFINE m == Min(F)
    <2>1. /\ \A x \in A : x.start \in 1 .. Periods /\ x.start \in Nat
                         /\ x.start \in Window(sc) /\ x.series = sc.series
      BY <1>2, <1>4, RowsFinite DEF Alerts
    <2>2. F \subseteq Nat /\ F # {}
      BY <1>8, <2>1
    <2>3. m \in F /\ \A y \in F : m <= y
      BY <2>2, MinOfNaturals
    <2>4. PICK a \in A : a.start = m
      BY <2>3
    <2>5. m \in Nat /\ m \in Window(sc) /\ a.series = sc.series /\ a \in Anomalies
      BY <1>4, <2>1, <2>4
    <2>. HIDE DEF m
    <2>6. m >= sc.start /\ m < sc.start + sc.duration
      BY <1>3, <2>5 DEF Window
    <2>7. r.delay \in 0 .. (sc.duration - 1)
      BY <1>3, <1>6, <1>8, <2>5, <2>6 DEF m
    <2>8. /\ \A x \in Anomalies : Cardinality({e \in events :
                e.series = x.series /\ x.start \in e.start .. (e.end - 1)}) = 1
          /\ \A e \in events : \A p \in e.start .. (e.end - 1) :
                \E x \in Anomalies : x.series = e.series /\ x.start = p
          /\ \A d, e \in events :
                d # e /\ d.series = e.series => d.end < e.start \/ e.end < d.start
          /\ \A e \in events : e.start \in Nat /\ e.end \in Nat /\ e.start < e.end
      BY EventsHold
    <2>9. PICK e \in events : e.series = sc.series /\ m \in e.start .. (e.end - 1)
      <3>. DEFINE E == {e \in events : e.series = a.series /\ a.start \in e.start .. (e.end - 1)}
      <3>1. Cardinality(E) = 1
        BY <2>5, <2>8
      <3>2. E # {}
        BY <3>1, FS_EmptySet
      <3>. QED
        BY <2>4, <2>5, <3>2
    <2>10. e.start \in Nat /\ e.end \in Nat /\ e.start <= m /\ m < e.end
      BY <2>5, <2>8, <2>9
    <2>11. e \in Near(sc)
      BY <1>3, <2>5, <2>6, <2>9, <2>10 DEF Near
    <2>12. ASSUME NEW x \in Near(sc) PROVE e.start <= x.start /\ (x # e => e.start < x.start)
      <3>1. /\ x \in events /\ x.series = sc.series /\ x.start < sc.start + sc.duration
            /\ x.end > sc.start /\ x.start \in Nat /\ x.end \in Nat /\ x.start < x.end
        BY <2>8 DEF Near
      <3>2. CASE x = e
        BY <2>10, <3>2
      <3>3. CASE x # e /\ e.end < x.start
        BY <2>8, <2>10, <3>1, <3>3
      <3>4. CASE x # e /\ x.end < e.start
        <4>. DEFINE p == x.end - 1
        <4>1. p \in x.start .. (x.end - 1) /\ p \in Window(sc) /\ p < m
          BY <1>3, <2>5, <2>6, <2>10, <3>1, <3>4 DEF Window
        <4>. HIDE DEF p
        <4>2. PICK b \in Anomalies : b.series = x.series /\ b.start = p
          BY <2>8, <3>1, <4>1
        <4>3. b \in A
          BY <1>2, <3>1, <4>1, <4>2 DEF Alerts, Anomalies
        <4>4. m <= p
          BY <2>3, <4>2, <4>3 DEF m
        <4>5. p \in Int
          BY <3>1 DEF p
        <4>. QED
          BY <2>5, <4>1, <4>4, <4>5
      <3>. QED
        BY <2>8, <2>9, <3>1, <3>2, <3>3, <3>4
    <2>13. Matched(sc) = {e}
      <3>1. e \in Matched(sc)
        BY <2>11, <2>12 DEF Matched
      <3>2. ASSUME NEW x \in Matched(sc), x # e PROVE FALSE
        <4>1. x \in Near(sc) /\ x.start <= e.start
          BY <2>11 DEF Matched
        <4>2. e.start < x.start /\ x.start \in Nat
          BY <2>8, <2>12, <3>2, <4>1 DEF Near
        <4>. QED
          BY <2>10, <4>1, <4>2
      <3>. QED
        BY <3>1, <3>2
    <2>. QED
      BY <1>6, <1>8, <2>7, <2>9, <2>13 DEF m
  <1>. QED
    BY <1>5, <1>6, <1>7, <1>8 DEF r

\* The hits of the results are as many as the alerts that belong to a scenario.
LEMMA HitsAre ==
    ASSUME Inv, GroupInv, BenchmarkKept, Injectable, TagInv, stage = "evaluate"
    PROVE  LET rs == {Result(sc) : sc \in benchmark}
           IN  SumOfCounts([r \in rs |-> r.hits])
                 = Cardinality({r \in Anomalies : r.scenario # None})
  <1>. DEFINE rs == {Result(sc) : sc \in benchmark}
              of(x) == {r \in Anomalies : r.scenario = x.scenario}
              U == {r \in Anomalies : r.scenario # None}
              P == UNION {{x} \X (1 .. x.hits) : x \in rs}
              N(x) == CHOOSE f : f \in Bijection(1 .. x.hits, of(x))
              g == [y \in P |-> N(y[1])[y[2]]]
  <1>1. SumOfCounts([r \in rs |-> r.hits]) = Cardinality(P)
    <2>. DEFINE h == [r \in rs |-> r.hits]
    <2>1. DOMAIN h = rs /\ \A x \in rs : h[x] = x.hits
      OBVIOUS
    <2>2. {{x} \X (1 .. h[x]) : x \in DOMAIN h} = {{x} \X (1 .. x.hits) : x \in rs}
      BY <2>1
    <2>. QED
      BY <2>2 DEF SumOfCounts
  <1>2. /\ \A x \in benchmark : x # None /\ x.id # None
        /\ \A x, y \in benchmark : x.id = y.id => x = y
    BY BenchmarkAssumption DEF BenchmarkAssumption, BenchmarkKept
  <1>3. ASSUME NEW x \in rs
        PROVE  /\ \E sc \in benchmark : x = Result(sc) /\ x.scenario = sc.id
               /\ N(x) \in Bijection(1 .. x.hits, of(x))
    <2>1. PICK sc \in benchmark : x = Result(sc)
      OBVIOUS
    <2>2. /\ x.scenario = sc.id /\ x.hits = Cardinality(Alerts(sc))
          /\ IsFiniteSet(Alerts(sc))
      BY <2>1, ResultIs
    <2>3. of(x) = Alerts(sc)
      BY <2>2 DEF Alerts
    <2>4. ExistsBijection(1 .. x.hits, of(x))
      BY <2>2, <2>3, FS_CardinalityType
    <2>5. \E f : f \in Bijection(1 .. x.hits, of(x))
      BY <2>4 DEF ExistsBijection
    <2>. HIDE DEF of, rs
    <2>. QED
      BY <2>1, <2>2, <2>5
  <1>4. \A y : y \in P <=> \E x \in rs : \E k \in 1 .. x.hits : y = <<x, k>>
    <2>. HIDE DEF rs
    <2>. QED
      OBVIOUS
  <1>. HIDE DEF N
  <1>5. ASSUME NEW x \in rs
        PROVE  /\ \A k \in 1 .. x.hits : N(x)[k] \in of(x)
               /\ \A k, l \in 1 .. x.hits : N(x)[k] = N(x)[l] => k = l
               /\ \A r \in of(x) : \E k \in 1 .. x.hits : N(x)[k] = r
    BY <1>3 DEF Bijection, Injection, IsInjective, Surjection
  <1>6. \A x \in rs : of(x) \subseteq U
    BY <1>2, <1>3
  <1>7. \A x \in rs : \A k \in 1 .. x.hits : <<x, k>> \in P /\ g[<<x, k>>] = N(x)[k]
    <2>. HIDE DEF rs, P
    <2>. QED
      BY <1>4
  <1>8. \A r \in U : \E x \in rs : r \in of(x)
    <2>. SUFFICES ASSUME NEW r \in U PROVE \E x \in rs : r \in of(x)
      OBVIOUS
    <2>1. r.scenario = TagOf(r.series, r.start)
      BY RowsAre DEF Inv, Keyed, TagInv, Anomalies
    <2>2. PICK sc \in benchmark : r.scenario = sc.id
      BY <2>1, TagsAre
    <2>3. Result(sc) \in rs /\ Result(sc).scenario = sc.id
      BY ResultIs
    <2>. QED
      BY <2>2, <2>3
  <1>9. \A x, y \in rs : x.scenario = y.scenario => x = y
    BY <1>2, <1>3
  <1>10. g \in Bijection(P, U)
    <2>. HIDE DEF rs, U, P, g
    <2>1. ASSUME NEW y \in P PROVE g[y] \in U
      <3>0. PICK x \in rs : \E k \in 1 .. x.hits : y = <<x, k>>
        BY <1>4
      <3>1. PICK k \in 1 .. x.hits : y = <<x, k>>
        BY <3>0
      <3>. QED
        BY <1>5, <1>6, <1>7, <3>1
    <2>2. ASSUME NEW y \in P, NEW z \in P, g[y] = g[z] PROVE y = z
      <3>0. PICK x \in rs : \E k \in 1 .. x.hits : y = <<x, k>>
        BY <1>4
      <3>1. PICK k \in 1 .. x.hits : y = <<x, k>>
        BY <3>0
      <3>b. PICK w \in rs : \E l \in 1 .. w.hits : z = <<w, l>>
        BY <1>4
      <3>2. PICK l \in 1 .. w.hits : z = <<w, l>>
        BY <3>b
      <3>3. N(x)[k] = N(w)[l]
        BY <1>7, <2>2, <3>1, <3>2
      <3>4. x.scenario = w.scenario
        BY <1>5, <3>3
      <3>5. x = w
        BY <1>9, <3>4
      <3>. QED
        BY <1>5, <3>1, <3>2, <3>3, <3>5
    <2>3. ASSUME NEW r \in U PROVE \E y \in P : g[y] = r
      <3>1. PICK x \in rs : r \in of(x)
        BY <1>8
      <3>2. PICK k \in 1 .. x.hits : N(x)[k] = r
        BY <1>5, <3>1
      <3>. QED
        BY <1>7, <3>2
    <2>4. DOMAIN g = P /\ g = [y \in P |-> g[y]]
      BY DEF g
    <2>. QED
      BY <2>1, <2>2, <2>3, <2>4 DEF Bijection, Injection, IsInjective, Surjection
  <1>11. IsFiniteSet(U)
    BY RowsFinite, FS_Subset
  <1>12. ExistsBijection(U, P)
    <2>1. ExistsBijection(P, U)
      BY <1>10 DEF ExistsBijection
    <2>. QED
      BY <2>1, Fun_ExistsBijSymmetric
  <1>13. Cardinality(P) = Cardinality(U)
    BY <1>11, <1>12, FS_Bijection
  <1>. QED
    BY <1>1, <1>13

\* evaluate_benchmark.
LEMMA Accounts ==
    ASSUME Inv, GroupInv, BenchmarkKept, TagInv, EvaluateBenchmark
    PROVE  BenchmarkAccounts'
  <1>. SUFFICES ASSUME summary' # None PROVE BenchmarkAccounts'
    BY DEF BenchmarkAccounts
  <1>. DEFINE rs == {Result(sc) : sc \in benchmark}
  <1>1. /\ stage = "evaluate" /\ UNCHANGED <<benchmark, rows, events>>
        /\ results' = rs /\ summary' = Summary(rs)
    BY DEF EvaluateBenchmark
  <1>2. Injectable /\ Anomalies' = Anomalies
    BY <1>1 DEF BenchmarkKept, Anomalies, Rows
  <1>3. /\ summary'.hits = SumOfCounts([r \in rs |-> r.hits])
        /\ summary'.falseAlarms = Cardinality({r \in Anomalies : r.scenario = None})
    BY <1>1 DEF Summary
  <1>. DEFINE U == {r \in Anomalies : r.scenario # None}
              V == {r \in Anomalies : r.scenario = None}
  <1>4. summary'.hits = Cardinality(U)
    BY <1>1, <1>2, <1>3, HitsAre
  <1>5. Cardinality(U) + Cardinality(V) = Cardinality(Anomalies)
    <2>1. IsFiniteSet(Anomalies)
      BY RowsFinite
    <2>2. IsFiniteSet(U) /\ IsFiniteSet(V) /\ U \cup V = Anomalies /\ U \cap V = {}
      BY <2>1, FS_Subset
    <2>3. /\ Cardinality(U \cup V) = Cardinality(U) + Cardinality(V) - Cardinality(U \cap V)
          /\ Cardinality(U) \in Nat /\ Cardinality(V) \in Nat
      BY <2>2, FS_Union, FS_CardinalityType
    <2>4. Cardinality(U \cap V) = 0
      BY <2>2, FS_EmptySet
    <2>. HIDE DEF U, V
    <2>. QED
      BY <2>2, <2>3, <2>4
  <1>6. ASSUME NEW sc \in benchmark
        PROVE  \E r \in rs :
                 /\ r.scenario = sc.id /\ r.hits + r.misses = sc.duration
                 /\ r.detected => /\ r.delay \in 0 .. (sc.duration - 1)
                                  /\ \E e \in events : /\ r.event = {e}
                                                       /\ r.first \in e.start .. (e.end - 1)
    <2>1. Result(sc) \in rs
      OBVIOUS
    <2>. QED
      BY <1>1, <1>2, <2>1, ResultIs
  <1>. HIDE DEF rs, U
  <1>7. summary'.hits + summary'.falseAlarms = Cardinality(Anomalies)
    BY <1>3, <1>4, <1>5
  <1>. QED
    BY <1>1, <1>2, <1>6, <1>7 DEF BenchmarkAccounts

-----------------------------------------------------------------------------
(* Theorems.                                                                *)

\* The engine's running minimum over the adjusted p-values makes exactly the
\* decisions of the step-up rule, for families of any size and with any ties.
THEOREM AdjustmentIsStepUp == Spec => []SignificanceIsStepUp
  <1>1. Inv => SignificanceIsStepUp
    <2>. SUFFICES ASSUME Inv, stage = "decide", NEW t \in 1 .. Periods
                  PROVE  LET f == Family(t)
                             rejected == IF UnderLine(f) = {} THEN {}
                                         ELSE {r \in f : Rank(f, r) <= Max(UnderLine(f))}
                         IN  {r \in f : r.q <= Config.alpha} = rejected
      BY DEF SignificanceIsStepUp, UnderLine
    <2>. DEFINE f == Family(t)
    <2>1. IsFamily(f)
      BY FamilyIs DEF Inv
    <2>2. \A r \in f : r.q = Adjusted(f, r)
      BY DEF Inv, AdjustedRows
    <2>3. \A r \in f : r.q <= Config.alpha
                         <=> UnderLine(f) # {} /\ Rank(f, r) <= Max(UnderLine(f))
      <3>. HIDE DEF f
      <3>. QED
        BY <2>1, <2>2, AdjustedIsStepUp
    <2>. QED
      BY <2>3
  <1>. QED
    BY <1>1, Invariance, PTL

\* Whatever is detected, the published artifact passes the validator of the
\* package, which decides every alert again - unless a benchmark was run and
\* none of its scenarios was detected.
THEOREM PublishedIsValid == Spec => []PublishedValidatesIfDetected
  <1>1. Inv => PublishedValidatesIfDetected
    <2>. SUFFICES ASSUME Inv, stage = "published", summary # None => summary.detected > 0
                  PROVE  Validates
      BY DEF PublishedValidatesIfDetected
    <2>1. /\ artifact.anomalies = Cardinality(Anomalies)
          /\ artifact.events = Cardinality(events)
          /\ artifact.changes = Cardinality(Changes)
          /\ artifact.scenarios = Cardinality(benchmark)
          /\ artifact.meanDelay = IF summary = None THEN NoMean ELSE summary.meanDelay
          /\ QualityHolds
      BY DEF Inv, Recorded
    <2>2. \A r \in Rows : Explained(r)
      BY DEF Inv, ExplainedRows
    <2>3. BenchmarkAgrees
      <3>1. CASE summary = None
        BY <2>1, <3>1 DEF BenchmarkAgrees
      <3>2. CASE summary # None
        <4>1. summary.meanDelay # NoMean
          BY <3>2 DEF Inv, Summed
        <4>. QED
          BY <2>1, <3>2, <4>1 DEF BenchmarkAgrees
      <3>. QED
        BY <3>1, <3>2
    <2>. QED
      BY <2>1, <2>2, <2>3 DEF Validates
  <1>. QED
    BY <1>1, Invariance, PTL

\* _build_events: every alert is in one event, an event is nothing but a run of
\* alerts, and there is a period without one between any two events.
THEOREM EventsAreRuns == Spec => []EventsPartitionAlerts
  <1>1. Inv /\ GroupInv => EventsPartitionAlerts
    BY EventsHold DEF EventsPartitionAlerts
  <1>. QED
    BY <1>1, Invariance, GroupInvariance, PTL

\* _update_cusum: the recursively kept scores are the largest sums over the runs
\* of rows that end here, and the engine reports a change exactly where the
\* greater of them rises past the threshold, with the side and the start of the
\* latest run that attains it; for any series of any length, with any rows
\* between that are not eligible.
THEOREM ChangesAreCrossings == Spec => []ChangePointsAreCrossings
  <1>1. Inv /\ CusumInv => ChangePointsAreCrossings
    <2>. SUFFICES ASSUME Inv, CusumInv, stage = "score", NEW s \in Series, Live(s) # {}
                  PROVE  LET live   == Live(s)
                             n      == Max(live)
                             r      == rows[s][n]
                             up     == Best(Steps(s, 1), live)
                             down   == Best(Steps(s, -1), live)
                             sign   == IF up >= down THEN 1 ELSE -1
                             before == IF live = {n} THEN 0 ELSE rows[s][Max(live \ {n})].cusum
                         IN  /\ r.cusum = Max({up, down})
                             /\ r.changed <=> /\ r.cusum >= Config.cusumThreshold
                                              /\ before < Config.cusumThreshold
                             /\ r.changed =>
                                  /\ r.changeStart = rows[s][StartOfBest(Steps(s, sign), live)].start
                                  /\ r.direction = IF sign = 1 THEN "increase" ELSE "decrease"
      BY DEF ChangePointsAreCrossings
    <2>1. Live(s) = LiveIn(rows[s]) /\ \A sign : Steps(s, sign) = StepsIn(rows[s], sign)
      BY DEF Live, LiveIn, Steps, StepsIn
    <2>2. Reported(rows[s])
      BY <2>1 DEF CusumInv, Sums, SumsOf
    <2>. QED
      BY <2>1, <2>2 DEF Reported
  <1>. QED
    BY <1>1, Invariance, CusumInvariance, PTL

\* evaluate_benchmark: whatever the benchmark, every alert of the build is a hit
\* of exactly one scenario or a false alarm, every injected point is a hit or a
\* miss, and a detected scenario is matched with one event, which holds the
\* first of its alerts.
THEOREM BenchmarkAddsUp == Spec => []BenchmarkAccounts
  <1>1. Init => BenchmarkAccounts
    BY DEF Init, BenchmarkAccounts
  <1>2. /\ Inv /\ GroupInv /\ BenchmarkKept /\ TagInv /\ BenchmarkAccounts
        /\ [Next]_vars
        => BenchmarkAccounts'
    <2>. SUFFICES ASSUME Inv, GroupInv, BenchmarkKept, TagInv, BenchmarkAccounts, [Next]_vars
                  PROVE  BenchmarkAccounts'
      OBVIOUS
    <2>1. CASE EvaluateBenchmark
      BY <2>1, Accounts
    <2>2. CASE UNCHANGED <<benchmark, rows, events, results, summary>>
      <3>1. Anomalies' = Anomalies
        BY <2>2 DEF Anomalies, Rows
      <3>. QED
        BY <2>2, <3>1 DEF BenchmarkAccounts
    <2>3. CASE summary = None /\ summary' = summary
      BY <2>3 DEF BenchmarkAccounts
    <2>. QED
      BY <2>1, <2>2, <2>3 DEF Next, vars, Inject, InjectRefused, ScoreRow, SkipPeriod,
         TargetRefused, ApplyFdr, FinalizeAlerts, GroupAlert, Grouped, BuildEvents,
         BuildEventsRaises, Export, Refuse, Turn, Inv, Summed
  <1>. QED
    BY <1>1, <1>2, Invariance, GroupInvariance, BenchmarkInvariance, TagInvariance,
       PTL DEF Spec

-----------------------------------------------------------------------------
(* The simulation: sums of rounded amounts.                                *)

\* A rounded share is an integer at most half a unit from it.
LEMMA NearestIs ==
    ASSUME NEW x \in Int, NEW unit \in Nat \ {0}, NEW r \in Nearest(x, unit)
    PROVE  r \in Int /\ 2 * (unit * r - x) <= unit /\ 2 * (x - unit * r) <= unit
  BY DEF Nearest

\* Cents against an exact amount in hundredths of them, off by k halves of a cent.
HalfCents(r, x, k) == 2 * (100 * r - x) <= 100 * k /\ 2 * (x - 100 * r) <= 100 * k

\* To the cent.
LEMMA NearestCent ==
    ASSUME NEW x \in Int, NEW r \in Nearest(x, 100)
    PROVE  r \in Int /\ HalfCents(r, x, 1)
  BY NearestIs DEF HalfCents

\* Amounts g in cents, rounded one by one to n after a factor of c per cent.
RoundedEach(g, n, c) == \A i \in 1 .. Len(n) : HalfCents(n[i], g[i] * c, 1)

\* Rounding every summand moves a sum by half a cent for each at most.
LEMMA RoundedSum ==
    ASSUME NEW g \in Seq(Int), NEW n \in Seq(Int), Len(g) = Len(n), NEW c \in Int,
           RoundedEach(g, n, c)
    PROVE  Total(n) \in Int /\ HalfCents(Total(n), Total(g) * c, Len(n))
  <1>. DEFINE k == Len(n)
              N == RunningSum(n)
              G == RunningSum(g)
              S == {i \in Nat : i <= k =>
                       /\ 2 * (100 * N[i] - G[i] * c) <= 100 * i
                       /\ 2 * (G[i] * c - 100 * N[i]) <= 100 * i}
  <1>1. k \in Nat /\ SumsTo(N, n, k) /\ SumsTo(G, g, k)
    BY RunningSumIs
  <1>2. Total(n) = N[k] /\ Total(g) = G[k]
    BY DEF Total
  <1>3. \A i \in 1 .. k : n[i] \in Int /\ g[i] \in Int
    OBVIOUS
  <1>. HIDE DEF N, G, k
  <1>4. 0 \in S
    BY <1>1 DEF SumsTo
  <1>5. ASSUME NEW i \in Nat, i \in S
        PROVE  i + 1 \in S
    <2>1. CASE i + 1 <= k
      <3>. DEFINE a == N[i]
                  b == G[i]
                  u == n[i + 1]
                  v == g[i + 1]
      <3>1. i + 1 \in 1 .. k /\ i \in 0 .. k /\ (i + 1) - 1 = i
        BY <1>1, <2>1
      <3>2. /\ a \in Int /\ b \in Int /\ u \in Int /\ v \in Int
            /\ N[i + 1] = a + u /\ G[i + 1] = b + v
        BY <1>1, <1>3, <3>1 DEF SumsTo
      <3>3. 2 * (100 * a - b * c) <= 100 * i /\ 2 * (b * c - 100 * a) <= 100 * i
        BY <1>1, <1>5, <2>1
      <3>4. 2 * (100 * u - v * c) <= 100 /\ 2 * (v * c - 100 * u) <= 100
        BY <3>1 DEF k, RoundedEach, HalfCents
      <3>. HIDE DEF a, b, u, v
      <3>5. b * c \in Int /\ v * c \in Int /\ (b + v) * c = b * c + v * c
        BY <3>2
      <3>6. /\ 2 * (100 * (a + u) - (b + v) * c) <= 100 * (i + 1)
            /\ 2 * ((b + v) * c - 100 * (a + u)) <= 100 * (i + 1)
        <4>. DEFINE x == b * c
                    y == v * c
        <4>1. x \in Int /\ y \in Int /\ (b + v) * c = x + y
          BY <3>5
        <4>2. /\ 2 * (100 * a - x) <= 100 * i /\ 2 * (x - 100 * a) <= 100 * i
              /\ 2 * (100 * u - y) <= 100 /\ 2 * (y - 100 * u) <= 100
          BY <3>3, <3>4
        <4>. HIDE DEF x, y
        <4>. QED
          BY <3>2, <4>1, <4>2
      <3>. QED
        BY <3>2, <3>6
    <2>. QED
      BY <1>1, <2>1
  <1>6. \A i \in Nat : i \in S
    <2>. HIDE DEF S
    <2>. QED
      BY <1>4, <1>5, SetInduction
  <1>7. k \in S
    BY <1>1, <1>6
  <1>8. N[k] \in Int /\ G[k] \in Int
    BY <1>1 DEF SumsTo
  <1>9. /\ 2 * (100 * N[k] - G[k] * c) <= 100 * k
        /\ 2 * (G[k] * c - 100 * N[k]) <= 100 * k
    BY <1>1, <1>7
  <1>. QED
    BY <1>2, <1>8, <1>9 DEF k, HalfCents

\* A sum of counts is at least each of them.
LEMMA TotalOfCounts ==
    ASSUME NEW g \in Seq(Nat)
    PROVE  Total(g) \in Nat /\ \A i \in 1 .. Len(g) : g[i] <= Total(g)
  <1>. DEFINE k == Len(g)
              G == RunningSum(g)
              S == {i \in Nat : i <= k =>
                       G[i] \in Nat /\ \A j \in 1 .. i : g[j] <= G[i]}
  <1>1. g \in Seq(Int) /\ k \in Nat /\ \A i \in 1 .. k : g[i] \in Nat
    OBVIOUS
  <1>2. SumsTo(G, g, k) /\ Total(g) = G[k]
    BY <1>1, RunningSumIs DEF Total
  <1>. HIDE DEF G, k
  <1>3. 0 \in S
    BY <1>2 DEF SumsTo
  <1>4. ASSUME NEW i \in Nat, i \in S
        PROVE  i + 1 \in S
    <2>1. CASE i + 1 <= k
      <3>1. i + 1 \in 1 .. k /\ i \in 0 .. k /\ (i + 1) - 1 = i
        BY <1>1, <2>1
      <3>2. G[i + 1] = G[i] + g[i + 1] /\ g[i + 1] \in Nat
        BY <1>1, <1>2, <3>1 DEF SumsTo
      <3>3. G[i] \in Nat /\ \A j \in 1 .. i : g[j] <= G[i]
        BY <1>1, <1>4, <2>1
      <3>4. G[i + 1] \in Nat
        BY <3>2, <3>3
      <3>5. ASSUME NEW j \in 1 .. (i + 1)
            PROVE  g[j] <= G[i + 1]
        <4>1. CASE j = i + 1
          BY <3>2, <3>3, <4>1
        <4>2. CASE j \in 1 .. i
          <5>1. g[j] \in Nat /\ g[j] <= G[i]
            BY <1>1, <2>1, <3>3, <4>2
          <5>. QED
            BY <3>2, <3>3, <5>1
        <4>. QED
          BY <4>1, <4>2
      <3>. QED
        BY <3>4, <3>5
    <2>. QED
      BY <1>1, <2>1
  <1>5. \A i \in Nat : i \in S
    <2>. HIDE DEF S
    <2>. QED
      BY <1>3, <1>4, SetInduction
  <1>6. k \in S
    BY <1>1, <1>5
  <1>. QED
    BY <1>1, <1>2, <1>6 DEF k

-----------------------------------------------------------------------------
(* The simulation: its invariant.                                          *)

\* A table is empty before its phase, filled row by row in it, and has a row
\* for each source after it.
Filled(before, p, dom, source) ==
    /\ phase \in before => dom = {}
    /\ phase = p => todo \subseteq source /\ dom = source \ todo
    /\ phase \notin before \cup {p} => dom = source

Early == {"sessions", "payments", "orders", "inventory"}

\* The rows of every table are those of the rows they stem from.
TablesFill ==
    /\ phase \in Early \cup {"shipments", "scans", "returns", "refunds", "simulated"}
    /\ Filled({}, "sessions", DOMAIN sessions, Sessions)
    /\ Filled({"sessions"}, "payments", DOMAIN payments, Paying)
    /\ Filled({"sessions", "payments"}, "orders", DOMAIN orders, Approved)
    /\ DOMAIN items = DOMAIN orders
    /\ Filled(Early, "shipments", DOMAIN shipments, DOMAIN orders)
    /\ Filled(Early \cup {"shipments"}, "scans", DOMAIN scans, DOMAIN shipments)
    /\ phase \in Early \cup {"shipments", "scans"} => DOMAIN returns = {}
    /\ phase = "returns" => todo \subseteq Delivered
    /\ DOMAIN returns \subseteq Delivered
    /\ Filled(Early \cup {"shipments", "scans", "returns"}, "refunds",
              DOMAIN refunds, DOMAIN returns)

\* A session as it was drawn, and its approval.
DrawnRow(r) ==
    /\ DOMAIN r = {"start", "level", "channel", "campaign", "discount", "amount",
                   "approved", "addressAt", "inventoryAt", "paymentAt",
                   "completedAt", "stage", "reason"}
    /\ r.start \in 0 .. (EndAt - 1) /\ r.level \in 0..4 /\ r.discount \in 0..100
    /\ r.channel = "direct" <=> r.campaign = Null
    /\ r.addressAt = IF r.level >= 1 THEN r.start ELSE Null
    /\ r.inventoryAt = IF r.level >= 2 THEN r.start ELSE Null
    /\ r.paymentAt = IF r.level >= 4 THEN r.start + 1 ELSE Null
    /\ r.approved \in BOOLEAN

SessionsDrawn ==
    \A s \in DOMAIN sessions : /\ DrawnRow(sessions[s])
                               /\ sessions[s].approved <=> s \in Approved

\* A session's completion is that of its order.
SessionsComplete ==
    \A s \in DOMAIN sessions :
        sessions[s].completedAt = IF s \in DOMAIN orders THEN orders[s].at ELSE Null

\* What _finalize_sessions makes of a session.
StageOf(r) ==
    IF r.approved THEN "order_completed"
    ELSE IF r.level = 0 THEN "checkout_started"
    ELSE IF r.level = 1 THEN "address_submitted"
    ELSE IF r.level = 2 THEN "inventory_checked"
    ELSE IF r.level = 3 THEN "inventory_confirmed" ELSE "payment_started"

ReasonOf(r) ==
    IF r.approved THEN Null
    ELSE IF r.level = 0 THEN "customer_abandoned"
    ELSE IF r.level = 1 THEN "address_validation_failed"
    ELSE IF r.level = 2 THEN "inventory_unavailable"
    ELSE IF r.level = 3 THEN "before_payment" ELSE "payment_declined"

SessionsFinal ==
    phase \notin {"sessions", "payments", "orders"} =>
    \A s \in DOMAIN sessions : /\ sessions[s].stage = StageOf(sessions[s])
                               /\ sessions[s].reason = ReasonOf(sessions[s])

\* A payment is one of a session that started to pay, and once there is an order
\* takes its amount.
PaymentRow(r) == DOMAIN r = {"at", "amount", "approved"} /\ r.approved \in BOOLEAN

PaymentsAgree ==
    \A s \in DOMAIN payments :
        /\ PaymentRow(payments[s]) /\ s \in Paying
        /\ payments[s].at = sessions[s].start + 1
        /\ s \in DOMAIN orders => payments[s].amount = orders[s].total

\* The items of an order, and its amounts, each rounded on its own.
NetsOf(lines) == [i \in DOMAIN lines |-> lines[i].net]

ItemsAdd(o, lines) ==
    /\ Len(lines) \in 1..4 /\ DOMAIN lines = 1 .. Len(lines)
    /\ \A i \in 1 .. Len(lines) : lines[i].quantity \in Nat /\ lines[i].net \in Int
    /\ {o.subtotal, o.discount, o.tax, o.shipping, o.total} \subseteq Int
    /\ o.itemCount = Len(lines)
    /\ Within(Total(NetsOf(lines)), o.subtotal - o.discount, 2)
    /\ Within(o.total, o.subtotal - o.discount + o.tax + o.shipping, 2)
    /\ \A i \in 1 .. Len(lines) : lines[i].net <= o.total + OddCent

OrderRow(r) ==
    /\ DOMAIN r = {"at", "channel", "campaign", "status", "subtotal", "discount",
                   "tax", "shipping", "total", "itemCount"}
    /\ r.at \in Int

OrdersAgree ==
    \A s \in DOMAIN orders :
        /\ OrderRow(orders[s]) /\ ItemsAdd(orders[s], items[s])
        /\ s \in DOMAIN payments /\ orders[s].at >= payments[s].at
        /\ orders[s].channel = sessions[s].channel
        /\ orders[s].campaign = sessions[s].campaign
        /\ s \in DOMAIN shipments => orders[s].status = shipments[s].status

StockBalances ==
    /\ {stock.onHand, stock.reserved, stock.available, stock.reported} \subseteq Nat
    /\ stock.available = stock.onHand - stock.reserved
    /\ Within(stock.reported, stock.available, 1)

ShipmentRow(r) ==
    /\ DOMAIN r = {"shippedAt", "promisedAt", "deliveredAt", "status", "scanCount",
                   "late"}
    /\ r.shippedAt \in Int
    /\ r.deliveredAt # Null => /\ r.deliveredAt \in Int
                               /\ r.shippedAt <= r.deliveredAt
                               /\ r.deliveredAt <= EndAt
    /\ r.status = IF r.deliveredAt # Null THEN "delivered" ELSE "in_transit"

ShipmentsAgree == \A s \in DOMAIN shipments : ShipmentRow(shipments[s])

\* The scans of a shipment delivered at a time, or not at all.
ScanRows(q, deliveredAt) ==
    /\ DOMAIN q = 1 .. Len(q) /\ Len(q) = IF deliveredAt = Null THEN 3 ELSE 5
    /\ \A i \in 1 .. Len(q) : /\ q[i].sequence = i /\ q[i].source \in Int
                              /\ q[i].lag \in Nat \ {0}
                              /\ q[i].received = q[i].source + q[i].lag
    /\ \A i \in 2 .. Len(q) : q[i-1].source <= q[i].source
    /\ deliveredAt # Null => q[5].source = deliveredAt

ScansAgree ==
    \A s \in DOMAIN scans : /\ s \in DOMAIN shipments
                            /\ shipments[s].scanCount = Len(scans[s])
                            /\ ScanRows(scans[s], shipments[s].deliveredAt)

\* A return of one of some items delivered at a time.
ReturnRow(r, lines, deliveredAt) ==
    /\ r.item \in 1 .. Len(lines) /\ r.amount = lines[r.item].net
    /\ r.requestedAt \in Int /\ r.requestedAt > deliveredAt
    /\ r.receivedAt # Null => r.receivedAt \in Int /\ r.requestedAt <= r.receivedAt
    /\ r.status = IF r.receivedAt # Null THEN "received" ELSE "in_transit"

ReturnsAgree ==
    \A s \in DOMAIN returns :
        /\ s \in DOMAIN orders /\ s \in DOMAIN shipments
        /\ ReturnRow(returns[s], items[s], shipments[s].deliveredAt)

\* The refund of a return.
RefundRow(r, from) ==
    /\ r.amount = from.amount /\ r.initiatedAt \in Int
    /\ r.completedAt # Null =>
          /\ r.completedAt \in Int /\ r.initiatedAt <= r.completedAt
          /\ r.completedAt <= EndAt
          /\ from.receivedAt # Null /\ r.completedAt > from.receivedAt
    /\ r.status = IF r.completedAt # Null THEN "completed" ELSE "pending"

RefundsAgree ==
    \A s \in DOMAIN refunds : s \in DOMAIN returns /\ RefundRow(refunds[s], returns[s])

TablesAgree ==
    /\ TablesFill /\ SessionsDrawn /\ SessionsComplete /\ SessionsFinal /\ PaymentsAgree
    /\ OrdersAgree /\ StockBalances /\ ShipmentsAgree /\ ScansAgree /\ ReturnsAgree
    /\ RefundsAgree

SimulationInv == SimulationAssumption /\ (phase # "refused" => TablesAgree)

-----------------------------------------------------------------------------
(* The simulation: what a step does to a table.                            *)

\* Levels decide who pays, approvals who orders, states who may return.
LEMMA SetsSame ==
    /\ (/\ DOMAIN sessions' = DOMAIN sessions
        /\ \A t \in DOMAIN sessions : sessions'[t].level = sessions[t].level)
       => Paying' = Paying
    /\ (/\ DOMAIN payments' = DOMAIN payments
        /\ \A t \in DOMAIN payments : payments'[t].approved = payments[t].approved)
       => Approved' = Approved
    /\ (/\ DOMAIN shipments' = DOMAIN shipments
        /\ \A t \in DOMAIN shipments : shipments'[t].status = shipments[t].status)
       => Delivered' = Delivered
  BY DEF Paying, Approved, Delivered

\* What is not there yet in a phase.
LEMMA NotYet ==
    ASSUME TablesFill
    PROVE  /\ phase = "sessions" => /\ DOMAIN payments = {} /\ DOMAIN orders = {}
                                    /\ DOMAIN sessions = Sessions \ todo
                                    /\ todo \subseteq Sessions
           /\ phase = "payments" => /\ DOMAIN orders = {} /\ DOMAIN sessions = Sessions
                                    /\ DOMAIN payments = Paying \ todo
                                    /\ todo \subseteq Paying
           /\ phase = "orders" => /\ DOMAIN sessions = Sessions
                                  /\ DOMAIN payments = Paying
                                  /\ DOMAIN orders = Approved \ todo
                                  /\ todo \subseteq Approved
           /\ phase \in Early => /\ DOMAIN shipments = {} /\ DOMAIN scans = {}
                                 /\ DOMAIN returns = {} /\ DOMAIN refunds = {}
           /\ DOMAIN items = DOMAIN orders
  BY DEF TablesFill, Filled, Early

\* A session that is drawn.
LEMMA SessionStep ==
    ASSUME SimulationAssumption, TablesAgree, NEW s \in Sessions, GenerateSession(s)
    PROVE  TablesAgree'
  <1>1. phase = "sessions" /\ s \in todo /\ todo' = todo \ {s} /\ phase' = phase
    BY DEF GenerateSession, NextRow, Done
  <1>2. /\ payments' = payments /\ orders' = orders /\ items' = items /\ stock' = stock
        /\ shipments' = shipments /\ scans' = scans /\ returns' = returns
        /\ refunds' = refunds
    BY DEF GenerateSession
  <1>3. /\ TablesFill /\ SessionsDrawn /\ SessionsComplete /\ StockBalances
    BY DEF TablesAgree
  <1>4. /\ DOMAIN sessions = Sessions \ todo /\ todo \subseteq Sessions
        /\ DOMAIN payments = {} /\ DOMAIN orders = {} /\ DOMAIN items = {}
        /\ DOMAIN shipments = {} /\ DOMAIN scans = {} /\ DOMAIN returns = {}
        /\ DOMAIN refunds = {}
    BY <1>1, <1>3, NotYet DEF Early
  <1>5. PICK start \in Draw[s].start, level \in Draw[s].level,
             channel \in Draw[s].channel, discount \in Draw[s].discount :
         sessions' = With(sessions, s,
            [start |-> start, level |-> level, channel |-> channel,
             campaign |-> IF channel = "direct" THEN Null ELSE "campaign",
             discount |-> discount, amount |-> 0, approved |-> FALSE,
             addressAt |-> IF level >= 1 THEN start ELSE Null,
             inventoryAt |-> IF level >= 2 THEN start ELSE Null,
             paymentAt |-> IF level >= 4 THEN start + 1 ELSE Null,
             completedAt |-> Null, stage |-> Null, reason |-> Null])
    BY DEF GenerateSession
  <1>6. /\ start \in 0 .. (EndAt - 1) /\ level \in 0..4 /\ discount \in 0..100
        /\ Null # "campaign"
    BY DEF SimulationAssumption
  <1>. DEFINE row == [start |-> start, level |-> level, channel |-> channel,
             campaign |-> IF channel = "direct" THEN Null ELSE "campaign",
             discount |-> discount, amount |-> 0, approved |-> FALSE,
             addressAt |-> IF level >= 1 THEN start ELSE Null,
             inventoryAt |-> IF level >= 2 THEN start ELSE Null,
             paymentAt |-> IF level >= 4 THEN start + 1 ELSE Null,
             completedAt |-> Null, stage |-> Null, reason |-> Null]
  <1>7. /\ DOMAIN sessions' = DOMAIN sessions \cup {s} /\ sessions'[s] = row
        /\ \A t \in DOMAIN sessions : t # s => sessions'[t] = sessions[t]
    <2>1. sessions' = With(sessions, s, row)
      BY <1>5
    <2>. HIDE DEF row
    <2>. QED
      BY <2>1 DEF With
  <1>8. Approved = {} /\ Approved' = {}
    BY <1>2, <1>4 DEF Approved
  <1>9. TablesFill'
    BY <1>1, <1>2, <1>4, <1>7 DEF TablesFill, Filled, Early
  <1>10. SessionsDrawn'
    <2>1. DrawnRow(row) /\ row.approved = FALSE
      BY <1>6 DEF DrawnRow
    <2>. HIDE DEF row
    <2>. QED
      BY <1>3, <1>7, <1>8, <2>1 DEF SessionsDrawn
  <1>11. SessionsComplete'
    <2>1. row.completedAt = Null
      OBVIOUS
    <2>. HIDE DEF row
    <2>. QED
      BY <1>2, <1>3, <1>4, <1>7, <2>1 DEF SessionsComplete
  <1>12. SessionsFinal'
    BY <1>1 DEF SessionsFinal
  <1>13. StockBalances'
    BY <1>2, <1>3 DEF StockBalances
  <1>14. /\ PaymentsAgree' /\ OrdersAgree' /\ ShipmentsAgree' /\ ScansAgree'
         /\ ReturnsAgree' /\ RefundsAgree'
    BY <1>2, <1>4 DEF PaymentsAgree, OrdersAgree, ShipmentsAgree, ScansAgree,
       ReturnsAgree, RefundsAgree
  <1>. QED
    BY <1>9, <1>10, <1>11, <1>12, <1>13, <1>14 DEF TablesAgree

\* A payment that is tried.
LEMMA PaymentStep ==
    ASSUME SimulationAssumption, TablesAgree, NEW s \in Sessions, GeneratePayment(s)
    PROVE  TablesAgree'
  <1>1. phase = "payments" /\ s \in todo /\ todo' = todo \ {s} /\ phase' = phase
    BY DEF GeneratePayment, NextRow, Done
  <1>2. /\ orders' = orders /\ items' = items /\ stock' = stock
        /\ shipments' = shipments /\ scans' = scans /\ returns' = returns
        /\ refunds' = refunds
    BY DEF GeneratePayment
  <1>3. /\ TablesFill /\ SessionsDrawn /\ SessionsComplete /\ PaymentsAgree
        /\ StockBalances
    BY DEF TablesAgree
  <1>4. /\ DOMAIN sessions = Sessions /\ DOMAIN orders = {} /\ DOMAIN items = {}
        /\ DOMAIN payments = Paying \ todo /\ todo \subseteq Paying
        /\ DOMAIN shipments = {} /\ DOMAIN scans = {} /\ DOMAIN returns = {}
        /\ DOMAIN refunds = {}
    BY <1>1, <1>3, NotYet DEF Early
  <1>5. PICK approved \in Draw[s].approved :
         /\ payments' = With(payments, s,
               [at |-> sessions[s].paymentAt, amount |-> sessions[s].amount,
                approved |-> approved])
         /\ sessions' = [sessions EXCEPT ![s].approved = approved]
    BY DEF GeneratePayment
  <1>6. approved \in BOOLEAN
    BY DEF SimulationAssumption
  <1>. DEFINE row == [at |-> sessions[s].paymentAt, amount |-> sessions[s].amount,
                      approved |-> approved]
  <1>7. /\ DOMAIN payments' = DOMAIN payments \cup {s} /\ payments'[s] = row
        /\ \A t \in DOMAIN payments : t # s => payments'[t] = payments[t]
    <2>1. payments' = With(payments, s, row)
      BY <1>5
    <2>. HIDE DEF row
    <2>. QED
      BY <2>1 DEF With
  <1>8. /\ DOMAIN sessions' = DOMAIN sessions /\ s \in DOMAIN sessions
        /\ sessions'[s] = [sessions[s] EXCEPT !.approved = approved]
        /\ \A t \in DOMAIN sessions : t # s => sessions'[t] = sessions[t]
    BY <1>4, <1>5
  <1>9. /\ DrawnRow(sessions'[s]) /\ sessions'[s].approved = approved
        /\ sessions'[s].level = sessions[s].level /\ sessions'[s].start = sessions[s].start
        /\ sessions'[s].completedAt = sessions[s].completedAt
    <2>1. DrawnRow(sessions[s])
      BY <1>3, <1>8 DEF SessionsDrawn
    <2>. QED
      BY <1>6, <1>8, <2>1 DEF DrawnRow
  <1>10. Paying' = Paying /\ s \in Paying
    <2>1. \A t \in DOMAIN sessions : sessions'[t].level = sessions[t].level
      BY <1>8, <1>9
    <2>. QED
      BY <1>1, <1>4, <1>8, <2>1, SetsSame
  <1>11. \A t : t \in Approved' <=> IF t = s THEN approved ELSE t \in Approved
    <2>1. row.approved = approved
      OBVIOUS
    <2>. HIDE DEF row
    <2>. QED
      BY <1>7, <2>1 DEF Approved
  <1>12. TablesFill'
    BY <1>1, <1>2, <1>4, <1>7, <1>8, <1>10 DEF TablesFill, Filled, Early
  <1>13. SessionsDrawn'
    BY <1>3, <1>8, <1>9, <1>11 DEF SessionsDrawn
  <1>14. SessionsComplete'
    BY <1>2, <1>3, <1>8, <1>9 DEF SessionsComplete
  <1>15. SessionsFinal'
    BY <1>1 DEF SessionsFinal
  <1>16. PaymentsAgree'
    <2>1. PaymentRow(row)
      BY <1>6 DEF PaymentRow
    <2>2. row.at = sessions[s].start + 1
      BY <1>3, <1>8, <1>10 DEF SessionsDrawn, DrawnRow, Paying
    <2>. HIDE DEF row
    <2>. QED
      BY <1>2, <1>3, <1>4, <1>7, <1>8, <1>9, <1>10, <2>1, <2>2 DEF PaymentsAgree, Paying
  <1>17. StockBalances'
    BY <1>2, <1>3 DEF StockBalances
  <1>18. /\ OrdersAgree' /\ ShipmentsAgree' /\ ScansAgree'
         /\ ReturnsAgree' /\ RefundsAgree'
    BY <1>2, <1>4 DEF OrdersAgree, ShipmentsAgree, ScansAgree,
       ReturnsAgree, RefundsAgree
  <1>. QED
    BY <1>12, <1>13, <1>14, <1>15, <1>16, <1>17, <1>18 DEF TablesAgree

\* Nothing but the phase moves.
LEMMA PhaseStep ==
    ASSUME TablesAgree, UNCHANGED tables, TablesFill',
           phase \in {"sessions", "payments", "orders"} =>
              phase' \in {"sessions", "payments", "orders"}
    PROVE  TablesAgree'
  <1>1. /\ sessions' = sessions /\ payments' = payments /\ orders' = orders
        /\ items' = items /\ stock' = stock /\ shipments' = shipments
        /\ scans' = scans /\ returns' = returns /\ refunds' = refunds
    BY DEF tables
  <1>2. /\ SessionsDrawn' /\ SessionsComplete' /\ PaymentsAgree' /\ OrdersAgree'
    BY <1>1 DEF TablesAgree, SessionsDrawn, SessionsComplete, PaymentsAgree, OrdersAgree,
       Approved, Paying
  <1>3. /\ StockBalances' /\ ShipmentsAgree' /\ ScansAgree' /\ ReturnsAgree'
        /\ RefundsAgree'
    BY <1>1 DEF TablesAgree, StockBalances, ShipmentsAgree, ScansAgree, ReturnsAgree,
       RefundsAgree
  <1>4. SessionsFinal'
    BY <1>1 DEF TablesAgree, SessionsFinal
  <1>. QED
    BY <1>2, <1>3, <1>4 DEF TablesAgree

\* The phases that only follow one another.
LEMMA BeginStep ==
    ASSUME TablesAgree,
           \/ BeginPayments \/ BeginOrders \/ BeginShipments \/ BeginScans
           \/ BeginReturns \/ BeginRefunds \/ Simulated
    PROVE  TablesAgree'
  <1>1. TablesFill
    BY DEF TablesAgree
  <1>2. UNCHANGED tables /\ todo = {}
    BY DEF BeginPayments, BeginOrders, BeginShipments, BeginScans, BeginReturns,
       BeginRefunds, Simulated, Begin
  <1>3. /\ sessions' = sessions /\ payments' = payments /\ orders' = orders
        /\ items' = items /\ shipments' = shipments
        /\ scans' = scans /\ returns' = returns /\ refunds' = refunds
    BY <1>2 DEF tables
  <1>4. Paying' = Paying /\ Approved' = Approved /\ Delivered' = Delivered
    BY <1>3 DEF Paying, Approved, Delivered
  <1>5. CASE BeginPayments
    <2>1. phase = "sessions" /\ phase' = "payments" /\ todo' = Paying
      BY <1>5 DEF BeginPayments, Begin
    <2>2. TablesFill'
      BY <1>1, <1>2, <1>3, <1>4, <2>1 DEF TablesFill, Filled, Early
    <2>. QED
      BY <1>2, <2>1, <2>2, PhaseStep
  <1>6. CASE BeginOrders
    <2>1. phase = "payments" /\ phase' = "orders" /\ todo' = Approved
      BY <1>6 DEF BeginOrders, Begin
    <2>2. TablesFill'
      BY <1>1, <1>2, <1>3, <1>4, <2>1 DEF TablesFill, Filled, Early
    <2>. QED
      BY <1>2, <2>1, <2>2, PhaseStep
  <1>7. CASE BeginShipments
    <2>1. phase = "inventory" /\ phase' = "shipments" /\ todo' = DOMAIN orders
      BY <1>7 DEF BeginShipments, Begin
    <2>2. TablesFill'
      BY <1>1, <1>2, <1>3, <1>4, <2>1 DEF TablesFill, Filled, Early
    <2>. QED
      BY <1>2, <2>1, <2>2, PhaseStep
  <1>8. CASE BeginScans
    <2>1. phase = "shipments" /\ phase' = "scans" /\ todo' = DOMAIN shipments
      BY <1>8 DEF BeginScans, Begin
    <2>2. TablesFill'
      BY <1>1, <1>2, <1>3, <1>4, <2>1 DEF TablesFill, Filled, Early
    <2>. QED
      BY <1>2, <2>1, <2>2, PhaseStep
  <1>9. CASE BeginReturns
    <2>1. phase = "scans" /\ phase' = "returns" /\ todo' = Delivered
      BY <1>9 DEF BeginReturns, Begin
    <2>2. TablesFill'
      BY <1>1, <1>2, <1>3, <1>4, <2>1 DEF TablesFill, Filled, Early
    <2>. QED
      BY <1>2, <2>1, <2>2, PhaseStep
  <1>10. CASE BeginRefunds
    <2>1. phase = "returns" /\ phase' = "refunds" /\ todo' = DOMAIN returns
      BY <1>10 DEF BeginRefunds, Begin
    <2>2. TablesFill'
      BY <1>1, <1>2, <1>3, <1>4, <2>1 DEF TablesFill, Filled, Early
    <2>. QED
      BY <1>2, <2>1, <2>2, PhaseStep
  <1>11. CASE Simulated
    <2>1. phase = "refunds" /\ phase' = "simulated" /\ todo' = {}
      BY <1>11 DEF Simulated, Begin
    <2>2. TablesFill'
      BY <1>1, <1>2, <1>3, <1>4, <2>1 DEF TablesFill, Filled, Early
    <2>. QED
      BY <1>2, <2>1, <2>2, PhaseStep
  <1>. QED
    BY <1>5, <1>6, <1>7, <1>8, <1>9, <1>10, <1>11

\* A share and its rest.
LEMMA ShareAndRest ==
    ASSUME NEW a \in Nat, NEW p \in 0..100
    PROVE  a * (100 - p) \in Nat /\ a * p \in Nat /\ a * (100 - p) + a * p = 100 * a
  OBVIOUS

\* A product of natural numbers is one, and grows with its factors.
LEMMA ProductGrows ==
    ASSUME NEW a \in Nat, NEW b \in Nat, NEW c \in Nat
    PROVE  a * c \in Nat /\ (a <= b => a * c <= b * c) /\ (c > 0 => a <= a * c)
  OBVIOUS

\* Rounded items against rounded subtotal and discount; v is the exact value of
\* the items and w that of the discount, both in hundredths of a cent.
LEMMA ItemsRound ==
    ASSUME NEW v \in Int, NEW w \in Int, NEW sub \in Int, v + w = 100 * sub,
           NEW d \in Int, HalfCents(d, w, 1),
           NEW n \in Int, NEW k \in 1..4, HalfCents(n, v, k)
    PROVE  Within(n, sub - d, 2)
  <1>1. n - (sub - d) \in -2 .. 2
    BY DEF HalfCents
  <1>. QED
    BY <1>1 DEF Within

\* The same of the total.
LEMMA TotalRounds ==
    ASSUME NEW v \in Int, NEW w \in Int, NEW sub \in Int, v + w = 100 * sub,
           NEW d \in Int, HalfCents(d, w, 1), NEW a \in Int, NEW b \in Int,
           NEW n \in Int, HalfCents(n, v + 100 * (a + b), 1)
    PROVE  Within(n, sub - d + a + b, 2)
  <1>1. n - (sub - d + a + b) \in -2 .. 2
    BY DEF HalfCents
  <1>. QED
    BY <1>1 DEF Within

\* An item costs no more than the total, but for a cent without tax.
LEMMA ItemRounds ==
    ASSUME NEW y \in Int, NEW v \in Int, y <= v, NEW n \in Int, HalfCents(n, y, 1),
           NEW total \in Int, NEW fees \in Nat, TaxRate \in Nat, TaxRate > 0 => fees > 0,
           HalfCents(total, v + 100 * fees, 1)
    PROVE  n <= total + OddCent
  <1>1. n <= total + 1 - fees
    BY DEF HalfCents
  <1>2. CASE TaxRate > 0
    BY <1>1, <1>2 DEF OddCent
  <1>3. CASE TaxRate = 0
    BY <1>1, <1>3 DEF OddCent
  <1>. QED
    BY <1>2, <1>3

\* Tax on what is shipped for nothing does not round to nothing.
LEMMA TaxRounds ==
    ASSUME NEW v \in Nat, NEW tax \in Taxes(v), TaxRate \in Nat
    PROVE  tax \in Nat /\ (TaxRate > 0 /\ v >= 750000 => tax > 0)
  <1>. DEFINE x == v * TaxRate
  <1>1. x \in Nat /\ (TaxRate > 0 => v <= x)
    BY ProductGrows
  <1>2. tax \in Nearest(x, 1000000)
    BY DEF Taxes
  <1>. HIDE DEF x
  <1>3. tax \in Int /\ 2 * (x - 1000000 * tax) <= 1000000
    BY <1>1, <1>2, NearestIs
  <1>. QED
    BY <1>1, <1>3

\* The amounts the code computes for the order of a basket, and its items.
Amounts(o, basket, pct) ==
    /\ o.subtotal = Total([i \in DOMAIN basket |-> Gross(basket[i])])
    /\ o.discount \in Nearest(o.subtotal * pct, 100)
    /\ o.tax \in Taxes(o.subtotal * (100 - pct))
    /\ o.shipping = Shipping(o.subtotal * (100 - pct))
    /\ o.total \in Nearest(o.subtotal * (100 - pct) + 100 * (o.tax + o.shipping), 100)
    /\ o.itemCount = Len(basket)

\* The items of an order, rounded line by line, add up to its amounts.
LEMMA OrderAdds ==
    ASSUME SimulationAssumption, NEW s \in Sessions, NEW basket \in Draw[s].basket,
           NEW pct \in 0..100, NEW nets \in Nets(basket, pct), NEW o,
           Amounts(o, basket, pct)
    PROVE  ItemsAdd(o, Lines(basket, nets))
  <1>. DEFINE k == Len(basket)
              c == 100 - pct
              g == [i \in DOMAIN basket |-> Gross(basket[i])]
              sub == o.subtotal
              taxable == sub * c
              fees == o.tax + o.shipping
              lines == Lines(basket, nets)
  <1>1. /\ basket \in Seq(Product \X Nat) /\ k \in 1..4 /\ DOMAIN basket = 1 .. k
        /\ c \in 0..100 /\ TaxRate \in Nat
        /\ \A product \in Product : Price[product] \in Nat
    <2>1. /\ basket \in Seq(Product \X Nat) /\ k \in 1..4 /\ TaxRate \in Nat
          /\ \A product \in Product : Price[product] \in Nat
      BY DEF SimulationAssumption
    <2>. QED
      BY <2>1
  <1>2. \A i \in 1 .. k : basket[i][2] \in Nat /\ Gross(basket[i]) \in Nat
    <2>1. \A i \in 1 .. k : basket[i] \in Product \X Nat
      BY <1>1
    <2>2. \A i \in 1 .. k : basket[i][1] \in Product /\ basket[i][2] \in Nat
      BY <2>1
    <2>3. \A a, b \in Nat : a * b \in Nat
      OBVIOUS
    <2>. QED
      BY <1>1, <2>2, <2>3 DEF Gross
  <1>3. g \in Seq(Nat) /\ g \in Seq(Int) /\ Len(g) = k /\ \A i \in 1 .. k : g[i] \in Nat
    BY <1>1, <1>2
  <1>4. nets \in [1 .. k -> Int] /\ nets \in Seq(Int) /\ Len(nets) = k
        /\ \A i \in 1 .. k : nets[i] \in Int /\ HalfCents(nets[i], g[i] * c, 1)
    <2>1. /\ DOMAIN nets = 1 .. k /\ nets = [i \in 1 .. k |-> nets[i]]
          /\ \A i \in 1 .. k : nets[i] \in Nearest(Gross(basket[i]) * c, 100)
      BY <1>1 DEF Nets
    <2>2. \A i \in 1 .. k : Gross(basket[i]) * c \in Int /\ g[i] = Gross(basket[i])
      <3>1. \A i \in 1 .. k : Gross(basket[i]) \in Int /\ g[i] = Gross(basket[i])
        BY <1>1, <1>2
      <3>2. c \in Int /\ \A a, b \in Int : a * b \in Int
        BY <1>1
      <3>. HIDE DEF c, g
      <3>. QED
        BY <3>1, <3>2
    <2>3. ASSUME NEW i \in 1 .. k
          PROVE  nets[i] \in Int /\ HalfCents(nets[i], g[i] * c, 1)
      <3>. HIDE DEF c, g
      <3>1. nets[i] \in Nearest(g[i] * c, 100) /\ g[i] * c \in Int
        BY <2>1, <2>2
      <3>. QED
        BY <3>1, NearestCent
    <2>. HIDE DEF c, g
    <2>4. nets \in [1 .. k -> Int]
      BY <2>1, <2>3
    <2>. QED
      BY <1>1, <2>3, <2>4
  <1>5. /\ k \in 1..4 /\ c \in Nat /\ c \in Int /\ pct \in 0..100 /\ c = 100 - pct
        /\ TaxRate \in Nat
    BY <1>1
  <1>6. /\ sub = Total(g) /\ o.discount \in Nearest(sub * pct, 100)
        /\ o.tax \in Taxes(taxable)
        /\ o.shipping = Shipping(taxable)
        /\ o.total \in Nearest(taxable + 100 * fees, 100) /\ o.itemCount = k
    BY DEF Amounts
  <1>7. /\ DOMAIN lines = 1 .. k /\ Len(lines) = k
        /\ \A i \in 1 .. k : lines[i].quantity = basket[i][2] /\ lines[i].net = nets[i]
    BY <1>1 DEF Lines
  <1>. DEFINE share == sub * pct
  <1>. HIDE DEF g, k, sub, lines
  <1>8. Total(g) \in Nat /\ \A i \in 1 .. k : g[i] <= Total(g)
    BY <1>3, TotalOfCounts
  <1>9. sub \in Nat /\ \A i \in 1 .. k : g[i] <= sub
    BY <1>6, <1>8
  <1>10. taxable \in Nat /\ share \in Nat /\ taxable + share = 100 * sub
    BY <1>9, ShareAndRest
  <1>. HIDE DEF c
  <1>11. Total(nets) \in Int /\ HalfCents(Total(nets), taxable, k)
    <2>1. RoundedEach(g, nets, c)
      BY <1>4 DEF RoundedEach
    <2>2. Len(g) = Len(nets) /\ g \in Seq(Int) /\ nets \in Seq(Int) /\ c \in Int
      BY <1>3, <1>4, <1>5
    <2>3. Total(nets) \in Int /\ HalfCents(Total(nets), Total(g) * c, Len(nets))
      BY <2>1, <2>2, RoundedSum
    <2>. QED
      BY <1>4, <1>6, <2>3
  <1>12. ASSUME NEW i \in 1 .. k
         PROVE  g[i] * c \in Int /\ g[i] * c <= taxable
    <2>1. g[i] \in Nat /\ g[i] <= sub
      BY <1>3, <1>9
    <2>. QED
      BY <1>5, <1>9, <2>1, ProductGrows
  <1>. HIDE DEF taxable, share
  <1>13. o.discount \in Int /\ HalfCents(o.discount, share, 1)
    <2>1. o.discount \in Nearest(share, 100)
      BY <1>6 DEF share
    <2>. QED
      BY <1>10, <2>1, NearestCent
  <1>14. o.tax \in Nat /\ (TaxRate > 0 /\ taxable >= 750000 => o.tax > 0)
    BY <1>5, <1>6, <1>10, TaxRounds
  <1>15. o.shipping \in Nat /\ fees \in Nat /\ (TaxRate > 0 => fees > 0)
    BY <1>5, <1>6, <1>10, <1>14 DEF Shipping
  <1>16. o.total \in Int /\ HalfCents(o.total, taxable + 100 * fees, 1)
    <2>1. o.total \in Nearest(taxable + 100 * fees, 100) /\ taxable + 100 * fees \in Int
      BY <1>6, <1>10, <1>15
    <2>. HIDE DEF fees
    <2>. QED
      BY <2>1, NearestCent
  <1>17. ASSUME NEW i \in 1 .. k
         PROVE  nets[i] <= o.total + OddCent
    <2>1. /\ g[i] * c \in Int /\ g[i] * c <= taxable /\ nets[i] \in Int
          /\ HalfCents(nets[i], g[i] * c, 1)
      BY <1>4, <1>12
    <2>2. taxable \in Int /\ fees \in Nat
      BY <1>10, <1>15
    <2>. HIDE DEF fees
    <2>. QED
      BY <1>5, <1>15, <1>16, <2>1, <2>2, ItemRounds
  <1>18. Within(Total(nets), sub - o.discount, 2)
    <2>1. taxable \in Int /\ share \in Int /\ sub \in Int
      BY <1>9, <1>10
    <2>. QED
      BY <1>5, <1>10, <1>11, <1>13, <2>1, ItemsRound
  <1>19. Within(o.total, sub - o.discount + o.tax + o.shipping, 2)
    <2>1. taxable \in Int /\ share \in Int /\ sub \in Int /\ o.tax \in Int /\ o.shipping \in Int
      BY <1>9, <1>10, <1>14, <1>15
    <2>. QED
      BY <1>10, <1>13, <1>16, <2>1, TotalRounds
  <1>20. NetsOf(lines) = nets
    <2>1. nets = [i \in 1 .. k |-> nets[i]]
      BY <1>4
    <2>. QED
      BY <1>7, <2>1 DEF NetsOf
  <1>21. /\ {o.subtotal, o.discount, o.tax, o.shipping, o.total} \subseteq Int
         /\ Within(Total(NetsOf(lines)), o.subtotal - o.discount, 2)
         /\ Within(o.total, o.subtotal - o.discount + o.tax + o.shipping, 2)
    BY <1>9, <1>13, <1>14, <1>15, <1>16, <1>18, <1>19, <1>20 DEF sub
  <1>22. /\ Len(lines) \in 1..4 /\ DOMAIN lines = 1 .. Len(lines)
         /\ o.itemCount = Len(lines)
    BY <1>5, <1>6, <1>7
  <1>23. \A i \in 1 .. Len(lines) : /\ lines[i].quantity \in Nat /\ lines[i].net \in Int
                                   /\ lines[i].net <= o.total + OddCent
    BY <1>2, <1>4, <1>7, <1>17
  <1>. QED
    BY <1>21, <1>22, <1>23 DEF ItemsAdd, lines

\* What is placed.
LEMMA PlacedIs ==
    ASSUME NEW s, NEW at \in Int, NEW basket, NEW o \in Placed(s, at, basket)
    PROVE  /\ Amounts(o, basket, sessions[s].discount) /\ OrderRow(o) /\ o.at = at
           /\ o.channel = sessions[s].channel /\ o.campaign = sessions[s].campaign
  <1>. DEFINE pct == sessions[s].discount
              sub == Total([i \in DOMAIN basket |-> Gross(basket[i])])
              taxable == sub * (100 - pct)
              shipping == Shipping(taxable)
              k == Len(basket)
              Row(discount, tax, total) ==
                 [at |-> at, channel |-> sessions[s].channel,
                  campaign |-> sessions[s].campaign, status |-> "placed",
                  subtotal |-> sub, discount |-> discount, tax |-> tax,
                  shipping |-> shipping, total |-> total, itemCount |-> k]
              Totalled(discount, tax) ==
                 {Row(discount, tax, total) :
                     total \in Nearest(taxable + 100 * (tax + shipping), 100)}
  <1>1. o \in UNION {UNION {Totalled(discount, tax) : tax \in Taxes(taxable)} :
                     discount \in Nearest(sub * pct, 100)}
    BY DEF Placed
  <1>. HIDE DEF sub, shipping, taxable, k
  <1>2. PICK discount \in Nearest(sub * pct, 100) :
           o \in UNION {Totalled(discount, tax) : tax \in Taxes(taxable)}
    <2>. HIDE DEF Totalled
    <2>. QED
      BY <1>1
  <1>2a. PICK tax \in Taxes(taxable) : o \in Totalled(discount, tax)
    <2>. HIDE DEF Totalled
    <2>. QED
      BY <1>2
  <1>3. PICK total \in Nearest(taxable + 100 * (tax + shipping), 100) :
           o = Row(discount, tax, total)
    BY <1>2a
  <1>4. /\ o.at = at /\ o.channel = sessions[s].channel
        /\ o.campaign = sessions[s].campaign
        /\ o.subtotal = sub /\ o.discount = discount /\ o.tax = tax
        /\ o.shipping = shipping /\ o.total = total /\ o.itemCount = k
        /\ DOMAIN o = {"at", "channel", "campaign", "status", "subtotal", "discount",
                       "tax", "shipping", "total", "itemCount"}
    BY <1>3
  <1>. HIDE DEF Row
  <1>5. Amounts(o, basket, pct)
    <2>1. o.subtotal = Total([i \in DOMAIN basket |-> Gross(basket[i])])
      BY <1>4 DEF sub
    <2>2. o.discount \in Nearest(o.subtotal * pct, 100)
      BY <1>4
    <2>3. o.subtotal * (100 - pct) = taxable
      BY <1>4 DEF taxable
    <2>4. o.shipping = Shipping(o.subtotal * (100 - pct)) /\ o.itemCount = Len(basket)
      BY <1>4, <2>3 DEF shipping, k
    <2>5. /\ o.tax \in Taxes(o.subtotal * (100 - pct))
          /\ o.total \in Nearest(o.subtotal * (100 - pct) + 100 * (o.tax + o.shipping), 100)
      BY <1>3, <1>4, <2>3
    <2>. QED
      BY <2>1, <2>2, <2>4, <2>5 DEF Amounts
  <1>. QED
    BY <1>4, <1>5 DEF OrderRow

\* An order, made of an approved payment.
LEMMA OrderStep ==
    ASSUME SimulationAssumption, TablesAgree, NEW s \in Sessions, GenerateOrder(s)
    PROVE  TablesAgree'
  <1>1. phase = "orders" /\ s \in todo /\ todo' = todo \ {s} /\ phase' = phase
    BY DEF GenerateOrder, NextRow, Done
  <1>2. /\ stock' = stock /\ shipments' = shipments /\ scans' = scans
        /\ returns' = returns /\ refunds' = refunds
    BY DEF GenerateOrder
  <1>3. /\ TablesFill /\ SessionsDrawn /\ SessionsComplete /\ PaymentsAgree
        /\ OrdersAgree /\ StockBalances
    BY DEF TablesAgree
  <1>4. /\ DOMAIN sessions = Sessions /\ DOMAIN payments = Paying
        /\ DOMAIN orders = Approved \ todo /\ todo \subseteq Approved
        /\ DOMAIN items = DOMAIN orders
        /\ DOMAIN shipments = {} /\ DOMAIN scans = {} /\ DOMAIN returns = {}
        /\ DOMAIN refunds = {} /\ s \in DOMAIN sessions /\ s \in DOMAIN payments
    <2>1. todo \subseteq Approved /\ Approved \subseteq DOMAIN payments
      BY <1>1, <1>3, NotYet DEF Approved
    <2>. QED
      BY <1>1, <1>3, <2>1, NotYet DEF Early
  <1>5. PICK basket \in Draw[s].basket, delay \in Draw[s].orderDelay :
          \E nets \in Nets(basket, sessions[s].discount),
             o \in Placed(s, payments[s].at + delay, basket) :
            /\ orders' = With(orders, s, o)
            /\ items' = With(items, s, Lines(basket, nets))
            /\ payments' = [payments EXCEPT ![s] = Settle(@, o.total)]
            /\ sessions' = [sessions EXCEPT ![s].completedAt = o.at,
                                            ![s].amount = o.total]
    BY DEF GenerateOrder
  <1>6. PICK nets \in Nets(basket, sessions[s].discount),
             o \in Placed(s, payments[s].at + delay, basket) :
            /\ orders' = With(orders, s, o)
            /\ items' = With(items, s, Lines(basket, nets))
            /\ payments' = [payments EXCEPT ![s] = Settle(@, o.total)]
            /\ sessions' = [sessions EXCEPT ![s].completedAt = o.at,
                                            ![s].amount = o.total]
    BY <1>5
  <1>. DEFINE lines == Lines(basket, nets)
              session == [sessions[s] EXCEPT !.completedAt = o.at, !.amount = o.total]
              payment == [payments[s] EXCEPT !.amount = o.total]
  <1>7. /\ DrawnRow(sessions[s]) /\ PaymentRow(payments[s])
        /\ sessions[s].discount \in 0..100
        /\ payments[s].at \in Int /\ delay \in Nat
    <2>1. DrawnRow(sessions[s]) /\ PaymentRow(payments[s]) /\ delay \in Nat
          /\ payments[s].at = sessions[s].start + 1
      BY <1>3, <1>4 DEF SessionsDrawn, PaymentsAgree, SimulationAssumption
    <2>. QED
      BY <2>1 DEF DrawnRow
  <1>8. /\ Amounts(o, basket, sessions[s].discount) /\ OrderRow(o)
        /\ o.at \in Int /\ o.at >= payments[s].at
        /\ o.channel = sessions[s].channel /\ o.campaign = sessions[s].campaign
    <2>1. payments[s].at + delay \in Int /\ payments[s].at + delay >= payments[s].at
      BY <1>7
    <2>. QED
      BY <2>1, PlacedIs
  <1>9. ItemsAdd(o, lines)
    BY <1>7, <1>8, OrderAdds
  <1>10. /\ DOMAIN orders' = DOMAIN orders \cup {s} /\ orders'[s] = o
         /\ \A t \in DOMAIN orders : t # s => orders'[t] = orders[t]
         /\ DOMAIN items' = DOMAIN items \cup {s} /\ items'[s] = lines
         /\ \A t \in DOMAIN items : t # s => items'[t] = items[t]
    <2>1. orders' = With(orders, s, o) /\ items' = With(items, s, lines)
      BY <1>6
    <2>. HIDE DEF lines
    <2>. QED
      BY <2>1 DEF With
  <1>10a. /\ DOMAIN sessions' = DOMAIN sessions /\ sessions'[s] = session
          /\ \A t \in DOMAIN sessions : t # s => sessions'[t] = sessions[t]
          /\ DOMAIN payments' = DOMAIN payments /\ payments'[s] = payment
          /\ \A t \in DOMAIN payments : t # s => payments'[t] = payments[t]
    BY <1>4, <1>6 DEF Settle
  <1>11. /\ DrawnRow(session) /\ session.level = sessions[s].level
         /\ session.start = sessions[s].start
         /\ session.approved = sessions[s].approved
         /\ session.channel = sessions[s].channel
         /\ session.campaign = sessions[s].campaign
         /\ session.completedAt = o.at
    BY <1>7 DEF DrawnRow
  <1>12. /\ PaymentRow(payment) /\ payment.at = payments[s].at
         /\ payment.approved = payments[s].approved /\ payment.amount = o.total
    BY <1>7 DEF PaymentRow
  <1>. HIDE DEF lines, session, payment
  <1>13. Paying' = Paying /\ Approved' = Approved
    <2>1. /\ \A t \in DOMAIN sessions : sessions'[t].level = sessions[t].level
          /\ \A t \in DOMAIN payments : payments'[t].approved = payments[t].approved
      BY <1>10a, <1>11, <1>12
    <2>. QED
      BY <1>10a, <2>1, SetsSame
  <1>14. TablesFill'
    <2>1. /\ DOMAIN sessions' = Sessions /\ DOMAIN payments' = Paying'
          /\ DOMAIN orders' = Approved' \ todo' /\ todo' \subseteq Approved'
          /\ DOMAIN items' = DOMAIN orders'
          /\ DOMAIN shipments' = {} /\ DOMAIN scans' = {} /\ DOMAIN returns' = {}
          /\ DOMAIN refunds' = {} /\ phase' = "orders"
      BY <1>1, <1>2, <1>4, <1>10, <1>10a, <1>13
    <2>. QED
      BY <2>1 DEF TablesFill, Filled, Early
  <1>15. SessionsDrawn'
    BY <1>3, <1>10a, <1>11, <1>13 DEF SessionsDrawn
  <1>16. SessionsComplete'
    BY <1>3, <1>10, <1>10a, <1>11 DEF SessionsComplete
  <1>17. SessionsFinal'
    BY <1>1 DEF SessionsFinal
  <1>18. PaymentsAgree'
    <2>1. \A t \in DOMAIN payments : /\ t \in DOMAIN orders' /\ t # s => t \in DOMAIN orders
                                     /\ t \in DOMAIN sessions
      BY <1>4, <1>10 DEF Paying
    <2>2. \A t \in DOMAIN payments : sessions'[t].start = sessions[t].start
      BY <1>10a, <1>11, <2>1
    <2>. QED
      BY <1>3, <1>4, <1>10, <1>10a, <1>12, <1>13, <2>1, <2>2 DEF PaymentsAgree
  <1>19. OrdersAgree'
    <2>1. \A t \in DOMAIN orders : t \in DOMAIN payments /\ t \in DOMAIN sessions
      BY <1>4 DEF Approved, Paying
    <2>2. ASSUME NEW t \in DOMAIN orders'
          PROVE  /\ OrderRow(orders'[t]) /\ ItemsAdd(orders'[t], items'[t])
                 /\ t \in DOMAIN payments' /\ orders'[t].at >= payments'[t].at
                 /\ orders'[t].channel = sessions'[t].channel
                 /\ orders'[t].campaign = sessions'[t].campaign
      <3>1. CASE t = s
        BY <1>4, <1>8, <1>9, <1>10, <1>10a, <1>11, <1>12, <3>1
      <3>2. CASE t # s
        <4>1. t \in DOMAIN orders /\ t \in DOMAIN items /\ orders'[t] = orders[t]
              /\ items'[t] = items[t]
          BY <1>4, <1>10, <3>2
        <4>2. /\ OrderRow(orders[t]) /\ ItemsAdd(orders[t], items[t])
              /\ t \in DOMAIN payments /\ orders[t].at >= payments[t].at
              /\ orders[t].channel = sessions[t].channel
              /\ orders[t].campaign = sessions[t].campaign
          BY <1>3, <4>1 DEF OrdersAgree
        <4>3. payments'[t] = payments[t] /\ sessions'[t] = sessions[t]
          BY <1>10a, <2>1, <3>2, <4>1
        <4>. QED
          BY <1>10a, <4>1, <4>2, <4>3
      <3>. QED
        BY <3>1, <3>2
    <2>. QED
      BY <1>2, <1>4, <2>2 DEF OrdersAgree
  <1>20. StockBalances'
    BY <1>2, <1>3 DEF StockBalances
  <1>21. ShipmentsAgree' /\ ScansAgree' /\ ReturnsAgree' /\ RefundsAgree'
    BY <1>2, <1>4 DEF ShipmentsAgree, ScansAgree, ReturnsAgree, RefundsAgree
  <1>. QED
    BY <1>14, <1>15, <1>16, <1>17, <1>18, <1>19, <1>20, <1>21 DEF TablesAgree

\* The greatest of some numbers.
LEMMA MaxIs ==
    ASSUME NEW S, S \subseteq Nat, NEW k \in S, \A y \in S : y <= k
    PROVE  Max(S) = k
  <1>. DEFINE m == Max(S)
  <1>1. m \in S /\ m >= k
    BY MaxOfNaturals
  <1>2. m \in Nat /\ k \in Nat /\ m <= k
    BY <1>1
  <1>. HIDE DEF m
  <1>3. m = k
    BY <1>1, <1>2
  <1>. QED
    BY <1>3 DEF m

\* The last mark of a session is that of its stage.
LEMMA FinalizedIs ==
    ASSUME NEW r, DrawnRow(r)
    PROVE  Finalized(r) = [r EXCEPT !.stage = StageOf(r), !.reason = ReasonOf(r)]
  <1>. DEFINE marks == <<<<r.level >= 0, "checkout_started", "customer_abandoned">>,
                   <<r.level >= 1, "address_submitted", "address_validation_failed">>,
                   <<r.level >= 2, "inventory_checked", "inventory_unavailable">>,
                   <<r.level >= 3, "inventory_confirmed", "before_payment">>,
                   <<r.level >= 4, "payment_started", "payment_declined">>,
                   <<r.approved, "order_completed", Null>>>>
              S == {i \in DOMAIN marks : marks[i][1]}
              k == IF r.approved THEN 6 ELSE r.level + 1
  <1>1. r.level \in 0..4 /\ r.approved \in BOOLEAN
    BY DEF DrawnRow
  <1>2. DOMAIN marks = 1..6
    OBVIOUS
  <1>3. /\ marks[1] = <<r.level >= 0, "checkout_started", "customer_abandoned">>
        /\ marks[2] = <<r.level >= 1, "address_submitted", "address_validation_failed">>
        /\ marks[3] = <<r.level >= 2, "inventory_checked", "inventory_unavailable">>
        /\ marks[4] = <<r.level >= 3, "inventory_confirmed", "before_payment">>
        /\ marks[5] = <<r.level >= 4, "payment_started", "payment_declined">>
        /\ marks[6] = <<r.approved, "order_completed", Null>>
    OBVIOUS
  <1>. HIDE DEF marks
  <1>4. /\ marks[1][1] = (r.level >= 0) /\ marks[2][1] = (r.level >= 1)
        /\ marks[3][1] = (r.level >= 2) /\ marks[4][1] = (r.level >= 3)
        /\ marks[5][1] = (r.level >= 4) /\ marks[6][1] = r.approved
    BY <1>3
  <1>5. \A i \in 1..6 : marks[i][1] <=> IF i = 6 THEN r.approved ELSE i <= r.level + 1
    <2>1. /\ (marks[1][1] <=> 1 <= r.level + 1) /\ (marks[2][1] <=> 2 <= r.level + 1)
          /\ (marks[3][1] <=> 3 <= r.level + 1) /\ (marks[4][1] <=> 4 <= r.level + 1)
          /\ (marks[5][1] <=> 5 <= r.level + 1)
      <3>1. /\ (r.level >= 0 <=> 1 <= r.level + 1) /\ (r.level >= 1 <=> 2 <= r.level + 1)
            /\ (r.level >= 2 <=> 3 <= r.level + 1) /\ (r.level >= 3 <=> 4 <= r.level + 1)
            /\ (r.level >= 4 <=> 5 <= r.level + 1)
        BY <1>1
      <3>. QED
        BY <1>4, <3>1, Zenon
    <2>2. ASSUME NEW i \in 1..6
          PROVE  i = 1 \/ i = 2 \/ i = 3 \/ i = 4 \/ i = 5 \/ i = 6
      OBVIOUS
    <2>. QED
      BY <1>4, <2>1, <2>2
  <1>6. S \subseteq Nat /\ k \in S /\ \A y \in S : y <= k
    <2>1. \A i : i \in S <=> /\ i \in 1..6
                             /\ IF i = 6 THEN r.approved ELSE i <= r.level + 1
      BY <1>2, <1>5
    <2>. HIDE DEF S
    <2>. QED
      BY <1>1, <2>1
  <1>7. Max(S) = k
    <2>. HIDE DEF S, k
    <2>. QED
      BY <1>6, MaxIs
  <1>8. marks[k][2] = StageOf(r) /\ marks[k][3] = ReasonOf(r)
    <2>1. /\ marks[1][2] = "checkout_started" /\ marks[1][3] = "customer_abandoned"
          /\ marks[2][2] = "address_submitted"
          /\ marks[2][3] = "address_validation_failed"
          /\ marks[3][2] = "inventory_checked" /\ marks[3][3] = "inventory_unavailable"
          /\ marks[4][2] = "inventory_confirmed" /\ marks[4][3] = "before_payment"
          /\ marks[5][2] = "payment_started" /\ marks[5][3] = "payment_declined"
          /\ marks[6][2] = "order_completed" /\ marks[6][3] = Null
      BY <1>3
    <2>2. CASE r.approved
      BY <2>1, <2>2 DEF StageOf, ReasonOf
    <2>3. CASE ~ r.approved
      <3>1. k = r.level + 1
        BY <2>3
      <3>. HIDE DEF k
      <3>2. CASE r.level = 0
        BY <2>1, <2>3, <3>1, <3>2 DEF StageOf, ReasonOf
      <3>3. CASE r.level = 1
        BY <2>1, <2>3, <3>1, <3>3 DEF StageOf, ReasonOf
      <3>4. CASE r.level = 2
        BY <2>1, <2>3, <3>1, <3>4 DEF StageOf, ReasonOf
      <3>5. CASE r.level = 3
        BY <2>1, <2>3, <3>1, <3>5 DEF StageOf, ReasonOf
      <3>6. CASE r.level = 4
        BY <2>1, <2>3, <3>1, <3>6 DEF StageOf, ReasonOf
      <3>. QED
        BY <1>1, <3>2, <3>3, <3>4, <3>5, <3>6
    <2>. QED
      BY <2>2, <2>3
  <1>9. Finalized(r) = [r EXCEPT !.stage = marks[Max(S)][2], !.reason = marks[Max(S)][3]]
    BY DEF Finalized, marks
  <1>. HIDE DEF S, k
  <1>. QED
    BY <1>7, <1>8, <1>9

\* The sessions get their stage.
LEMMA FinalizeStep ==
    ASSUME TablesAgree, FinalizeSessions
    PROVE  TablesAgree'
  <1>1. phase = "orders" /\ todo = {} /\ phase' = "inventory" /\ todo' = {}
    BY DEF FinalizeSessions, Begin
  <1>2. /\ payments' = payments /\ orders' = orders /\ items' = items /\ stock' = stock
        /\ shipments' = shipments /\ scans' = scans /\ returns' = returns
        /\ refunds' = refunds
        /\ sessions' = [s \in DOMAIN sessions |-> Finalized(sessions[s])]
    BY DEF FinalizeSessions
  <1>3. /\ TablesFill /\ SessionsDrawn /\ SessionsComplete /\ PaymentsAgree
        /\ OrdersAgree /\ StockBalances
    BY DEF TablesAgree
  <1>4. ASSUME NEW s \in DOMAIN sessions
        PROVE  /\ DrawnRow(sessions'[s]) /\ sessions'[s].level = sessions[s].level
               /\ sessions'[s].start = sessions[s].start
               /\ sessions'[s].approved = sessions[s].approved
               /\ sessions'[s].channel = sessions[s].channel
               /\ sessions'[s].campaign = sessions[s].campaign
               /\ sessions'[s].completedAt = sessions[s].completedAt
               /\ sessions'[s].stage = StageOf(sessions'[s])
               /\ sessions'[s].reason = ReasonOf(sessions'[s])
    <2>. DEFINE r == sessions[s]
                q == [r EXCEPT !.stage = StageOf(r), !.reason = ReasonOf(r)]
    <2>1. DrawnRow(r) /\ sessions'[s] = q
      <3>1. DrawnRow(r) /\ sessions'[s] = Finalized(r)
        BY <1>2, <1>3 DEF SessionsDrawn
      <3>. QED
        BY <3>1, FinalizedIs
    <2>2. /\ q.level = r.level /\ q.start = r.start /\ q.approved = r.approved
          /\ q.channel = r.channel /\ q.campaign = r.campaign
          /\ q.completedAt = r.completedAt /\ q.discount = r.discount
          /\ q.addressAt = r.addressAt /\ q.inventoryAt = r.inventoryAt
          /\ q.paymentAt = r.paymentAt /\ DOMAIN q = DOMAIN r
          /\ q.stage = StageOf(r) /\ q.reason = ReasonOf(r)
      BY <2>1 DEF DrawnRow
    <2>. HIDE DEF q
    <2>3. DrawnRow(q)
      BY <2>1, <2>2 DEF DrawnRow
    <2>4. StageOf(q) = StageOf(r) /\ ReasonOf(q) = ReasonOf(r)
      BY <2>2 DEF StageOf, ReasonOf
    <2>. QED
      BY <2>1, <2>2, <2>3, <2>4
  <1>5. DOMAIN sessions' = DOMAIN sessions
    BY <1>2
  <1>6. Paying' = Paying /\ Approved' = Approved
    <2>1. \A s \in DOMAIN sessions : sessions'[s].level = sessions[s].level
      BY <1>4
    <2>2. Paying' = Paying
      BY <1>5, <2>1, SetsSame
    <2>. QED
      BY <1>2, <2>2 DEF Approved
  <1>7. TablesFill'
    BY <1>1, <1>2, <1>3, <1>5, <1>6 DEF TablesFill, Filled, Early
  <1>8. SessionsDrawn' /\ SessionsComplete' /\ SessionsFinal'
    <2>1. SessionsDrawn'
      BY <1>3, <1>4, <1>5, <1>6 DEF SessionsDrawn
    <2>2. SessionsComplete'
      BY <1>2, <1>3, <1>4, <1>5 DEF SessionsComplete
    <2>3. SessionsFinal'
      BY <1>4, <1>5 DEF SessionsFinal
    <2>. QED
      BY <2>1, <2>2, <2>3
  <1>9. PaymentsAgree' /\ OrdersAgree'
    <2>1. Paying \subseteq DOMAIN sessions
      BY DEF Paying
    <2>2. DOMAIN orders \subseteq DOMAIN payments /\ DOMAIN payments \subseteq DOMAIN sessions
      BY <1>3, <2>1 DEF OrdersAgree, PaymentsAgree
    <2>3. PaymentsAgree'
      BY <1>2, <1>3, <1>4, <1>6, <2>2 DEF PaymentsAgree
    <2>4. OrdersAgree'
      BY <1>2, <1>3, <1>4, <2>2 DEF OrdersAgree
    <2>. QED
      BY <2>3, <2>4
  <1>10. /\ StockBalances' /\ ShipmentsAgree' /\ ScansAgree' /\ ReturnsAgree'
         /\ RefundsAgree'
    BY <1>2 DEF TablesAgree, StockBalances, ShipmentsAgree, ScansAgree, ReturnsAgree,
       RefundsAgree
  <1>. QED
    BY <1>7, <1>8, <1>9, <1>10 DEF TablesAgree

\* The least of two numbers.
LEMMA MinOfTwo ==
    ASSUME NEW a \in Int, NEW b \in Int
    PROVE  Min({a, b}) = IF a <= b THEN a ELSE b
  BY DEF Min

\* A sum of integers is one.
LEMMA TotalIsInt ==
    ASSUME NEW seq \in Seq(Int)
    PROVE  Total(seq) \in Int
  BY RunningSumIs DEF SumsTo, Total

\* So is what a day's orders ask for.
LEMMA DemandIsInt ==
    ASSUME SimulationAssumption, OrdersAgree, NEW day
    PROVE  Demand(day) \in Int
  <1>. DEFINE asked(s) == [i \in DOMAIN items[s] |->
                   IF items[s][i].product = 1 THEN items[s][i].quantity ELSE 0]
              of(s) == IF s \in DOMAIN orders /\ orders[s].at \div 48 = day
                       THEN Total(asked(s)) ELSE 0
              n == Cardinality(Sessions)
  <1>1. ASSUME NEW s \in DOMAIN orders
        PROVE  Total(asked(s)) \in Int
    <2>. DEFINE k == Len(items[s])
    <2>1. /\ DOMAIN items[s] = 1 .. k /\ k \in Nat
          /\ \A i \in 1 .. k : items[s][i].quantity \in Int
      BY DEF OrdersAgree, ItemsAdd
    <2>2. asked(s) = [i \in 1 .. k |-> IF items[s][i].product = 1
                                       THEN items[s][i].quantity ELSE 0]
      BY <2>1
    <2>3. asked(s) \in Seq(Int)
      <3>. HIDE DEF k
      <3>. QED
        BY <2>1, <2>2
    <2>. HIDE DEF asked
    <2>. QED
      BY <2>3, TotalIsInt
  <1>2. n \in Nat /\ Sessions = 1 .. n
    BY FS_CardinalityType DEF SimulationAssumption
  <1>. HIDE DEF asked, n
  <1>3. \A s \in 1 .. n : of(s) \in Int
    BY <1>1
  <1>4. Demand(day) = Total([s \in 1 .. n |-> of(s)])
    BY <1>2 DEF Demand, asked
  <1>5. [s \in 1 .. n |-> of(s)] \in Seq(Int)
    <2>. HIDE DEF of
    <2>. QED
      BY <1>2, <1>3
  <1>. HIDE DEF of
  <1>. QED
    BY <1>4, <1>5, TotalIsInt

\* A day's stock.
LEMMA InventoryStep ==
    ASSUME SimulationAssumption, TablesAgree, GenerateInventory
    PROVE  TablesAgree'
  <1>1. /\ phase' = phase /\ todo' = todo /\ sessions' = sessions
        /\ payments' = payments /\ orders' = orders /\ items' = items
        /\ shipments' = shipments /\ scans' = scans /\ returns' = returns
        /\ refunds' = refunds
    BY DEF GenerateInventory
  <1>2. StockBalances /\ OrdersAgree
    BY DEF TablesAgree
  <1>. DEFINE demand == Demand(stock.day)
              left == Max({0, stock.onHand - demand})
              onHand == IF left < ReorderPoint THEN left + 3 * ReorderPoint ELSE left
  <1>3. PICK reserve \in {0, 3}, noise \in {-1, 0, 1} :
          stock' = [day |-> stock.day + 1, onHand |-> onHand,
                    reserved |-> Min({reserve, onHand}),
                    available |-> onHand - Min({reserve, onHand}),
                    reported |-> Max({0, (onHand - Min({reserve, onHand})) + noise})]
    BY DEF GenerateInventory
  <1>4. demand \in Int /\ stock.onHand \in Nat /\ ReorderPoint \in Nat
    BY <1>2, DemandIsInt DEF StockBalances, SimulationAssumption
  <1>. HIDE DEF demand
  <1>5. left \in Nat
    BY <1>4, MaxOfTwo
  <1>. HIDE DEF left
  <1>6. onHand \in Nat
    BY <1>4, <1>5
  <1>. HIDE DEF onHand
  <1>. DEFINE reserved == Min({reserve, onHand})
              available == onHand - reserved
              reported == Max({0, available + noise})
  <1>7. reserved \in Nat /\ reserved <= onHand
    BY <1>6, MinOfTwo
  <1>. HIDE DEF reserved
  <1>8. available \in Nat
    BY <1>6, <1>7
  <1>. HIDE DEF available
  <1>9. reported \in Nat /\ reported - available \in -1 .. 1
    BY <1>8, MaxOfTwo
  <1>10. /\ stock'.onHand = onHand /\ stock'.reserved = reserved
         /\ stock'.available = available /\ stock'.reported = reported
    BY <1>3 DEF reserved, available
  <1>11. StockBalances'
    <2>. HIDE DEF reported
    <2>. QED
      BY <1>6, <1>7, <1>8, <1>9, <1>10 DEF StockBalances, Within, available
  <1>12. /\ TablesFill' /\ SessionsDrawn' /\ SessionsComplete' /\ SessionsFinal'
         /\ PaymentsAgree' /\ OrdersAgree'
    BY <1>1 DEF TablesAgree, TablesFill, SessionsDrawn, SessionsComplete, SessionsFinal,
       PaymentsAgree, OrdersAgree, Filled, Paying, Approved, Delivered
  <1>13. ShipmentsAgree' /\ ScansAgree' /\ ReturnsAgree' /\ RefundsAgree'
    BY <1>1 DEF TablesAgree, ShipmentsAgree, ScansAgree, ReturnsAgree, RefundsAgree
  <1>. QED
    BY <1>11, <1>12, <1>13 DEF TablesAgree

\* A shipment, and what it makes of its order.
LEMMA ShipmentStep ==
    ASSUME SimulationAssumption, TablesAgree, NEW s \in Sessions, GenerateShipment(s)
    PROVE  TablesAgree'
  <1>1. phase = "shipments" /\ s \in todo /\ todo' = todo \ {s} /\ phase' = phase
    BY DEF GenerateShipment, NextRow, Done
  <1>2. /\ sessions' = sessions /\ payments' = payments /\ items' = items
        /\ stock' = stock /\ scans' = scans /\ returns' = returns /\ refunds' = refunds
    BY DEF GenerateShipment
  <1>3. TablesFill /\ OrdersAgree /\ ShipmentsAgree
    BY DEF TablesAgree
  <1>4. /\ DOMAIN sessions = Sessions /\ DOMAIN payments = Paying
        /\ DOMAIN orders = Approved /\ DOMAIN items = DOMAIN orders
        /\ todo \subseteq DOMAIN orders /\ DOMAIN shipments = DOMAIN orders \ todo
        /\ DOMAIN scans = {} /\ DOMAIN returns = {} /\ DOMAIN refunds = {}
        /\ s \in DOMAIN orders /\ s \in DOMAIN items
    BY <1>1, <1>3 DEF TablesFill, Filled, Early
  <1>. DEFINE shipped(handling) == orders[s].at + handling
              arrival(handling, transit) == shipped(handling) + transit
              delivered(handling, transit) ==
                 IF arrival(handling, transit) <= EndAt THEN arrival(handling, transit)
                 ELSE Null
              status(handling, transit) ==
                 IF delivered(handling, transit) # Null THEN "delivered" ELSE "in_transit"
              Row(handling, transit, promise) ==
                   [shippedAt |-> shipped(handling), promisedAt |-> orders[s].at + promise,
                    deliveredAt |-> delivered(handling, transit),
                    status |-> status(handling, transit), scanCount |-> 0,
                    late |-> delivered(handling, transit) # Null
                             /\ arrival(handling, transit) > orders[s].at + promise]
  <1>5. PICK handling \in Draw[s].handling, transit \in Draw[s].transit,
             promise \in Draw[s].promise :
          /\ shipments' = With(shipments, s, Row(handling, transit, promise))
          /\ orders' = [orders EXCEPT ![s].status = status(handling, transit)]
    BY DEF GenerateShipment
  <1>. DEFINE row == Row(handling, transit, promise)
              state == status(handling, transit)
              order == [orders[s] EXCEPT !.status = state]
  <1>6. /\ handling \in Nat /\ transit \in Nat /\ EndAt \in Nat /\ Null \notin Int
        /\ OrderRow(orders[s]) /\ orders[s].at \in Int
    BY <1>3, <1>4 DEF SimulationAssumption, OrdersAgree, OrderRow
  <1>7. ShipmentRow(row) /\ row.status = state
    <2>. DEFINE a == orders[s].at + handling
                b == a + transit
    <2>1. /\ row.shippedAt = a /\ row.status = state
          /\ row.deliveredAt = IF b <= EndAt THEN b ELSE Null
          /\ row.status = IF row.deliveredAt # Null THEN "delivered" ELSE "in_transit"
          /\ DOMAIN row = {"shippedAt", "promisedAt", "deliveredAt", "status",
                          "scanCount", "late"}
      OBVIOUS
    <2>2. a \in Int /\ b \in Int /\ a <= b
      BY <1>6
    <2>. HIDE DEF row, a, b
    <2>. QED
      BY <1>6, <2>1, <2>2 DEF ShipmentRow
  <1>8. /\ DOMAIN shipments' = DOMAIN shipments \cup {s} /\ shipments'[s] = row
        /\ \A t \in DOMAIN shipments : t # s => shipments'[t] = shipments[t]
    <2>1. shipments' = With(shipments, s, row)
      BY <1>5
    <2>. HIDE DEF row
    <2>. QED
      BY <2>1 DEF With
  <1>9. /\ DOMAIN orders' = DOMAIN orders /\ orders'[s] = order
        /\ \A t \in DOMAIN orders : t # s => orders'[t] = orders[t]
    BY <1>4, <1>5
  <1>10. /\ OrderRow(order) /\ order.at = orders[s].at /\ order.status = state
         /\ order.channel = orders[s].channel /\ order.campaign = orders[s].campaign
         /\ order.subtotal = orders[s].subtotal /\ order.discount = orders[s].discount
         /\ order.tax = orders[s].tax /\ order.shipping = orders[s].shipping
         /\ order.total = orders[s].total /\ order.itemCount = orders[s].itemCount
    <2>. HIDE DEF state
    <2>. QED
      BY <1>6 DEF OrderRow
  <1>. HIDE DEF row, state, order
  <1>11. ItemsAdd(order, items[s])
    <2>1. ItemsAdd(orders[s], items[s])
      BY <1>3, <1>4 DEF OrdersAgree
    <2>. QED
      BY <1>10, <2>1 DEF ItemsAdd
  <1>12. Paying' = Paying /\ Approved' = Approved
    BY <1>2 DEF Paying, Approved
  <1>13. TablesFill'
    <2>1. /\ DOMAIN sessions' = Sessions /\ DOMAIN payments' = Paying'
          /\ DOMAIN orders' = Approved' /\ DOMAIN items' = DOMAIN orders'
          /\ todo' \subseteq DOMAIN orders'
          /\ DOMAIN shipments' = DOMAIN orders' \ todo'
          /\ DOMAIN scans' = {} /\ DOMAIN returns' = {} /\ DOMAIN refunds' = {}
          /\ phase' = "shipments"
      BY <1>1, <1>2, <1>4, <1>8, <1>9, <1>12
    <2>. QED
      BY <2>1 DEF TablesFill, Filled, Early
  <1>14. SessionsDrawn' /\ SessionsFinal'
    BY <1>1, <1>2, <1>12 DEF TablesAgree, SessionsDrawn, SessionsFinal
  <1>15. SessionsComplete' /\ PaymentsAgree'
    <2>1. \A t \in DOMAIN orders : /\ orders'[t].at = orders[t].at
                                   /\ orders'[t].total = orders[t].total
      BY <1>9, <1>10
    <2>. QED
      BY <1>2, <1>9, <1>12, <2>1 DEF TablesAgree, SessionsComplete, PaymentsAgree
  <1>16. OrdersAgree'
    <2>1. ASSUME NEW t \in DOMAIN orders'
          PROVE  /\ OrderRow(orders'[t]) /\ ItemsAdd(orders'[t], items'[t])
                 /\ t \in DOMAIN payments' /\ orders'[t].at >= payments'[t].at
                 /\ orders'[t].channel = sessions'[t].channel
                 /\ orders'[t].campaign = sessions'[t].campaign
                 /\ t \in DOMAIN shipments' => orders'[t].status = shipments'[t].status
      <3>1. t \in DOMAIN orders
        BY <1>9
      <3>2. /\ OrderRow(orders[t]) /\ ItemsAdd(orders[t], items[t])
            /\ t \in DOMAIN payments /\ orders[t].at >= payments[t].at
            /\ orders[t].channel = sessions[t].channel
            /\ orders[t].campaign = sessions[t].campaign
            /\ t \in DOMAIN shipments => orders[t].status = shipments[t].status
        BY <1>3, <3>1 DEF OrdersAgree
      <3>3. CASE t = s
        BY <1>2, <1>7, <1>8, <1>9, <1>10, <1>11, <3>2, <3>3
      <3>4. CASE t # s
        BY <1>2, <1>8, <1>9, <3>1, <3>2, <3>4
      <3>. QED
        BY <3>3, <3>4
    <2>. QED
      BY <2>1 DEF OrdersAgree
  <1>17. ShipmentsAgree'
    BY <1>3, <1>7, <1>8 DEF ShipmentsAgree
  <1>18. StockBalances'
    BY <1>2 DEF TablesAgree, StockBalances
  <1>19. ScansAgree' /\ ReturnsAgree' /\ RefundsAgree'
    BY <1>2, <1>4 DEF ScansAgree, ReturnsAgree, RefundsAgree
  <1>. QED
    BY <1>13, <1>14, <1>15, <1>16, <1>17, <1>18, <1>19 DEF TablesAgree

\* The three scans of a shipment, or five when it is delivered, in their order.
LEMMA ScansInOrder ==
    ASSUME SimulationAssumption, NEW sh, ShipmentRow(sh), NEW pack \in Nat,
           NEW depart \in Nat, depart <= pack, NEW out \in Nat
    PROVE  LET at == ScanTimes(sh, pack, depart, out)
           IN  /\ Len(at) = IF sh.deliveredAt = Null THEN 3 ELSE 5
               /\ DOMAIN at = 1 .. Len(at) /\ \A i \in DOMAIN at : at[i] \in Int
               /\ \A i \in 2 .. Len(at) : at[i - 1] <= at[i]
               /\ sh.deliveredAt # Null => at[5] = sh.deliveredAt
  <1>. DEFINE a == sh.shippedAt - pack
              b == sh.shippedAt - depart
              c == sh.shippedAt
              e == sh.deliveredAt
              d == Max({c, e - out})
              at == IF e = Null THEN <<a, b, c>> ELSE <<a, b, c, d, e>>
  <1>1. c \in Int /\ a \in Int /\ b \in Int /\ a <= b /\ b <= c
    BY DEF ShipmentRow
  <1>2. CASE e = Null
    <2>1. at = <<a, b, c>>
      BY <1>2
    <2>. HIDE DEF a, b, c, e, at
    <2>2. Len(at) = 3 /\ DOMAIN at = 1..3 /\ at[1] = a /\ at[2] = b /\ at[3] = c
      BY <2>1
    <2>3. \A i \in 1..3 : at[i] \in Int
      BY <1>1, <2>2
    <2>4. \A i \in 2..3 : at[i - 1] <= at[i]
      BY <1>1, <2>2
    <2>5. /\ Len(at) = IF e = Null THEN 3 ELSE 5
          /\ DOMAIN at = 1 .. Len(at) /\ \A i \in DOMAIN at : at[i] \in Int
          /\ \A i \in 2 .. Len(at) : at[i - 1] <= at[i]
          /\ e # Null => at[5] = e
      BY <1>2, <2>2, <2>3, <2>4
    <2>. QED
      BY <2>5 DEF ScanTimes, a, b, c, e, at
  <1>3. CASE e # Null
    <2>1. e \in Int /\ c <= e
      BY <1>3 DEF ShipmentRow
    <2>2. d \in Int /\ c <= d /\ d <= e
      <3>1. e - out \in Int /\ e - out <= e
        BY <2>1
      <3>. HIDE DEF c, e
      <3>2. d = IF c >= e - out THEN c ELSE e - out
        BY <1>1, <3>1, MaxOfTwo
      <3>. QED
        BY <1>1, <2>1, <3>1, <3>2
    <2>3. at = <<a, b, c, d, e>>
      BY <1>3
    <2>. HIDE DEF a, b, c, d, e, at
    <2>4. /\ Len(at) = 5 /\ DOMAIN at = 1..5 /\ at[1] = a /\ at[2] = b /\ at[3] = c
          /\ at[4] = d /\ at[5] = e
      BY <2>3
    <2>5. \A i \in 1..5 : at[i] \in Int
      BY <1>1, <2>1, <2>2, <2>4
    <2>6. \A i \in 2..5 : at[i - 1] <= at[i]
      BY <1>1, <2>1, <2>2, <2>4
    <2>7. /\ Len(at) = IF e = Null THEN 3 ELSE 5
          /\ DOMAIN at = 1 .. Len(at) /\ \A i \in DOMAIN at : at[i] \in Int
          /\ \A i \in 2 .. Len(at) : at[i - 1] <= at[i]
          /\ e # Null => at[5] = e
      BY <1>3, <2>4, <2>5, <2>6
    <2>. QED
      BY <2>7 DEF ScanTimes, a, b, c, d, e, at
  <1>. QED
    BY <1>2, <1>3

\* The scans of a shipment, and their number.
LEMMA ScanStep ==
    ASSUME SimulationAssumption, TablesAgree, NEW s \in Sessions, GenerateScans(s)
    PROVE  TablesAgree'
  <1>1. phase = "scans" /\ s \in todo /\ todo' = todo \ {s} /\ phase' = phase
    BY DEF GenerateScans, NextRow, Done
  <1>2. /\ sessions' = sessions /\ payments' = payments /\ orders' = orders
        /\ items' = items /\ stock' = stock /\ returns' = returns /\ refunds' = refunds
    BY DEF GenerateScans
  <1>3. TablesFill /\ ShipmentsAgree /\ ScansAgree
    BY DEF TablesAgree
  <1>4. /\ todo \subseteq DOMAIN shipments /\ DOMAIN scans = DOMAIN shipments \ todo
        /\ DOMAIN returns = {} /\ DOMAIN refunds = {} /\ s \in DOMAIN shipments
    BY <1>1, <1>3 DEF TablesFill, Filled, Early
  <1>5. PICK pack \in Draw[s].pack, depart \in Draw[s].depart, out \in Draw[s].out :
          \E lag \in [DOMAIN ScanTimes(shipments[s], pack, depart, out) -> Draw[s].lag] :
             /\ scans' = With(scans, s,
                   [i \in DOMAIN ScanTimes(shipments[s], pack, depart, out) |->
                      [sequence |-> i,
                       source |-> ScanTimes(shipments[s], pack, depart, out)[i],
                       received |-> ScanTimes(shipments[s], pack, depart, out)[i] + lag[i],
                       lag |-> lag[i]]])
             /\ shipments' = [shipments EXCEPT
                   ![s].scanCount = Len(ScanTimes(shipments[s], pack, depart, out))]
    BY DEF GenerateScans
  <1>. DEFINE sh == shipments[s]
              at == ScanTimes(sh, pack, depart, out)
              n == Len(at)
              shipment == [sh EXCEPT !.scanCount = n]
  <1>6. PICK lag \in [DOMAIN at -> Draw[s].lag] :
             /\ scans' = With(scans, s,
                   [i \in DOMAIN at |-> [sequence |-> i, source |-> at[i],
                                         received |-> at[i] + lag[i], lag |-> lag[i]]])
             /\ shipments' = [shipments EXCEPT ![s].scanCount = n]
    BY <1>5
  <1>. DEFINE q == [i \in DOMAIN at |-> [sequence |-> i, source |-> at[i],
                                         received |-> at[i] + lag[i], lag |-> lag[i]]]
  <1>7. /\ ShipmentRow(sh) /\ pack \in Nat /\ depart \in Nat /\ depart <= pack
        /\ out \in Nat /\ Draw[s].lag \subseteq Nat \ {0}
    BY <1>3, <1>4 DEF SimulationAssumption, ShipmentsAgree
  <1>8. /\ n = IF sh.deliveredAt = Null THEN 3 ELSE 5
        /\ DOMAIN at = 1 .. n /\ \A i \in DOMAIN at : at[i] \in Int
        /\ \A i \in 2 .. n : at[i - 1] <= at[i]
        /\ sh.deliveredAt # Null => at[5] = sh.deliveredAt
    BY <1>7, ScansInOrder
  <1>9. /\ DOMAIN shipments' = DOMAIN shipments /\ shipments'[s] = shipment
        /\ \A t \in DOMAIN shipments : t # s => shipments'[t] = shipments[t]
    BY <1>4, <1>6
  <1>10. /\ DOMAIN scans' = DOMAIN scans \cup {s} /\ scans'[s] = q
         /\ \A t \in DOMAIN scans : t # s => scans'[t] = scans[t]
    <2>1. scans' = With(scans, s, q)
      BY <1>6
    <2>. HIDE DEF q
    <2>. QED
      BY <2>1 DEF With
  <1>11. /\ ShipmentRow(shipment) /\ shipment.deliveredAt = sh.deliveredAt
         /\ shipment.status = sh.status /\ shipment.scanCount = n
    <2>. HIDE DEF n
    <2>. QED
      BY <1>7 DEF ShipmentRow
  <1>12. ScanRows(q, sh.deliveredAt) /\ Len(q) = n
    <2>1. /\ DOMAIN q = 1 .. n /\ n \in Nat
          /\ \A i \in 1 .. n : /\ q[i].sequence = i /\ q[i].source = at[i]
                               /\ q[i].received = at[i] + lag[i] /\ q[i].lag = lag[i]
      BY <1>8
    <2>2. \A i \in 1 .. n : lag[i] \in Nat \ {0}
      BY <1>7, <1>8
    <2>3. Len(q) = n
      <3>1. q = [i \in 1 .. n |-> q[i]]
        <4>1. q = [i \in DOMAIN q |-> q[i]]
          OBVIOUS
        <4>. HIDE DEF q
        <4>. QED
          BY <2>1, <4>1
      <3>. HIDE DEF q, n
      <3>. QED
        BY <2>1, <3>1
    <2>. HIDE DEF q, at, n
    <2>4. \A i \in 2 .. n : q[i - 1].source <= q[i].source
      <3>1. \A i \in 2 .. n : i \in 1 .. n /\ i - 1 \in 1 .. n
        BY <2>1
      <3>. QED
        BY <1>8, <2>1, <3>1
    <2>5. sh.deliveredAt # Null => n = 5 /\ q[5].source = sh.deliveredAt
      BY <1>8, <2>1
    <2>. QED
      BY <1>8, <2>1, <2>2, <2>3, <2>4, <2>5 DEF ScanRows
  <1>. HIDE DEF shipment, q, n, at
  <1>13. /\ \A t \in DOMAIN shipments : /\ ShipmentRow(shipments'[t])
                                        /\ shipments'[t].deliveredAt = shipments[t].deliveredAt
                                        /\ shipments'[t].status = shipments[t].status
    BY <1>3, <1>9, <1>11 DEF ShipmentsAgree
  <1>14. /\ Paying' = Paying /\ Approved' = Approved /\ Delivered' = Delivered
    <2>1. Delivered' = Delivered
      BY <1>9, <1>13, SetsSame
    <2>. QED
      BY <1>2, <2>1 DEF Paying, Approved
  <1>15. TablesFill'
    BY <1>1, <1>2, <1>3, <1>4, <1>9, <1>10, <1>14 DEF TablesFill, Filled, Early
  <1>16. SessionsDrawn' /\ SessionsComplete' /\ SessionsFinal' /\ PaymentsAgree'
    BY <1>1, <1>2, <1>14 DEF TablesAgree, SessionsDrawn, SessionsComplete, SessionsFinal,
       PaymentsAgree
  <1>17. OrdersAgree'
    BY <1>2, <1>9, <1>13 DEF TablesAgree, OrdersAgree
  <1>18. ShipmentsAgree'
    BY <1>9, <1>13 DEF ShipmentsAgree
  <1>19. ScansAgree'
    <2>1. ASSUME NEW t \in DOMAIN scans'
          PROVE  /\ t \in DOMAIN shipments' /\ shipments'[t].scanCount = Len(scans'[t])
                 /\ ScanRows(scans'[t], shipments'[t].deliveredAt)
      <3>1. CASE t = s
        BY <1>4, <1>9, <1>10, <1>11, <1>12, <3>1
      <3>2. CASE t # s
        <4>1. /\ t \in DOMAIN scans /\ t \in DOMAIN shipments /\ scans'[t] = scans[t]
              /\ shipments[t].scanCount = Len(scans[t])
              /\ ScanRows(scans[t], shipments[t].deliveredAt)
          BY <1>3, <1>10, <3>2 DEF ScansAgree
        <4>. QED
          BY <1>9, <3>2, <4>1
      <3>. QED
        BY <3>1, <3>2
    <2>. QED
      BY <2>1 DEF ScansAgree
  <1>20. StockBalances' /\ ReturnsAgree' /\ RefundsAgree'
    BY <1>2, <1>4 DEF TablesAgree, StockBalances, ReturnsAgree, RefundsAgree
  <1>. QED
    BY <1>15, <1>16, <1>17, <1>18, <1>19, <1>20 DEF TablesAgree

\* A return of an item of a delivered order.
LEMMA ReturnStep ==
    ASSUME SimulationAssumption, TablesAgree, NEW s \in Sessions, GenerateReturn(s)
    PROVE  TablesAgree'
  <1>1. phase = "returns" /\ s \in todo /\ todo' = todo \ {s} /\ phase' = phase
    BY DEF GenerateReturn, NextRow, Done
  <1>2. /\ sessions' = sessions /\ payments' = payments /\ orders' = orders
        /\ items' = items /\ stock' = stock /\ shipments' = shipments
        /\ scans' = scans /\ refunds' = refunds
    BY DEF GenerateReturn
  <1>3. /\ TablesFill /\ OrdersAgree /\ ShipmentsAgree /\ ReturnsAgree
    BY DEF TablesAgree
  <1>4. /\ todo \subseteq Delivered /\ DOMAIN returns \subseteq Delivered
        /\ DOMAIN refunds = {} /\ DOMAIN shipments = DOMAIN orders
        /\ s \in DOMAIN shipments /\ s \in DOMAIN orders
        /\ shipments[s].status = "delivered"
    <2>1. /\ todo \subseteq Delivered /\ DOMAIN returns \subseteq Delivered
          /\ DOMAIN refunds = {} /\ DOMAIN shipments = DOMAIN orders
      BY <1>1, <1>3 DEF TablesFill, Filled, Early
    <2>. QED
      BY <1>1, <2>1 DEF Delivered
  <1>. DEFINE requested(after) == shipments[s].deliveredAt + after
              arrival(after, receive) == requested(after) + receive
              Row(i, after, receive) ==
                   [item |-> i, requestedAt |-> requested(after),
                    receivedAt |-> IF arrival(after, receive) <= EndAt
                                   THEN arrival(after, receive) ELSE Null,
                    status |-> IF arrival(after, receive) <= EndAt
                               THEN "received" ELSE "in_transit",
                    amount |-> items[s][i].net]
  <1>5. PICK i \in DOMAIN items[s], after \in Draw[s].returnAfter,
             receive \in Draw[s].receiveAfter :
          returns' = With(returns, s, Row(i, after, receive))
    BY DEF GenerateReturn
  <1>. DEFINE row == Row(i, after, receive)
  <1>6. /\ after \in Nat \ {0} /\ receive \in Nat \ {0} /\ EndAt \in Nat /\ Null \notin Int
        /\ shipments[s].deliveredAt \in Int /\ i \in 1 .. Len(items[s])
    <2>1. ShipmentRow(shipments[s]) /\ ItemsAdd(orders[s], items[s])
      BY <1>3, <1>4 DEF ShipmentsAgree, OrdersAgree
    <2>2. shipments[s].deliveredAt \in Int
      BY <1>4, <2>1 DEF ShipmentRow
    <2>3. i \in 1 .. Len(items[s])
      BY <2>1 DEF ItemsAdd
    <2>. QED
      BY <2>2, <2>3 DEF SimulationAssumption
  <1>7. ReturnRow(row, items[s], shipments[s].deliveredAt)
    <2>. DEFINE d == shipments[s].deliveredAt
                a == d + after
                b == a + receive
    <2>1. /\ row.item = i /\ row.requestedAt = a /\ row.amount = items[s][i].net
          /\ row.receivedAt = IF b <= EndAt THEN b ELSE Null
          /\ row.status = IF b <= EndAt THEN "received" ELSE "in_transit"
      OBVIOUS
    <2>2. a \in Int /\ b \in Int /\ a <= b /\ a > d
      <3>. HIDE DEF d
      <3>. QED
        BY <1>6 DEF d
    <2>. HIDE DEF row, a, b
    <2>. QED
      BY <1>6, <2>1, <2>2 DEF ReturnRow
  <1>8. /\ DOMAIN returns' = DOMAIN returns \cup {s} /\ returns'[s] = row
        /\ \A t \in DOMAIN returns : t # s => returns'[t] = returns[t]
    <2>1. returns' = With(returns, s, row)
      BY <1>5
    <2>. HIDE DEF row
    <2>. QED
      BY <2>1 DEF With
  <1>. HIDE DEF row
  <1>9. /\ Paying' = Paying /\ Approved' = Approved /\ Delivered' = Delivered
    BY <1>2 DEF Paying, Approved, Delivered
  <1>10. TablesFill'
    <2>1. s \in Delivered
      BY <1>1, <1>4
    <2>. QED
      BY <1>1, <1>2, <1>3, <1>4, <1>8, <1>9, <2>1 DEF TablesFill, Filled, Early
  <1>11. /\ SessionsDrawn' /\ SessionsComplete' /\ SessionsFinal' /\ PaymentsAgree'
         /\ OrdersAgree' /\ StockBalances' /\ ShipmentsAgree' /\ ScansAgree'
    BY <1>1, <1>2, <1>9 DEF TablesAgree, SessionsDrawn, SessionsComplete, SessionsFinal,
       PaymentsAgree, OrdersAgree, StockBalances, ShipmentsAgree, ScansAgree
  <1>12. ReturnsAgree'
    BY <1>2, <1>3, <1>4, <1>7, <1>8 DEF ReturnsAgree
  <1>13. RefundsAgree'
    BY <1>2, <1>4 DEF RefundsAgree
  <1>. QED
    BY <1>10, <1>11, <1>12, <1>13 DEF TablesAgree

\* An order that is kept.
LEMMA KeepStep ==
    ASSUME TablesAgree, NEW s \in Sessions, KeepOrder(s)
    PROVE  TablesAgree'
  <1>1. /\ phase = "returns" /\ todo' = todo \ {s} /\ phase' = phase
        /\ UNCHANGED tables
    BY DEF KeepOrder, NextRow, Done
  <1>2. /\ sessions' = sessions /\ payments' = payments /\ orders' = orders
        /\ items' = items /\ shipments' = shipments /\ scans' = scans
        /\ returns' = returns /\ refunds' = refunds
    BY <1>1 DEF tables
  <1>3. Paying' = Paying /\ Approved' = Approved /\ Delivered' = Delivered
    BY <1>2 DEF Paying, Approved, Delivered
  <1>4. TablesFill'
    BY <1>1, <1>2, <1>3 DEF TablesAgree, TablesFill, Filled, Early
  <1>. QED
    BY <1>1, <1>4, PhaseStep

\* The refund of a return.
LEMMA RefundStep ==
    ASSUME SimulationAssumption, TablesAgree, NEW s \in Sessions, GenerateRefund(s)
    PROVE  TablesAgree'
  <1>1. phase = "refunds" /\ s \in todo /\ todo' = todo \ {s} /\ phase' = phase
    BY DEF GenerateRefund, NextRow, Done
  <1>2. /\ sessions' = sessions /\ payments' = payments /\ orders' = orders
        /\ items' = items /\ stock' = stock /\ shipments' = shipments
        /\ scans' = scans /\ returns' = returns
    BY DEF GenerateRefund
  <1>3. TablesFill /\ ReturnsAgree /\ RefundsAgree
    BY DEF TablesAgree
  <1>4. /\ todo \subseteq DOMAIN returns /\ DOMAIN refunds = DOMAIN returns \ todo
        /\ s \in DOMAIN returns
    BY <1>1, <1>3 DEF TablesFill, Filled, Early
  <1>. DEFINE r == returns[s]
              initiated(after) == RefundableFrom(r) + after
              completed(after, settle, completes) ==
                 IF completes /\ r.receivedAt # Null /\ initiated(after) + settle <= EndAt
                 THEN initiated(after) + settle ELSE Null
              Row(after, settle, completes) ==
                [initiatedAt |-> initiated(after),
                 completedAt |-> completed(after, settle, completes),
                 status |-> IF completed(after, settle, completes) # Null
                            THEN "completed" ELSE "pending",
                 amount |-> r.amount]
  <1>5. PICK after \in Draw[s].refundAfter, settle \in Draw[s].settleAfter,
             completes \in BOOLEAN :
          refunds' = With(refunds, s, Row(after, settle, completes))
    BY DEF GenerateRefund
  <1>. DEFINE row == Row(after, settle, completes)
  <1>6. /\ after \in Nat \ {0} /\ settle \in Nat \ {0} /\ EndAt \in Nat /\ Null \notin Int
        /\ RefundableFrom(r) \in Int
        /\ r.receivedAt # Null => RefundableFrom(r) = r.receivedAt
    BY <1>3, <1>4 DEF SimulationAssumption, ReturnsAgree, ReturnRow, RefundableFrom
  <1>7. RefundRow(row, r)
    <2>. DEFINE f == RefundableFrom(r)
                a == f + after
                b == a + settle
    <2>1. /\ row.amount = r.amount /\ row.initiatedAt = a
          /\ row.completedAt = IF completes /\ r.receivedAt # Null /\ b <= EndAt
                               THEN b ELSE Null
          /\ row.status = IF row.completedAt # Null THEN "completed" ELSE "pending"
      OBVIOUS
    <2>2. a \in Int /\ b \in Int /\ a <= b /\ b > f
      <3>. HIDE DEF f
      <3>. QED
        BY <1>6 DEF f
    <2>3. r.receivedAt # Null => b > r.receivedAt
      BY <1>6, <2>2
    <2>. HIDE DEF row, a, b, r
    <2>. QED
      BY <1>6, <2>1, <2>2, <2>3 DEF RefundRow
  <1>8. /\ DOMAIN refunds' = DOMAIN refunds \cup {s} /\ refunds'[s] = row
        /\ \A t \in DOMAIN refunds : t # s => refunds'[t] = refunds[t]
    <2>1. refunds' = With(refunds, s, row)
      BY <1>5
    <2>. HIDE DEF row
    <2>. QED
      BY <2>1 DEF With
  <1>. HIDE DEF row
  <1>9. /\ Paying' = Paying /\ Approved' = Approved /\ Delivered' = Delivered
    BY <1>2 DEF Paying, Approved, Delivered
  <1>10. TablesFill'
    BY <1>1, <1>2, <1>3, <1>4, <1>8, <1>9 DEF TablesFill, Filled, Early
  <1>11. /\ SessionsDrawn' /\ SessionsComplete' /\ SessionsFinal' /\ PaymentsAgree'
         /\ OrdersAgree' /\ StockBalances' /\ ShipmentsAgree' /\ ScansAgree'
         /\ ReturnsAgree'
    BY <1>1, <1>2, <1>9 DEF TablesAgree, SessionsDrawn, SessionsComplete, SessionsFinal,
       PaymentsAgree, OrdersAgree, StockBalances, ShipmentsAgree, ScansAgree, ReturnsAgree
  <1>12. RefundsAgree'
    BY <1>2, <1>3, <1>4, <1>7, <1>8 DEF RefundsAgree
  <1>. QED
    BY <1>10, <1>11, <1>12 DEF TablesAgree

\* The state the simulation starts in.
LEMMA SimulationStarts ==
    ASSUME SimulationAssumption, SimulationInit
    PROVE  TablesAgree
  <1>1. /\ phase = "sessions" /\ todo = Sessions
        /\ DOMAIN sessions = {} /\ DOMAIN payments = {} /\ DOMAIN orders = {}
        /\ DOMAIN items = {} /\ DOMAIN shipments = {} /\ DOMAIN scans = {}
        /\ DOMAIN returns = {} /\ DOMAIN refunds = {}
    BY DEF SimulationInit, Empty
  <1>2. TablesFill
    BY <1>1 DEF TablesFill, Filled, Early
  <1>3. StockBalances
    BY DEF SimulationInit, SimulationAssumption, StockBalances, Within
  <1>. QED
    BY <1>1, <1>2, <1>3 DEF TablesAgree, SessionsDrawn, SessionsComplete, SessionsFinal,
       PaymentsAgree, OrdersAgree, ShipmentsAgree, ScansAgree, ReturnsAgree, RefundsAgree

\* No step breaks what the tables share.
LEMMA SimulationStep ==
    ASSUME SimulationInv, [SimulationNext]_simulationVars
    PROVE  SimulationInv'
  <1>1. SimulationAssumption
    BY DEF SimulationInv
  <1>2. ASSUME phase = "refused"
        PROVE  phase' = "refused"
    <2>1. CASE UNCHANGED simulationVars
      BY <1>2, <2>1 DEF simulationVars
    <2>2. CASE SimulationNext
      BY <1>2, <2>2 DEF SimulationNext, GenerateSession, GeneratePayment, GenerateOrder,
         GenerateShipment, GenerateScans, GenerateReturn, KeepOrder, GenerateRefund,
         GenerateInventory, BeginPayments, BeginOrders, SimulationRefused,
         FinalizeSessions, BeginShipments, BeginScans, BeginReturns, BeginRefunds,
         Simulated, NextRow, Begin
    <2>. QED
      BY <2>1, <2>2
  <1>3. ASSUME TablesAgree
        PROVE  phase' # "refused" => TablesAgree'
    <2>1. CASE UNCHANGED simulationVars
      <3>1. UNCHANGED tables /\ phase' = phase /\ todo' = todo
        BY <2>1 DEF simulationVars, tables
      <3>2. /\ sessions' = sessions /\ payments' = payments /\ orders' = orders
            /\ items' = items /\ shipments' = shipments /\ scans' = scans
            /\ returns' = returns /\ refunds' = refunds
        BY <3>1 DEF tables
      <3>3. TablesFill'
        BY <1>3, <3>1, <3>2 DEF TablesAgree, TablesFill, Filled, Paying, Approved,
           Delivered
      <3>. QED
        BY <1>3, <3>1, <3>3, PhaseStep
    <2>2. ASSUME NEW s \in Sessions, GenerateSession(s)
          PROVE  TablesAgree'
      BY <1>1, <1>3, <2>2, SessionStep
    <2>3. ASSUME NEW s \in Sessions, GeneratePayment(s)
          PROVE  TablesAgree'
      BY <1>1, <1>3, <2>3, PaymentStep
    <2>4. ASSUME NEW s \in Sessions, GenerateOrder(s)
          PROVE  TablesAgree'
      BY <1>1, <1>3, <2>4, OrderStep
    <2>5. ASSUME NEW s \in Sessions, GenerateShipment(s)
          PROVE  TablesAgree'
      BY <1>1, <1>3, <2>5, ShipmentStep
    <2>6. ASSUME NEW s \in Sessions, GenerateScans(s)
          PROVE  TablesAgree'
      BY <1>1, <1>3, <2>6, ScanStep
    <2>7. ASSUME NEW s \in Sessions, GenerateReturn(s)
          PROVE  TablesAgree'
      BY <1>1, <1>3, <2>7, ReturnStep
    <2>8. ASSUME NEW s \in Sessions, KeepOrder(s)
          PROVE  TablesAgree'
      BY <1>3, <2>8, KeepStep
    <2>9. ASSUME NEW s \in Sessions, GenerateRefund(s)
          PROVE  TablesAgree'
      BY <1>1, <1>3, <2>9, RefundStep
    <2>10. CASE GenerateInventory
      BY <1>1, <1>3, <2>10, InventoryStep
    <2>11. CASE FinalizeSessions
      BY <1>3, <2>11, FinalizeStep
    <2>12. CASE \/ BeginPayments \/ BeginOrders \/ BeginShipments \/ BeginScans
                \/ BeginReturns \/ BeginRefunds \/ Simulated
      BY <1>3, <2>12, BeginStep
    <2>13. CASE SimulationRefused
      BY <2>13 DEF SimulationRefused
    <2>. QED
      BY <2>1, <2>2, <2>3, <2>4, <2>5, <2>6, <2>7, <2>8, <2>9, <2>10, <2>11, <2>12,
         <2>13 DEF SimulationNext
  <1>. QED
    BY <1>1, <1>2, <1>3 DEF SimulationInv

\* The tables agree in every state of the simulation (simulator/events.py,
\* simulator/operations.py), unless it was refused.
THEOREM TablesAlwaysAgree == Simulation => []SimulationInv
  <1>1. SimulationInit => SimulationInv
    BY SimulationAssumption, SimulationStarts DEF SimulationInv
  <1>2. SimulationInv /\ [SimulationNext]_simulationVars => SimulationInv'
    BY SimulationStep
  <1>. QED
    BY <1>1, <1>2, PTL DEF Simulation

\* What the columns of a session say of its funnel.
LEMMA FunnelIs ==
    ASSUME Null \notin Int, NEW r, DrawnRow(r), r.stage = StageOf(r),
           r.reason = ReasonOf(r), r.approved => r.level = 4,
           r.approved => r.completedAt \in Int, ~ r.approved => r.completedAt = Null
    PROVE  LET times == <<r.addressAt, r.inventoryAt, r.paymentAt, r.completedAt>>
           IN  /\ r.stage \in DOMAIN Expectation
               /\ r.reason = Expectation[r.stage][1]
               /\ \A i \in 1..4 : times[i] # Null <=> i <= Expectation[r.stage][2]
               /\ r.channel = "direct" <=> r.campaign = Null
  <1>. DEFINE times == <<r.addressAt, r.inventoryAt, r.paymentAt, r.completedAt>>
              x == Expectation[r.stage]
              k == IF r.approved THEN 4
                   ELSE IF r.level >= 4 THEN 3
                   ELSE IF r.level >= 2 THEN 2 ELSE r.level
  <1>1. /\ r.level \in 0..4 /\ r.approved \in BOOLEAN /\ r.start \in Int
        /\ r.start + 1 \in Int
        /\ r.addressAt = IF r.level >= 1 THEN r.start ELSE Null
        /\ r.inventoryAt = IF r.level >= 2 THEN r.start ELSE Null
        /\ r.paymentAt = IF r.level >= 4 THEN r.start + 1 ELSE Null
        /\ (r.channel = "direct" <=> r.campaign = Null)
    BY DEF DrawnRow
  <1>2. /\ DOMAIN Expectation = {"checkout_started", "address_submitted",
              "inventory_checked", "inventory_confirmed", "payment_started",
              "order_completed"}
        /\ Expectation["checkout_started"] = <<"customer_abandoned", 0>>
        /\ Expectation["address_submitted"] = <<"address_validation_failed", 1>>
        /\ Expectation["inventory_checked"] = <<"inventory_unavailable", 2>>
        /\ Expectation["inventory_confirmed"] = <<"before_payment", 2>>
        /\ Expectation["payment_started"] = <<"payment_declined", 3>>
        /\ Expectation["order_completed"] = <<Null, 4>>
    BY DEF Expectation
  <1>3. r.stage \in DOMAIN Expectation /\ x = <<r.reason, k>>
    <2>1. CASE r.approved
      BY <1>2, <2>1 DEF StageOf, ReasonOf
    <2>2. CASE ~ r.approved
      <3>1. CASE r.level = 0
        BY <1>2, <2>2, <3>1 DEF StageOf, ReasonOf
      <3>2. CASE r.level = 1
        BY <1>2, <2>2, <3>2 DEF StageOf, ReasonOf
      <3>3. CASE r.level = 2
        BY <1>2, <2>2, <3>3 DEF StageOf, ReasonOf
      <3>4. CASE r.level = 3
        BY <1>2, <2>2, <3>4 DEF StageOf, ReasonOf
      <3>5. CASE r.level = 4
        BY <1>2, <2>2, <3>5 DEF StageOf, ReasonOf
      <3>. QED
        BY <1>1, <3>1, <3>2, <3>3, <3>4, <3>5
    <2>. QED
      BY <2>1, <2>2
  <1>. HIDE DEF x
  <1>4. x[1] = r.reason /\ x[2] = k
    <2>. HIDE DEF k
    <2>. QED
      BY <1>3
  <1>5. /\ (r.addressAt # Null <=> 1 <= k)
        /\ (r.inventoryAt # Null <=> 2 <= k)
        /\ (r.paymentAt # Null <=> 3 <= k)
        /\ (r.completedAt # Null <=> 4 <= k)
    <2>1. (r.addressAt # Null <=> 1 <= k) /\ (r.inventoryAt # Null <=> 2 <= k)
      BY <1>1
    <2>2. (r.paymentAt # Null <=> 3 <= k)
      BY <1>1
    <2>3. (r.completedAt # Null <=> 4 <= k)
      BY <1>1
    <2>. QED
      BY <2>1, <2>2, <2>3
  <1>. HIDE DEF k
  <1>6. \A i \in 1..4 : times[i] # Null <=> i <= x[2]
    <2>1. /\ times[1] = r.addressAt /\ times[2] = r.inventoryAt
          /\ times[3] = r.paymentAt /\ times[4] = r.completedAt
      OBVIOUS
    <2>. HIDE DEF times
    <2>2. ASSUME NEW i \in 1..4
          PROVE  i = 1 \/ i = 2 \/ i = 3 \/ i = 4
      OBVIOUS
    <2>3. /\ (times[1] # Null <=> 1 <= x[2]) /\ (times[2] # Null <=> 2 <= x[2])
          /\ (times[3] # Null <=> 3 <= x[2]) /\ (times[4] # Null <=> 4 <= x[2])
      BY <1>4, <1>5, <2>1
    <2>. QED
      BY <2>2, <2>3
  <1>. QED
    BY <1>1, <1>3, <1>4, <1>6 DEF x

\* What the tables of a finished simulation share.
LEMMA Finished ==
    ASSUME TablesAgree, phase = "simulated"
    PROVE  /\ DOMAIN sessions = Sessions /\ DOMAIN payments = Paying
           /\ Paying \subseteq DOMAIN sessions
           /\ DOMAIN orders = Approved /\ Approved \subseteq DOMAIN payments
           /\ DOMAIN items = DOMAIN orders /\ DOMAIN shipments = DOMAIN orders
           /\ DOMAIN scans = DOMAIN shipments
           /\ DOMAIN returns \subseteq Delivered /\ Delivered \subseteq DOMAIN shipments
           /\ DOMAIN refunds = DOMAIN returns
           /\ \A s \in DOMAIN sessions : sessions[s].stage = StageOf(sessions[s])
                                         /\ sessions[s].reason = ReasonOf(sessions[s])
  <1>1. /\ Paying \subseteq DOMAIN sessions /\ Approved \subseteq DOMAIN payments
        /\ Delivered \subseteq DOMAIN shipments
    BY DEF Paying, Approved, Delivered
  <1>2. /\ DOMAIN sessions = Sessions /\ DOMAIN payments = Paying
        /\ DOMAIN orders = Approved /\ DOMAIN items = DOMAIN orders
        /\ DOMAIN shipments = DOMAIN orders /\ DOMAIN scans = DOMAIN shipments
        /\ DOMAIN returns \subseteq Delivered /\ DOMAIN refunds = DOMAIN returns
    BY DEF TablesAgree, TablesFill, Filled, Early
  <1>. QED
    BY <1>1, <1>2 DEF TablesAgree, SessionsFinal

\* The tables the generator of the commerce data leaves (simulator/events.py,
\* simulator/operations.py) pass the validator's reconciliation
\* (simulator/validation.py), whatever is drawn.
THEOREM SimulationIsValid == Simulation => []GeneratedIsValid
  <1>. SUFFICES ASSUME SimulationInv
                PROVE  GeneratedIsValid
    BY TablesAlwaysAgree, PTL
  <1>. SUFFICES ASSUME phase = "simulated"
                PROVE  ValidTables
    BY DEF GeneratedIsValid
  <1>1. TablesAgree /\ Null \notin Int
    BY DEF SimulationInv, SimulationAssumption
  <1>2. /\ SessionsDrawn /\ SessionsComplete /\ PaymentsAgree /\ OrdersAgree
        /\ StockBalances /\ ShipmentsAgree /\ ScansAgree /\ ReturnsAgree /\ RefundsAgree
    BY <1>1 DEF TablesAgree
  <1>3. /\ DOMAIN payments = Paying /\ Paying \subseteq DOMAIN sessions
        /\ DOMAIN orders = Approved /\ Approved \subseteq DOMAIN payments
        /\ DOMAIN items = DOMAIN orders /\ DOMAIN shipments = DOMAIN orders
        /\ DOMAIN scans = DOMAIN shipments
        /\ DOMAIN returns \subseteq DOMAIN orders /\ DOMAIN refunds = DOMAIN returns
        /\ \A s \in DOMAIN sessions : sessions[s].stage = StageOf(sessions[s])
                                      /\ sessions[s].reason = ReasonOf(sessions[s])
    BY <1>1, Finished
  <1>4. ASSUME NEW s \in DOMAIN sessions
        PROVE  /\ DrawnRow(sessions[s]) /\ (sessions[s].approved <=> s \in DOMAIN orders)
               /\ sessions[s].approved => /\ sessions[s].level = 4
                                          /\ sessions[s].completedAt = orders[s].at
                                          /\ orders[s].at \in Int
                                          /\ sessions[s].start + 1 <= orders[s].at
               /\ ~ sessions[s].approved => sessions[s].completedAt = Null
    <2>1. DrawnRow(sessions[s]) /\ (sessions[s].approved <=> s \in DOMAIN orders)
      BY <1>2, <1>3 DEF SessionsDrawn
    <2>2. sessions[s].completedAt = IF s \in DOMAIN orders THEN orders[s].at ELSE Null
      BY <1>2 DEF SessionsComplete
    <2>3. ASSUME s \in DOMAIN orders
          PROVE  /\ sessions[s].level = 4 /\ orders[s].at \in Int
                 /\ sessions[s].start + 1 <= orders[s].at
      <3>1. /\ s \in Paying /\ OrderRow(orders[s]) /\ orders[s].at >= payments[s].at
            /\ payments[s].at = sessions[s].start + 1
        BY <1>2, <1>3, <2>3 DEF OrdersAgree, PaymentsAgree
      <3>2. sessions[s].level = 4
        BY <2>1, <3>1 DEF DrawnRow, Paying
      <3>3. orders[s].at \in Int /\ sessions[s].start \in Int
        BY <2>1, <3>1 DEF DrawnRow, OrderRow
      <3>. QED
        BY <3>1, <3>2, <3>3
    <2>. QED
      BY <2>1, <2>2, <2>3
  <1>5. ForeignKeys
    <2>1. \A s \in DOMAIN returns : returns[s].item \in DOMAIN items[s]
      BY <1>2, <1>3 DEF ReturnsAgree, ReturnRow, OrdersAgree, ItemsAdd
    <2>. QED
      BY <1>3, <2>1 DEF ForeignKeys
  <1>6. TemporalOrder
    <2>1. ASSUME NEW s \in DOMAIN sessions
          PROVE  LET r == sessions[s] IN
                 /\ Before(r.start, r.addressAt) /\ Before(r.addressAt, r.inventoryAt)
                 /\ Before(r.inventoryAt, r.paymentAt) /\ Before(r.paymentAt, r.completedAt)
      <3>. DEFINE r == sessions[s]
      <3>1. /\ DrawnRow(r)
            /\ r.completedAt # Null => r.completedAt \in Int /\ r.start + 1 <= r.completedAt
        BY <1>4
      <3>. HIDE DEF r
      <3>2. /\ r.start \in Int /\ r.level \in 0..4
            /\ r.addressAt = IF r.level >= 1 THEN r.start ELSE Null
            /\ r.inventoryAt = IF r.level >= 2 THEN r.start ELSE Null
            /\ r.paymentAt = IF r.level >= 4 THEN r.start + 1 ELSE Null
        BY <3>1 DEF DrawnRow
      <3>3. Before(r.start, r.addressAt) /\ Before(r.addressAt, r.inventoryAt)
        BY <3>2 DEF Before
      <3>4. Before(r.inventoryAt, r.paymentAt)
        BY <3>2 DEF Before
      <3>5. Before(r.paymentAt, r.completedAt)
        BY <3>1, <3>2 DEF Before
      <3>. QED
        BY <3>3, <3>4, <3>5 DEF r
    <2>2. \A s \in DOMAIN shipments :
             Before(shipments[s].shippedAt, shipments[s].deliveredAt)
      BY <1>2 DEF ShipmentsAgree, ShipmentRow, Before
    <2>3. \A s \in DOMAIN scans : \A i \in DOMAIN scans[s] :
             Before(scans[s][i].source, scans[s][i].received)
      <3>1. ASSUME NEW s \in DOMAIN scans, NEW i \in DOMAIN scans[s]
            PROVE  Before(scans[s][i].source, scans[s][i].received)
        <4>1. /\ scans[s][i].source \in Int /\ scans[s][i].lag \in Nat \ {0}
              /\ scans[s][i].received = scans[s][i].source + scans[s][i].lag
          BY <1>2 DEF ScansAgree, ScanRows
        <4>. QED
          BY <4>1 DEF Before
      <3>. QED
        BY <3>1
    <2>4. \A s \in DOMAIN returns : Before(returns[s].requestedAt, returns[s].receivedAt)
      BY <1>2 DEF ReturnsAgree, ReturnRow, Before
    <2>5. \A s \in DOMAIN refunds : Before(refunds[s].initiatedAt, refunds[s].completedAt)
      BY <1>2 DEF RefundsAgree, RefundRow, Before
    <2>. QED
      BY <2>1, <2>2, <2>3, <2>4, <2>5 DEF TemporalOrder
  <1>7. CommerceReconciles
    <2>1. \A s \in DOMAIN sessions :
             sessions[s].stage = "order_completed" <=> s \in DOMAIN orders
      BY <1>3, <1>4 DEF StageOf
    <2>2. {s \in DOMAIN sessions : sessions[s].stage = "order_completed"} = DOMAIN orders
      BY <1>3, <2>1
    <2>3. ASSUME NEW s \in DOMAIN orders
          PROVE  LET o == orders[s] IN
                 /\ o.itemCount = Len(items[s])
                 /\ Within(Total([i \in DOMAIN items[s] |-> items[s][i].net]),
                           o.subtotal - o.discount, 2)
                 /\ Within(o.total, o.subtotal - o.discount + o.tax + o.shipping, 2)
                 /\ Within(payments[s].amount, o.total, 2)
      <3>1. ItemsAdd(orders[s], items[s])
        BY <1>2 DEF OrdersAgree
      <3>2. payments[s].amount = orders[s].total
        BY <1>2, <1>3 DEF PaymentsAgree
      <3>3. orders[s].total \in Int
        BY <3>1 DEF ItemsAdd
      <3>4. Within(payments[s].amount, orders[s].total, 2)
        BY <3>2, <3>3 DEF Within
      <3>. QED
        BY <3>1, <3>4 DEF ItemsAdd, NetsOf
    <2>. QED
      BY <1>3, <2>2, <2>3 DEF CommerceReconciles
  <1>8. FunnelStates
    <2>1. ASSUME NEW s \in DOMAIN sessions
          PROVE  LET r     == sessions[s]
                     times == <<r.addressAt, r.inventoryAt, r.paymentAt, r.completedAt>>
                 IN  /\ r.stage \in DOMAIN Expectation
                     /\ r.reason = Expectation[r.stage][1]
                     /\ \A i \in 1..4 : times[i] # Null <=> i <= Expectation[r.stage][2]
                     /\ r.channel = "direct" <=> r.campaign = Null
      <3>. DEFINE r == sessions[s]
      <3>1. /\ DrawnRow(r) /\ r.stage = StageOf(r) /\ r.reason = ReasonOf(r)
            /\ r.approved => r.level = 4 /\ r.completedAt \in Int
            /\ ~ r.approved => r.completedAt = Null
        BY <1>3, <1>4
      <3>. HIDE DEF r
      <3>2. LET times == <<r.addressAt, r.inventoryAt, r.paymentAt, r.completedAt>>
            IN  /\ r.stage \in DOMAIN Expectation
                /\ r.reason = Expectation[r.stage][1]
                /\ \A i \in 1..4 : times[i] # Null <=> i <= Expectation[r.stage][2]
                /\ r.channel = "direct" <=> r.campaign = Null
        BY <1>1, <3>1, FunnelIs
      <3>. QED
        BY <3>2, Zenon DEF r
    <2>. QED
      BY <2>1 DEF FunnelStates
  <1>9. OperationsReconcile
    <2>1. ASSUME NEW s \in DOMAIN shipments
          PROVE  /\ shipments[s].scanCount = Len(scans[s])
                 /\ \A i \in DOMAIN scans[s] :
                       /\ scans[s][i].sequence = i
                       /\ scans[s][i].lag = scans[s][i].received - scans[s][i].source
                       /\ scans[s][i].lag > 0
      <3>. DEFINE q == scans[s]
      <3>1. shipments[s].scanCount = Len(q) /\ ScanRows(q, shipments[s].deliveredAt)
        BY <1>2, <1>3 DEF ScansAgree
      <3>. HIDE DEF q
      <3>2. ASSUME NEW i \in DOMAIN q
            PROVE  q[i].sequence = i /\ q[i].lag = q[i].received - q[i].source /\ q[i].lag > 0
        <4>1. /\ q[i].sequence = i /\ q[i].source \in Int /\ q[i].lag \in Nat \ {0}
              /\ q[i].received = q[i].source + q[i].lag
          BY <3>1 DEF ScanRows
        <4>. QED
          BY <4>1
      <3>. QED
        BY <3>1, <3>2 DEF q
    <2>2. \A s \in DOMAIN orders : /\ orders[s].channel = sessions[s].channel
                                   /\ orders[s].campaign = sessions[s].campaign
      BY <1>2 DEF OrdersAgree
    <2>. QED
      BY <1>3, <2>1, <2>2 DEF OperationsReconcile
  <1>10. InventoryBalances
    BY <1>2 DEF StockBalances, InventoryBalances
  <1>11. \A s \in DOMAIN sessions : sessions[s].start \in 0 .. (EndAt - 1)
    BY <1>4 DEF DrawnRow
  <1>. QED
    BY <1>5, <1>6, <1>7, <1>8, <1>9, <1>10, <1>11 DEF ValidTables

\* What the validator does not look at (simulator/operations.py): the state of an
\* order is that of its shipment, scans are in order, and money goes back once, for
\* what was received, in the amount it cost and no more than was paid.
THEOREM OrdersTellOneStory == Simulation => []OneStoryPerOrder
  <1>. SUFFICES ASSUME SimulationInv
                PROVE  OneStoryPerOrder
    BY TablesAlwaysAgree, PTL
  <1>. SUFFICES ASSUME phase = "simulated", NEW s \in DOMAIN orders
                PROVE  LET sh == shipments[s] IN
        /\ orders[s].status = sh.status
        /\ \A i \in 2 .. Len(scans[s]) : scans[s][i-1].source <= scans[s][i].source
        /\ sh.deliveredAt # Null <=> Len(scans[s]) = 5
        /\ sh.deliveredAt # Null => /\ Last(scans[s]).source = sh.deliveredAt
                                    /\ sh.deliveredAt <= EndAt
        /\ s \in DOMAIN returns =>
              /\ sh.status = "delivered"
              /\ returns[s].requestedAt > sh.deliveredAt
              /\ refunds[s].amount = returns[s].amount
              /\ refunds[s].amount <= payments[s].amount + OddCent
              /\ refunds[s].status = "completed" =>
                    /\ returns[s].status = "received"
                    /\ refunds[s].completedAt > returns[s].receivedAt
                    /\ refunds[s].completedAt <= EndAt
    BY DEF OneStoryPerOrder
  <1>1. TablesAgree /\ Null \notin Int
    BY DEF SimulationInv, SimulationAssumption
  <1>2. /\ PaymentsAgree /\ OrdersAgree /\ ShipmentsAgree /\ ScansAgree /\ ReturnsAgree
        /\ RefundsAgree
    BY <1>1 DEF TablesAgree
  <1>3. /\ DOMAIN orders \subseteq DOMAIN payments /\ DOMAIN shipments = DOMAIN orders
        /\ DOMAIN scans = DOMAIN orders /\ DOMAIN refunds = DOMAIN returns
        /\ DOMAIN returns \subseteq Delivered
    BY <1>1, Finished
  <1>. DEFINE q == scans[s]
              e == shipments[s].deliveredAt
  <1>4. orders[s].status = shipments[s].status /\ ItemsAdd(orders[s], items[s])
        /\ payments[s].amount = orders[s].total
    BY <1>2, <1>3 DEF OrdersAgree, PaymentsAgree
  <1>5. ShipmentRow(shipments[s]) /\ ScanRows(q, e)
    BY <1>2, <1>3 DEF ShipmentsAgree, ScansAgree
  <1>6. /\ \A i \in 2 .. Len(q) : q[i-1].source <= q[i].source
        /\ e # Null <=> Len(q) = 5
        /\ e # Null => Last(q).source = e /\ e <= EndAt
    <2>1. e # Null => e <= EndAt
      BY <1>5 DEF ShipmentRow
    <2>. HIDE DEF q, e
    <2>. QED
      BY <1>5, <2>1 DEF ScanRows, Last
  <1>7. ASSUME s \in DOMAIN returns
        PROVE  /\ shipments[s].status = "delivered"
               /\ returns[s].requestedAt > e
               /\ refunds[s].amount = returns[s].amount
               /\ refunds[s].amount <= payments[s].amount + OddCent
               /\ refunds[s].status = "completed" =>
                    /\ returns[s].status = "received"
                    /\ refunds[s].completedAt > returns[s].receivedAt
                    /\ refunds[s].completedAt <= EndAt
    <2>. DEFINE r == returns[s]
                f == refunds[s]
    <2>1. ReturnRow(r, items[s], e) /\ RefundRow(f, r) /\ s \in Delivered
      BY <1>2, <1>3, <1>7 DEF ReturnsAgree, RefundsAgree
    <2>2. shipments[s].status = "delivered"
      BY <2>1 DEF Delivered
    <2>3. r.item \in 1 .. Len(items[s]) /\ r.amount = items[s][r.item].net
          /\ r.requestedAt > e
          /\ r.status = IF r.receivedAt # Null THEN "received" ELSE "in_transit"
      BY <2>1 DEF ReturnRow
    <2>4. r.amount <= orders[s].total + OddCent
      BY <1>4, <2>3 DEF ItemsAdd
    <2>. HIDE DEF r, f, e
    <2>5. /\ f.amount = r.amount
          /\ f.status = "completed" => /\ r.receivedAt # Null
                                       /\ f.completedAt > r.receivedAt
                                       /\ f.completedAt <= EndAt
      BY <2>1 DEF RefundRow
    <2>6. f.amount <= payments[s].amount + OddCent
      BY <1>4, <2>4, <2>5
    <2>7. f.status = "completed" => /\ r.status = "received"
                                    /\ f.completedAt > r.receivedAt
                                    /\ f.completedAt <= EndAt
      BY <2>3, <2>5
    <2>. QED
      BY <2>2, <2>3, <2>5, <2>6, <2>7 DEF r, f
  <1>. QED
    BY <1>4, <1>6, <1>7
=============================================================================
