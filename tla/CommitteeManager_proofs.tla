----------------------- MODULE CommitteeManager_proofs -----------------------
(***************************************************************************)
(* For any users, committee size, interval and bounds: the selection of a  *)
(* committee, the committee that is rotated and pays the reward pool, and  *)
(* a manager that keeps a copy of it.                                      *)
(*                                                                         *)
(* The first part is about CommitteeSelection and SelectionRounds alone:   *)
(* the partial selection sort returns the best candidates, and the         *)
(* roulette without replacement is exact and never seats a candidate       *)
(* twice.  The state of SelectionRounds plays no part in the second.       *)
(***************************************************************************)
EXTENDS CommitteeManager, SelectionRounds, Contracts_proofs

\* Least is the least element of a set of natural numbers.
LEMMA LeastIsLeast ==
    ASSUME NEW S \in SUBSET Nat, S # {}
    PROVE  Least(S) \in S /\ \A y \in S : Least(S) <= y
<1>1. \E x \in S : \A y \in S : x <= y
  BY LeastNat
<1> QED
  BY <1>1 DEF Least

-----------------------------------------------------------------------------
(* Top-K.                                                                  *)

\* The inner loop finds a position that carries the largest score of the rest.
LEMMA MaxIdxIsBest ==
    ASSUME NEW C, NEW N \in Nat, NEW cs \in [1 .. N -> C], NEW sc,
           \A c \in C : sc[c] \in Nat, NEW i \in 1 .. N
    PROVE  /\ MaxIdx(cs, sc, i) \in i .. N
           /\ \A k \in i .. N : sc[cs[MaxIdx(cs, sc, i)]] >= sc[cs[k]]
<1>0. cs \in Seq(C) /\ Len(cs) = N
  OBVIOUS
<1> DEFINE V == {sc[cs[k]] : k \in i .. N}
           best == {j \in i .. N : \A k \in i .. N : sc[cs[j]] >= sc[cs[k]]}
<1>1. IsFiniteSet(V)
  <2>1. IsFiniteSet(i .. N)
    BY FS_Interval
  <2> DEFINE S == i .. N
             f == [k \in S |-> sc[cs[k]]]
  <2>2. f \in Surjection(S, V)
    BY DEF Surjection
  <2> HIDE DEF V, S, f
  <2> QED
    BY <2>1, <2>2, FS_Surjection DEF S
<1>2. V # {} /\ V \in SUBSET Int
  OBVIOUS
<1>3. \E x \in V : \A y \in V : x >= y
  <2> HIDE DEF V
  <2> QED
    BY <1>1, <1>2, FiniteMaximum
<1>4. best # {}
  BY <1>3
<1>5. best \in SUBSET Nat
  OBVIOUS
<1>6. MaxIdx(cs, sc, i) = Least(best)
  BY <1>0 DEF MaxIdx
<1> HIDE DEF best
<1>7. Least(best) \in best
  BY <1>4, <1>5, LeastIsLeast
<1> QED
  BY <1>6, <1>7 DEF best

\* One pass of the outer loop.
SortStep(cs, sc, i) == Swapped(cs, i, MaxIdx(cs, sc, i))

\* s holds the array after each pass.
IsSorting(s, cs, sc, K) ==
    s = [i \in 0 .. K |-> IF i = 0 THEN cs ELSE SortStep(s[i - 1], sc, i)]

\* The recursion of the sort has a solution, however many passes it makes.
LEMMA SortingExists ==
    ASSUME NEW cs, NEW sc, NEW K \in Nat
    PROVE  \E s : IsSorting(s, cs, sc, K)
<1> DEFINE D == {k \in Nat : \E s : IsSorting(s, cs, sc, k)}
<1>1. 0 \in D
  <2> DEFINE s == [i \in 0 .. 0 |-> cs]
  <2>1. IsSorting(s, cs, sc, 0)
    BY DEF IsSorting
  <2> QED
    BY <2>1
<1>2. ASSUME NEW k \in Nat, k \in D PROVE k + 1 \in D
  <2>1. PICK s : IsSorting(s, cs, sc, k)
    BY <1>2
  <2> DEFINE t == [i \in 0 .. k + 1 |-> IF i <= k THEN s[i] ELSE SortStep(s[k], sc, k + 1)]
  <2>2. ASSUME NEW i \in 0 .. k + 1
        PROVE  t[i] = IF i = 0 THEN cs ELSE SortStep(t[i - 1], sc, i)
    <3>1. CASE i = 0
      BY <2>1, <3>1 DEF IsSorting
    <3>2. CASE i \in 1 .. k
      <4>1. t[i] = s[i] /\ t[i - 1] = s[i - 1]
        BY <3>2
      <4>2. s[i] = SortStep(s[i - 1], sc, i)
        BY <2>1, <3>2 DEF IsSorting
      <4> QED
        BY <3>2, <4>1, <4>2
    <3>3. CASE i = k + 1
      <4>1. t[i] = SortStep(s[k], sc, k + 1) /\ t[i - 1] = s[k] /\ i # 0
        BY <3>3
      <4> QED
        BY <3>3, <4>1
    <3> QED
      BY <3>1, <3>2, <3>3
  <2>3. t = [i \in 0 .. k + 1 |-> t[i]]
    OBVIOUS
  <2> HIDE DEF t
  <2>4. IsSorting(t, cs, sc, k + 1)
    BY <2>2, <2>3 DEF IsSorting
  <2> QED
    BY <2>4
<1>3. D = Nat
  <2>1. D \in SUBSET Nat
    OBVIOUS
  <2> HIDE DEF D
  <2> QED
    BY <1>1, <1>2, <2>1, SetInduction
<1> QED
  BY <1>3

\* After i passes the array still holds every candidate once, and the first i
\* positions carry the best scores in descending order.
SortedUpTo(t, cs, sc, N, i) ==
    /\ t \in [1 .. N -> Range(cs)]
    /\ IsInjective(t)
    /\ Range(t) = Range(cs)
    /\ \A a \in 1 .. i, b \in 1 .. N : a <= b => sc[t[a]] >= sc[t[b]]

\* A pass puts the best of the rest in place and loses nobody.
LEMMA SortStepSorts ==
    ASSUME NEW cs, NEW sc, \A c \in Range(cs) : sc[c] \in Nat, NEW N \in Nat, NEW i \in 1 .. N,
           NEW t, SortedUpTo(t, cs, sc, N, i - 1)
    PROVE  SortedUpTo(SortStep(t, sc, i), cs, sc, N, i)
<1> DEFINE j == MaxIdx(t, sc, i)
           u == SortStep(t, sc, i)
<1>1. /\ t \in [1 .. N -> Range(cs)] /\ IsInjective(t) /\ Range(t) = Range(cs)
      /\ \A a \in 1 .. i - 1, b \in 1 .. N : a <= b => sc[t[a]] >= sc[t[b]]
  BY DEF SortedUpTo
<1>2. j \in i .. N /\ \A k \in i .. N : sc[t[j]] >= sc[t[k]]
  BY <1>1, MaxIdxIsBest
<1>3. u = [t EXCEPT ![i] = t[j], ![j] = t[i]]
  BY DEF SortStep, Swapped
<1> HIDE DEF j, u
<1>4. /\ u \in [1 .. N -> Range(cs)]
      /\ u[i] = t[j] /\ u[j] = t[i]
      /\ \A k \in 1 .. N : k # i /\ k # j => u[k] = t[k]
  <2>1. i \in 1 .. N /\ j \in 1 .. N
    BY <1>2
  <2> DEFINE R == Range(cs)
  <2>2. t \in [1 .. N -> R]
    BY <1>1
  <2> HIDE DEF R
  <2>3. u \in [1 .. N -> R]
    BY <1>3, <2>1, <2>2
  <2>4. u[i] = t[j] /\ u[j] = t[i]
    BY <1>3, <2>1, <2>2
  <2>5. \A k \in 1 .. N : k # i /\ k # j => u[k] = t[k]
    BY <1>3, <2>2
  <2> QED
    BY <2>3, <2>4, <2>5 DEF R
<1>5. IsInjective(u)
  BY <1>1, <1>2, <1>4 DEF IsInjective
<1>6. Range(u) = Range(cs)
  <2>1. \A k \in 1 .. N : \E l \in 1 .. N : u[l] = t[k]
    BY <1>2, <1>4
  <2>2. Range(t) \subseteq Range(u)
    BY ZenonT(30), <1>1, <1>4, <2>1 DEF Range
  <2>3. Range(u) \subseteq Range(cs)
    BY <1>4 DEF Range
  <2> QED
    BY <1>1, <2>2, <2>3
<1>7. ASSUME NEW a \in 1 .. i, NEW b \in 1 .. N, a <= b
      PROVE  sc[u[a]] >= sc[u[b]]
  <2>0. \A k \in 1 .. N : sc[t[k]] \in Nat
    BY <1>1
  <2>1. CASE a = i
    <3>1. PICK k \in i .. N : u[b] = t[k]
      BY <1>2, <1>4, <1>7, <2>1
    <3> QED
      BY <1>2, <1>4, <2>1, <3>1
  <2>2. CASE a # i
    <3>1. a \in 1 .. i - 1 /\ u[a] = t[a]
      BY <1>2, <1>4, <2>2
    <3>2. PICK k \in 1 .. N : u[b] = t[k] /\ a <= k
      BY <1>2, <1>4, <1>7, <3>1
    <3> QED
      BY <1>1, <3>1, <3>2
  <2> QED
    BY <2>1, <2>2
<1> QED
  BY <1>4, <1>5, <1>6, <1>7 DEF SortedUpTo, u

\* What TopKCandidates returns.
IsTopK(top, cs, sc, K) ==
    /\ top \in [1 .. K -> Range(cs)]
    /\ IsInjective(top)
    /\ \A a \in 1 .. K, c \in Range(cs) \ Range(top) : sc[top[a]] >= sc[c]

\* The candidates that take part in the roulette.
TopCount(cs) == IF Len(cs) < TOP_K THEN Len(cs) ELSE TOP_K

\* The partial selection sort returns the best candidates, each once.
LEMMA TopKCandidatesBest ==
    ASSUME NEW C, NEW cs \in Seq(C), IsInjective(cs), NEW sc,
           \A c \in Range(cs) : sc[c] \in Nat
    PROVE  /\ IsTopK(TopKCandidates(cs, sc), cs, sc, TopCount(cs))
           /\ TopCount(cs) \in Nat /\ TopCount(cs) <= Len(cs)
<1> DEFINE N == Len(cs)
           K == TopCount(cs)
           s == CHOOSE f : IsSorting(f, cs, sc, K)
<1>1. K \in Nat /\ K <= N /\ N \in Nat
  BY SelectionAssumption DEF TopCount
<1>2. TopKCandidates(cs, sc) = SubSeq(s[K], 1, K)
  BY Zenon DEF TopKCandidates, IsSorting, SortStep, TopCount
<1>3. IsSorting(s, cs, sc, K)
  BY <1>1, SortingExists
<1> HIDE DEF s, K
<1> DEFINE D == {i \in Nat : i <= K => SortedUpTo(s[i], cs, sc, N, i)}
<1>4. 0 \in D
  <2>1. s[0] = cs
    BY <1>1, <1>3 DEF IsSorting
  <2>2. cs \in [1 .. N -> Range(cs)]
    BY DEF Range
  <2> QED
    BY <2>1, <2>2 DEF SortedUpTo
<1>5. ASSUME NEW i \in Nat, i \in D PROVE i + 1 \in D
  <2> SUFFICES ASSUME i + 1 <= K PROVE SortedUpTo(s[i + 1], cs, sc, N, i + 1)
    BY <1>1
  <2>1. s[i + 1] = SortStep(s[i], sc, i + 1)
    BY <1>1, <1>3 DEF IsSorting
  <2>2. SortedUpTo(s[i], cs, sc, N, i) /\ i + 1 \in 1 .. N /\ (i + 1) - 1 = i
    BY <1>1, <1>5
  <2> QED
    BY <1>1, <2>1, <2>2, SortStepSorts
<1>6. D = Nat
  <2>1. D \in SUBSET Nat
    OBVIOUS
  <2> HIDE DEF D
  <2> QED
    BY <1>4, <1>5, <2>1, SetInduction
<1>7. SortedUpTo(s[K], cs, sc, N, K)
  BY <1>1, <1>6
<1> DEFINE top == TopKCandidates(cs, sc)
<1>8. s[K] \in Seq(Range(cs)) /\ Len(s[K]) = N
  BY <1>1, <1>7 DEF SortedUpTo
<1>9. /\ top \in [1 .. K -> Range(cs)]
      /\ \A a \in 1 .. K : top[a] = s[K][a]
  <2> DEFINE x == s[K]
             R == Range(cs)
  <2>1. x \in Seq(R) /\ Len(x) = N /\ top = SubSeq(x, 1, K)
    BY <1>2, <1>8
  <2> HIDE DEF x, R, top, N
  <2>2. /\ SubSeq(x, 1, K) \in Seq(R)
        /\ Len(SubSeq(x, 1, K)) = K
        /\ \A a \in 1 .. K : SubSeq(x, 1, K)[a] = x[a]
    BY <1>1, <2>1
  <2>3. top \in Seq(R) /\ Len(top) = K /\ \A a \in 1 .. K : top[a] = x[a]
    BY <2>1, <2>2
  <2>4. top \in [1 .. K -> R]
    BY <2>3
  <2> QED
    BY <2>3, <2>4 DEF x, R
<1> HIDE DEF top
<1>10. IsInjective(top)
  BY <1>1, <1>7, <1>9 DEF SortedUpTo, IsInjective
<1>11. ASSUME NEW a \in 1 .. K, NEW c \in Range(cs) \ Range(top)
       PROVE  sc[top[a]] >= sc[c]
  <2>1. PICK b \in 1 .. N : s[K][b] = c
    BY <1>7 DEF SortedUpTo, Range
  <2>2. b \notin 1 .. K
    BY <1>9, <2>1 DEF Range
  <2> QED
    BY <1>1, <1>7, <1>9, <2>1, <2>2 DEF SortedUpTo
<1> QED
  BY <1>1, <1>9, <1>10, <1>11 DEF IsTopK, top, K

-----------------------------------------------------------------------------
(* Weights.                                                                *)

\* An exact multiple divides without a remainder.
LEMMA DivisionExact ==
    ASSUME NEW w \in Nat, NEW d \in Nat \ {0}
    PROVE  (d * w) \div d = w
<1>1. d * w \in Nat /\ d * w <= d * w /\ d * w < d * (w + 1)
  OBVIOUS
<1> QED
  BY <1>1, Quotient

\* A weight lies between BASE_WEIGHT and MAX_WEIGHT, follows the score, and is
\* all of MAX_WEIGHT for the largest score.
LEMMA WeightFollowsScore ==
    ASSUME NEW lo \in Nat, NEW hi \in Nat, NEW x \in lo .. hi, NEW y \in lo .. hi
    PROVE  /\ Weight(x, lo, hi) \in BASE_WEIGHT .. MAX_WEIGHT
           /\ x >= y => Weight(x, lo, hi) >= Weight(y, lo, hi)
           /\ lo # hi => Weight(hi, lo, hi) = MAX_WEIGHT
<1> DEFINE w == MAX_WEIGHT - BASE_WEIGHT
           d == hi - lo
           a == (x - lo) * w
           b == (y - lo) * w
<1>1. w \in Nat /\ BASE_WEIGHT \in Nat /\ MAX_WEIGHT \in Nat /\ MAX_WEIGHT = BASE_WEIGHT + w
  BY SelectionAssumption
<1>2. CASE hi = lo
  BY <1>1, <1>2 DEF Weight
<1>3. CASE hi # lo
  <2>1. /\ d \in Nat \ {0} /\ x - lo \in Nat /\ y - lo \in Nat
        /\ x - lo <= d /\ y - lo <= d
        /\ x >= y => y - lo <= x - lo
    BY <1>3
  <2>2. /\ Weight(x, lo, hi) = BASE_WEIGHT + a \div d
        /\ Weight(y, lo, hi) = BASE_WEIGHT + b \div d
        /\ Weight(hi, lo, hi) = BASE_WEIGHT + (d * w) \div d
    BY <1>3 DEF Weight
  <2> DEFINE u == x - lo
             v == y - lo
  <2>3. a = u * w /\ b = v * w
    OBVIOUS
  <2>4. u \in Nat /\ v \in Nat /\ u <= d /\ v <= d /\ (x >= y => v <= u)
    BY <2>1
  <2> HIDE DEF w, d, a, b, u, v
  <2>5. /\ a \in Nat /\ b \in Nat /\ d * w \in Nat
        /\ a <= d * w
        /\ x >= y => b <= a
    BY <1>1, <2>1, <2>3, <2>4, Products
  <2>6. (d * w) \div d = w
    BY <1>1, <2>1, DivisionExact
  <2>7. a \div d <= w /\ a \div d \in Nat /\ b \div d \in Nat
    <3> DEFINE m == d * w
    <3>1. m \in Nat /\ a <= m /\ m \div d = w
      BY <2>5, <2>6
    <3> HIDE DEF m
    <3> QED
      BY <2>1, <2>5, <3>1, DivisionMonotonic, Division
  <2>8. x >= y => b \div d <= a \div d
    BY <2>1, <2>5, DivisionMonotonic
  <2> QED
    BY <1>1, <2>2, <2>6, <2>7, <2>8
<1> QED
  BY <1>2, <1>3

\* calculateWeights: every candidate gets a weight in the range, a better one
\* never less, and the best all of it unless all are equal.
LEMMA CalculatedWeights ==
    ASSUME NEW K \in Nat \ {0}, NEW scores \in [1 .. K -> Nat]
    PROVE  /\ CalculateWeights(scores) \in [1 .. K -> BASE_WEIGHT .. MAX_WEIGHT]
           /\ \A i, j \in 1 .. K :
                 /\ scores[i] >= scores[j]
                       => CalculateWeights(scores)[i] >= CalculateWeights(scores)[j]
                 /\ (scores[i] > scores[j] /\ \A k \in 1 .. K : scores[i] >= scores[k])
                       => CalculateWeights(scores)[i] = MAX_WEIGHT
<1> DEFINE V == Range(scores)
           lo == Least(V)
           hi == CHOOSE x \in V : \A y \in V : x >= y
           ws == CalculateWeights(scores)
<1>1. V \in SUBSET Nat /\ V # {} /\ \A i \in 1 .. K : scores[i] \in V
  BY DEF Range
<1>2. lo \in V /\ \A y \in V : lo <= y
  <2> HIDE DEF V
  <2> QED
    BY <1>1, LeastIsLeast
<1>3. hi \in V /\ \A y \in V : hi >= y
  <2>1. IsFiniteSet(V)
    <3> DEFINE S == 1 .. K
    <3>1. IsFiniteSet(S)
      BY FS_Interval
    <3>2. scores \in Surjection(S, V)
      BY DEF Surjection, Range
    <3> HIDE DEF S, V
    <3> QED
      BY <3>1, <3>2, FS_Surjection
  <2> HIDE DEF V
  <2>2. V \in SUBSET Int
    BY <1>1
  <2>3. \E x \in V : \A y \in V : x >= y
    BY <1>1, <2>1, <2>2, FiniteMaximum
  <2> QED
    BY <2>3
<1>4. ws = [i \in 1 .. K |-> Weight(scores[i], lo, hi)]
  BY DEF CalculateWeights
<1> HIDE DEF V, lo, hi, ws
<1>5. lo \in Nat /\ hi \in Nat /\ \A i \in 1 .. K : scores[i] \in lo .. hi
  BY <1>1, <1>2, <1>3
<1>6. \A i, j \in 1 .. K :
         /\ ws[i] \in BASE_WEIGHT .. MAX_WEIGHT
         /\ scores[i] >= scores[j] => ws[i] >= ws[j]
         /\ lo # hi => Weight(hi, lo, hi) = MAX_WEIGHT
  BY <1>4, <1>5, WeightFollowsScore
<1>7. ASSUME NEW i \in 1 .. K, NEW j \in 1 .. K, scores[i] > scores[j],
             \A k \in 1 .. K : scores[i] >= scores[k]
      PROVE  ws[i] = MAX_WEIGHT
  <2>1. PICK k \in 1 .. K : scores[k] = hi
    BY <1>3 DEF V, Range
  <2>2. scores[i] = hi /\ lo # hi
    BY <1>5, <1>7, <2>1
  <2> QED
    BY <1>4, <1>6, <2>2
<1> QED
  BY <1>4, <1>6, <1>7 DEF ws

-----------------------------------------------------------------------------
(* Roulette.                                                               *)

\* The weight that position i still has on the wheel.
Remaining(w, i) == IF i \in Range(w.picked) THEN 0 ELSE w.weights[i]

\* The cumulative weight before position i.
Below(w, i) == IF i = 1 THEN 0 ELSE w.cumulativeWeights[i - 1]

\* A wheel of K positions: the cumulative weights are those of the positions
\* that are left, and no position was picked twice.
WheelOK(w, K) ==
    /\ w \in [weights : [1 .. K -> Nat \ {0}], cumulativeWeights : [1 .. K -> Nat],
              totalWeight : Nat, picked : Seq(1 .. K)]
    /\ IsInjective(w.picked)
    /\ \A i \in 1 .. K : w.cumulativeWeights[i] = Below(w, i) + Remaining(w, i)
    /\ w.totalWeight = w.cumulativeWeights[K]

\* c solves the recursion of the cumulative weights.
IsCumulative(c, ws, N) ==
    c = [i \in 1 .. N |-> IF i = 1 THEN ws[1] ELSE c[i - 1] + ws[i]]

\* The recursion of the cumulative weights has a solution.
LEMMA CumulativeExists ==
    ASSUME NEW ws, NEW N \in Nat
    PROVE  \E c : IsCumulative(c, ws, N)
<1> DEFINE S == {n \in Nat : \E c : IsCumulative(c, ws, n)}
<1>1. 0 \in S
  <2>1. IsCumulative([i \in 1 .. 0 |-> 0], ws, 0)
    BY DEF IsCumulative
  <2> QED  BY <2>1
<1>2. ASSUME NEW n \in Nat, n \in S
      PROVE  n + 1 \in S
  <2>1. PICK c : IsCumulative(c, ws, n)
    BY <1>2
  <2> DEFINE d == [i \in 1 .. n + 1 |->
                     IF i <= n THEN c[i] ELSE IF i = 1 THEN ws[1] ELSE c[i - 1] + ws[i]]
  <2>2. ASSUME NEW i \in 1 .. n + 1
        PROVE  d[i] = IF i = 1 THEN ws[1] ELSE d[i - 1] + ws[i]
    <3>1. CASE i <= n
      <4>1. c[i] = IF i = 1 THEN ws[1] ELSE c[i - 1] + ws[i]
        BY <2>1, <3>1 DEF IsCumulative
      <4>2. i # 1 => d[i - 1] = c[i - 1]
        BY <3>1
      <4> QED  BY <3>1, <4>1, <4>2
    <3>2. CASE i = n + 1
      <4>1. i # 1 => d[i - 1] = c[i - 1]
        BY <3>2
      <4> QED  BY <3>2, <4>1
    <3> QED  BY <3>1, <3>2
  <2>3. d = [i \in 1 .. n + 1 |-> d[i]]
    OBVIOUS
  <2>4. IsCumulative(d, ws, n + 1)
    BY <2>2, <2>3 DEF IsCumulative
  <2> QED  BY <2>4
<1>3. S = Nat
  <2>1. S \in SUBSET Nat
    OBVIOUS
  <2> HIDE DEF S
  <2> QED  BY <1>1, <1>2, <2>1, SetInduction
<1> QED  BY <1>3

\* The wheel of selectNewCommittee starts out consistent.
LEMMA NewWheelOK ==
    ASSUME NEW K \in Nat \ {0}, NEW ws \in [1 .. K -> Nat \ {0}]
    PROVE  WheelOK(NewWheel(ws), K)
<1> DEFINE c == CHOOSE f : IsCumulative(f, ws, K)
           w == NewWheel(ws)
<1>0. Len(ws) = K
  OBVIOUS
<1>1. CumulativeWeights(ws) = CHOOSE f : IsCumulative(f, ws, Len(ws))
  BY Zenon DEF CumulativeWeights, IsCumulative
<1>2. IsCumulative(c, ws, K)
  BY CumulativeExists
<1>3. CumulativeWeights(ws) = c
  BY <1>0, <1>1
<1>4. \A i \in 1 .. K : c[i] = IF i = 1 THEN ws[1] ELSE c[i - 1] + ws[i]
  BY <1>2 DEF IsCumulative
<1>5. c = [i \in 1 .. K |-> c[i]]
  <2>1. c = [i \in 1 .. K |-> IF i = 1 THEN ws[1] ELSE c[i - 1] + ws[i]]
    BY ZenonT(30), <1>2 DEF IsCumulative
  <2> HIDE DEF c
  <2> QED
    BY <2>1, <1>4, SMTT(30)
<1> HIDE DEF c
<1>6. \A i \in 1 .. K : c[i] \in Nat
  <2> DEFINE S == {n \in Nat : n + 1 \in 1 .. K => c[n + 1] \in Nat}
  <2>1. 0 \in S
    BY <1>4
  <2>2. ASSUME NEW n \in Nat, n \in S
        PROVE  n + 1 \in S
    <3>1. SUFFICES ASSUME n + 2 \in 1 .. K
                   PROVE  c[n + 2] \in Nat
      OBVIOUS
    <3>2. c[n + 2] = c[n + 1] + ws[n + 2]
      BY <1>4, <3>1
    <3>3. c[n + 1] \in Nat
      BY <2>2, <3>1
    <3> QED  BY <3>1, <3>2, <3>3
  <2>3. S = Nat
    <3>1. S \in SUBSET Nat
      OBVIOUS
    <3> HIDE DEF S
    <3> QED  BY <2>1, <2>2, <3>1, SetInduction
  <2>4. \A n \in Nat : n + 1 \in 1 .. K => c[n + 1] \in Nat
    BY <2>3
  <2> QED
    <3> TAKE i \in 1 .. K
    <3>1. i - 1 \in Nat /\ i = (i - 1) + 1
      OBVIOUS
    <3> QED  BY <2>4, <3>1
<1>7. w = [weights |-> ws, cumulativeWeights |-> c, totalWeight |-> c[K], picked |-> <<>>]
  BY <1>0, <1>3 DEF NewWheel
<1>8. c \in [1 .. K -> Nat] /\ c[K] \in Nat
  BY <1>5, <1>6
<1>9. Range(w.picked) = {} /\ IsInjective(w.picked) /\ w.picked \in Seq(1 .. K)
  BY <1>7 DEF Range, IsInjective
<1>10. \A i \in 1 .. K : w.cumulativeWeights[i] = Below(w, i) + Remaining(w, i)
  <2> TAKE i \in 1 .. K
  <2>1. Remaining(w, i) = ws[i] /\ w.cumulativeWeights[i] = c[i]
    BY <1>7, <1>9 DEF Remaining
  <2>2. Below(w, i) = IF i = 1 THEN 0 ELSE c[i - 1]
    BY <1>7 DEF Below
  <2> QED  BY <1>4, <2>1, <2>2
<1> QED  BY <1>7, <1>8, <1>9, <1>10 DEF WheelOK

\* Cumulative weights grow with the position.
LEMMA WheelMonotonic ==
    ASSUME NEW K \in Nat \ {0}, NEW w, WheelOK(w, K), NEW i \in 1 .. K, NEW j \in 1 .. K,
           i <= j
    PROVE  w.cumulativeWeights[i] <= w.cumulativeWeights[j]
<1> DEFINE c == w.cumulativeWeights
           S == {n \in Nat : i + n \in 1 .. K => c[i] <= c[i + n]}
<1>0. c \in [1 .. K -> Nat]
  BY DEF WheelOK
<1>1. \A k \in 1 .. K : k # 1 => c[k] >= c[k - 1]
  <2> TAKE k \in 1 .. K
  <2>1. Remaining(w, k) \in Nat
    BY DEF WheelOK, Remaining
  <2>2. k # 1 => c[k] = c[k - 1] + Remaining(w, k)
    BY DEF WheelOK, Below
  <2>3. k # 1 => c[k - 1] \in Nat
    BY <1>0
  <2> QED  BY <2>1, <2>2, <2>3
<1> HIDE DEF c
<1>2. 0 \in S
  BY <1>0
<1>3. ASSUME NEW n \in Nat, n \in S
      PROVE  n + 1 \in S
  <2>1. SUFFICES ASSUME i + (n + 1) \in 1 .. K
                 PROVE  c[i] <= c[i + (n + 1)]
    OBVIOUS
  <2>2. i + n \in 1 .. K /\ i + (n + 1) # 1 /\ (i + (n + 1)) - 1 = i + n
    BY <2>1
  <2>3. c[i + (n + 1)] >= c[i + n]
    BY <1>1, <2>1, <2>2
  <2>4. c[i] <= c[i + n]
    BY <1>3, <2>2
  <2> QED  BY <1>0, <2>1, <2>2, <2>3, <2>4
<1>4. S = Nat
  <2>1. S \in SUBSET Nat
    OBVIOUS
  <2> HIDE DEF S
  <2> QED  BY <1>2, <1>3, <2>1, SetInduction
<1>5. \A n \in Nat : i + n \in 1 .. K => c[i] <= c[i + n]
  BY <1>4
<1>6. j - i \in Nat /\ i + (j - i) = j
  OBVIOUS
<1> QED  BY <1>5, <1>6 DEF c

\* While fewer than K were picked somebody is left, and it is one of those
\* who are left that a spin selects, whatever the value.
LEMMA SelectsUnpicked ==
    ASSUME NEW K \in Nat \ {0}, NEW w, WheelOK(w, K), Len(w.picked) < K, NEW v
    PROVE  SelectedIdx(w, v) \in Unpicked(w) /\ Unpicked(w) \subseteq 1 .. K
<1> DEFINE p == w.picked
           U == Unpicked(w)
           hits == {i \in U : v < w.cumulativeWeights[i]}
<1>1. p \in Seq(1 .. K) /\ DOMAIN w.weights = 1 .. K /\ Len(p) < K
  BY DEF WheelOK
<1>2. U = (1 .. K) \ Range(p)
  BY <1>1 DEF Unpicked
<1>3. U # {}
  <2>1. SUFFICES ASSUME U = {} PROVE FALSE
    OBVIOUS
  <2>2. Range(p) = 1 .. K
    BY <1>1, <1>2, <2>1 DEF Range
  <2>3. Len(p) \in Nat /\ p \in [1 .. Len(p) -> 1 .. K]
    BY <1>1
  <2>4. p \in Surjection(1 .. Len(p), 1 .. K)
    BY <2>2, <2>3 DEF Surjection, Range
  <2>5. /\ IsFiniteSet(1 .. Len(p)) /\ Cardinality(1 .. Len(p)) = Len(p)
        /\ Cardinality(1 .. K) = K
    <3>1. 1 \in Int /\ K \in Int /\ Len(p) \in Int /\ 1 <= K + 1 /\ 1 <= Len(p) + 1
      BY <2>3
    <3>2. /\ Cardinality(1 .. Len(p)) = (Len(p) - 1) + 1
          /\ Cardinality(1 .. K) = (K - 1) + 1
      BY <3>1, IntervalSize
    <3>3. IsFiniteSet(1 .. Len(p))
      BY <2>3, FS_Interval
    <3> QED  BY <2>3, <3>2, <3>3
  <2>6. Cardinality(1 .. K) <= Cardinality(1 .. Len(p))
    BY <2>4, <2>5, FS_Surjection
  <2> QED  BY <1>1, <2>3, <2>5, <2>6
<1>4. U \in SUBSET Nat /\ hits \in SUBSET Nat
  BY <1>2
<1>5. Least(U) \in U /\ (hits # {} => Least(hits) \in hits)
  <2> HIDE DEF U, hits
  <2> QED  BY <1>3, <1>4, LeastIsLeast
<1>6. SelectedIdx(w, v) = IF hits # {} THEN Least(hits) ELSE Least(U)
  BY DEF SelectedIdx
<1>7. hits \subseteq U /\ U \subseteq 1 .. K
  BY <1>2
<1> HIDE DEF hits
<1> QED  BY <1>5, <1>6, <1>7

\* A spin keeps the wheel consistent and picks one more.
LEMMA SpinOK ==
    ASSUME NEW K \in Nat \ {0}, NEW w, WheelOK(w, K), Len(w.picked) < K, NEW word
    PROVE  /\ WheelOK(Spin(w, word), K)
           /\ Len(Spin(w, word).picked) = Len(w.picked) + 1
           /\ Spin(w, word).weights = w.weights
<1> DEFINE c == w.cumulativeWeights
           idx == SelectedIdx(w, word % w.totalWeight)
           removed == w.weights[idx]
           u == Spin(w, word)
<1>1. /\ w.weights \in [1 .. K -> Nat \ {0}] /\ c \in [1 .. K -> Nat]
      /\ w.totalWeight \in Nat /\ w.picked \in Seq(1 .. K)
      /\ \A i \in 1 .. K : c[i] = Below(w, i) + Remaining(w, i)
      /\ w.totalWeight = c[K] /\ IsInjective(w.picked)
  BY DEF WheelOK
<1>2. idx \in 1 .. K /\ idx \notin Range(w.picked)
  <2>1. idx \in Unpicked(w) /\ Unpicked(w) \subseteq 1 .. K
    BY SelectsUnpicked
  <2> QED  BY <2>1 DEF Unpicked
<1> HIDE DEF idx
<1>3. removed \in Nat /\ removed = Remaining(w, idx)
  BY <1>1, <1>2 DEF Remaining
<1>4. Below(w, idx) \in Nat
  BY <1>1, <1>2 DEF Below
<1>5. \A i \in 1 .. K : i >= idx => c[i] >= removed
  <2> TAKE i \in 1 .. K
  <2>1. HAVE i >= idx
  <2>2. c[idx] <= c[i]
    BY <1>2, <2>1, WheelMonotonic
  <2>3. c[idx] >= removed
    BY SMTT(30), <1>1, <1>2, <1>3, <1>4
  <2> QED  BY SMTT(30), <1>1, <1>2, <1>3, <2>2, <2>3
<1>6. /\ u.weights = w.weights
      /\ u.totalWeight = w.totalWeight - removed
      /\ u.picked = Append(w.picked, idx)
      /\ u.cumulativeWeights =
           [i \in DOMAIN c |-> IF i >= idx /\ c[i] >= removed THEN c[i] - removed ELSE c[i]]
      /\ u \in [weights : {u.weights}, cumulativeWeights : {u.cumulativeWeights},
                totalWeight : {u.totalWeight}, picked : {u.picked}]
  BY DEF Spin, idx, WheelOK
<1>7. \A i \in 1 .. K :
        u.cumulativeWeights[i] = IF i >= idx THEN c[i] - removed ELSE c[i]
  BY <1>1, <1>2, <1>5, <1>6
<1>8. u.cumulativeWeights \in [1 .. K -> Nat] /\ u.totalWeight \in Nat
  <2>1. DOMAIN c = 1 .. K
    BY <1>1
  <2>2. \A i \in 1 .. K : u.cumulativeWeights[i] \in Nat
    <3> TAKE i \in 1 .. K
    <3>1. /\ c[i] \in Nat /\ (i >= idx => c[i] >= removed)
          /\ u.cumulativeWeights[i] = IF i >= idx THEN c[i] - removed ELSE c[i]
      BY <1>1, <1>5, <1>7
    <3> HIDE DEF c, removed, u
    <3> QED  BY <1>3, <3>1
  <2>3. K \in 1 .. K /\ K >= idx
    BY <1>2
  <2>4. u.totalWeight \in Nat
    BY <1>1, <1>3, <1>5, <1>6, <2>3
  <2> QED  BY <1>6, <2>1, <2>2, <2>4
<1>9. /\ u.picked \in Seq(1 .. K) /\ IsInjective(u.picked)
      /\ Len(u.picked) = Len(w.picked) + 1
      /\ Range(u.picked) = Range(w.picked) \cup {idx}
  <2>1. /\ u.picked \in Seq(1 .. K) /\ Len(u.picked) = Len(w.picked) + 1
        /\ \A i \in 1 .. Len(w.picked) : u.picked[i] = w.picked[i]
        /\ u.picked[Len(w.picked) + 1] = idx
    BY <1>1, <1>2, <1>6
  <2> DEFINE p == w.picked
             q == u.picked
             N == Len(p)
  <2>2. /\ N \in Nat /\ DOMAIN p = 1 .. N /\ DOMAIN q = 1 .. N + 1
        /\ \A a, b \in 1 .. N : p[a] = p[b] => a = b
    <3>1. N \in Nat /\ DOMAIN p = 1 .. N
      BY <1>1
    <3>2. DOMAIN q = 1 .. Len(q) /\ Len(q) = N + 1
      BY <2>1
    <3>3. IsInjective(p)
      BY <1>1
    <3> HIDE DEF p, q, N
    <3>4. \A a, b \in 1 .. N : p[a] = p[b] => a = b
      BY <3>1, <3>3 DEF IsInjective
    <3> QED  BY <3>1, <3>2, <3>4
  <2>20. q[N + 1] = idx /\ \A a \in 1 .. N : q[a] = p[a]
    BY <2>1
  <2> HIDE DEF p, q, N
  <2>21. \A a \in 1 .. N : p[a] # idx
    BY <1>2, <2>2 DEF p, Range
  <2>3. IsInjective(u.picked)
    <3>1. \A a \in 1 .. N + 1 : a \in 1 .. N \/ a = N + 1
      BY <2>2
    <3>2. \A a, b \in 1 .. N + 1 : q[a] = q[b] => a = b
      BY <2>2, <2>20, <2>21, <3>1
    <3>3. IsInjective(q)
      BY <2>2, <3>2 DEF IsInjective
    <3> QED  BY <3>3 DEF q
  <2>4. Range(u.picked) = Range(w.picked) \cup {idx}
    <3>1. \A a \in 1 .. N + 1 : a \in 1 .. N \/ a = N + 1
      BY <2>2
    <3>2. \A a \in 1 .. N : a \in 1 .. N + 1
      BY <2>2
    <3>3. N + 1 \in 1 .. N + 1
      BY <2>2
    <3>4. {q[a] : a \in 1 .. N + 1} = {p[a] : a \in 1 .. N} \cup {idx}
      BY <2>20, <3>1, <3>2, <3>3
    <3> QED  BY <2>2, <3>4 DEF Range, p, q
  <2> QED  BY <2>1, <2>3, <2>4
<1>10. \A i \in 1 .. K : u.cumulativeWeights[i] = Below(u, i) + Remaining(u, i)
  <2> TAKE i \in 1 .. K
  <2>1. Remaining(u, i) = IF i = idx THEN 0 ELSE Remaining(w, i)
    BY <1>6, <1>9 DEF Remaining
  <2>2. c[i] = Below(w, i) + Remaining(w, i) /\ c[i] \in Nat
    BY <1>1
  <2>3. Below(u, i) = IF i > idx THEN Below(w, i) - removed ELSE Below(w, i)
    <3>1. CASE i = 1
      BY <1>2, <3>1 DEF Below
    <3>2. CASE i # 1
      <4>1. i - 1 \in 1 .. K /\ (i > idx <=> i - 1 >= idx)
        BY <1>2, <3>2
      <4>2. u.cumulativeWeights[i - 1] = IF i - 1 >= idx THEN c[i - 1] - removed ELSE c[i - 1]
        BY <1>7, <4>1
      <4> QED  BY <3>2, <4>1, <4>2 DEF Below
    <3> QED  BY <3>1, <3>2
  <2>4. Below(w, i) \in Nat /\ Remaining(w, i) \in Nat
    BY <1>1, SMTT(30) DEF Below, Remaining
  <2>5. u.cumulativeWeights[i] = IF i >= idx THEN c[i] - removed ELSE c[i]
    BY <1>7
  <2> HIDE DEF removed, u
  <2> QED  BY <1>2, <1>3, <2>1, <2>2, <2>3, <2>4, <2>5
<1>11. u.totalWeight = u.cumulativeWeights[K]
  <2>1. K \in 1 .. K /\ K >= idx
    BY <1>2
  <2>2. u.cumulativeWeights[K] = c[K] - removed
    BY <1>7, <2>1
  <2> QED  BY <1>1, <1>6, <2>2
<1> HIDE DEF u
<1>12. WheelOK(u, K)
  BY <1>1, <1>6, <1>8, <1>9, <1>10, <1>11 DEF WheelOK
<1> QED  BY <1>6, <1>9, <1>12 DEF u

\* The values that select a position are the ones between the cumulative weight
\* before it and its own: exactly its weight many, none once it was picked.
LEMMA SelectedBetween ==
    ASSUME NEW K \in Nat \ {0}, NEW w, WheelOK(w, K), Len(w.picked) < K,
           NEW v \in 0 .. w.totalWeight - 1, NEW i \in 1 .. K
    PROVE  SelectedIdx(w, v) = i <=> (Below(w, i) <= v /\ v < w.cumulativeWeights[i])
<1> DEFINE c == w.cumulativeWeights
           U == Unpicked(w)
           hits == {k \in U : v < c[k]}
           over == {k \in 1 .. K : v < c[k]}
           m == Least(over)
<1>1. /\ w.weights \in [1 .. K -> Nat \ {0}] /\ c \in [1 .. K -> Nat]
      /\ w.totalWeight \in Nat /\ w.totalWeight = c[K]
      /\ \A k \in 1 .. K : c[k] = Below(w, k) + Remaining(w, k)
  BY DEF WheelOK
<1>2. v \in Nat /\ K \in over
  BY <1>1
<1>3. m \in over /\ \A k \in over : m <= k
  <2>1. over \in SUBSET Nat /\ over # {}
    BY <1>2
  <2> HIDE DEF over
  <2> QED  BY <2>1, LeastIsLeast
<1> HIDE DEF m
<1>4. Below(w, m) <= v
  <2>1. CASE m = 1
    BY <1>2, <2>1 DEF Below
  <2>2. CASE m # 1
    <3>1. m - 1 \in 1 .. K /\ ~(m <= m - 1)
      BY <1>3, <2>2
    <3>2. m - 1 \notin over
      BY <1>3, <3>1
    <3> QED  BY <1>1, <1>2, <2>2, <3>1, <3>2 DEF Below
  <2> QED  BY <2>1, <2>2
<1>5. m \in U
  <2>1. SUFFICES ASSUME m \in Range(w.picked) PROVE FALSE
    BY <1>1, <1>3 DEF Unpicked
  <2>2. Remaining(w, m) = 0 /\ Below(w, m) \in Nat
    BY <1>1, <1>3, <2>1 DEF Remaining, Below
  <2> QED  BY <1>1, <1>2, <1>3, <1>4, <2>2
<1>6. U \subseteq 1 .. K
  BY <1>1 DEF Unpicked
<1>7. SelectedIdx(w, v) = m
  <2>1. m \in hits
    BY <1>3, <1>5
  <2>2. hits \subseteq over
    BY <1>6
  <2>3. SelectedIdx(w, v) = Least(hits)
    BY <2>1 DEF SelectedIdx
  <2>4. hits \in SUBSET Nat /\ hits # {}
    BY <1>6, <2>1
  <2> HIDE DEF hits, over
  <2>5. Least(hits) \in hits /\ \A k \in hits : Least(hits) <= k
    BY <2>4, LeastIsLeast
  <2>6. Least(hits) <= m /\ m <= Least(hits) /\ Least(hits) \in Nat /\ m \in Nat
    BY <1>3, <2>1, <2>2, <2>4, <2>5
  <2> QED  BY <2>3, <2>6
<1>8. ASSUME i = m PROVE Below(w, i) <= v /\ v < c[i]
  BY <1>3, <1>4, <1>8
<1>9. ASSUME Below(w, i) <= v, v < c[i] PROVE i = m
  <2>1. m \in 1 .. K /\ m <= i
    BY <1>3, <1>9
  <2>2. SUFFICES ASSUME m < i PROVE FALSE
    BY <2>1
  <2>3. i - 1 \in 1 .. K /\ m <= i - 1 /\ i # 1
    BY <2>1, <2>2
  <2>4. c[m] <= c[i - 1]
    BY <2>1, <2>3, WheelMonotonic
  <2>5. c[i - 1] <= v
    BY <1>9, <2>3 DEF Below
  <2>6. c[m] \in Nat /\ c[i - 1] \in Nat /\ v < c[m]
    BY <1>1, <1>3, <2>1, <2>3
  <2> QED  BY <1>2, <2>4, <2>5, <2>6
<1> QED  BY <1>7, <1>8, <1>9

\* Precisely weights[i] of the totalWeight values select the unpicked position
\* i, and none selects a picked one.
LEMMA DrawsOf ==
    ASSUME NEW K \in Nat \ {0}, NEW w, WheelOK(w, K), Len(w.picked) < K, NEW i \in 1 .. K
    PROVE  Cardinality({v \in 0 .. w.totalWeight - 1 : SelectedIdx(w, v) = i})
               = IF i \in Unpicked(w) THEN w.weights[i] ELSE 0
<1> DEFINE c == w.cumulativeWeights
           b == Below(w, i)
           r == Remaining(w, i)
           D == {v \in 0 .. w.totalWeight - 1 : SelectedIdx(w, v) = i}
<1>1. /\ w.weights \in [1 .. K -> Nat \ {0}] /\ c \in [1 .. K -> Nat]
      /\ w.totalWeight \in Nat /\ w.totalWeight = c[K] /\ c[i] = b + r
  BY DEF WheelOK
<1>2. b \in Nat /\ r \in Nat
  BY <1>1 DEF Below, Remaining
<1>3. r = IF i \in Unpicked(w) THEN w.weights[i] ELSE 0
  BY <1>1 DEF Remaining, Unpicked
<1>4. c[i] <= w.totalWeight
  BY <1>1, WheelMonotonic
<1>5. \A v \in 0 .. w.totalWeight - 1 : SelectedIdx(w, v) = i <=> (b <= v /\ v < c[i])
  BY SelectedBetween
<1>6. c[i] \in Nat
  BY <1>1
<1> HIDE DEF b, r
<1>7. D = b .. (b + r) - 1
  <2> DEFINE top == c[i]
  <2>1. top = b + r /\ top <= w.totalWeight /\ top \in Nat
    BY <1>1, <1>4, <1>6
  <2>2. \A v \in 0 .. w.totalWeight - 1 : SelectedIdx(w, v) = i <=> (b <= v /\ v < top)
    BY <1>5
  <2> HIDE DEF top
  <2> QED  BY <1>1, <1>2, <2>1, <2>2
<1>8. Cardinality(b .. (b + r) - 1) = r
  <2>1. b \in Int /\ (b + r) - 1 \in Int /\ b <= ((b + r) - 1) + 1
    BY <1>2
  <2>2. Cardinality(b .. (b + r) - 1) = (((b + r) - 1) - b) + 1
    BY <2>1, IntervalSize
  <2> QED  BY <1>2, <2>2
<1> QED
  BY <1>3, <1>7, <1>8

-----------------------------------------------------------------------------
(* A whole selection.                                                      *)

\* The weights of the candidates that take part.
TopWeights(cs, sc) ==
    CalculateWeights([i \in DOMAIN TopKCandidates(cs, sc) |-> sc[TopKCandidates(cs, sc)[i]]])

\* The wheel that selectNewCommittee starts from, for a pool large enough.
LEMMA FirstWheel ==
    ASSUME NEW C, NEW cs \in Seq(C), IsInjective(cs), NEW sc,
           \A c \in Range(cs) : sc[c] \in Nat,
           Len(cs) >= MAX_COMMITTEE_SIZE
    PROVE  /\ TopCount(cs) \in Nat \ {0} /\ TopCount(cs) >= MAX_COMMITTEE_SIZE
           /\ WheelOK(NewWheel(TopWeights(cs, sc)), TopCount(cs))
           /\ NewWheel(TopWeights(cs, sc)).picked = <<>>
           /\ NewWheel(TopWeights(cs, sc)).weights = TopWeights(cs, sc)
           /\ TopWeights(cs, sc) \in [1 .. TopCount(cs) -> BASE_WEIGHT .. MAX_WEIGHT]
<1> DEFINE K == TopCount(cs)
           top == TopKCandidates(cs, sc)
           scores == [i \in DOMAIN top |-> sc[top[i]]]
           ws == TopWeights(cs, sc)
<1>1. K \in Nat /\ IsTopK(top, cs, sc, K)
  BY TopKCandidatesBest
<1>2. K \in Nat \ {0} /\ K >= MAX_COMMITTEE_SIZE
  BY SelectionAssumption DEF TopCount
<1>3. DOMAIN top = 1 .. K /\ scores \in [1 .. K -> Nat]
  BY <1>1 DEF IsTopK
<1>4. ws = CalculateWeights(scores)
  BY DEF TopWeights
<1> HIDE DEF K, ws, scores
<1>5. ws \in [1 .. K -> BASE_WEIGHT .. MAX_WEIGHT]
  BY <1>2, <1>3, <1>4, CalculatedWeights
<1>6. ws \in [1 .. K -> Nat \ {0}]
  BY <1>5, SelectionAssumption
<1>7. WheelOK(NewWheel(ws), K)
  BY <1>2, <1>6, NewWheelOK
<1>8. NewWheel(ws).picked = <<>> /\ NewWheel(ws).weights = ws
  BY DEF NewWheel
<1> QED
  BY <1>2, <1>5, <1>7, <1>8 DEF K, ws

\* s holds the wheel after each seat.
IsSpinning(s, ws, random, N) ==
    s = [n \in 0 .. N |-> IF n = 0 THEN NewWheel(ws) ELSE Spin(s[n - 1], random[n])]

\* The recursion of the seats has a solution.
LEMMA SpinningExists ==
    ASSUME NEW ws, NEW random, NEW N \in Nat
    PROVE  \E s : IsSpinning(s, ws, random, N)
<1> DEFINE D == {k \in Nat : \E s : IsSpinning(s, ws, random, k)}
<1>1. 0 \in D
  <2> DEFINE s == [i \in 0 .. 0 |-> NewWheel(ws)]
  <2>1. IsSpinning(s, ws, random, 0)
    BY DEF IsSpinning
  <2> QED
    BY <2>1
<1>2. ASSUME NEW k \in Nat, k \in D PROVE k + 1 \in D
  <2>1. PICK s : IsSpinning(s, ws, random, k)
    BY <1>2
  <2> DEFINE t == [i \in 0 .. k + 1 |-> IF i <= k THEN s[i] ELSE Spin(s[k], random[k + 1])]
  <2>2. ASSUME NEW i \in 0 .. k + 1
        PROVE  t[i] = IF i = 0 THEN NewWheel(ws) ELSE Spin(t[i - 1], random[i])
    <3>1. CASE i = 0
      BY <2>1, <3>1 DEF IsSpinning
    <3>2. CASE i \in 1 .. k
      <4>1. t[i] = s[i] /\ t[i - 1] = s[i - 1]
        BY <3>2
      <4>2. s[i] = Spin(s[i - 1], random[i])
        BY <2>1, <3>2 DEF IsSpinning
      <4> QED
        BY <3>2, <4>1, <4>2
    <3>3. CASE i = k + 1
      <4>1. t[i] = Spin(s[k], random[k + 1]) /\ t[i - 1] = s[k] /\ i # 0
        BY <3>3
      <4> QED
        BY <3>3, <4>1
    <3> QED
      BY <3>1, <3>2, <3>3
  <2>3. t = [i \in 0 .. k + 1 |-> t[i]]
    OBVIOUS
  <2> HIDE DEF t
  <2>4. IsSpinning(t, ws, random, k + 1)
    BY <2>2, <2>3 DEF IsSpinning
  <2> QED
    BY <2>4
<1>3. D = Nat
  <2>1. D \in SUBSET Nat
    OBVIOUS
  <2> HIDE DEF D
  <2> QED
    BY <1>1, <1>2, <2>1, SetInduction
<1> QED
  BY <1>3

\* selectNewCommittee fills every seat with a candidate of the pool, and no two
\* with the same one, whatever the random words.
LEMMA CommitteeSelected ==
    ASSUME NEW C, NEW cs \in Seq(C), IsInjective(cs), NEW sc,
           \A c \in Range(cs) : sc[c] \in Nat,
           Len(cs) >= MAX_COMMITTEE_SIZE, NEW random
    PROVE  /\ SelectNewCommittee(cs, sc, random) \in [1 .. MAX_COMMITTEE_SIZE -> Range(cs)]
           /\ IsInjective(SelectNewCommittee(cs, sc, random))
<1> DEFINE K == TopCount(cs)
           M == MAX_COMMITTEE_SIZE
           top == TopKCandidates(cs, sc)
           ws == TopWeights(cs, sc)
           s == CHOOSE f : IsSpinning(f, ws, random, M)
           seats == SelectNewCommittee(cs, sc, random)
<1>1. M \in Nat
  BY SelectionAssumption
<1>2. seats = [n \in 1 .. M |-> top[s[M].picked[n]]]
  BY Zenon DEF SelectNewCommittee, IsSpinning, TopWeights
<1>3. IsSpinning(s, ws, random, M)
  BY <1>1, SpinningExists
<1>4. /\ K \in Nat \ {0} /\ K >= M
      /\ WheelOK(NewWheel(ws), K) /\ NewWheel(ws).picked = <<>>
  BY FirstWheel
<1>5. IsTopK(top, cs, sc, K)
  BY TopKCandidatesBest
<1> HIDE DEF s, ws, K, top, seats
<1> DEFINE good(n) == WheelOK(s[n], K) /\ Len(s[n].picked) = n
           G == {n \in Nat : n <= M => good(n)}
<1>6. 0 \in G
  <2>1. s[0] = NewWheel(ws)
    BY <1>1, <1>3 DEF IsSpinning
  <2> QED  BY <1>4, <2>1
<1>7. ASSUME NEW n \in Nat, n \in G
      PROVE  n + 1 \in G
  <2>1. SUFFICES ASSUME n + 1 <= M
                 PROVE  good(n + 1)
    OBVIOUS
  <2>2. s[n + 1] = Spin(s[n], random[n + 1])
    BY <1>1, <1>3, <2>1 DEF IsSpinning
  <2>3. good(n) /\ Len(s[n].picked) < K
    BY <1>1, <1>4, <1>7, <2>1
  <2>4. /\ WheelOK(Spin(s[n], random[n + 1]), K)
        /\ Len(Spin(s[n], random[n + 1]).picked) = Len(s[n].picked) + 1
    BY <1>4, <2>3, SpinOK
  <2> QED  BY <2>2, <2>3, <2>4
<1>8. good(M)
  <2>1. G = Nat
    <3>1. G \in SUBSET Nat
      OBVIOUS
    <3> HIDE DEF G
    <3> QED  BY <1>6, <1>7, <3>1, SetInduction
  <2> QED  BY <1>1, <2>1
<1> DEFINE p == s[M].picked
<1>9. p \in [1 .. M -> 1 .. K] /\ \A a, b \in 1 .. M : p[a] = p[b] => a = b
  <2>1. p \in Seq(1 .. K) /\ IsInjective(p) /\ Len(p) = M
    BY <1>8 DEF WheelOK
  <2> HIDE DEF p, M
  <2>2. p \in [1 .. M -> 1 .. K]
    <3>1. ASSUME NEW S, NEW q \in Seq(S)
          PROVE  q \in [1 .. Len(q) -> S]
      OBVIOUS
    <3>2. p \in [1 .. Len(p) -> 1 .. K]
      BY <2>1, <3>1
    <3> QED  BY <2>1, <3>2
  <2> QED  BY <2>1, <2>2 DEF IsInjective
<1>10. /\ top \in [1 .. K -> Range(cs)]
       /\ \A a, b \in 1 .. K : top[a] = top[b] => a = b
  BY <1>5 DEF IsTopK, IsInjective
<1> HIDE DEF p, M
<1>11. seats = [n \in 1 .. M |-> top[p[n]]]
  BY <1>2 DEF p
<1>12. seats \in [1 .. M -> Range(cs)]
  BY <1>9, <1>10, <1>11
<1>13. IsInjective(seats)
  BY <1>9, <1>10, <1>11 DEF IsInjective
<1> QED
  BY <1>12, <1>13 DEF seats, M

-----------------------------------------------------------------------------
(* The rounds.                                                             *)

\* The inductive invariant of RoundsSpec: the pool is proper, the wheel is
\* consistent and still carries the weights it was made with.
RoundsIInv ==
    /\ candidates \in Seq(Nat) /\ IsInjective(candidates)
    /\ Len(candidates) >= MAX_COMMITTEE_SIZE
    /\ \A c \in Range(candidates) : score[c] \in Nat
    /\ WheelOK(wheel, TopCount(candidates))
    /\ wheel.weights = TopWeights(candidates, score)

\* The first wheel is consistent, and each seat's spin keeps it so.
LEMMA RoundsInvariant == RoundsSpec => []RoundsIInv
<1>1. RoundsInit => RoundsIInv
  <2> SUFFICES ASSUME RoundsInit PROVE RoundsIInv
    OBVIOUS
  <2>1. PICK n \in MAX_COMMITTEE_SIZE .. MaxPool : candidates = [i \in 1 .. n |-> i]
    BY DEF RoundsInit
  <2>2. n \in Nat /\ n >= MAX_COMMITTEE_SIZE
    BY SelectionAssumption, RoundsAssumption
  <2>3. candidates \in Seq(Nat) /\ Len(candidates) = n
    BY <2>1, <2>2
  <2>4. IsInjective(candidates)
    BY <2>1 DEF IsInjective
  <2>5. \A c \in Range(candidates) : score[c] \in Nat
    BY RoundsAssumption DEF RoundsInit
  <2>6. wheel = NewWheel(TopWeights(candidates, score))
    BY DEF RoundsInit, StartWheel, TopWeights
  <2>7. Len(candidates) >= MAX_COMMITTEE_SIZE
    BY <2>2, <2>3
  <2>8. /\ WheelOK(wheel, TopCount(candidates))
        /\ wheel.weights = TopWeights(candidates, score)
    BY <2>3, <2>4, <2>5, <2>6, <2>7, FirstWheel
  <2> QED
    BY <2>3, <2>4, <2>5, <2>7, <2>8 DEF RoundsIInv
<1>2. RoundsIInv /\ [RoundsNext]_roundsVars => RoundsIInv'
  <2> SUFFICES ASSUME RoundsIInv, [RoundsNext]_roundsVars PROVE RoundsIInv'
    OBVIOUS
  <2> USE DEF RoundsIInv
  <2>1. ASSUME NEW word \in 0 .. MaxWord, SpinSeat(word) PROVE RoundsIInv'
    <3>1. /\ TopCount(candidates) \in Nat \ {0}
          /\ TopCount(candidates) >= MAX_COMMITTEE_SIZE
      BY FirstWheel
    <3>2. Len(wheel.picked) \in Nat
      BY DEF WheelOK
    <3>3. Len(wheel.picked) < TopCount(candidates)
      BY <2>1, <3>1, <3>2, SelectionAssumption DEF SpinSeat
    <3>4. /\ WheelOK(Spin(wheel, word), TopCount(candidates))
          /\ Spin(wheel, word).weights = wheel.weights
      BY <3>1, <3>3, SpinOK
    <3> QED
      BY <2>1, <3>4 DEF SpinSeat
  <2>2. CASE UNCHANGED roundsVars
    BY <2>2 DEF roundsVars
  <2> QED
    BY <2>1, <2>2 DEF RoundsNext
<1> QED
  BY <1>1, <1>2, PTL DEF RoundsSpec

\* TopKIsTheBest for every pool, every TOP_K and every scores: the partial
\* selection sort of selectTopKCandidates returns the best, each once.
THEOREM TopKIsTheBestAlways == RoundsSpec => []TopKIsTheBest
<1>1. RoundsIInv => TopKIsTheBest
  <2> SUFFICES ASSUME RoundsIInv PROVE TopKIsTheBest
    OBVIOUS
  <2> DEFINE K == TopCount(candidates)
             top == TopKCandidates(candidates, score)
             R == Range(candidates)
  <2>1. /\ candidates \in Seq(Nat) /\ IsInjective(candidates)
        /\ \A c \in R : score[c] \in Nat
    BY DEF RoundsIInv
  <2>2. IsTopK(top, candidates, score, K) /\ K \in Nat
    BY <2>1, TopKCandidatesBest
  <2>3. /\ top \in [1 .. K -> R] /\ IsInjective(top)
        /\ \A a \in 1 .. K, c \in R \ Range(top) : score[top[a]] >= score[c]
    BY <2>2 DEF IsTopK
  <2>4. K = Least({TOP_K, Len(candidates)})
    <3>1. Len(candidates) \in Nat
      BY <2>1
    <3>2. {TOP_K, Len(candidates)} \in SUBSET Nat
      BY <3>1, SelectionAssumption
    <3> DEFINE T == {TOP_K, Len(candidates)}
    <3> HIDE DEF T
    <3>3. Least(T) \in T /\ \A y \in T : Least(T) <= y
      BY <3>2, LeastIsLeast DEF T
    <3>4. \/ Least(T) = TOP_K /\ TOP_K <= Len(candidates)
          \/ Least(T) = Len(candidates) /\ Len(candidates) <= TOP_K
      BY <3>3 DEF T
    <3> QED
      BY <3>1, <3>4, SelectionAssumption DEF T, TopCount
  <2> HIDE DEF K, top
  <2>5. Len(top) = K /\ DOMAIN top = 1 .. K
    BY <2>2, <2>3
  <2>6. Range(top) \subseteq R
    BY <2>3 DEF Range
  <2>7. \A a \in Range(top), b \in R \ Range(top) : score[a] >= score[b]
    BY <2>3, <2>5 DEF Range
  <2> QED
    BY <2>3, <2>4, <2>5, <2>6, <2>7 DEF TopKIsTheBest, top
<1> QED
  BY <1>1, RoundsInvariant, PTL

\* WheelIsFair for every pool, every scores, all weights and any number of
\* seats: in each round of selectNewCommittee the draws follow the reputation.
THEOREM WheelIsFairAlways == RoundsSpec => []WheelIsFair
<1>1. RoundsIInv => WheelIsFair
  <2> SUFFICES ASSUME RoundsIInv PROVE WheelIsFair
    OBVIOUS
  <2> DEFINE K == TopCount(candidates)
             top == TopKCandidates(candidates, score)
             s == [i \in DOMAIN top |-> score[top[i]]]
             w == wheel.weights
  <2>1. /\ candidates \in Seq(Nat) /\ IsInjective(candidates)
        /\ Len(candidates) >= MAX_COMMITTEE_SIZE
        /\ \A c \in Range(candidates) : score[c] \in Nat
        /\ WheelOK(wheel, K) /\ w = TopWeights(candidates, score)
    BY DEF RoundsIInv
  <2>2. K \in Nat \ {0} /\ K >= MAX_COMMITTEE_SIZE
    BY <2>1, FirstWheel
  <2>3. s \in [1 .. K -> Nat] /\ w = CalculateWeights(s)
    <3>1. IsTopK(top, candidates, score, K)
      BY <2>1, TopKCandidatesBest
    <3> QED
      BY <2>1, <3>1 DEF IsTopK, TopWeights
  <2>4. DOMAIN w = 1 .. K
    BY <2>1 DEF WheelOK
  <2>5. WeightsFollowScores
    <3> HIDE DEF s, K, w
    <3>1. /\ w \in [1 .. K -> BASE_WEIGHT .. MAX_WEIGHT]
          /\ \A i, j \in 1 .. K :
                /\ s[i] >= s[j] => w[i] >= w[j]
                /\ (s[i] > s[j] /\ \A k \in 1 .. K : s[i] >= s[k]) => w[i] = MAX_WEIGHT
      BY <2>2, <2>3, CalculatedWeights
    <3>2. \A i, j \in DOMAIN w :
             /\ w[i] \in BASE_WEIGHT .. MAX_WEIGHT
             /\ s[i] >= s[j] => w[i] >= w[j]
             /\ (s[i] > s[j] /\ \A k \in DOMAIN w : s[i] >= s[k]) => w[i] = MAX_WEIGHT
      BY <2>4, <3>1
    <3> QED
      BY <3>2 DEF WeightsFollowScores, s, w
  <2>6. RouletteIsExact
    <3> SUFFICES ASSUME Len(wheel.picked) < MAX_COMMITTEE_SIZE, NEW i \in DOMAIN w
                 PROVE  Cardinality({v \in 0 .. wheel.totalWeight - 1 :
                                        SelectedIdx(wheel, v) = i})
                          = IF i \in Unpicked(wheel) THEN w[i] ELSE 0
      BY DEF RouletteIsExact
    <3>1. Len(wheel.picked) \in Nat
      BY <2>1 DEF WheelOK
    <3>2. Len(wheel.picked) < K /\ i \in 1 .. K
      BY <2>2, <2>4, <3>1, SelectionAssumption
    <3> HIDE DEF K
    <3> QED
      BY <2>1, <2>2, <3>2, DrawsOf
  <2> QED
    BY <2>5, <2>6 DEF WheelIsFair
<1> QED
  BY <1>1, RoundsInvariant, PTL

-----------------------------------------------------------------------------
(* Reputations.                                                            *)

\* The stored history value never exceeds the bound of the reputations; this
\* makes the bound inductive.
ReputationInv ==
    /\ ReputationTypeOK
    /\ \A u \in User : memberReputations[u].previousReputation <= 1981

\* The new share of a reputation is at most 60 + 40.
LEMMA DeltaBound ==
    ASSUME NEW r \in MemberReputation
    PROVE  CalculateDeltaReputation(r) \in 0 .. 100
<1>1. r.consistency \in 0 .. 100 /\ r.participationRate \in 0 .. 100
  BY DEF MemberReputation
<1> DEFINE c == r.consistency
           p == r.participationRate
<1> HIDE DEF c, p
<1>2. c \in 0 .. 100 /\ p \in 0 .. 100
  BY <1>1 DEF c, p
<1>3. (c * 60) \div 100 + (p * 40) \div 100 \in 0 .. 100
  BY <1>2
<1> QED
  BY <1>3 DEF CalculateDeltaReputation, c, p

\* One application of the recurrence, from any history value v.
LEMMA DecayBound ==
    ASSUME NEW v \in Nat
    PROVE  /\ (v * 95) \div 100 \in Nat
           /\ 100 * ((v * 95) \div 100) <= 95 * v
           /\ 100 * ((v * 95) \div 100) >= 95 * v - 99
OBVIOUS

\* What calculateReputation returns, in terms of the history value.
LEMMA ReputationOf ==
    ASSUME NEW r \in MemberReputation
    PROVE  /\ CalculateReputation(r) \in Nat
           /\ 100 * CalculateReputation(r) <= 95 * r.previousReputation + 10000
           /\ 100 * CalculateReputation(r) >= 95 * r.previousReputation - 99
<1> DEFINE v == r.previousReputation
           d == CalculateDeltaReputation(r)
<1>1. v \in Nat
  BY DEF MemberReputation
<1>2. d \in 0 .. 100
  BY DeltaBound
<1>3. CalculateReputation(r) = IF v = 0 THEN d ELSE (v * 95) \div 100 + d
  BY DEF CalculateReputation
<1> HIDE DEF v, d
<1>4. CASE v = 0
  BY <1>2, <1>3, <1>4 DEF v
<1>5. CASE v # 0
  <2> DEFINE q == (v * 95) \div 100
  <2>1. q \in Nat /\ 100 * q <= 95 * v /\ 100 * q >= 95 * v - 99
    BY <1>1, DecayBound
  <2> HIDE DEF q
  <2>2. CalculateReputation(r) = q + d
    BY <1>3, <1>5 DEF q
  <2>3. CalculateReputation(r) \in Nat /\ 100 * CalculateReputation(r) <= 95 * v + 10000
        /\ 100 * CalculateReputation(r) >= 95 * v - 99
    BY <1>1, <1>2, <2>1, <2>2
  <2> QED
    BY <2>3 DEF v
<1> QED
  BY <1>4, <1>5

\* updateReputation stores valid scores and, as history, a bounded value.
LEMMA UpdateKeepsInv ==
    ASSUME ReputationInv, NEW u \in User, NEW p \in Score, NEW c \in Score,
           UpdateReputation(u, p, c)
    PROVE  ReputationInv'
<1>1. memberReputations[u] \in MemberReputation
      /\ memberReputations[u].previousReputation <= 1981
  BY DEF ReputationInv, ReputationTypeOK
<1>2. Reputation(u) \in Nat /\ Reputation(u) <= 1981
  <2> DEFINE r == memberReputations[u]
             x == CalculateReputation(r)
             v == r.previousReputation
  <2>1. x \in Nat /\ 100 * x <= 95 * v + 10000
    BY <1>1, ReputationOf
  <2>2. v \in Nat /\ v <= 1981
    BY <1>1 DEF MemberReputation
  <2> HIDE DEF x, v
  <2>3. x <= 1981
    BY <2>1, <2>2
  <2> QED
    BY <2>1, <2>3 DEF Reputation, x
<1>3. p \in 0 .. 100 /\ c \in 0 .. 100
  BY ReputationAssumption DEF UpdateReputation, ValidScores
<1> DEFINE new == [participationRate |-> p, consistency |-> c,
                   previousReputation |-> Reputation(u)]
<1>4. new \in MemberReputation /\ new.previousReputation <= 1981
  BY <1>2, <1>3 DEF MemberReputation
<1>5. memberReputations' = [memberReputations EXCEPT ![u] = new]
  BY DEF UpdateReputation
<1> HIDE DEF new
<1> QED
  BY <1>4, <1>5 DEF ReputationInv, ReputationTypeOK

\* The inductive invariant holds in every reachable state.
THEOREM ReputationInvariant == ReputationSpec => []ReputationInv
<1>1. ReputationManagerInit => ReputationInv
  BY DEF ReputationManagerInit, ReputationInit, ReputationInv, ReputationTypeOK, MemberReputation
<1>2. ReputationInv /\ [ReputationNext]_ReputationVars => ReputationInv'
  <2> SUFFICES ASSUME ReputationInv, [ReputationNext]_ReputationVars PROVE ReputationInv'
    OBVIOUS
  <2>1. CASE ReputationNext
    BY <2>1, UpdateKeepsInv DEF ReputationNext
  <2>2. CASE UNCHANGED ReputationVars
    BY <2>2 DEF ReputationVars, ReputationInv, ReputationTypeOK
  <2> QED
    BY <2>1, <2>2
<1> QED
  BY <1>1, <1>2, PTL DEF ReputationSpec

\* The bound follows from the bound on the history value.
LEMMA ReputationBound ==
    ASSUME ReputationInv
    PROVE  ReputationBounded
<1> SUFFICES ASSUME NEW u \in User PROVE Reputation(u) <= 1981
  BY DEF ReputationBounded
<1> DEFINE x == CalculateReputation(memberReputations[u])
           v == memberReputations[u].previousReputation
<1>1. memberReputations[u] \in MemberReputation /\ v <= 1981 /\ v \in Nat
  BY DEF ReputationInv, ReputationTypeOK, MemberReputation
<1>2. x \in Nat /\ 100 * x <= 95 * v + 10000
  BY <1>1, ReputationOf
<1> HIDE DEF x, v
<1>3. x <= 1981
  BY <1>1, <1>2
<1> QED
  BY <1>3 DEF Reputation, x

\* One update moves a reputation down by the decay at most, up by 100 at most.
LEMMA ReputationStep ==
    ASSUME ReputationInv, ReputationInv', NEW u \in User,
           \/ \E w \in User, p, c \in Score : UpdateReputation(w, p, c)
           \/ UNCHANGED memberReputations
    PROVE  /\ 100 * CalculateReputation(memberReputations'[u]) >= 95 * Reputation(u) - 99
           /\ CalculateReputation(memberReputations'[u]) <= Reputation(u) + 100
<1> DEFINE x == CalculateReputation(memberReputations[u])
           y == CalculateReputation(memberReputations'[u])
           v == memberReputations'[u].previousReputation
<1>1. memberReputations[u] \in MemberReputation /\ memberReputations'[u] \in MemberReputation
  BY DEF ReputationInv, ReputationTypeOK
<1>2. x \in Nat
  BY <1>1, ReputationOf
<1>3. y \in Nat /\ 100 * y <= 95 * v + 10000 /\ 100 * y >= 95 * v - 99
  BY <1>1, ReputationOf
<1>4. v = x \/ y = x
  BY DEF UpdateReputation, Reputation, ReputationInv, ReputationTypeOK
<1> HIDE DEF x, y, v
<1>5. 100 * y >= 95 * x - 99 /\ y <= x + 100
  BY <1>2, <1>3, <1>4
<1> QED
  BY <1>5 DEF Reputation, x, y

\* However often and with whatever scores accounts update their records,
\* calculateReputation never exceeds 1981.
THEOREM ReputationBoundedAlways == ReputationSpec => []ReputationBounded
<1>1. ReputationInv => ReputationBounded
  BY ReputationBound
<1> QED
  BY <1>1, ReputationInvariant, PTL

\* No step moves a reputation down by more than the decay or up by more than
\* 100, whatever the scores and whoever updates.
THEOREM ReputationMovesSlowlyAlways == ReputationSpec => ReputationMovesSlowly
<1> DEFINE Slow == \A u \in User :
                      LET before == Reputation(u)
                          after == CalculateReputation(memberReputations'[u])
                      IN  /\ 100 * after >= 95 * before - 99
                          /\ after <= before + 100
<1>1. ReputationInv /\ ReputationInv' /\ [ReputationNext]_ReputationVars
        => [Slow]_ReputationVars
  BY ReputationStep DEF ReputationNext
<1> QED
  BY <1>1, ReputationInvariant, PTL DEF ReputationSpec, ReputationMovesSlowly

-----------------------------------------------------------------------------
(* The reward pool, while rotations close its epochs.                      *)

\* After deployment.
LEMMA PoolInitInv == CommitteeRotationInit => PoolIInv
<1> SUFFICES ASSUME CommitteeRotationInit PROVE PoolIInv
  OBVIOUS
<1>1. AccountsTypeOK
  BY AccountsAssumption DEF CommitteeRotationInit, RewardPoolInit, AccountsInit, AccountsTypeOK
<1>2. PoolBooks(pool, claimed)
  BY NewPoolBooks DEF CommitteeRotationInit, RewardPoolInit, PoolInit
<1>3. PoolBacked
  BY PoolAccount
  DEF PoolBacked, CommitteeRotationInit, RewardPoolInit, PoolInit, AccountsInit, NewPool
<1> QED
  BY <1>1, <1>2, <1>3 DEF PoolIInv

\* A rotation ends the epoch and, when it can, distributes it.
LEMMA RotateInv ==
    ASSUME PoolIInv, RotateCommittee, UNCHANGED <<claimed, chainVars>>
    PROVE  PoolIInv'
<1>0. PoolBooks(pool, claimed)
  BY DEF PoolIInv
<1>1. CASE UNCHANGED pool
  BY <1>0, <1>1, StorageOnly
<1>2. CASE CloseEpoch(Range(currentCommittee))
  <2> DEFINE ended == EndEpoch(pool)
             previousEpoch == ended.currentEpoch - 1
  <2>1. /\ PoolBooks(ended, claimed)
        /\ ended.currentEpoch = pool.currentEpoch + 1
        /\ ended.totalPoolBalance = pool.totalPoolBalance
    BY <1>0, <1>2, EndEpochBooks DEF CloseEpoch, CanEndEpoch
  <2>2. previousEpoch \in Epoch
    <3>1. pool.currentEpoch \in Epoch
      BY <1>0 DEF PoolBooks, PoolState
    <3>2. pool.currentEpoch \in Nat
      BY <3>1, EpochFacts
    <3> QED
      BY <2>1, <3>1, <3>2
  <2>3. pool' = IF CanDistribute(ended, RotationAddr, previousEpoch)
                THEN DistributeRewardsToMembers(ended, previousEpoch, Range(currentCommittee))
                ELSE ended
    BY <1>2 DEF CloseEpoch
  <2> HIDE DEF ended, previousEpoch
  <2>4. PoolBooks(pool', claimed) /\ pool'.totalPoolBalance = pool.totalPoolBalance
    <3>1. CASE CanDistribute(ended, RotationAddr, previousEpoch)
      <4>1. pool' = DistributeRewardsToMembers(ended, previousEpoch, Range(currentCommittee))
        BY <2>3, <3>1
      <4> QED
        BY <2>1, <2>2, <3>1, <4>1, DistributeBooks
    <3>2. CASE ~CanDistribute(ended, RotationAddr, previousEpoch)
      BY <2>1, <2>3, <3>2
    <3> QED
      BY <3>1, <3>2
  <2> QED
    BY <2>4, StorageOnly
<1> QED
  BY <1>1, <1>2 DEF RotateCommittee

\* Every step of the chain keeps the invariant.
LEMMA PoolStepInv ==
    ASSUME PoolIInv, [PooledRotationNext]_CommitteeRotationVars
    PROVE  PoolIInv'
<1>0. PoolBooks(pool, claimed)
  BY DEF PoolIInv
<1>1. ASSUME UNCHANGED <<poolVars, balance>>, now' \in 0 .. MaxTime
      PROVE  PoolIInv'
  BY <1>1 DEF PoolIInv, PoolBacked, AccountsTypeOK, poolVars
<1>2. now \in 0 .. MaxTime /\ balance \in [Address -> Nat]
  BY DEF PoolIInv, AccountsTypeOK
<1>3. CASE UNCHANGED <<poolVars, chainVars>>
  BY <1>1, <1>2, <1>3 DEF chainVars
<1>4. CASE RotateCommittee /\ UNCHANGED <<claimed, chainVars>>
  BY <1>4, RotateInv
<1>5. CASE Mine /\ UNCHANGED poolVars
  BY <1>1, <1>2, <1>5, AccountsAssumption DEF Mine
<1>6. CASE SetCommitteeRotation(RotationAddr)
  <2>1. /\ PoolBooks([pool EXCEPT !.committeeRotation = RotationAddr], claimed)
        /\ [pool EXCEPT !.committeeRotation = RotationAddr].totalPoolBalance
              = pool.totalPoolBalance
    BY <1>0, PoolAccount, ReferenceBooks
  <2>2. pool' = [pool EXCEPT !.committeeRotation = RotationAddr]
        /\ UNCHANGED <<claimed, chainVars>>
    BY <1>6 DEF SetCommitteeRotation
  <2> QED
    BY <2>1, <2>2, StorageOnly
<1>7. CASE \E v \in 1 .. Funds : ReceiveTx(Owner, v)
  <2>1. PICK v \in 1 .. Funds : ReceiveTx(Owner, v)
    BY <1>7
  <2>2. v \in Nat /\ Owner \in Address /\ RewardPoolAddr \in Address /\ Owner # RewardPoolAddr
    BY AccountsAssumption, PoolAccount
  <2>3. /\ balance[Owner] >= v
        /\ pool' = Receive(pool, v)
        /\ balance' = Moved(balance, Owner, RewardPoolAddr, v)
        /\ UNCHANGED <<claimed, now>>
    BY <2>1 DEF ReceiveTx
  <2>4. PoolBooks(pool', claimed) /\ pool'.totalPoolBalance = pool.totalPoolBalance + v
    BY <1>0, <2>2, <2>3, ReceiveBooks
  <2>5. /\ balance' \in [Address -> Nat]
        /\ balance'[RewardPoolAddr] = balance[RewardPoolAddr] + v
    BY <1>2, <2>2, <2>3, MovedBalance
  <2> QED
    BY <1>2, <2>3, <2>4, <2>5 DEF PoolIInv, PoolBacked, AccountsTypeOK
<1>8. CASE PoolUserNext
  BY <1>8, PoolUserInv
<1>9. CASE PoolEscrowNext
  <2>1. CASE SetSignatureEscrow(OtherEscrowAddr)
    <3>1. /\ PoolBooks([pool EXCEPT !.signatureEscrow = OtherEscrowAddr], claimed)
          /\ [pool EXCEPT !.signatureEscrow = OtherEscrowAddr].totalPoolBalance
                = pool.totalPoolBalance
      BY <1>0, PoolAccount, ReferenceBooks
    <3>2. pool' = [pool EXCEPT !.signatureEscrow = OtherEscrowAddr]
          /\ UNCHANGED <<claimed, chainVars>>
      BY <2>1 DEF SetSignatureEscrow
    <3> QED
      BY <3>1, <3>2, StorageOnly
  <2>2. CASE \E m \in User : RecordTransactionTx(OtherEscrowAddr, m)
    <3>1. PICK m \in User : RecordTransactionTx(OtherEscrowAddr, m)
      BY <2>2
    <3> QED
      BY <1>0, <3>1, RecordTransactionBooks, StorageOnly DEF RecordTransactionTx
  <2> QED
    BY <1>9, <2>1, <2>2 DEF PoolEscrowNext
<1> QED
  BY <1>3, <1>4, <1>5, <1>6, <1>7, <1>8, <1>9
  DEF PooledRotationNext, CommitteeRotationNext, RotationNext, RotationEnvironment,
      CommitteeRotationVars, RewardPoolVars

\* The books of the reward pool always balance: no unsigned subtraction wraps,
\* the recorded balance is the ether held, no epoch is overspent, and every
\* open claim is covered, in every interleaving of rotations, closings by hand,
\* distributions and claims.
THEOREM PoolCorrect == PooledRotationSpec => []PoolInv
<1>1. CommitteeRotationInit => PoolIInv
  BY PoolInitInv
<1>2. PoolIInv /\ [PooledRotationNext]_CommitteeRotationVars => PoolIInv'
  BY PoolStepInv
<1>3. PoolIInv => PoolInv
  BY PoolIInvImplies
<1> QED
  BY <1>1, <1>2, <1>3, PTL DEF PooledRotationSpec

\* Only claimReward pays, and a member that was paid has no reward left.
LEMMA PaidOnceStep ==
    ASSUME PoolIInv, [PooledRotationNext]_CommitteeRotationVars,
           NEW e \in Epoch, NEW m \in User, claimed[e][m] > 0
    PROVE  claimed'[e][m] = claimed[e][m]
<1>1. CASE UNCHANGED claimed
  BY <1>1
<1>2. CASE \E n \in Epoch, u \in User : ClaimRewardTx(n, u)
  <2>1. PICK n \in Epoch, u \in User : ClaimRewardTx(n, u)
    BY <1>2
  <2>2. /\ pool.epochs[n].memberRewards[u] > 0
        /\ claimed' = [claimed EXCEPT ![n][u] = @ + pool.epochs[n].memberRewards[u]]
    BY <2>1 DEF ClaimRewardTx, CanClaim
  <2>3. pool.epochs[e].memberRewards[m] = 0
    BY DEF PoolIInv, PoolBooks, EpochBooks
  <2>4. e # n \/ m # u
    BY <2>2, <2>3
  <2>5. claimed \in [Epoch -> [User -> Nat]]
    BY DEF PoolIInv, PoolBooks
  <2> QED
    BY <2>2, <2>4, <2>5
<1> QED
  BY <1>1, <1>2
  DEF PooledRotationNext, CommitteeRotationNext, RotationNext, RotationEnvironment,
      PoolUserNext, PoolEscrowNext, SetCommitteeRotation, SetSignatureEscrow, ReceiveTx,
      RecordTransactionTx, EndEpochTx, DistributeTx, CommitteeRotationVars,
      RewardPoolVars, poolVars

\* Nobody is ever paid twice for an epoch: once something was paid to a member
\* for an epoch, no later distribution or claim pays it again.
THEOREM MembersPaidOnce == PooledRotationSpec => PaidOncePerEpoch
<1>1. CommitteeRotationInit => PoolIInv
  BY PoolInitInv
<1>2. PoolIInv /\ [PooledRotationNext]_CommitteeRotationVars => PoolIInv'
  BY PoolStepInv
<1>3. PoolIInv /\ [PooledRotationNext]_CommitteeRotationVars
         => [\A e \in Epoch, m \in User :
                claimed[e][m] > 0 => claimed'[e][m] = claimed[e][m]]_RewardPoolVars
  BY PaidOnceStep
<1> QED
  BY <1>1, <1>2, <1>3, PTL DEF PooledRotationSpec, PaidOncePerEpoch

\* A rotation with a pool closes the current epoch and distributes it unless
\* it has no ether, no transaction, or was distributed before.
LEMMA RotationSettlesStep ==
    ASSUME PoolIInv, [PooledRotationNext]_CommitteeRotationVars,
           rotationCount' # rotationCount, rotationRewardPool # NoAddress
    PROVE  LET e == pool.currentEpoch
           IN  /\ pool'.currentEpoch = e + 1
               /\ \/ pool'.epochs[e].distributed
                  \/ pool.epochs[e].totalReward = 0
                  \/ pool.epochs[e].totalTransactions = 0
<1> DEFINE e == pool.currentEpoch
           ended == EndEpoch(pool)
<1>0. PoolBooks(pool, claimed)
  BY DEF PoolIInv
<1>1. RotateCommittee
  BY DEF PooledRotationNext, CommitteeRotationNext, RotationNext, RotationEnvironment,
         RotationAdminNext, SetRotationRewardPool, SetVRFGenerator, SubmitVRFRandomWithProof,
         VerifyVRFProof, AddCandidate, RemoveCandidate, CommitteeRotationVars, rotationVars
<1>2. CloseEpoch(Range(currentCommittee))
  BY <1>1 DEF RotateCommittee
<1>3. /\ PoolBooks(ended, claimed)
      /\ ended.currentEpoch = e + 1
      /\ ended.epochs = pool.epochs
      /\ ended.committeeRotation = pool.committeeRotation
      /\ MayCloseEpoch(pool, RotationAddr)
  BY <1>0, <1>2, EndEpochBooks DEF CloseEpoch, CanEndEpoch
<1>4. /\ e \in Epoch /\ e \in Nat
      /\ pool.epochs[e].totalReward \in Nat /\ pool.epochs[e].totalTransactions \in Nat
  <2>1. e \in Epoch
    BY <1>0 DEF PoolBooks, PoolState
  <2> QED
    BY <1>0, <2>1, EpochFacts, EpochSums DEF EpochReward
<1>5. (e + 1) - 1 = e
  BY <1>4
<1>6. pool' = IF CanDistribute(ended, RotationAddr, e)
              THEN DistributeRewardsToMembers(ended, e, Range(currentCommittee))
              ELSE ended
  BY <1>2, <1>3, <1>5 DEF CloseEpoch
<1> HIDE DEF ended
<1>7. CASE CanDistribute(ended, RotationAddr, e)
  <2>1. /\ pool'.currentEpoch = ended.currentEpoch
        /\ pool'.epochs[e].distributed
    BY <1>3, <1>4, <1>6, <1>7, DistributeBooks
  <2> QED
    BY <1>3, <2>1
<1>8. CASE ~CanDistribute(ended, RotationAddr, e)
  <2>1. pool' = ended
    BY <1>6, <1>8
  <2>2. MayCloseEpoch(ended, RotationAddr) /\ e <= ended.currentEpoch
    BY <1>3, <1>4 DEF MayCloseEpoch
  <2> QED
    BY <1>3, <1>4, <1>8, <2>1, <2>2 DEF CanDistribute
<1> QED
  BY <1>7, <1>8

\* No rotation loses the epoch it closes.
THEOREM RotationsSettleEpochs == PooledRotationSpec => RotationSettlesEpoch
<1>1. CommitteeRotationInit => PoolIInv
  BY PoolInitInv
<1>2. PoolIInv /\ [PooledRotationNext]_CommitteeRotationVars => PoolIInv'
  BY PoolStepInv
<1>3. PoolIInv /\ [PooledRotationNext]_CommitteeRotationVars
         => [(rotationCount' # rotationCount /\ rotationRewardPool # NoAddress) =>
                LET e == pool.currentEpoch
                IN  /\ pool'.currentEpoch = e + 1
                    /\ \/ pool'.epochs[e].distributed
                       \/ pool.epochs[e].totalReward = 0
                       \/ pool.epochs[e].totalTransactions = 0]_CommitteeRotationVars
  BY RotationSettlesStep
<1> QED
  BY <1>1, <1>2, <1>3, PTL DEF PooledRotationSpec, RotationSettlesEpoch

-----------------------------------------------------------------------------
(* The rotation.                                                           *)

\* What keeps the history true: the output that the next rotation would use is
\* the one recorded for the current round.
CurrentOutputIsRecorded == VRFReady => rotationRandom[rotationCount] = vrf.random

\* An output that the next rotation would use was submitted.
SubmittedBeforeUse == VRFReady => submissions > 0

\* The inductive invariant of the rotation.
RotationIInv ==
    /\ now \in 0 .. MaxTime
    /\ ReputationInv
    /\ RotationInv
    /\ lastRotationTime <= now
    /\ EachSubmissionDrawsOnce
    /\ HistoryIsTrue
    /\ CurrentOutputIsRecorded
    /\ SubmittedBeforeUse
    /\ rotationCount = 0 => currentCommittee = InitialCommittee

\* After deployment.
LEMMA RotationInitInv == CommitteeRotationInit => RotationIInv
<1> SUFFICES ASSUME CommitteeRotationInit PROVE RotationIInv
  OBVIOUS
<1> USE DEF CommitteeRotationInit, RotationInit
<1>1. now = 0 /\ now \in 0 .. MaxTime
  BY AccountsAssumption DEF RewardPoolInit, AccountsInit
<1>2. ReputationInv
  BY DEF ReputationInit, ReputationInv, ReputationTypeOK, MemberReputation
<1>3. /\ currentCommittee \in [1 .. MAX_COMMITTEE_SIZE -> User]
      /\ CommitteeMembersAreDistinct
  BY RotationAssumption DEF CommitteeMembersAreDistinct
<1>4. candidatePool \in Seq(User) /\ CandidatesAreDistinct
  BY DEF CandidatesAreDistinct, IsInjective
<1>5. rotationCount \in Round /\ \A r \in Round : r \in Nat
  BY RotationAssumption DEF Round
<1>6. RotationTypeOK
  BY <1>1, <1>3, <1>4, <1>5, RotationAssumption DEF RotationTypeOK, VRFState
<1>7. RotationsAreSpaced
  BY <1>1, RotationAssumption DEF RotationsAreSpaced
<1>8. HistoryIsTrue
  BY <1>5 DEF HistoryIsTrue
<1> QED
  BY <1>1, <1>2, <1>3, <1>4, <1>6, <1>7, <1>8
  DEF RotationIInv, RotationInv, EachSubmissionDrawsOnce, CurrentOutputIsRecorded, SubmittedBeforeUse, VRFReady

\* A removal moves the last candidate into the gap: nobody is doubled.
LEMMA WithoutIsDistinct ==
    ASSUME NEW C, NEW cs \in Seq(C), IsInjective(cs), NEW x \in Range(cs)
    PROVE  Without(cs, x) \in Seq(C) /\ IsInjective(Without(cs, x))
<1> DEFINE N == Len(cs)
           d == Without(cs, x)
<1>1. /\ N \in Nat /\ cs \in [1 .. N -> C] /\ DOMAIN cs = 1 .. N
      /\ \A a, b \in 1 .. N : cs[a] = cs[b] => a = b
  <2>1. N \in Nat /\ cs \in [1 .. N -> C] /\ DOMAIN cs = 1 .. N
    OBVIOUS
  <2> QED
    BY <2>1 DEF IsInjective
<1>2. PICK k \in 1 .. N : cs[k] = x
  BY <1>1 DEF Range
<1>3. d = [i \in 1 .. N - 1 |-> IF cs[i] = x THEN cs[N] ELSE cs[i]]
  BY DEF Without
<1> HIDE DEF N, d
<1>4. N - 1 \in Nat /\ N \in 1 .. N /\ \A i \in 1 .. N - 1 : i \in 1 .. N /\ i # N
  BY <1>1, <1>2
<1>5. d \in [1 .. N - 1 -> C]
  BY <1>1, <1>3, <1>4
<1>6. d \in Seq(C)
  BY <1>4, <1>5
<1>7. \A a, b \in 1 .. N - 1 : d[a] = d[b] => a = b
  <2> TAKE a, b \in 1 .. N - 1
  <2>1. /\ d[a] = IF cs[a] = x THEN cs[N] ELSE cs[a]
        /\ d[b] = IF cs[b] = x THEN cs[N] ELSE cs[b]
    BY <1>3
  <2> QED
    BY <1>1, <1>2, <1>4, <2>1
<1>8. IsInjective(d)
  BY <1>5, <1>7 DEF IsInjective
<1> QED
  BY <1>6, <1>8 DEF d

\* An addition is checked against the whole pool.
LEMMA AppendIsDistinct ==
    ASSUME NEW C, NEW cs \in Seq(C), IsInjective(cs), NEW x \in C, x \notin Range(cs)
    PROVE  Append(cs, x) \in Seq(C) /\ IsInjective(Append(cs, x))
<1> DEFINE N == Len(cs)
           d == Append(cs, x)
<1>1. /\ N \in Nat /\ DOMAIN cs = 1 .. N
      /\ \A a, b \in 1 .. N : cs[a] = cs[b] => a = b
  <2>1. N \in Nat /\ cs \in [1 .. N -> C] /\ DOMAIN cs = 1 .. N
    OBVIOUS
  <2> QED
    BY <2>1 DEF IsInjective
<1>2. /\ d \in Seq(C) /\ DOMAIN d = 1 .. N + 1 /\ d[N + 1] = x
      /\ \A i \in 1 .. N : d[i] = cs[i]
  OBVIOUS
<1>3. \A i \in 1 .. N : cs[i] # x
  BY <1>1 DEF Range
<1> HIDE DEF N, d
<1>4. \A i \in 1 .. N + 1 : i \in 1 .. N \/ i = N + 1
  BY <1>1
<1>5. \A a, b \in 1 .. N + 1 : d[a] = d[b] => a = b
  BY <1>1, <1>2, <1>3, <1>4
<1>6. IsInjective(d)
  BY <1>2, <1>5 DEF IsInjective
<1> QED
  BY <1>2, <1>6 DEF d

\* Changes of the references and of the candidates.
LEMMA PoolOfCandidatesInv ==
    ASSUME RotationIInv, UNCHANGED <<now, memberReputations>>,
           \/ \E s \in User : SetRotationRewardPool(s)
           \/ \E s \in User, a \in User \cup {NoAddress} : SetVRFGenerator(s, a)
           \/ \E c \in User : AddCandidate(c)
           \/ \E c \in User : RemoveCandidate(c)
    PROVE  RotationIInv'
<1>1. /\ candidatePool \in Seq(User) /\ IsInjective(candidatePool)
      /\ RotationTypeOK
  BY DEF RotationIInv, RotationInv, RotationTypeOK, CandidatesAreDistinct
<1>2. /\ candidatePool' \in Seq(User) /\ IsInjective(candidatePool')
      /\ vrfGenerator' \in User \cup {NoAddress}
      /\ rotationRewardPool' \in {NoAddress, RewardPoolAddr}
  <2>1. CASE \E s \in User : SetRotationRewardPool(s)
    BY <1>1, <2>1 DEF SetRotationRewardPool, RotationTypeOK
  <2>2. CASE \E s \in User, a \in User \cup {NoAddress} : SetVRFGenerator(s, a)
    BY <1>1, <2>2 DEF SetVRFGenerator, RotationTypeOK
  <2>3. CASE \E c \in User : AddCandidate(c)
    BY <1>1, <2>3, AppendIsDistinct DEF AddCandidate, RotationTypeOK
  <2>4. CASE \E c \in User : RemoveCandidate(c)
    BY <1>1, <2>4, WithoutIsDistinct DEF RemoveCandidate, RotationTypeOK
  <2> QED
    BY <2>1, <2>2, <2>3, <2>4
<1>3. UNCHANGED <<currentCommittee, lastRotationTime, rotationCount, vrf, rotationRandom,
                  randomUsed, submissions, drawnWith>>
  BY DEF SetRotationRewardPool, SetVRFGenerator, AddCandidate, RemoveCandidate
<1>4. RotationTypeOK'
  BY <1>1, <1>2, <1>3 DEF RotationTypeOK
<1> QED
  BY <1>2, <1>3, <1>4
  DEF RotationIInv, ReputationInv, ReputationTypeOK, RotationInv, CandidatesAreDistinct,
      CommitteeMembersAreDistinct, RotationsAreSpaced, EachSubmissionDrawsOnce, HistoryIsTrue,
      CurrentOutputIsRecorded, SubmittedBeforeUse, VRFReady

\* A submission replaces the current output and records it for this round only.
LEMMA SubmitInv ==
    ASSUME RotationIInv, UNCHANGED <<now, memberReputations>>,
           NEW s \in User, NEW r \in Random \cup {NoRandom}, NEW ok \in BOOLEAN,
           SubmitVRFRandomWithProof(s, r, ok)
    PROVE  RotationIInv'
<1>1. RotationTypeOK /\ HistoryIsTrue /\ EachSubmissionDrawsOnce
  BY DEF RotationIInv, RotationInv
<1>2. /\ vrf' = [random |-> r, provable |-> ok, verified |-> FALSE, used |-> FALSE]
      /\ rotationRandom' = [rotationRandom EXCEPT ![rotationCount] = r]
      /\ submissions' = submissions + 1 /\ submissions < MaxSubmissions
      /\ UNCHANGED <<currentCommittee, lastRotationTime, rotationCount, candidatePool,
                     vrfGenerator, rotationRewardPool, randomUsed, drawnWith>>
  BY DEF SubmitVRFRandomWithProof, RandomHistory
<1>3. /\ rotationCount \in Round /\ rotationCount \in Nat
      /\ submissions \in Nat /\ submissions + 1 \in 0 .. MaxSubmissions
      /\ rotationRandom \in [Round -> Random \cup {NoRandom}]
      /\ \A k \in Round : k \in Nat
  BY <1>1, <1>2, RotationAssumption DEF RotationTypeOK, Round
<1>4. RotationTypeOK'
  <2>1. vrf' \in VRFState
    BY <1>2 DEF VRFState
  <2> QED
    BY <1>1, <1>2, <1>3, <2>1 DEF RotationTypeOK
<1>5. HistoryIsTrue'
  <2>1. \A k \in Round : k < rotationCount => rotationRandom'[k] = rotationRandom[k]
    BY <1>2, <1>3
  <2> QED
    BY <1>1, <1>2, <2>1 DEF HistoryIsTrue
<1>6. EachSubmissionDrawsOnce'
  <2> DEFINE Draw == [random : Random, submission : 1 .. MaxSubmissions]
  <2>1. \A i \in DOMAIN drawnWith : drawnWith[i].submission \in Nat
    <3>1. drawnWith \in Seq(Draw)
      BY <1>1 DEF RotationTypeOK
    <3> HIDE DEF Draw
    <3>2. \A i \in 1 .. Len(drawnWith) : drawnWith[i] \in Draw
      BY <3>1
    <3>3. DOMAIN drawnWith = 1 .. Len(drawnWith)
      BY <3>1
    <3> QED
      BY <3>2, <3>3 DEF Draw
  <2> QED
    BY <1>1, <1>2, <1>3, <2>1 DEF EachSubmissionDrawsOnce
<1>7. CurrentOutputIsRecorded' /\ SubmittedBeforeUse'
  BY <1>2, <1>3 DEF CurrentOutputIsRecorded, SubmittedBeforeUse, VRFReady
<1> QED
  BY <1>2, <1>4, <1>5, <1>6, <1>7
  DEF RotationIInv, ReputationInv, ReputationTypeOK, RotationInv, CandidatesAreDistinct,
      CommitteeMembersAreDistinct, RotationsAreSpaced

\* Checking the proof changes the verdict alone.
LEMMA VerifyInv ==
    ASSUME RotationIInv, UNCHANGED <<now, memberReputations>>, VerifyVRFProof
    PROVE  RotationIInv'
<1>1. RotationTypeOK
  BY DEF RotationIInv, RotationInv
<1>2. /\ vrf' = [vrf EXCEPT !.verified = vrf.provable]
      /\ UNCHANGED <<currentCommittee, lastRotationTime, rotationCount, candidatePool,
                     vrfGenerator, rotationRewardPool, rotationRandom, randomUsed,
                     submissions, drawnWith>>
  BY DEF VerifyVRFProof
<1>3. vrf' \in VRFState /\ vrf'.random = vrf.random /\ vrf'.used = vrf.used
  BY <1>1, <1>2 DEF RotationTypeOK, VRFState
<1>4. RotationTypeOK'
  BY <1>1, <1>2, <1>3 DEF RotationTypeOK
<1> QED
  BY <1>2, <1>3, <1>4
  DEF RotationIInv, ReputationInv, ReputationTypeOK, RotationInv, CandidatesAreDistinct,
      CommitteeMembersAreDistinct, RotationsAreSpaced, EachSubmissionDrawsOnce, HistoryIsTrue,
      CurrentOutputIsRecorded, SubmittedBeforeUse, VRFReady

\* The reputations by which a rotation ranks the candidates are numbers.
LEMMA ReputationNat ==
    ASSUME ReputationInv, NEW u \in User
    PROVE  Reputation(u) \in Nat
<1>1. memberReputations[u] \in MemberReputation
  BY DEF ReputationInv, ReputationTypeOK
<1> QED
  BY <1>1, ReputationOf DEF Reputation

\* A rotation draws as many different members as there are seats, uses the
\* output up and closes the round it recorded it for.
LEMMA RotateCommitteeInv ==
    ASSUME RotationIInv, UNCHANGED <<now, memberReputations>>, RotateCommittee
    PROVE  RotationIInv'
<1> DEFINE sc == [u \in User |-> Reputation(u)]
           drawn == SelectNewCommittee(candidatePool, sc, vrf.random)
           k == rotationCount
<1>1. /\ RotationTypeOK /\ HistoryIsTrue /\ EachSubmissionDrawsOnce /\ RotationsAreSpaced
      /\ CurrentOutputIsRecorded /\ ReputationInv /\ IsInjective(candidatePool)
  BY DEF RotationIInv, RotationInv, CandidatesAreDistinct
<1>2. /\ CanRotate /\ k < MaxRotations /\ VRFReady
      /\ Len(candidatePool) >= MAX_COMMITTEE_SIZE
      /\ currentCommittee' = drawn
      /\ lastRotationTime' = now
      /\ vrf' = [vrf EXCEPT !.used = TRUE]
      /\ randomUsed' = [randomUsed EXCEPT ![k] = TRUE]
      /\ rotationCount' = k + 1
      /\ drawnWith' = Append(drawnWith, [random |-> vrf.random, submission |-> submissions])
      /\ UNCHANGED <<candidatePool, vrfGenerator, rotationRewardPool, rotationRandom,
                     submissions>>
  BY DEF RotateCommittee
<1>3. drawn \in [1 .. MAX_COMMITTEE_SIZE -> User] /\ IsInjective(drawn)
  <2>1. candidatePool \in Seq(User)
    BY <1>1 DEF RotationTypeOK
  <2>2. Range(candidatePool) \subseteq User
    BY <2>1 DEF Range
  <2>3. \A c \in Range(candidatePool) : sc[c] \in Nat
    BY <1>1, <2>2, ReputationNat
  <2> HIDE DEF sc
  <2>4. drawn \in [1 .. MAX_COMMITTEE_SIZE -> Range(candidatePool)] /\ IsInjective(drawn)
    BY <1>1, <1>2, <2>1, <2>3, CommitteeSelected
  <2> HIDE DEF drawn
  <2> QED
    BY <2>2, <2>4
<1> HIDE DEF drawn, k
<1>4. /\ k \in Nat /\ k \in Round /\ k + 1 \in Round /\ k + 1 \in Nat
      /\ \A r \in Round : r \in Nat
  BY <1>1, <1>2, RotationAssumption DEF RotationTypeOK, Round, k
<1>5. /\ vrf \in VRFState /\ vrf' \in VRFState /\ vrf'.used = TRUE
      /\ vrf.random # NoRandom /\ vrf.random \in Random
  BY <1>1, <1>2 DEF RotationTypeOK, VRFState, VRFReady
<1> DEFINE Draw == [random : Random, submission : 1 .. MaxSubmissions]
           draw == [random |-> vrf.random, submission |-> submissions]
<1>6. /\ drawnWith \in Seq(Draw) /\ Len(drawnWith) = k /\ drawnWith' \in Seq(Draw)
      /\ Len(drawnWith') = k + 1 /\ drawnWith'[k + 1] = draw
      /\ \A i \in 1 .. k : drawnWith'[i] = drawnWith[i]
  <2>1. drawnWith \in Seq(Draw) /\ Len(drawnWith) = k
    BY <1>1 DEF RotationTypeOK, HistoryIsTrue, k
  <2>2. draw \in Draw
    BY <1>1, <1>2, <1>5 DEF RotationTypeOK, RotationIInv, SubmittedBeforeUse, VRFReady
  <2>3. drawnWith' = Append(drawnWith, draw)
    BY <1>2
  <2> HIDE DEF Draw, draw
  <2> QED
    BY <1>4, <2>1, <2>2, <2>3
<1>7. RotationTypeOK'
  <2>1. randomUsed' \in [Round -> BOOLEAN]
    BY <1>1, <1>2 DEF RotationTypeOK
  <2>2. lastRotationTime' \in 0 .. MaxTime
    BY <1>2 DEF RotationIInv
  <2> QED
    BY <1>1, <1>2, <1>3, <1>4, <1>5, <1>6, <2>1, <2>2 DEF RotationTypeOK
<1>8. HistoryIsTrue'
  <2>1. ASSUME NEW r \in Round
        PROVE  /\ randomUsed'[r] <=> r < k + 1
               /\ r < k + 1 => rotationRandom'[r] = drawnWith'[r + 1].random
    <3>1. /\ randomUsed[r] <=> r < k
          /\ r < k => rotationRandom[r] = drawnWith[r + 1].random
          /\ randomUsed \in [Round -> BOOLEAN]
      BY <1>1 DEF HistoryIsTrue, RotationTypeOK, k
    <3>2. CASE r = k
      <4>1. rotationRandom[k] = vrf.random
        BY <1>1, <1>2 DEF CurrentOutputIsRecorded, k
      <4>2. k < k + 1
        BY <1>4
      <4> QED
        BY <1>2, <1>4, <1>6, <3>1, <3>2, <4>1, <4>2
    <3>3. CASE r # k
      <4>1. r \in Nat /\ (r < k + 1 <=> r < k) /\ (r < k => r + 1 \in 1 .. k)
        BY <1>4, <3>3
      <4> QED
        BY <1>2, <1>6, <3>1, <3>3, <4>1
    <3> QED
      BY <3>2, <3>3
  <2> QED
    BY <1>2, <1>6, <2>1 DEF HistoryIsTrue
<1>9. EachSubmissionDrawsOnce'
  <2>1. /\ DOMAIN drawnWith = 1 .. k /\ DOMAIN drawnWith' = 1 .. k + 1
        /\ \A i \in 1 .. k + 1 : i \in 1 .. k \/ i = k + 1
    BY <1>4, <1>6
  <2>2. /\ drawnWith'[k + 1].submission = submissions
        /\ \A i \in 1 .. k : drawnWith'[i].submission < submissions
    BY <1>1, <1>2, <1>6, <2>1 DEF EachSubmissionDrawsOnce, VRFReady
  <2>3. \A i, j \in 1 .. k : i < j => drawnWith[i].submission < drawnWith[j].submission
    BY <1>1, <2>1 DEF EachSubmissionDrawsOnce
  <2>4. submissions' = submissions /\ submissions \in Nat /\ vrf'.used
    BY <1>1, <1>2, <1>5 DEF RotationTypeOK
  <2>5. \A i \in 1 .. k + 1 : drawnWith'[i].submission <= submissions
    <3>1. \A i \in 1 .. k : drawnWith'[i].submission <= submissions
      BY <1>1, <1>6, <2>1 DEF EachSubmissionDrawsOnce
    <3>2. submissions <= submissions
      BY <2>4
    <3> QED
      BY <2>1, <2>2, <3>1, <3>2
  <2>6. \A i, j \in 1 .. k + 1 : i < j => drawnWith'[i].submission < drawnWith'[j].submission
    <3>1. SUFFICES ASSUME NEW i \in 1 .. k + 1, NEW j \in 1 .. k + 1, i < j
                   PROVE  drawnWith'[i].submission < drawnWith'[j].submission
      OBVIOUS
    <3>2. i \in 1 .. k
      BY <1>4, <3>1
    <3>3. CASE j \in 1 .. k
      <4>1. drawnWith'[i] = drawnWith[i] /\ drawnWith'[j] = drawnWith[j]
        BY <1>6, <2>1, <3>2, <3>3
      <4> QED
        BY <2>3, <3>1, <3>2, <3>3, <4>1
    <3>4. CASE j = k + 1
      BY <2>2, <3>2, <3>4
    <3> QED
      BY <2>1, <3>3, <3>4
  <2> QED
    BY <2>1, <2>4, <2>5, <2>6 DEF EachSubmissionDrawsOnce
<1>10. RotationsAreSpaced'
  <2>1. /\ k * ROTATION_INTERVAL <= lastRotationTime
        /\ now >= lastRotationTime + ROTATION_INTERVAL
    BY <1>1, <1>2 DEF RotationsAreSpaced, CanRotate, k
  <2>2. /\ (k + 1) * ROTATION_INTERVAL = k * ROTATION_INTERVAL + ROTATION_INTERVAL
        /\ k * ROTATION_INTERVAL \in Nat
    BY <1>4, RotationAssumption
  <2>3. lastRotationTime \in Nat /\ now \in Nat
    BY <1>1 DEF RotationTypeOK, RotationIInv
  <2>4. (k + 1) * ROTATION_INTERVAL <= now
    BY <2>1, <2>2, <2>3, RotationAssumption
  <2> QED
    BY <1>2, <2>4 DEF RotationsAreSpaced
<1>11. CurrentOutputIsRecorded' /\ SubmittedBeforeUse'
  BY <1>5 DEF CurrentOutputIsRecorded, SubmittedBeforeUse, VRFReady
<1>12. CandidatesAreDistinct' /\ CommitteeMembersAreDistinct'
  BY <1>1, <1>2, <1>3 DEF CandidatesAreDistinct, CommitteeMembersAreDistinct
<1>13. now' \in 0 .. MaxTime /\ lastRotationTime' <= now' /\ ReputationInv'
  BY <1>1, <1>2 DEF RotationIInv, ReputationInv, ReputationTypeOK
<1>14. rotationCount' # 0
  BY <1>2, <1>4
<1> QED
  BY <1>7, <1>8, <1>9, <1>10, <1>11, <1>12, <1>13, <1>14 DEF RotationIInv, RotationInv

\* Blocks, reputation updates and whatever happens to the reward pool.
LEMMA EnvironmentInv ==
    ASSUME RotationIInv, UNCHANGED rotationVars,
           Mine \/ UNCHANGED now,
           \/ \E u \in User, p, c \in Score : UpdateReputation(u, p, c)
           \/ UNCHANGED memberReputations
    PROVE  RotationIInv'
<1>1. now \in 0 .. MaxTime /\ now' \in 0 .. MaxTime /\ now <= now'
  BY AccountsAssumption DEF RotationIInv, Mine
<1>2. ReputationInv'
  <2>1. ReputationInv
    BY DEF RotationIInv
  <2>2. CASE UNCHANGED memberReputations
    BY <2>1, <2>2 DEF ReputationInv, ReputationTypeOK
  <2> QED
    BY <2>1, <2>2, UpdateKeepsInv
<1>3. lastRotationTime' <= now'
  BY <1>1 DEF RotationIInv, RotationInv, RotationTypeOK, rotationVars
<1> QED
  BY <1>1, <1>2, <1>3
  DEF RotationIInv, rotationVars, RotationInv, RotationTypeOK, CandidatesAreDistinct,
      CommitteeMembersAreDistinct, RotationsAreSpaced, EachSubmissionDrawsOnce, HistoryIsTrue,
      CurrentOutputIsRecorded, SubmittedBeforeUse, VRFReady

\* The manager's own calls and direct ones are steps of the rotation or of its
\* environment.
LEMMA StepsOfTheChain ==
    ASSUME [CommitteeManagerNext]_CommitteeManagerVars
    PROVE  \/ RotationAdminNext /\ UNCHANGED <<now, memberReputations>>
           \/ RotateCommittee /\ UNCHANGED <<now, memberReputations>>
           \/ /\ UNCHANGED rotationVars
              /\ Mine \/ UNCHANGED now
              /\ \/ \E u \in User, p, c \in Score : UpdateReputation(u, p, c)
                 \/ UNCHANGED memberReputations
<1>1. CASE ManagerNext
  BY <1>1 DEF ManagerNext, ManagerOwnNext, ManagerAddCandidate, ManagerRemoveCandidate,
              ManagerRotateCommittee, RotationAdminNext, chainVars
<1>2. CASE RotationNext
  BY <1>2 DEF RotationNext, chainVars
<1>3. CASE RotationEnvironment
  <2>1. PoolUserNext => UNCHANGED now
    BY DEF PoolUserNext, RecordTransactionTx, EndEpochTx, DistributeTx, ClaimRewardTx, chainVars
  <2> QED
    BY <1>3, <2>1 DEF RotationEnvironment, SetCommitteeRotation, ReceiveTx, chainVars
<1>4. CASE UNCHANGED CommitteeManagerVars
  BY <1>4 DEF CommitteeManagerVars, CommitteeRotationVars, RewardPoolVars, chainVars
<1> QED
  BY <1>1, <1>2, <1>3, <1>4 DEF CommitteeManagerNext, DirectNext, CommitteeRotationNext

\* Every step keeps the invariant of the rotation.
LEMMA RotationStepInv ==
    ASSUME RotationIInv, [CommitteeManagerNext]_CommitteeManagerVars
    PROVE  RotationIInv'
<1>1. CASE RotationAdminNext /\ UNCHANGED <<now, memberReputations>>
  BY <1>1, PoolOfCandidatesInv, SubmitInv, VerifyInv DEF RotationAdminNext
<1>2. CASE RotateCommittee /\ UNCHANGED <<now, memberReputations>>
  BY <1>2, RotateCommitteeInv
<1> QED
  BY <1>1, <1>2, StepsOfTheChain, EnvironmentInv

\* The invariant of the rotation holds in every reachable state.
LEMMA RotationInvariant == CommitteeManagerSpec => []RotationIInv
<1>1. CommitteeManagerInit => RotationIInv
  BY RotationInitInv DEF CommitteeManagerInit
<1>2. RotationIInv /\ [CommitteeManagerNext]_CommitteeManagerVars => RotationIInv'
  BY RotationStepInv
<1> QED
  BY <1>1, <1>2, PTL DEF CommitteeManagerSpec

\* A rotation's storage is sound for any number of candidates, seats and
\* rotations, whoever calls: no candidate twice in the pool, no member in two
\* seats, and never two rotations within one interval.
THEOREM RotationInvAlways == CommitteeManagerSpec => []RotationInv
<1>1. RotationIInv => RotationInv
  BY DEF RotationIInv
<1> QED
  BY <1>1, RotationInvariant, PTL

\* No submission of a VRF output draws two committees, however submissions, checks
\* of the proof and rotations through or past the manager interleave; an output
\* that is submitted anew is a new submission.
THEOREM EachSubmissionDrawsOnceAlways == CommitteeManagerSpec => []EachSubmissionDrawsOnce
<1>1. RotationIInv => EachSubmissionDrawsOnce
  BY DEF RotationIInv
<1> QED
  BY <1>1, RotationInvariant, PTL

\* rotationRandom and randomUsed tell, for every past round, the output that
\* the committee was really drawn with.
THEOREM HistoryIsTrueAlways == CommitteeManagerSpec => []HistoryIsTrue
<1>1. RotationIInv => HistoryIsTrue
  BY DEF RotationIInv
<1> QED
  BY <1>1, RotationInvariant, PTL

-----------------------------------------------------------------------------
(* The manager.                                                            *)

\* The inductive invariant of the manager's copy.
ManagerIInv ==
    /\ ManagerInv
    /\ {InitialCommittee, currentCommittee} \subseteq pastCommittees
    /\ lastUpdateTime <= now
    /\ StaleCopyIsDatable

\* What a step may do to the committee: a rotation dates it, nothing else
\* changes it.
LEMMA CommitteeChanges ==
    ASSUME RotationIInv, [CommitteeManagerNext]_CommitteeManagerVars
    PROVE  /\ now' \in 0 .. MaxTime /\ now \in 0 .. MaxTime /\ now <= now'
           /\ \/ UNCHANGED <<currentCommittee, lastRotationTime, rotationCount>>
              \/ lastRotationTime' = now /\ now' = now
<1>1. now \in 0 .. MaxTime
  BY DEF RotationIInv
<1>2. now' \in 0 .. MaxTime /\ now <= now'
  BY <1>1, StepsOfTheChain, AccountsAssumption DEF Mine
<1>3. RotationAdminNext => UNCHANGED <<currentCommittee, lastRotationTime, rotationCount>>
  BY DEF RotationAdminNext, SetRotationRewardPool, SetVRFGenerator, SubmitVRFRandomWithProof,
         VerifyVRFProof, AddCandidate, RemoveCandidate
<1> QED
  BY <1>1, <1>2, <1>3, StepsOfTheChain DEF RotateCommittee, rotationVars

\* Every step keeps the invariant of the manager.
LEMMA ManagerStepInv ==
    ASSUME RotationIInv, RotationIInv', ManagerIInv,
           [CommitteeManagerNext]_CommitteeManagerVars
    PROVE  ManagerIInv'
<1> DEFINE Committee == [1 .. MAX_COMMITTEE_SIZE -> User]
<1>1. /\ currentCommittee \in Committee /\ currentCommittee' \in Committee
      /\ lastRotationTime \in Nat /\ rotationCount \in Nat
      /\ InitialCommittee \in Committee
      /\ rotationCount = 0 => currentCommittee = InitialCommittee
  BY RotationAssumption DEF RotationIInv, RotationInv, RotationTypeOK, Round
<1>2. /\ now' \in 0 .. MaxTime /\ now \in 0 .. MaxTime /\ now <= now'
      /\ \/ UNCHANGED <<currentCommittee, lastRotationTime, rotationCount>>
         \/ lastRotationTime' = now /\ now' = now
  BY CommitteeChanges
<1>3. /\ ManagerTypeOK /\ CopyWasACommittee /\ StaleCopyIsDatable
      /\ currentCommittee \in pastCommittees /\ InitialCommittee \in pastCommittees
      /\ lastUpdateTime <= now
      /\ lastUpdateTime \in Nat
  BY DEF ManagerIInv, ManagerInv, ManagerTypeOK
<1>4. ASSUME UNCHANGED managerVars, UNCHANGED currentCommittee
      PROVE  ManagerIInv'
  <2>1. UNCHANGED lastRotationTime \/ lastRotationTime' >= lastUpdateTime
    BY <1>2, <1>3
  <2>2. StaleCopyIsDatable'
    BY <1>3, <1>4, <2>1 DEF StaleCopyIsDatable, managerVars
  <2>3. lastUpdateTime' <= now'
    BY <1>2, <1>3, <1>4 DEF managerVars
  <2> QED
    BY <1>3, <1>4, <2>2, <2>3
    DEF ManagerIInv, ManagerInv, ManagerTypeOK, CopyWasACommittee, managerVars
<1>5. ASSUME /\ managerCommittee' = currentCommittee'
             /\ lastUpdateTime' = (IF currentCommittee' # managerCommittee
                                   THEN now ELSE lastUpdateTime)
             /\ pastCommittees' = pastCommittees \cup {currentCommittee'}
             /\ UNCHANGED <<isInitialized, paused, initializedLate>>
      PROVE  ManagerIInv'
  <2>1. managerCommittee' \in [1 .. MAX_COMMITTEE_SIZE -> User \cup {NoAddress}]
    BY <1>1, <1>5
  <2>2. lastUpdateTime' \in 0 .. MaxTime /\ lastUpdateTime' <= now'
    BY <1>2, <1>3, <1>5 DEF ManagerTypeOK
  <2>3. pastCommittees' \subseteq Committee
    BY <1>1, <1>3, <1>5 DEF ManagerTypeOK
  <2> QED
    BY <1>3, <1>5, <2>1, <2>2, <2>3
    DEF ManagerIInv, ManagerInv, ManagerTypeOK, CopyWasACommittee, StaleCopyIsDatable
<1>6. CASE Initialize(InitialCommittee) /\ UNCHANGED <<rotationVars, chainVars>>
  <2>1. /\ managerCommittee' = InitialCommittee /\ isInitialized' = TRUE
        /\ lastUpdateTime' = now /\ initializedLate' = (rotationCount > 0)
        /\ UNCHANGED <<paused, pastCommittees>>
        /\ UNCHANGED <<currentCommittee, lastRotationTime, rotationCount, now>>
    BY <1>6 DEF Initialize, rotationVars, chainVars
  <2>2. managerCommittee' \in [1 .. MAX_COMMITTEE_SIZE -> User \cup {NoAddress}]
    BY <1>1, <2>1
  <2>3. StaleCopyIsDatable'
    <3>1. CASE rotationCount = 0
      BY <1>1, <2>1, <3>1 DEF StaleCopyIsDatable
    <3>2. CASE rotationCount > 0
      BY <2>1, <3>2 DEF StaleCopyIsDatable
    <3> QED
      BY <1>1, <3>1, <3>2
  <2>4. ManagerTypeOK'
    BY <1>2, <1>3, <2>1, <2>2 DEF ManagerTypeOK
  <2>5. CopyWasACommittee'
    BY <1>3, <2>1 DEF CopyWasACommittee
  <2>6. lastUpdateTime' <= now'
    BY <1>2, <2>1
  <2> QED
    BY <1>3, <2>1, <2>3, <2>4, <2>5, <2>6 DEF ManagerIInv, ManagerInv
<1>7. CASE UpdateCommittee /\ UNCHANGED rotationVars
  <2>1. currentCommittee' = currentCommittee
    BY <1>7 DEF rotationVars
  <2>2. pastCommittees' = pastCommittees \cup {currentCommittee'}
    BY <1>3, <1>7, <2>1 DEF UpdateCommittee
  <2> QED
    BY <1>5, <1>7, <2>1, <2>2 DEF UpdateCommittee, CopyCommittee
<1>8. CASE (EmergencyPause \/ ResumeSystem) /\ UNCHANGED rotationVars
  <2>1. /\ paused' \in BOOLEAN /\ UNCHANGED currentCommittee /\ UNCHANGED lastRotationTime
        /\ UNCHANGED <<managerCommittee, isInitialized, lastUpdateTime, pastCommittees,
                       initializedLate>>
    BY <1>8 DEF EmergencyPause, ResumeSystem, rotationVars
  <2>2. ManagerTypeOK'
    BY <1>3, <2>1 DEF ManagerTypeOK
  <2>3. lastUpdateTime' <= now'
    BY <1>2, <1>3, <2>1
  <2> QED
    BY <1>3, <2>1, <2>2, <2>3
    DEF ManagerIInv, ManagerInv, CopyWasACommittee, StaleCopyIsDatable
<1>9. CASE \E c \in User : ManagerAddCandidate(c) \/ ManagerRemoveCandidate(c)
  BY <1>4, <1>9 DEF ManagerAddCandidate, ManagerRemoveCandidate, AddCandidate, RemoveCandidate
<1>10. CASE ManagerRotateCommittee
  BY <1>5, <1>10 DEF ManagerRotateCommittee, CopyCommittee
<1>11. CASE DirectNext
  <2>1. /\ pastCommittees' = pastCommittees \cup {currentCommittee'}
        /\ UNCHANGED <<managerCommittee, isInitialized, paused, lastUpdateTime,
                       initializedLate>>
    BY <1>11 DEF DirectNext
  <2>2. pastCommittees' \subseteq Committee
    BY <1>1, <1>3, <2>1 DEF ManagerTypeOK
  <2>3. ManagerTypeOK'
    BY <1>3, <2>1, <2>2 DEF ManagerTypeOK
  <2>4. StaleCopyIsDatable'
    <3>1. CASE UNCHANGED <<currentCommittee, lastRotationTime, rotationCount>>
      BY <1>3, <2>1, <3>1 DEF StaleCopyIsDatable
    <3>2. CASE lastRotationTime' = now
      BY <1>2, <1>3, <2>1, <3>2 DEF StaleCopyIsDatable
    <3> QED
      BY <1>2, <3>1, <3>2
  <2>5. lastUpdateTime' <= now'
    BY <1>2, <1>3, <2>1
  <2> QED
    BY <1>3, <2>1, <2>3, <2>4, <2>5 DEF ManagerIInv, ManagerInv, CopyWasACommittee
<1>12. CASE UNCHANGED CommitteeManagerVars
  BY <1>4, <1>12 DEF CommitteeManagerVars, CommitteeRotationVars, rotationVars
<1> QED
  BY <1>6, <1>7, <1>8, <1>9, <1>10, <1>11, <1>12
  DEF CommitteeManagerNext, ManagerNext, ManagerOwnNext

\* Both invariants hold in every reachable state.
LEMMA ManagerInvariant == CommitteeManagerSpec => []ManagerIInv
<1>1. CommitteeManagerInit => RotationIInv
  BY RotationInitInv DEF CommitteeManagerInit
<1>2. RotationIInv /\ [CommitteeManagerNext]_CommitteeManagerVars => RotationIInv'
  BY RotationStepInv
<1>3. CommitteeManagerInit => ManagerIInv
  <2> SUFFICES ASSUME CommitteeManagerInit PROVE ManagerIInv
    OBVIOUS
  <2>1. now = 0 /\ now \in 0 .. MaxTime /\ currentCommittee = InitialCommittee
    BY AccountsAssumption
    DEF CommitteeManagerInit, CommitteeRotationInit, RewardPoolInit, AccountsInit, RotationInit
  <2>2. NoCommittee \in [1 .. MAX_COMMITTEE_SIZE -> User \cup {NoAddress}]
    BY DEF NoCommittee
  <2>3. /\ managerCommittee = NoCommittee /\ isInitialized = FALSE /\ paused = FALSE
        /\ lastUpdateTime = now /\ pastCommittees = {InitialCommittee}
        /\ initializedLate = FALSE
    BY DEF CommitteeManagerInit, ManagerInit
  <2>4. pastCommittees \subseteq [1 .. MAX_COMMITTEE_SIZE -> User]
    BY <2>3, RotationAssumption
  <2>5. ManagerTypeOK
    BY <2>1, <2>2, <2>3, <2>4 DEF ManagerTypeOK
  <2> QED
    BY <2>1, <2>3, <2>5 DEF ManagerIInv, ManagerInv, CopyWasACommittee, StaleCopyIsDatable
<1>4. ManagerIInv /\ RotationIInv /\ RotationIInv'
        /\ [CommitteeManagerNext]_CommitteeManagerVars
        => ManagerIInv'
  BY ManagerStepInv
<1> QED
  BY <1>1, <1>2, <1>3, <1>4, PTL DEF CommitteeManagerSpec

\* The manager's copy is always a committee that was really drawn, or the
\* initial one, never a mixture, whether rotations go through it or past it.
THEOREM ManagerInvAlways == CommitteeManagerSpec => []ManagerInv
<1>1. ManagerIInv => ManagerInv
  BY DEF ManagerIInv
<1> QED
  BY <1>1, ManagerInvariant, PTL

\* A reader of the manager can tell that its copy may be stale from the two
\* times, unless the manager was initialized after a rotation.
THEOREM StaleCopyIsDatableAlways == CommitteeManagerSpec => []StaleCopyIsDatable
<1>1. ManagerIInv => StaleCopyIsDatable
  BY DEF ManagerIInv
<1> QED
  BY <1>1, ManagerInvariant, PTL

-----------------------------------------------------------------------------
(* Reputations while committees rotate.                                    *)

\* The bound holds in every state of the whole system too: no rotation, and no
\* call of the manager or the pool, gets in the way.
THEOREM BoundedWhileRotating == CommitteeManagerSpec => []ReputationBounded
<1>1. RotationIInv => ReputationBounded
  BY ReputationBound DEF RotationIInv
<1> QED
  BY <1>1, RotationInvariant, PTL

\* And no step of the whole system makes a reputation jump.
THEOREM SlowWhileRotating == CommitteeManagerSpec => ReputationMovesSlowly
<1> DEFINE Slow == \A u \in User :
                      LET before == Reputation(u)
                          after == CalculateReputation(memberReputations'[u])
                      IN  /\ 100 * after >= 95 * before - 99
                          /\ after <= before + 100
<1>1. RotationIInv /\ RotationIInv' /\ [CommitteeManagerNext]_CommitteeManagerVars => Slow
  <2> SUFFICES ASSUME RotationIInv, RotationIInv',
                      [CommitteeManagerNext]_CommitteeManagerVars, NEW u \in User
               PROVE  LET before == Reputation(u)
                          after == CalculateReputation(memberReputations'[u])
                      IN  /\ 100 * after >= 95 * before - 99
                          /\ after <= before + 100
    OBVIOUS
  <2>1. ReputationInv /\ ReputationInv'
    BY DEF RotationIInv
  <2>2. \/ \E w \in User, p, c \in Score : UpdateReputation(w, p, c)
        \/ UNCHANGED memberReputations
    BY StepsOfTheChain
  <2> QED
    BY <2>1, <2>2, ReputationStep
<1> HIDE DEF Slow
<1>2. RotationIInv /\ RotationIInv' /\ [CommitteeManagerNext]_CommitteeManagerVars
        => [Slow]_ReputationVars
  BY <1>1
<1> USE DEF Slow
<1> QED
  BY <1>2, RotationInvariant, PTL DEF CommitteeManagerSpec, ReputationMovesSlowly
=============================================================================
