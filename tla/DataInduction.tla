---------------------------- MODULE DataInduction ----------------------------
(***************************************************************************)
(* Induction over natural numbers and over finite sets, stated with SETS   *)
(* instead of predicates so that every fact can be cited by name, and what *)
(* follows from it: a sum over a finite function (the SumFunction of the   *)
(* community modules, a fold in an unspecified order) obeys the laws of    *)
(* sums.                                                                   *)
(***************************************************************************)
EXTENDS Integers, Functions, FiniteSetTheorems, WellFoundedInduction, TLAPS

\* Every nonempty set of natural numbers has a least element.
LEMMA LeastNat ==
    ASSUME NEW T \in SUBSET Nat, T # {}
    PROVE  \E x \in T : \A y \in T : x <= y
<1> DEFINE R == OpToRel(<, Nat)
<1>1. \A x, y \in Nat : <<y, x>> \in R <=> y < x
  BY DEF OpToRel
<1>2. IsWellFoundedOn(R, Nat)
  BY NatLessThanWellFounded
<1> HIDE DEF R
<1>3. \E x \in T : \A y \in T : ~ (<<y, x>> \in R)
  BY <1>2, WFMin
<1>4. PICK x \in T : \A y \in T : ~ (<<y, x>> \in R)
  BY <1>3
<1>5. \A y \in T : ~(y < x)
  BY <1>1, <1>4
<1> QED
  BY <1>5

\* Every nonempty bounded set of natural numbers has a greatest element.
LEMMA GreatestNat ==
    ASSUME NEW B \in Nat, NEW T \in SUBSET (0 .. B), T # {}
    PROVE  \E x \in T : \A y \in T : y <= x
<1> DEFINE U == {n \in Nat : B - n \in T}
<1>1. U \in SUBSET Nat
  OBVIOUS
<1>2. \A x \in T : B - x \in Nat /\ B - (B - x) = x
  OBVIOUS
<1>3. \A x \in T : B - x \in U
  BY <1>2
<1>4. U # {}
  BY <1>3
<1>5. PICK n \in U : \A k \in U : n <= k
  BY <1>1, <1>4, LeastNat
<1>6. \A y \in T : n <= B - y
  BY <1>3, <1>5
<1>7. n \in Nat /\ B - n \in T
  BY <1>5
<1>8. \A y \in T : y <= B - n
  BY <1>6, <1>7
<1> QED
  BY <1>7, <1>8

\* A set of natural numbers that contains 0 and, with a number, the next one
\* contains all of them.
LEMMA SetInduction ==
    ASSUME NEW S \in SUBSET Nat, 0 \in S, \A n \in Nat : n \in S => n + 1 \in S
    PROVE  S = Nat
<1> SUFFICES ASSUME Nat \ S # {} PROVE FALSE
  OBVIOUS
<1>1. PICK x \in Nat \ S : \A y \in Nat \ S : x <= y
  BY LeastNat
<1>2. x # 0 /\ x - 1 \in Nat /\ x - 1 \in S
  BY <1>1
<1> QED
  BY <1>1, <1>2

\* A nonempty family of subsets of a finite set has a minimal member.
LEMMA MinimalSet ==
    ASSUME NEW S, IsFiniteSet(S), NEW F \in SUBSET (SUBSET S), F # {}
    PROVE  \E x \in F : \A y \in F : y \subseteq x => y = x
<1> DEFINE R == StrictSubsetOrdering(S)
<1>1. \A x, y \in SUBSET S : <<y, x>> \in R <=> y \subseteq x /\ y # x
  BY DEF StrictSubsetOrdering
<1>2. IsWellFoundedOn(R, SUBSET S)
  BY FS_StrictSubsetOrderingWellFounded, FS_FiniteSubsetsOfFinite
<1> HIDE DEF R
<1>3. F \subseteq SUBSET S
  OBVIOUS
<1>4. \E x \in F : \A y \in F : ~ (<<y, x>> \in R)
  BY <1>2, <1>3, WFMin
<1> QED
  BY <1>1, <1>4

\* A family that contains the empty set and is closed under adding one element
\* contains the finite set itself.
LEMMA FiniteInduction ==
    ASSUME NEW S, IsFiniteSet(S), NEW G \in SUBSET (SUBSET S), {} \in G,
           \A T \in G : \A x \in S \ T : T \cup {x} \in G
    PROVE  S \in G
<1> SUFFICES ASSUME S \notin G PROVE FALSE
  OBVIOUS
<1> DEFINE F == (SUBSET S) \ G
<1>1. PICK x \in F : \A y \in F : y \subseteq x => y = x
  <2>1. F \in SUBSET (SUBSET S) /\ F # {}
    OBVIOUS
  <2> HIDE DEF F
  <2> QED
    BY <2>1, MinimalSet
<1>2. x # {}
  BY <1>1
<1>3. PICK e \in x : TRUE
  BY <1>2
<1>4. x \ {e} \in G
  BY <1>1, <1>3
<1>5. (x \ {e}) \cup {e} = x
  BY <1>3
<1>6. e \in S \ (x \ {e})
  BY <1>1, <1>3
<1>7. (x \ {e}) \cup {e} \in G
  BY <1>4, <1>6
<1> QED
  BY <1>1, <1>7, <1>5

\* A nonempty finite set of numbers has a greatest element.
LEMMA FiniteMaximum ==
    ASSUME NEW S \in SUBSET Int, IsFiniteSet(S), S # {}
    PROVE  \E x \in S : \A y \in S : x >= y
<1> DEFINE HasMax(T) == \E x \in T : \A y \in T : x >= y
           G == {T \in SUBSET S : T = {} \/ HasMax(T)}
<1>1. {} \in G
  OBVIOUS
<1>2. ASSUME NEW T \in G, NEW e \in S \ T PROVE T \cup {e} \in G
  <2>1. CASE T = {}
    BY <2>1
  <2>2. CASE HasMax(T)
    <3>1. PICK x \in T : \A y \in T : x >= y
      BY <2>2
    <3>2. x \in Int /\ e \in Int /\ \A y \in T : y \in Int
      OBVIOUS
    <3>3. CASE x >= e
      <4>1. \A y \in T \cup {e} : x >= y
        BY <3>1, <3>3
      <4> QED
        BY <4>1
    <3>4. CASE e > x
      <4>1. \A y \in T \cup {e} : e >= y
        BY <3>1, <3>2, <3>4
      <4> QED
        BY <4>1
    <3> QED
      BY <3>2, <3>3, <3>4
  <2> QED
    BY <2>1, <2>2
<1>3. S \in G
  <2>1. G \in SUBSET (SUBSET S)
    OBVIOUS
  <2> HIDE DEF G
  <2> QED
    BY <1>1, <1>2, <2>1, FiniteInduction
<1> QED
  BY <1>3

\* A loop: from x, the nth of m rounds applies step[n].  Its states exist.
LEMMA Iteration ==
    ASSUME NEW X, NEW x \in X, NEW m \in Nat, NEW step \in [1 .. m -> [X -> X]]
    PROVE  \E g : /\ g \in [0 .. m -> X]
                  /\ g[0] = x
                  /\ \A n \in 1 .. m : g[n] = step[n][g[n - 1]]
<1> DEFINE Loop(g, k) == /\ g \in [0 .. k -> X]
                         /\ g[0] = x
                         /\ \A n \in 1 .. k : g[n] = step[n][g[n - 1]]
           D == {k \in Nat : k <= m => \E g : Loop(g, k)}
<1>1. 0 \in D
  <2> DEFINE g == [n \in 0 .. 0 |-> x]
  <2>1. Loop(g, 0)
    OBVIOUS
  <2> QED
    BY <2>1
<1>2. ASSUME NEW k \in Nat, k \in D PROVE k + 1 \in D
  <2> SUFFICES ASSUME k + 1 <= m PROVE \E g : Loop(g, k + 1)
    OBVIOUS
  <2>1. PICK g : Loop(g, k)
    BY <1>2
  <2> DEFINE y == step[k + 1][g[k]]
             h == [n \in 0 .. (k + 1) |-> IF n = k + 1 THEN y ELSE g[n]]
  <2>2. y \in X
    BY <2>1
  <2> HIDE DEF y
  <2>3. h \in [0 .. (k + 1) -> X] /\ h[0] = x
    BY <2>1, <2>2
  <2>4. ASSUME NEW n \in 1 .. (k + 1) PROVE h[n] = step[n][h[n - 1]]
    <3>1. n - 1 \in 0 .. k /\ h[n - 1] = g[n - 1]
      OBVIOUS
    <3>2. CASE n = k + 1
      BY <3>1, <3>2 DEF y
    <3>3. CASE n # k + 1
      BY <3>1, <3>3, <2>1
    <3> QED
      BY <3>2, <3>3
  <2> HIDE DEF h
  <2>5. Loop(h, k + 1)
    BY <2>3, <2>4
  <2> QED
    BY <2>5
<1>3. D = Nat
  <2>1. D \in SUBSET Nat
    OBVIOUS
  <2> HIDE DEF D
  <2> QED
    BY <1>1, <1>2, <2>1, SetInduction
<1>4. PICK g : Loop(g, m)
  <2>1. m \in D
    BY <1>3
  <2> HIDE DEF Loop
  <2> QED
    BY <2>1
<1> QED
  BY <1>4

\* g lists the states of such a loop.
IsLoop(g, X, x, m, step) ==
    /\ g \in [0 .. m -> X]
    /\ g[0] = x
    /\ \A n \in 1 .. m : g[n] = step[n][g[n - 1]]

\* They exist.
LEMMA LoopRuns ==
    ASSUME NEW X, NEW x \in X, NEW m \in Nat, NEW step \in [1 .. m -> [X -> X]]
    PROVE  \E g : IsLoop(g, X, x, m, step)
BY Iteration DEF IsLoop

\* A loop that starts in X and stays there for a round stays there.
LEMMA LoopStays ==
    ASSUME NEW X, NEW m \in Nat, NEW g, g[0] \in X,
           \A n \in 1 .. m : g[n - 1] \in X => g[n] \in X
    PROVE  g[m] \in X
<1> DEFINE D == {n \in Nat : n <= m => g[n] \in X}
<1>1. 0 \in D
  OBVIOUS
<1>2. ASSUME NEW n \in Nat, n \in D PROVE n + 1 \in D
  <2> SUFFICES ASSUME n + 1 <= m PROVE g[n + 1] \in X
    OBVIOUS
  <2>1. n + 1 \in 1 .. m /\ (n + 1) - 1 = n /\ g[n] \in X
    BY <1>2
  <2> QED
    BY <2>1
<1>3. D = Nat
  <2>1. D \in SUBSET Nat
    OBVIOUS
  <2> HIDE DEF D
  <2> QED
    BY <1>1, <1>2, <2>1, SetInduction
<1> QED
  BY <1>3

-----------------------------------------------------------------------------
(* Arithmetic.                                                             *)

\* What the integer division of naturals is.
LEMMA Division ==
    ASSUME NEW a \in Nat, NEW d \in Nat \ {0}
    PROVE  /\ a \div d \in Nat
           /\ d * (a \div d) <= a
           /\ a < d * ((a \div d) + 1)
OBVIOUS

\* A common positive factor can be cancelled.
LEMMA Cancel ==
    ASSUME NEW d \in Nat \ {0}, NEW a \in Int, NEW b \in Int
    PROVE  /\ d * a <= d * b => a <= b
           /\ d * a < d * b => a < b
OBVIOUS

\* Products of naturals are naturals and monotonic.
LEMMA Products ==
    ASSUME NEW a \in Nat, NEW b \in Nat, NEW w \in Nat
    PROVE  /\ a * w \in Nat
           /\ a <= b => a * w <= b * w
OBVIOUS

\* A quotient is the one number whose multiple is that close.
LEMMA Quotient ==
    ASSUME NEW a \in Nat, NEW d \in Nat \ {0}, NEW q \in Nat, d * q <= a, a < d * (q + 1)
    PROVE  a \div d = q
<1> DEFINE p == a \div d
<1>1. p \in Nat /\ d * p <= a /\ a < d * (p + 1)
  BY Division
<1> HIDE DEF p
<1>2. /\ d * p \in Nat /\ d * q \in Nat /\ d * (p + 1) \in Nat /\ d * (q + 1) \in Nat
      /\ p + 1 \in Nat /\ q + 1 \in Nat
  BY <1>1
<1>3. d * p < d * (q + 1) /\ d * q < d * (p + 1)
  BY <1>1, <1>2
<1>4. p < q + 1 /\ q < p + 1
  BY <1>1, <1>2, <1>3, Cancel
<1>5. p = q
  BY <1>1, <1>4
<1> QED
  BY <1>5 DEF p

\* Division by the same number is monotonic.
LEMMA DivisionMonotonic ==
    ASSUME NEW a \in Nat, NEW b \in Nat, a <= b, NEW d \in Nat \ {0}
    PROVE  a \div d <= b \div d
<1> DEFINE p == a \div d
           q == b \div d
<1>1. p \in Nat /\ d * p <= a /\ q \in Nat /\ b < d * (q + 1)
  BY Division
<1> HIDE DEF p, q
<1>2. d * p \in Nat /\ d * (q + 1) \in Nat
  BY <1>1
<1>3. d * p < d * (q + 1)
  BY <1>1, <1>2
<1>4. p < q + 1
  BY <1>1, <1>3, Cancel
<1>5. p <= q
  BY <1>1, <1>4
<1> QED
  BY <1>5 DEF p, q

\* A larger divisor gives a smaller quotient.
LEMMA DivisorMonotonic ==
    ASSUME NEW a \in Nat, NEW d \in Nat \ {0}, NEW e \in Nat \ {0}, d <= e
    PROVE  a \div e <= a \div d
<1> DEFINE p == a \div e
           q == a \div d
<1>1. p \in Nat /\ e * p <= a /\ q \in Nat /\ a < d * (q + 1)
  BY Division
<1> HIDE DEF p, q
<1>2. d * p <= e * p /\ d * p \in Nat /\ e * p \in Nat
  BY <1>1, Products
<1>3. d * (q + 1) \in Nat /\ q + 1 \in Nat
  BY <1>1
<1>4. d * p < d * (q + 1)
  BY <1>1, <1>2, <1>3
<1>5. p < q + 1
  BY <1>1, <1>3, <1>4, Cancel
<1>6. p <= q
  BY <1>1, <1>5
<1> QED
  BY <1>6 DEF p, q

\* How many numbers an interval holds.
LEMMA IntervalSize ==
    ASSUME NEW a \in Int, NEW b \in Int, a <= b + 1
    PROVE  Cardinality(a .. b) = (b - a) + 1
<1>1. Cardinality(a .. b) = IF a > b THEN 0 ELSE b - a + 1
  BY FS_Interval
<1> QED
  BY <1>1

\* Halving a quotient is dividing by twice as much.
LEMMA DivideTwice ==
    ASSUME NEW n \in Nat, NEW d \in Nat \ {0}
    PROVE  (n \div d) \div 2 = n \div (2 * d)
<1> DEFINE q == n \div d
           r == q \div 2
           e == 2 * d
           t == n \div e
<1>1. q \in Nat /\ d * q <= n /\ n < d * (q + 1)
  BY Division
<1>2. e \in Nat \ {0}
  OBVIOUS
<1> HIDE DEF q
<1>3. r \in Nat /\ 2 * r <= q /\ q <= 2 * r + 1
  BY <1>1
<1>4. t \in Nat /\ e * t <= n /\ n < e * (t + 1)
  <2> HIDE DEF e
  <2> QED
    BY <1>2, Division
<1> HIDE DEF r, t
<1>5. d * (2 * r) <= d * q /\ d * (q + 1) <= d * (2 * r + 2)
  <2>1. 2 * r \in Nat /\ 2 * r + 2 \in Nat /\ q + 1 \in Nat /\ q + 1 <= 2 * r + 2
    BY <1>1, <1>3
  <2> DEFINE a == 2 * r
             b == 2 * r + 2
             c == q + 1
  <2> HIDE DEF a, b, c
  <2>2. a \in Nat /\ b \in Nat /\ c \in Nat /\ c <= b /\ a <= q
    BY <1>3, <2>1 DEF a, b, c
  <2>3. a * d <= q * d /\ c * d <= b * d
    BY <1>1, <2>2, Products
  <2>4. d * a <= d * q /\ d * c <= d * b
    BY <1>1, <2>2, <2>3
  <2> QED
    BY <2>4 DEF a, b, c
<1>6. d * (2 * r) = e * r /\ d * (2 * r + 2) = e * (r + 1)
  BY <1>3
<1> HIDE DEF e
<1>7. e * r \in Nat /\ e * t \in Nat /\ e * (r + 1) \in Nat /\ e * (t + 1) \in Nat
      /\ d * q \in Nat /\ d * (q + 1) \in Nat
  BY <1>1, <1>2, <1>3, <1>4
<1>8. e * r < e * (t + 1) /\ e * t < e * (r + 1)
  BY <1>1, <1>4, <1>5, <1>6, <1>7
<1>9. r < t + 1 /\ t < r + 1
  BY <1>2, <1>3, <1>4, <1>8, Cancel
<1>10. r = t
  BY <1>3, <1>4, <1>9
<1> QED
  BY <1>10 DEF r, t, q, e

-----------------------------------------------------------------------------
(* Powers of two, counted as sets of subsets.                              *)

\* An n-element set has 2^n subsets.
LEMMA PowerIsSubsets ==
    ASSUME NEW n \in Nat
    PROVE  /\ IsFiniteSet(SUBSET (1 .. n))
           /\ Cardinality(SUBSET (1 .. n)) = 2 ^ n
           /\ 2 ^ n \in Nat
<1>1. IsFiniteSet(1 .. n) /\ Cardinality(1 .. n) = n
  <2> DEFINE a == 1
  <2>1. a \in Int /\ n \in Int /\ (IF a > n THEN 0 ELSE n - a + 1) = n
    OBVIOUS
  <2> HIDE DEF a
  <2>2. IsFiniteSet(a .. n) /\ Cardinality(a .. n) = IF a > n THEN 0 ELSE n - a + 1
    BY <2>1, FS_Interval
  <2>3. IsFiniteSet(a .. n) /\ Cardinality(a .. n) = n
    BY <2>1, <2>2
  <2> QED
    BY <2>3 DEF a
<1> DEFINE S == 1 .. n
<1> HIDE DEF S
<1>2. IsFiniteSet(S) /\ Cardinality(S) = n
  BY <1>1 DEF S
<1>3. IsFiniteSet(SUBSET S) /\ Cardinality(SUBSET S) = 2 ^ Cardinality(S)
  BY <1>2, FS_SUBSET
<1>4. Cardinality(SUBSET S) \in Nat
  BY <1>3, FS_CardinalityType
<1> QED
  BY <1>2, <1>3, <1>4 DEF S

\* The recurrence of the powers of two.
LEMMA PowerOfTwo ==
    /\ 2 ^ 0 = 1
    /\ \A n \in Nat : 2 ^ n \in Nat /\ 2 ^ (n + 1) = 2 * 2 ^ n
<1>1. 2 ^ 0 = 1
  OBVIOUS
<1>2. ASSUME NEW n \in Nat
      PROVE  2 ^ n \in Nat /\ 2 ^ (n + 1) = 2 * 2 ^ n
  <2> DEFINE x == n + 1
             A == SUBSET (1 .. n)
             B == {T \cup {x} : T \in A}
             f == [T \in A |-> T \cup {x}]
             m == n + 1
  <2>1. /\ IsFiniteSet(A) /\ Cardinality(A) = 2 ^ n /\ 2 ^ n \in Nat
    BY PowerIsSubsets
  <2>2. x \notin 1 .. n /\ 1 .. x = (1 .. n) \cup {x}
    OBVIOUS
  <2>3. m \in Nat /\ m = x
    OBVIOUS
  <2> HIDE DEF m
  <2>4. Cardinality(SUBSET (1 .. m)) = 2 ^ m
    BY <2>3, PowerIsSubsets
  <2> HIDE DEF x
  <2>5. SUBSET (1 .. x) = A \cup B
    <3>1. ASSUME NEW T \in SUBSET (1 .. x)
          PROVE  T \in A \cup B
      <4>1. CASE x \in T
        <5>1. T \ {x} \in A /\ T = (T \ {x}) \cup {x}
          BY <2>2, <4>1
        <5> QED
          BY <5>1
      <4>2. CASE x \notin T
        BY <2>2, <4>2
      <4> QED
        BY <4>1, <4>2
    <3>2. A \cup B \subseteq SUBSET (1 .. x)
      BY <2>2
    <3> QED
      BY <3>1, <3>2
  <2>6. A \cap B = {}
    BY <2>2
  <2>7. f \in Bijection(A, B)
    <3>1. f \in [A -> B]
      OBVIOUS
    <3>2. \A S, T \in A : f[S] = f[T] => S = T
      <4> TAKE S, T \in A
      <4>1. HAVE f[S] = f[T]
      <4>2. S \cup {x} = T \cup {x} /\ x \notin S /\ x \notin T
        BY <2>2, <4>1
      <4> QED
        BY <4>2
    <3>3. \A b \in B : \E T \in A : f[T] = b
      OBVIOUS
    <3> HIDE DEF f, A, B
    <3> QED
      BY <3>1, <3>2, <3>3 DEF Bijection, Injection, Surjection, IsInjective
  <2> HIDE DEF A, B
  <2>8. IsFiniteSet(B) /\ Cardinality(B) = Cardinality(A)
    BY <2>1, <2>7, FS_Bijection DEF ExistsBijection
  <2>9. Cardinality(A \cup B) = Cardinality(A) + Cardinality(B)
    <3>1. Cardinality(A \cup B) = Cardinality(A) + Cardinality(B) - Cardinality(A \cap B)
      BY <2>1, <2>8, FS_Union
    <3>2. Cardinality(A \cap B) = 0
      BY <2>6, FS_EmptySet
    <3> QED
      BY <2>1, <2>8, <3>1, <3>2
  <2>10. 2 ^ m = 2 ^ n + 2 ^ n
    BY <2>1, <2>3, <2>4, <2>5, <2>8, <2>9
  <2>11. 2 ^ m = 2 * 2 ^ n
    BY <2>1, <2>10
  <2> QED
    BY <2>1, <2>11 DEF m
<1> QED
  BY <1>1, <1>2

\* A larger exponent gives a larger power.
LEMMA PowerMonotonic ==
    ASSUME NEW m \in Nat, NEW n \in Nat, m <= n
    PROVE  2 ^ m <= 2 ^ n /\ 2 ^ n \in Nat \ {0}
<1> DEFINE S == {k \in Nat : 2 ^ m <= 2 ^ (m + k) /\ 2 ^ (m + k) \in Nat}
           P == {k \in Nat : 2 ^ k \in Nat \ {0}}
<1>1. 0 \in S
  <2>1. m + 0 = m /\ 2 ^ m \in Nat
    BY PowerOfTwo
  <2> QED
    BY <2>1
<1>2. ASSUME NEW k \in Nat, k \in S PROVE k + 1 \in S
  <2>1. m + k \in Nat /\ m + (k + 1) = (m + k) + 1 /\ 2 ^ m \in Nat
    BY PowerOfTwo
  <2>2. 2 ^ ((m + k) + 1) = 2 * 2 ^ (m + k) /\ 2 ^ (m + k) \in Nat
    BY <2>1, PowerOfTwo
  <2>3. 2 ^ ((m + k) + 1) \in Nat /\ 2 ^ m <= 2 ^ ((m + k) + 1)
    BY <1>2, <2>1, <2>2
  <2> QED
    BY <2>1, <2>3
<1>3. S = Nat
  <2>1. S \in SUBSET Nat
    OBVIOUS
  <2> HIDE DEF S
  <2> QED
    BY <1>1, <1>2, <2>1, SetInduction
<1>4. 0 \in P
  BY PowerOfTwo
<1>5. ASSUME NEW k \in Nat, k \in P PROVE k + 1 \in P
  <2>1. 2 ^ (k + 1) = 2 * 2 ^ k /\ 2 ^ k \in Nat \ {0}
    BY <1>5, PowerOfTwo
  <2> QED
    BY <2>1
<1>6. P = Nat
  <2>1. P \in SUBSET Nat
    OBVIOUS
  <2> HIDE DEF P
  <2> QED
    BY <1>4, <1>5, <2>1, SetInduction
<1>7. n - m \in Nat /\ m + (n - m) = n
  OBVIOUS
<1>8. 2 ^ m <= 2 ^ (m + (n - m))
  <2>1. \A k \in Nat : 2 ^ m <= 2 ^ (m + k)
    BY <1>3
  <2> QED
    BY <1>7, <2>1
<1>9. 2 ^ n \in Nat \ {0}
  BY <1>6
<1> QED
  BY <1>7, <1>8, <1>9

-----------------------------------------------------------------------------
(* Sums.                                                                   *)

\* One step of the fold that defines SumFunction: some element is split off.
FoldStep(f, g, s) ==
    IF s = {} THEN 0 ELSE f[CHOOSE x \in s : TRUE] + g[s \ {CHOOSE x \in s : TRUE}]

\* The element that the fold splits off is one of the set's, and leaves a
\* smaller set.
LEMMA SplitOff ==
    ASSUME NEW S, IsFiniteSet(S), NEW s \in SUBSET S, s # {}
    PROVE  /\ (CHOOSE x \in s : TRUE) \in s
           /\ (CHOOSE x \in s : TRUE) \in S
           /\ s \ {CHOOSE x \in s : TRUE} \in SUBSET S
           /\ Cardinality(s) \in Nat
           /\ Cardinality(s \ {CHOOSE x \in s : TRUE}) = Cardinality(s) - 1
<1>1. (CHOOSE x \in s : TRUE) \in s
  OBVIOUS
<1>2. IsFiniteSet(s) /\ Cardinality(s) \in Nat
  BY FS_Subset, FS_CardinalityType
<1> QED
  BY <1>1, <1>2, FS_RemoveElement

\* g solves the recursion of the fold on all sets of at most n elements.
Solves(g, f, S, n) ==
    \A s \in SUBSET S : Cardinality(s) <= n => g[s] = FoldStep(f, g, s)

\* The recursion of the fold has a solution on all sets of at most n elements.
LEMMA FoldSolution ==
    ASSUME NEW S, IsFiniteSet(S), NEW f \in [S -> Int], NEW n \in Nat
    PROVE  \E g \in [SUBSET S -> Int] : Solves(g, f, S, n)
<1> DEFINE D == {k \in Nat : \E g \in [SUBSET S -> Int] : Solves(g, f, S, k)}
<1>1. 0 \in D
  <2> DEFINE g == [s \in SUBSET S |-> 0]
  <2>1. \A s \in SUBSET S : Cardinality(s) <= 0 => s = {}
    BY FS_Subset, FS_CardinalityType, FS_EmptySet
  <2>2. Solves(g, f, S, 0)
    BY <2>1 DEF FoldStep, Solves
  <2>3. g \in [SUBSET S -> Int]
    OBVIOUS
  <2> QED
    BY <2>2, <2>3
<1>2. ASSUME NEW k \in Nat, k \in D PROVE k + 1 \in D
  <2>1. PICK g \in [SUBSET S -> Int] : Solves(g, f, S, k)
    BY <1>2
  <2> DEFINE h == [s \in SUBSET S |-> IF Cardinality(s) <= k THEN g[s] ELSE FoldStep(f, g, s)]
  <2>2. \A s \in SUBSET S : FoldStep(f, g, s) \in Int
    <3> TAKE s \in SUBSET S
    <3>1. CASE s = {}
      BY <3>1 DEF FoldStep
    <3>2. CASE s # {}
      <4>1. (CHOOSE x \in s : TRUE) \in S /\ s \ {CHOOSE x \in s : TRUE} \in SUBSET S
        BY <3>2, SplitOff
      <4> QED
        BY <4>1, <3>2 DEF FoldStep
    <3> QED
      BY <3>1, <3>2
  <2>3. h \in [SUBSET S -> Int]
    BY <2>2
  <2>4. ASSUME NEW s \in SUBSET S, Cardinality(s) <= k + 1
        PROVE  h[s] = FoldStep(f, h, s)
    <3>1. h[s] = FoldStep(f, g, s)
      BY <2>1 DEF Solves
    <3>2. CASE s = {}
      BY <3>1, <3>2 DEF FoldStep
    <3>3. CASE s # {}
      <4>1. /\ s \ {CHOOSE x \in s : TRUE} \in SUBSET S
            /\ Cardinality(s \ {CHOOSE x \in s : TRUE}) <= k
        BY SplitOff, <2>4, <3>3
      <4>2. h[s \ {CHOOSE x \in s : TRUE}] = g[s \ {CHOOSE x \in s : TRUE}]
        BY <4>1
      <4> HIDE DEF h
      <4> QED
        BY <4>2, <3>1, <3>3 DEF FoldStep
    <3> QED
      BY <3>2, <3>3
  <2> HIDE DEF h
  <2> QED
    BY <2>3, <2>4 DEF Solves
<1> HIDE DEF D
<1>3. D = Nat
  <2>1. D \in SUBSET Nat
    BY DEF D
  <2> QED
    BY <1>1, <1>2, <2>1, SetInduction
<1> QED
  BY <1>3 DEF D

\* g gives the sum of f over every subset of S: any element may be split off.
IsSumOf(g, f, S) ==
    /\ g \in [SUBSET S -> Int]
    /\ g[{}] = 0
    /\ \A s \in SUBSET S : \A x \in s : g[s] = f[x] + g[s \ {x}]

\* SumFunction is the value of such a g: the order of the fold does not matter.
LEMMA SumFunctionIsSum ==
    ASSUME NEW S, IsFiniteSet(S), NEW f \in [S -> Int]
    PROVE  \E g : IsSumOf(g, f, S) /\ SumFunction(f) = g[S]
<1> DEFINE Iter(g) == g = [s \in SUBSET S |-> FoldStep(f, g, s)]
           it == CHOOSE g : Iter(g)
<1>1. \E g : Iter(g)
  <2>1. \A s \in SUBSET S : Cardinality(s) <= Cardinality(S)
    BY FS_Subset
  <2> DEFINE n == Cardinality(S)
  <2>2. n \in Nat
    BY FS_CardinalityType
  <2> HIDE DEF n
  <2>3. PICK g \in [SUBSET S -> Int] : Solves(g, f, S, n)
    BY <2>2, FoldSolution
  <2>4. g = [s \in SUBSET S |-> FoldStep(f, g, s)]
    BY <2>1, <2>3 DEF n, Solves
  <2> QED
    BY <2>4
<1>2. Iter(it)
  BY <1>1
<1>3. SumFunction(f) = it[S]
  BY Zenon DEF FoldStep, SumFunction, SumFunctionOnSet, FoldFunctionOnSet, MapThenFoldSet
<1> HIDE DEF it
<1>4. it[{}] = 0
  BY <1>2 DEF FoldStep
<1>5. ASSUME NEW s \in SUBSET S, s # {}
      PROVE  \E c \in s : it[s] = f[c] + it[s \ {c}]
  <2>1. (CHOOSE x \in s : TRUE) \in s
    BY <1>5
  <2>2. it[s] = FoldStep(f, it, s)
    BY <1>2
  <2> QED
    BY <1>5, <2>1, <2>2 DEF FoldStep
<1>6. \A s \in SUBSET S : it[s] \in Int
  <2> DEFINE F == {s \in SUBSET S : it[s] \notin Int}
  <2> SUFFICES ASSUME F # {} PROVE FALSE
    OBVIOUS
  <2>1. PICK s \in F : \A y \in F : y \subseteq s => y = s
    <3>1. F \in SUBSET (SUBSET S)
      OBVIOUS
    <3> HIDE DEF F
    <3> QED
      BY <3>1, MinimalSet
  <2>2. PICK c \in s : it[s] = f[c] + it[s \ {c}]
    <3>1. s \in SUBSET S /\ it[s] \notin Int
      OBVIOUS
    <3>2. s # {}
      BY <1>4, <3>1
    <3> QED
      BY <1>5, <3>1, <3>2
  <2>3. s \ {c} \notin F
    BY <2>1, <2>2
  <2> QED
    BY <2>1, <2>2, <2>3
<1>7. \A s \in SUBSET S : \A x \in s : it[s] = f[x] + it[s \ {x}]
  <2> DEFINE Any(s) == \A x \in s : it[s] = f[x] + it[s \ {x}]
             F == {s \in SUBSET S : ~Any(s)}
  <2> SUFFICES ASSUME F # {} PROVE FALSE
    OBVIOUS
  <2>1. PICK s \in F : \A y \in F : y \subseteq s => y = s
    <3>1. F \in SUBSET (SUBSET S)
      OBVIOUS
    <3> HIDE DEF F
    <3> QED
      BY <3>1, MinimalSet
  <2>2. PICK x \in s : it[s] # f[x] + it[s \ {x}]
    BY <2>1
  <2>3. PICK c \in s : it[s] = f[c] + it[s \ {c}]
    BY <1>5, <2>2
  <2>4. x # c
    BY <2>2, <2>3
  <2>5. s \ {c} \in SUBSET S /\ s \ {x} \in SUBSET S /\ s \ {c} \notin F /\ s \ {x} \notin F
    BY <2>1, <2>2, <2>3
  <2>6. Any(s \ {c}) /\ Any(s \ {x})
    BY <2>5
  <2>7. (s \ {x}) \ {c} = (s \ {c}) \ {x}
    OBVIOUS
  <2> DEFINE rest == it[(s \ {c}) \ {x}]
  <2>8. it[s \ {c}] = f[x] + rest
    BY <2>6, <2>4, <2>2
  <2>9. it[s \ {x}] = f[c] + rest
    BY <2>6, <2>4, <2>3, <2>7
  <2>10. rest \in Int /\ f[x] \in Int /\ f[c] \in Int
    BY <1>6, <2>1, <2>2, <2>3
  <2> HIDE DEF F, rest
  <2> QED
    BY <2>2, <2>3, <2>8, <2>9, <2>10
<1> QED
  BY <1>2, <1>3, <1>4, <1>6, <1>7 DEF IsSumOf

\* Splitting one element off a set that does not contain it yet.
LEMMA SumOfOneMore ==
    ASSUME NEW S, NEW f \in [S -> Int], NEW g, IsSumOf(g, f, S),
           NEW T \in SUBSET S, NEW x \in S \ T
    PROVE  /\ g[T \cup {x}] = f[x] + g[T]
           /\ g[T] \in Int /\ f[x] \in Int
           /\ T \cup {x} \in SUBSET S
<1>1. (T \cup {x}) \ {x} = T /\ T \cup {x} \in SUBSET S /\ x \in T \cup {x}
  OBVIOUS
<1> QED
  BY <1>1 DEF IsSumOf

\* A sum of natural numbers is a natural number, and no term exceeds it.
LEMMA SumNat ==
    ASSUME NEW S, IsFiniteSet(S), NEW f \in [S -> Nat]
    PROVE  /\ SumFunction(f) \in Nat
           /\ \A x \in S : f[x] <= SumFunction(f)
<1>1. f \in [S -> Int]
  OBVIOUS
<1>2. PICK g : IsSumOf(g, f, S) /\ SumFunction(f) = g[S]
  BY <1>1, SumFunctionIsSum
<1> DEFINE G == {s \in SUBSET S : g[s] \in Nat /\ \A x \in s : f[x] <= g[s]}
<1>3. {} \in G
  BY <1>2 DEF IsSumOf
<1>4. ASSUME NEW T \in G, NEW x \in S \ T PROVE T \cup {x} \in G
  <2>1. g[T \cup {x}] = f[x] + g[T] /\ T \cup {x} \in SUBSET S
    BY <1>1, <1>2, SumOfOneMore
  <2> QED
    BY <2>1
<1>5. S \in G
  <2>1. G \in SUBSET (SUBSET S)
    OBVIOUS
  <2> HIDE DEF G
  <2> QED
    BY <1>3, <1>4, <2>1, FiniteInduction
<1> QED
  BY <1>2, <1>5

\* A sum of zeroes is 0.
LEMMA SumZero ==
    ASSUME NEW S, IsFiniteSet(S), NEW f \in [S -> Int], \A x \in S : f[x] = 0
    PROVE  SumFunction(f) = 0
<1>1. PICK g : IsSumOf(g, f, S) /\ SumFunction(f) = g[S]
  BY SumFunctionIsSum
<1> DEFINE G == {s \in SUBSET S : g[s] = 0}
<1>2. {} \in G
  BY <1>1 DEF IsSumOf
<1>3. ASSUME NEW T \in G, NEW x \in S \ T PROVE T \cup {x} \in G
  <2>1. g[T \cup {x}] = f[x] + g[T] /\ T \cup {x} \in SUBSET S
    BY <1>1, SumOfOneMore
  <2> QED
    BY <2>1
<1>4. S \in G
  <2>1. G \in SUBSET (SUBSET S)
    OBVIOUS
  <2> HIDE DEF G
  <2> QED
    BY <1>2, <1>3, <2>1, FiniteInduction
<1> QED
  BY <1>1, <1>4

\* Replacing one term changes the sum by the difference.
LEMMA SumUpdate ==
    ASSUME NEW S, IsFiniteSet(S), NEW f \in [S -> Int], NEW h \in [S -> Int],
           NEW x \in S, \A y \in S \ {x} : h[y] = f[y]
    PROVE  /\ SumFunction(h) = SumFunction(f) - f[x] + h[x]
           /\ SumFunction(f) \in Int
<1>1. PICK g : IsSumOf(g, f, S) /\ SumFunction(f) = g[S]
  BY SumFunctionIsSum
<1>2. PICK k : IsSumOf(k, h, S) /\ SumFunction(h) = k[S]
  BY SumFunctionIsSum
<1> DEFINE R == S \ {x}
           G == {s \in SUBSET R : k[s] = g[s]}
<1>3. {} \in G
  BY <1>1, <1>2 DEF IsSumOf
<1>4. ASSUME NEW T \in G, NEW y \in R \ T PROVE T \cup {y} \in G
  <2>1. T \in SUBSET S /\ y \in S \ T
    OBVIOUS
  <2>2. g[T \cup {y}] = f[y] + g[T]
    BY <1>1, <2>1, SumOfOneMore
  <2>3. k[T \cup {y}] = h[y] + k[T]
    BY <1>2, <2>1, SumOfOneMore
  <2>4. h[y] = f[y] /\ k[T] = g[T]
    OBVIOUS
  <2> QED
    BY <2>2, <2>3, <2>4
<1>5. R \in G
  <2>1. G \in SUBSET (SUBSET R) /\ IsFiniteSet(R)
    BY FS_Subset
  <2> HIDE DEF G, R
  <2> QED
    BY <1>3, <1>4, <2>1, FiniteInduction
<1>6. g[S] = f[x] + g[R] /\ k[S] = h[x] + k[R] /\ g[R] \in Int /\ f[x] \in Int /\ h[x] \in Int
  BY <1>1, <1>2 DEF IsSumOf
<1> QED
  BY <1>1, <1>2, <1>5, <1>6

\* Sums are monotonic and homogeneous: n times the terms of f bounded by t
\* times those of h bounds n times the one sum by t times the other.
LEMMA SumScaledBound ==
    ASSUME NEW S, IsFiniteSet(S), NEW f \in [S -> Int], NEW h \in [S -> Int],
           NEW n \in Nat, NEW t \in Nat, \A x \in S : n * f[x] <= t * h[x]
    PROVE  n * SumFunction(f) <= t * SumFunction(h)
<1>1. PICK g : IsSumOf(g, f, S) /\ SumFunction(f) = g[S]
  BY SumFunctionIsSum
<1>2. PICK k : IsSumOf(k, h, S) /\ SumFunction(h) = k[S]
  BY SumFunctionIsSum
<1> DEFINE G == {s \in SUBSET S : n * g[s] <= t * k[s]}
<1>3. {} \in G
  BY <1>1, <1>2 DEF IsSumOf
<1>4. ASSUME NEW T \in G, NEW x \in S \ T PROVE T \cup {x} \in G
  <2>1. /\ g[T \cup {x}] = f[x] + g[T]
        /\ g[T] \in Int /\ f[x] \in Int
        /\ T \cup {x} \in SUBSET S
    BY <1>1, SumOfOneMore
  <2>2. k[T \cup {x}] = h[x] + k[T] /\ k[T] \in Int /\ h[x] \in Int
    BY <1>2, SumOfOneMore
  <2>3. \A a, b, m \in Int : m * (a + b) = m * a + m * b /\ m * a \in Int
    OBVIOUS
  <2>4. n * g[T \cup {x}] = n * f[x] + n * g[T] /\ t * k[T \cup {x}] = t * h[x] + t * k[T]
    BY <2>1, <2>2, <2>3
  <2>5. /\ n * f[x] <= t * h[x] /\ n * g[T] <= t * k[T]
        /\ n * f[x] \in Int /\ t * h[x] \in Int /\ n * g[T] \in Int /\ t * k[T] \in Int
    BY <2>1, <2>2, <2>3
  <2> QED
    BY <2>1, <2>4, <2>5
<1>5. S \in G
  <2>1. G \in SUBSET (SUBSET S)
    OBVIOUS
  <2> HIDE DEF G
  <2> QED
    BY <1>3, <1>4, <2>1, FiniteInduction
<1> QED
  BY <1>1, <1>2, <1>5

\* Sums are monotonic.
LEMMA SumMonotonic ==
    ASSUME NEW S, IsFiniteSet(S), NEW f \in [S -> Int], NEW h \in [S -> Int],
           \A x \in S : f[x] <= h[x]
    PROVE  SumFunction(f) <= SumFunction(h)
<1>1. SumFunction(f) \in Int /\ SumFunction(h) \in Int
  <2>1. \A e \in [S -> Int] : SumFunction(e) \in Int
    <3> TAKE e \in [S -> Int]
    <3>1. PICK g : IsSumOf(g, e, S) /\ SumFunction(e) = g[S]
      BY SumFunctionIsSum
    <3> QED
      BY <3>1 DEF IsSumOf
  <2> QED
    BY <2>1
<1>2. \A x \in S : 1 * f[x] <= 1 * h[x]
  OBVIOUS
<1>3. 1 * SumFunction(f) <= 1 * SumFunction(h)
  BY <1>2, SumScaledBound
<1> QED
  BY <1>1, <1>3

\* The terms of f occur, once each, among those of h: the sum of some of f's
\* terms is that of the same terms of h.
LEMMA SumEmbedded ==
    ASSUME NEW S, IsFiniteSet(S), NEW f \in [S -> Int], NEW T, NEW h \in [T -> Int],
           NEW g, IsSumOf(g, f, S), NEW k, IsSumOf(k, h, T),
           NEW p \in [S -> T], \A x, y \in S : p[x] = p[y] => x = y,
           \A x \in S : f[x] = h[p[x]]
    PROVE  g[S] = k[{p[x] : x \in S}]
<1> DEFINE G == {s \in SUBSET S : g[s] = k[{p[x] : x \in s}]}
<1>1. {} \in G
  <2>1. {p[x] : x \in {}} = {}
    OBVIOUS
  <2> QED
    BY <2>1 DEF IsSumOf
<1>2. ASSUME NEW R \in G, NEW y \in S \ R PROVE R \cup {y} \in G
  <2> DEFINE Q == {p[x] : x \in R}
  <2>1. Q \in SUBSET T /\ p[y] \in T \ Q /\ {p[x] : x \in R \cup {y}} = Q \cup {p[y]}
    OBVIOUS
  <2>2. g[R \cup {y}] = f[y] + g[R]
    <3>1. R \in SUBSET S /\ y \in S \ R
      OBVIOUS
    <3> HIDE DEF G
    <3> QED
      BY <3>1, SumOfOneMore
  <2>3. g[R] = k[Q] /\ f[y] = h[p[y]]
    OBVIOUS
  <2> HIDE DEF Q
  <2>4. k[Q \cup {p[y]}] = h[p[y]] + k[Q]
    BY <2>1, SumOfOneMore
  <2> QED
    BY <2>1, <2>2, <2>3, <2>4
<1>3. S \in G
  <2>1. G \in SUBSET (SUBSET S)
    OBVIOUS
  <2> HIDE DEF G
  <2> QED
    BY <1>1, <1>2, <2>1, FiniteInduction
<1> QED
  BY <1>3

\* A sum does not depend on the names of its terms.
LEMMA SumRenamed ==
    ASSUME NEW S, IsFiniteSet(S), NEW f \in [S -> Int],
           NEW T, IsFiniteSet(T), NEW h \in [T -> Int],
           NEW p \in Bijection(S, T), \A x \in S : f[x] = h[p[x]]
    PROVE  SumFunction(f) = SumFunction(h)
<1>0. /\ p \in [S -> T] /\ \A x, y \in S : p[x] = p[y] => x = y
      /\ \A z \in T : \E x \in S : p[x] = z
  BY DEF Bijection, Injection, Surjection, IsInjective
<1>1. PICK g : IsSumOf(g, f, S) /\ SumFunction(f) = g[S]
  BY SumFunctionIsSum
<1>2. PICK k : IsSumOf(k, h, T) /\ SumFunction(h) = k[T]
  BY SumFunctionIsSum
<1>3. T = {p[x] : x \in S}
  BY <1>0
<1>4. g[S] = k[{p[x] : x \in S}]
  BY <1>0, <1>1, <1>2, SumEmbedded
<1> QED
  BY <1>1, <1>2, <1>3, <1>4

\* The terms of f are those of h under other names.
Renames(S, f, T, h, p) ==
    /\ IsFiniteSet(S) /\ f \in [S -> Int]
    /\ IsFiniteSet(T) /\ h \in [T -> Int]
    /\ p \in Bijection(S, T) /\ \A x \in S : f[x] = h[p[x]]

\* So the sums are the same.
LEMMA SumSameTerms ==
    ASSUME NEW S, NEW f, NEW T, NEW h, NEW p, Renames(S, f, T, h, p)
    PROVE  SumFunction(f) = SumFunction(h)
BY SumRenamed DEF Renames

\* One more term adds its value.
LEMMA SumExtended ==
    ASSUME NEW S, IsFiniteSet(S), NEW f \in [S -> Int], NEW e, e \notin S,
           NEW h \in [S \cup {e} -> Int], \A x \in S : f[x] = h[x]
    PROVE  SumFunction(h) = SumFunction(f) + h[e] /\ SumFunction(f) \in Int
<1> DEFINE T == S \cup {e}
           p == [x \in S |-> x]
<1>1. IsFiniteSet(T)
  BY FS_AddElement
<1>2. PICK g : IsSumOf(g, f, S) /\ SumFunction(f) = g[S]
  BY SumFunctionIsSum
<1>3. PICK k : IsSumOf(k, h, T) /\ SumFunction(h) = k[T]
  BY <1>1, SumFunctionIsSum
<1>4. p \in [S -> T] /\ \A x \in S : p[x] = x
  OBVIOUS
<1>5. {p[x] : x \in S} = S
  BY <1>4
<1>6. S \in SUBSET T /\ e \in T \ S /\ T = S \cup {e} /\ h \in [T -> Int]
  OBVIOUS
<1> HIDE DEF T, p
<1>7. g[S] = k[S]
  <2>1. /\ \A x, y \in S : p[x] = p[y] => x = y
        /\ \A x \in S : f[x] = h[p[x]]
    BY <1>4
  <2>2. g[S] = k[{p[x] : x \in S}]
    BY <1>2, <1>3, <1>4, <1>6, <2>1, SumEmbedded
  <2> QED
    BY <1>5, <2>2
<1>8. k[S \cup {e}] = h[e] + k[S] /\ k[S] \in Int /\ h[e] \in Int
  BY <1>3, <1>6, SumOfOneMore
<1> QED
  BY <1>2, <1>3, <1>6, <1>7, <1>8
=============================================================================
