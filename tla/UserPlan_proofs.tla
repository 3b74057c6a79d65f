--------------------------- MODULE UserPlan_proofs ---------------------------
(***************************************************************************)
(* For any amounts, task, plan length, rounding, tolerance and histories:  *)
(* the record of a simulated user is sound, its running statistics are     *)
(* what a recomputation gives, its task is conserved and its plans are     *)
(* affordable.                                                             *)
(***************************************************************************)
EXTENDS UserPlan, DataInduction, SequenceTheorems

-----------------------------------------------------------------------------
(* What the records hold.                                                  *)

Payment == [time : Int, amount : Int]
Tx == [time : Int, amount : Int, index : Nat]
Stat == [count : Nat, sum : Int, first_ts : Int, last_ts : Int,
         intervals : Seq(Int), amount_counts : [Buckets -> Nat]]
Account == [task : Int, simple : Seq(Payment), transaction : Seq(Tx), stat : Stat \cup {NoStat}]

\* What the assumption says of the constants.
LEMMA ConstantFacts ==
    /\ Task \in Nat /\ TimeLeft \in Nat /\ PlanLength \in Nat \ {0} /\ TOL \in Nat
    /\ MaxTime \in Nat /\ MaxPerMinute \in Nat
    /\ \A x \in ALLOWED_AMOUNTS : x \in Nat \ {0}
BY UserPlanAssumption

\* The first n numbers are finitely many.
LEMMA FirstNumbers ==
    ASSUME NEW n \in Nat
    PROVE  IsFiniteSet(1 .. n)
<1> DEFINE a == 1
<1>1. a \in Int /\ n \in Int
  OBVIOUS
<1> HIDE DEF a
<1>2. IsFiniteSet(a .. n)
  BY <1>1, FS_Interval
<1> QED
  BY <1>2 DEF a

\* An interval determines its length.
LEMMA SameInterval ==
    ASSUME NEW k \in Nat, NEW n \in Nat, 1 .. k = 1 .. n
    PROVE  k = n
<1>1. CASE k < n
  <2>1. n \in 1 .. n /\ n \notin 1 .. k
    BY <1>1
  <2> QED
    BY <2>1
<1>2. CASE n < k
  <2>1. k \in 1 .. k /\ k \notin 1 .. n
    BY <1>2
  <2> QED
    BY <2>1
<1> QED
  BY <1>1, <1>2

-----------------------------------------------------------------------------
(* Sums.                                                                   *)

\* A number appended to a sequence adds to its sum.
LEMMA SumAppend ==
    ASSUME NEW s \in Seq(Int), NEW x \in Int
    PROVE  SumFunction(Append(s, x)) = SumFunction(s) + x /\ SumFunction(s) \in Int
<1> DEFINE n == Len(s)
           h == Append(s, x)
           S == 1 .. n
<1>1. n \in Nat /\ s \in [S -> Int]
  BY LenProperties
<1>2. h \in Seq(Int) /\ Len(h) = n + 1 /\ h[n + 1] = x /\ \A i \in S : h[i] = s[i]
  BY AppendProperties
<1>3. h \in [1 .. (n + 1) -> Int]
  BY <1>2, LenProperties
<1>4. 1 .. (n + 1) = S \cup {n + 1} /\ n + 1 \notin S
  BY <1>1
<1>5. IsFiniteSet(S)
  BY <1>1, FirstNumbers
<1> HIDE DEF n, h, S
<1>6. SumFunction(h) = SumFunction(s) + h[n + 1] /\ SumFunction(s) \in Int
  <2>1. h \in [S \cup {n + 1} -> Int] /\ \A i \in S : s[i] = h[i]
    BY <1>2, <1>3, <1>4
  <2> QED
    BY ZenonT(30), <1>1, <1>4, <1>5, <2>1, SumExtended
<1> QED
  BY <1>2, <1>6 DEF h

\* The amounts of a list of payments.
Amounts(s) == [i \in DOMAIN s |-> s[i].amount]

\* They are a sequence of numbers that grows with the list.
LEMMA AmountsAppend ==
    ASSUME NEW A, \A y \in A : y.amount \in Int, NEW s \in Seq(A), NEW x \in A
    PROVE  /\ Amounts(s) \in Seq(Int) /\ Len(Amounts(s)) = Len(s)
           /\ Amounts(Append(s, x)) = Append(Amounts(s), x.amount)
<1> DEFINE n == Len(s)
           h == Append(s, x)
           a == Amounts(s)
           b == Amounts(h)
           c == Append(a, x.amount)
<1>1. n \in Nat /\ DOMAIN s = 1 .. n /\ \A i \in 1 .. n : s[i] \in A
  BY LenProperties
<1>2. /\ h \in Seq(A) /\ Len(h) = n + 1 /\ h[n + 1] = x
      /\ \A i \in 1 .. n : h[i] = s[i]
  BY AppendProperties
<1>3. DOMAIN h = 1 .. (n + 1) /\ \A i \in 1 .. (n + 1) : h[i] \in A
  BY <1>2, LenProperties
<1>4. a \in [1 .. n -> Int]
  BY <1>1 DEF Amounts
<1>5. b \in [1 .. (n + 1) -> Int] /\ \A i \in 1 .. (n + 1) : b[i] = h[i].amount
  BY <1>3 DEF Amounts
<1>6. /\ a \in Seq(Int) /\ Len(a) = n /\ \A i \in 1 .. n : a[i] = s[i].amount
  <2>1. a \in Seq(Int)
    BY SMTT(30), <1>1, <1>4, SeqDef
  <2>2. Len(a) \in Nat /\ DOMAIN a = 1 .. Len(a)
    BY <2>1, LenProperties
  <2>3. DOMAIN a = 1 .. n
    BY <1>4
  <2>4. Len(a) = n
    BY ZenonT(30), <2>2, <2>3, <1>1, SameInterval
  <2> QED
    BY <2>1, <2>4, <1>1 DEF Amounts
<1>7. b \in Seq(Int) /\ Len(b) = n + 1
  <2>1. b \in Seq(Int)
    BY <1>1, <1>5, SeqDef
  <2>2. Len(b) \in Nat /\ DOMAIN b = 1 .. Len(b)
    BY <2>1, LenProperties
  <2>3. DOMAIN b = 1 .. (n + 1)
    BY <1>5
  <2>4. n + 1 \in Nat
    BY <1>1
  <2> QED
    BY ZenonT(30), <2>1, <2>2, <2>3, <2>4, SameInterval
<1> HIDE DEF n, h, a, b
<1>8. /\ c \in Seq(Int) /\ Len(c) = n + 1 /\ c[n + 1] = x.amount
      /\ \A i \in 1 .. n : c[i] = a[i]
  BY <1>6, AppendProperties
<1> HIDE DEF c
<1>9. \A i \in 1 .. (n + 1) : b[i] = c[i]
  <2> SUFFICES ASSUME NEW i \in 1 .. (n + 1) PROVE b[i] = c[i]
    OBVIOUS
  <2>1. CASE i = n + 1
    BY <2>1, <1>2, <1>5, <1>8
  <2>2. CASE i # n + 1
    <3>1. i \in 1 .. n
      BY <2>2, <1>1
    <3> QED
      BY ZenonT(30), <3>1, <1>2, <1>5, <1>6, <1>8
  <2> QED
    BY <2>1, <2>2
<1>10. b = c
  BY <1>7, <1>8, <1>9, SeqEqual
<1> QED
  BY <1>6, <1>10 DEF a, b, c, h, n

\* One more payment adds its amount to the sum.
LEMMA SumAmountsAppend ==
    ASSUME NEW A, \A y \in A : y.amount \in Int, NEW s \in Seq(A), NEW x \in A
    PROVE  /\ SumAmounts(Append(s, x)) = SumAmounts(s) + x.amount
           /\ SumAmounts(s) \in Int
<1>1. SumAmounts(s) = SumFunction(Amounts(s))
  BY DEF SumAmounts, Amounts
<1>2. SumAmounts(Append(s, x)) = SumFunction(Amounts(Append(s, x)))
  BY DEF SumAmounts, Amounts
<1>3. Amounts(s) \in Seq(Int) /\ Amounts(Append(s, x)) = Append(Amounts(s), x.amount)
  BY AmountsAppend
<1>4. x.amount \in Int
  OBVIOUS
<1> QED
  BY <1>1, <1>2, <1>3, <1>4, SumAppend
-----------------------------------------------------------------------------
(* The running statistics.                                                 *)

\* The payments of s whose amount falls into bucket b.
InBucket(s, b) == {i \in DOMAIN s : Bucket(s[i].amount) = b}

\* The time between two neighbours.
Gaps(s) == [i \in 1 .. Len(s) - 1 |-> s[i + 1].time - s[i].time]

\* The statistics of a list, computed from the whole list.
StatOf(s) ==
    [count |-> Len(s),
     sum |-> SumAmounts(s),
     first_ts |-> IF s = <<>> THEN 0 ELSE s[1].time,
     last_ts |-> IF s = <<>> THEN 0 ELSE s[Len(s)].time,
     intervals |-> Gaps(s),
     amount_counts |-> [b \in Buckets |-> Cardinality(InBucket(s, b))]]

\* The empty list, and any list that is not empty.
LEMMA EmptyOrNot ==
    ASSUME NEW A, NEW s \in Seq(A)
    PROVE  /\ Len(s) \in Nat /\ DOMAIN s = 1 .. Len(s)
           /\ s = <<>> <=> Len(s) = 0
           /\ \A i \in 1 .. Len(s) : s[i] \in A
<1>1. Len(s) \in Nat /\ DOMAIN s = 1 .. Len(s) /\ \A i \in 1 .. Len(s) : s[i] \in A
  BY LenProperties
<1>2. s # <<>> => Len(s) # 0
  BY EmptySeq
<1>3. Len(<<>>) = 0
  BY EmptySeq
<1> QED
  BY <1>1, <1>2, <1>3

\* Every amount has a bucket.
LEMMA BucketIsOne ==
    ASSUME NEW v
    PROVE  Bucket(v) \in Buckets
BY DEF Bucket, Buckets

\* One more payment counts in its bucket and no other.
LEMMA BucketsAppend ==
    ASSUME NEW s \in Seq(Tx), NEW x \in Tx, NEW b \in Buckets
    PROVE  /\ IsFiniteSet(InBucket(s, b)) /\ Cardinality(InBucket(s, b)) \in Nat
           /\ Cardinality(InBucket(Append(s, x), b)) =
                Cardinality(InBucket(s, b)) + (IF Bucket(x.amount) = b THEN 1 ELSE 0)
<1> DEFINE n == Len(s)
           h == Append(s, x)
           I == InBucket(s, b)
           J == InBucket(h, b)
<1>1. n \in Nat /\ DOMAIN s = 1 .. n
  BY LenProperties
<1>2. h \in Seq(Tx) /\ Len(h) = n + 1 /\ h[n + 1] = x /\ \A i \in 1 .. n : h[i] = s[i]
  BY AppendProperties
<1>3. DOMAIN h = 1 .. (n + 1)
  BY <1>2, LenProperties
<1>4. I \in SUBSET (1 .. n) /\ n + 1 \notin I
  BY <1>1 DEF InBucket
<1>5. IsFiniteSet(I) /\ Cardinality(I) \in Nat
  BY <1>1, <1>4, FirstNumbers, FS_Subset, FS_CardinalityType
<1> HIDE DEF n, h
<1>6. \A i : i \in 1 .. (n + 1) <=> i \in 1 .. n \/ i = n + 1
  BY <1>1
<1>7. J = IF Bucket(x.amount) = b THEN I \cup {n + 1} ELSE I
  <2>1. \A i : i \in J <=> i \in 1 .. (n + 1) /\ Bucket(h[i].amount) = b
    BY <1>3 DEF InBucket
  <2>2. \A i : i \in I <=> i \in 1 .. n /\ Bucket(s[i].amount) = b
    BY <1>1 DEF InBucket
  <2> HIDE DEF I, J
  <2>3. \A i : i \in J <=> i \in I \/ (i = n + 1 /\ Bucket(x.amount) = b)
    BY <2>1, <2>2, <1>2, <1>6, Zenon
  <2> QED
    BY <2>3
<1> HIDE DEF I, J
<1>8. Cardinality(I \cup {n + 1}) = Cardinality(I) + 1
  BY <1>4, <1>5, FS_AddElement
<1>9. Cardinality(J) = Cardinality(I) + (IF Bucket(x.amount) = b THEN 1 ELSE 0)
  BY <1>5, <1>7, <1>8
<1> QED
  BY <1>5, <1>9 DEF I, J, h

\* There are payments.
LEMMA SomeTx ==
    \E x \in Tx : TRUE
<1>1. [time |-> 0, amount |-> 0, index |-> 0] \in Tx
  BY DEF Tx
<1> QED
  BY <1>1

\* The statistics of a list have their types.
LEMMA StatOfType ==
    ASSUME NEW s \in Seq(Tx)
    PROVE  StatOf(s) \in Stat
<1> DEFINE n == Len(s)
<1>1. n \in Nat /\ (s = <<>> <=> n = 0) /\ \A i \in 1 .. n : s[i] \in Tx
  BY EmptyOrNot
<1>2. \A y \in Tx : y.amount \in Int /\ y.time \in Int
  BY DEF Tx
<1>3. SumAmounts(s) \in Int
  <2>1. PICK x \in Tx : TRUE
    BY SomeTx
  <2> QED
    BY <1>2, SumAmountsAppend
<1>4. Gaps(s) \in Seq(Int)
  <2> DEFINE m == IF n = 0 THEN 0 ELSE n - 1
  <2>1. m \in Nat /\ 1 .. (n - 1) = 1 .. m
    BY <1>1
  <2>2. \A i \in 1 .. m : s[i + 1].time - s[i].time \in Int
    <3> SUFFICES ASSUME NEW i \in 1 .. m PROVE s[i + 1].time - s[i].time \in Int
      OBVIOUS
    <3>1. i \in 1 .. n /\ i + 1 \in 1 .. n
      BY <1>1
    <3>2. s[i].time \in Int /\ s[i + 1].time \in Int
      BY <3>1, <1>1, <1>2
    <3> QED
      BY <3>2
  <2> HIDE DEF m
  <2>3. Gaps(s) \in [1 .. m -> Int]
    BY <2>1, <2>2 DEF Gaps, n
  <2> QED
    BY <2>1, <2>3, SeqDef
<1>5. [b \in Buckets |-> Cardinality(InBucket(s, b))] \in [Buckets -> Nat]
  <2>1. PICK x \in Tx : TRUE
    BY SomeTx
  <2>2. \A b \in Buckets : Cardinality(InBucket(s, b)) \in Nat
    BY BucketsAppend
  <2> QED
    BY <2>2
<1>6. /\ (IF s = <<>> THEN 0 ELSE s[1].time) \in Int
      /\ (IF s = <<>> THEN 0 ELSE s[Len(s)].time) \in Int
  <2>1. s # <<>> => 1 \in 1 .. n /\ n \in 1 .. n
    BY <1>1
  <2> QED
    BY <2>1, <1>1, <1>2
<1> QED
  BY <1>1, <1>3, <1>4, <1>5, <1>6 DEF StatOf, Stat

\* One more payment, not in the list before, adds the time since the last.
LEMMA GapsAppend ==
    ASSUME NEW s \in Seq(Tx), NEW x \in Tx
    PROVE  Gaps(Append(s, x)) =
               IF s = <<>> THEN <<>> ELSE Append(Gaps(s), x.time - s[Len(s)].time)
<1> DEFINE n == Len(s)
           h == Append(s, x)
<1>1. n \in Nat /\ (s = <<>> <=> n = 0) /\ \A i \in 1 .. n : s[i] \in Tx
  BY EmptyOrNot
<1>2. h \in Seq(Tx) /\ Len(h) = n + 1 /\ h[n + 1] = x /\ \A i \in 1 .. n : h[i] = s[i]
  BY AppendProperties
<1>3. Gaps(h) \in Seq(Int) /\ Gaps(s) \in Seq(Int)
  BY <1>2, StatOfType DEF StatOf, Stat
<1>4. \A y \in Tx : y.time \in Int
  BY DEF Tx
<1>5. Gaps(h) = [i \in 1 .. n |-> h[i + 1].time - h[i].time]
  <2>1. Len(h) - 1 = n
    BY <1>1, <1>2
  <2> QED
    BY <2>1 DEF Gaps
<1>6. Gaps(s) = [i \in 1 .. (n - 1) |-> s[i + 1].time - s[i].time]
  BY DEF Gaps
<1> HIDE DEF n, h
<1>7. Len(Gaps(h)) = n
  <2>1. DOMAIN Gaps(h) = 1 .. n
    BY <1>5
  <2> QED
    BY <1>1, <1>3, <2>1, LenProperties, SameInterval
<1>8. CASE n = 0
  <2>1. Gaps(h) = <<>>
    BY <1>3, <1>7, <1>8, EmptyOrNot
  <2> QED
    BY <2>1, <1>1, <1>8 DEF h
<1>9. CASE n # 0
  <2> DEFINE d == x.time - s[n].time
             m == n - 1
             g == Append(Gaps(s), d)
  <2>1. m \in Nat /\ m + 1 = n /\ n \in 1 .. n
    BY <1>1, <1>9
  <2>2. d \in Int
    BY <2>1, <1>1, <1>4
  <2>3. DOMAIN Gaps(s) = 1 .. m
    BY <1>6
  <2> HIDE DEF m, d
  <2>4. Len(Gaps(s)) = m
    BY <1>3, <2>1, <2>3, LenProperties, SameInterval
  <2>5. /\ g \in Seq(Int) /\ Len(g) = n /\ g[n] = d
        /\ \A i \in 1 .. m : g[i] = Gaps(s)[i]
    BY <1>3, <2>1, <2>2, <2>4, AppendProperties
  <2> HIDE DEF g
  <2>6. \A i \in 1 .. n : Gaps(h)[i] = g[i]
    <3> SUFFICES ASSUME NEW i \in 1 .. n PROVE Gaps(h)[i] = g[i]
      OBVIOUS
    <3>1. Gaps(h)[i] = h[i + 1].time - h[i].time
      BY <1>5
    <3>2. CASE i = n
      BY <3>1, <3>2, <1>2, <2>5 DEF d
    <3>3. CASE i # n
      <4>1. i \in 1 .. m /\ i + 1 \in 1 .. n /\ m = n - 1
        BY <3>3, <1>1, <2>1
      <4>2. Gaps(s)[i] = s[i + 1].time - s[i].time
        BY <4>1, <1>6
      <4> QED
        BY <3>1, <4>1, <4>2, <1>2, <2>5
    <3> QED
      BY <3>2, <3>3
  <2>7. Gaps(h) = g
    BY <1>3, <1>7, <2>5, <2>6, SeqEqual
  <2> QED
    BY <2>7, <1>1, <1>9 DEF g, d, h, n
<1> QED
  BY <1>8, <1>9

\* The increment is right: what _update_stat_with_tx makes of the statistics of
\* a list are the statistics of the longer list.
LEMMA StatGrows ==
    ASSUME NEW s \in Seq(Tx), NEW x \in Tx
    PROVE  UpdateStatWithTx(StatOf(s), x) = StatOf(Append(s, x))
<1> DEFINE n == Len(s)
           h == Append(s, x)
<1>1. n \in Nat /\ (s = <<>> <=> n = 0)
  BY EmptyOrNot
<1>2. /\ h \in Seq(Tx) /\ Len(h) = n + 1 /\ h[n + 1] = x /\ h # <<>>
      /\ \A i \in 1 .. n : h[i] = s[i]
  BY AppendProperties
<1>3. SumAmounts(h) = SumAmounts(s) + x.amount
  <2>1. \A y \in Tx : y.amount \in Int
    BY DEF Tx
  <2> QED
    BY <2>1, SumAmountsAppend
<1>4. Gaps(h) = IF n = 0 THEN <<>> ELSE Append(Gaps(s), x.time - s[Len(s)].time)
  BY <1>1, GapsAppend
<1>5. [b \in Buckets |-> Cardinality(InBucket(h, b))] =
        [[b \in Buckets |-> Cardinality(InBucket(s, b))] EXCEPT ![Bucket(x.amount)] = @ + 1]
  <2> DEFINE c == [b \in Buckets |-> Cardinality(InBucket(s, b))]
             e == [b \in Buckets |-> Cardinality(InBucket(h, b))]
  <2>1. \A b \in Buckets : e[b] = c[b] + (IF Bucket(x.amount) = b THEN 1 ELSE 0)
    BY BucketsAppend
  <2>2. c \in [Buckets -> Nat]
    BY BucketsAppend
  <2>3. e = [b \in Buckets |-> e[b]]
    OBVIOUS
  <2>4. Bucket(x.amount) \in Buckets
    BY BucketIsOne
  <2> HIDE DEF c, e
  <2> DEFINE k == Bucket(x.amount)
             d == [c EXCEPT ![k] = @ + 1]
  <2>5. /\ d = [b \in Buckets |-> d[b]]
        /\ \A b \in Buckets : d[b] = IF b = k THEN c[b] + 1 ELSE c[b]
    BY <2>2
  <2>6. \A b \in Buckets : e[b] = IF b = k THEN c[b] + 1 ELSE c[b]
    BY <2>1, <2>2
  <2> HIDE DEF d
  <2>7. e = d
    BY <2>3, <2>5, <2>6
  <2> QED
    BY <2>7 DEF c, d, e
<1>6. h[1].time = IF n = 0 THEN x.time ELSE s[1].time
  <2>1. CASE n = 0
    BY <2>1, <1>2
  <2>2. CASE n # 0
    <3>1. 1 \in 1 .. n
      BY <2>2, <1>1
    <3> QED
      BY <3>1, <2>2, <1>2
  <2> QED
    BY <2>1, <2>2
<1>7. h[Len(h)].time = x.time
  BY <1>2
<1> DEFINE q == StatOf(s)
<1>8. /\ q.count = n /\ q.sum = SumAmounts(s)
      /\ q.first_ts = (IF s = <<>> THEN 0 ELSE s[1].time)
      /\ q.last_ts = (IF s = <<>> THEN 0 ELSE s[n].time)
      /\ q.intervals = Gaps(s)
      /\ q.amount_counts = [b \in Buckets |-> Cardinality(InBucket(s, b))]
  BY DEF StatOf
<1>9. StatOf(h) =
        [count |-> n + 1, sum |-> SumAmounts(h), first_ts |-> h[1].time,
         last_ts |-> x.time, intervals |-> Gaps(h),
         amount_counts |-> [b \in Buckets |-> Cardinality(InBucket(h, b))]]
  BY <1>2, <1>7 DEF StatOf
<1> DEFINE co == q.count + 1
           su == q.sum + x.amount
           fi == IF q.count = 0 THEN x.time ELSE q.first_ts
           iv == IF q.count = 0 THEN <<>> ELSE Append(q.intervals, x.time - q.last_ts)
           ac == [q.amount_counts EXCEPT ![Bucket(x.amount)] = @ + 1]
<1>10. UpdateStatWithTx(q, x) =
        [count |-> co, sum |-> su, first_ts |-> fi,
         last_ts |-> x.time, intervals |-> iv, amount_counts |-> ac]
  BY DEF UpdateStatWithTx
<1> HIDE DEF q
<1>11. co = n + 1 /\ su = SumAmounts(h)
  BY <1>8, <1>3
<1>12. fi = h[1].time
  BY <1>8, <1>6, <1>1
<1>13. iv = Gaps(h)
  BY <1>8, <1>4, <1>1 DEF n
<1>14. ac = [b \in Buckets |-> Cardinality(InBucket(h, b))]
  BY <1>8, <1>5
<1> HIDE DEF co, su, fi, iv, ac, h, n
<1>15. UpdateStatWithTx(q, x) = StatOf(h)
  BY <1>9, <1>10, <1>11, <1>12, <1>13, <1>14
<1> QED
  BY <1>15 DEF q, h
\* The statistics keep their types.
LEMMA UpdateStatType ==
    ASSUME NEW q \in Stat, NEW x \in Tx
    PROVE  UpdateStatWithTx(q, x) \in Stat
<1>1. /\ q.count \in Nat /\ q.sum \in Int /\ q.first_ts \in Int /\ q.last_ts \in Int
      /\ q.intervals \in Seq(Int) /\ q.amount_counts \in [Buckets -> Nat]
  BY DEF Stat
<1>2. x.time \in Int /\ x.amount \in Int
  BY DEF Tx
<1> DEFINE co == q.count + 1
           su == q.sum + x.amount
           fi == IF q.count = 0 THEN x.time ELSE q.first_ts
           iv == IF q.count = 0 THEN <<>> ELSE Append(q.intervals, x.time - q.last_ts)
           ac == [q.amount_counts EXCEPT ![Bucket(x.amount)] = @ + 1]
<1>3. UpdateStatWithTx(q, x) =
        [count |-> co, sum |-> su, first_ts |-> fi,
         last_ts |-> x.time, intervals |-> iv, amount_counts |-> ac]
  BY DEF UpdateStatWithTx
<1>4. co \in Nat /\ su \in Int /\ fi \in Int
  BY <1>1, <1>2
<1>5. iv \in Seq(Int)
  <2>1. <<>> \in Seq(Int)
    BY EmptySeq
  <2>2. x.time - q.last_ts \in Int
    BY <1>1, <1>2
  <2> QED
    BY <2>1, <2>2, <1>1, AppendProperties
<1>6. ac \in [Buckets -> Nat]
  <2> DEFINE c == q.amount_counts
             k == Bucket(x.amount)
  <2>1. c \in [Buckets -> Nat] /\ k \in Buckets
    BY <1>1, BucketIsOne
  <2> HIDE DEF c, k
  <2>2. [c EXCEPT ![k] = @ + 1] \in [Buckets -> Nat]
    BY <2>1
  <2> QED
    BY <2>2 DEF c, k
<1> HIDE DEF co, su, fi, iv, ac
<1> QED
  BY <1>2, <1>3, <1>4, <1>5, <1>6 DEF Stat

\* The statistics of the empty list.
LEMMA EmptyStatIs ==
    StatOf(<<>>) = EmptyStat
<1>1. <<>> \in Seq(Tx) /\ Len(<<>>) = 0 /\ DOMAIN <<>> = {}
  BY EmptySeq, EmptyOrNot
<1>2. SumAmounts(<<>>) = 0
  <2> DEFINE f == [i \in DOMAIN <<>> |-> <<>>[i].amount]
  <2>1. f \in [{} -> Int] /\ IsFiniteSet({})
    BY <1>1, FS_EmptySet
  <2>2. \A i \in {} : f[i] = 0
    OBVIOUS
  <2> HIDE DEF f
  <2>3. SumFunction(f) = 0
    BY <2>1, <2>2, SumZero
  <2> QED
    BY <2>3 DEF f, SumAmounts
<1>3. Gaps(<<>>) = <<>>
  <2>1. Gaps(<<>>) \in Seq(Int)
    BY <1>1, StatOfType DEF StatOf, Stat
  <2>2. 1 .. Len(<<>>) - 1 = {}
    BY <1>1
  <2>3. DOMAIN Gaps(<<>>) = {}
    BY <2>2 DEF Gaps
  <2> QED
    BY <2>1, <2>3, EmptyOrNot
<1>4. [b \in Buckets |-> Cardinality(InBucket(<<>>, b))] = [b \in Buckets |-> 0]
  <2>1. \A b \in Buckets : InBucket(<<>>, b) = {}
    BY <1>1 DEF InBucket
  <2> QED
    BY <2>1, FS_EmptySet
<1> QED
  BY <1>1, <1>2, <1>3, <1>4 DEF StatOf, EmptyStat

\* A prefix of a list with its next element is the next prefix.
LEMMA NextPrefix ==
    ASSUME NEW A, NEW s \in Seq(A), NEW n \in Nat, n + 1 <= Len(s)
    PROVE  /\ SubSeq(s, 1, n) \in Seq(A) /\ Len(SubSeq(s, 1, n)) = n /\ s[n + 1] \in A
           /\ SubSeq(s, 1, n + 1) = Append(SubSeq(s, 1, n), s[n + 1])
<1>1. Len(s) \in Nat /\ \A i \in 1 .. Len(s) : s[i] \in A
  BY EmptyOrNot
<1>2. \A i \in 1 .. n : s[i] \in A
  BY <1>1
<1>3. SubSeq(s, 1, n) \in Seq(A) /\ Len(SubSeq(s, 1, n)) = n
  <2>1. 1 \in Int /\ n \in Int /\ (IF 1 <= n THEN n - 1 + 1 ELSE 0) = n
    OBVIOUS
  <2> QED
    BY <1>2, <2>1, SubSeqProperties
<1>4. n + 1 \in 1 .. Len(s) /\ s[n + 1] \in A
  BY <1>1
<1>5. SubSeq(s, 1, n + 1) = SubSeq(s, 1, n) \o <<s[n + 1]>>
  <2>1. 1 \in 1 .. Len(s) /\ n + 1 \in 1 .. Len(s) /\ (n + 1) - 1 = n
    BY <1>1
  <2> QED
    BY <2>1, SubSeqRecursiveSecond
<1> QED
  BY <1>3, <1>4, <1>5, AppendIsConcat

\* One round of the loop of init_features.
FeatureStep(s, g, n) == IF n = 0 THEN EmptyStat ELSE UpdateStatWithTx(g[n - 1], s[n])

\* init_features computes the statistics of the sorted list.
LEMMA FeaturesAreRight ==
    ASSUME NEW s \in Seq(Tx)
    PROVE  Features(s) = StatOf(s)
<1> DEFINE m == Len(s)
           Iter(g) == g = [n \in 0 .. m |-> FeatureStep(s, g, n)]
           it == CHOOSE g : Iter(g)
<1>1. m \in Nat /\ \A i \in 1 .. m : s[i] \in Tx
  BY EmptyOrNot
<1>2. \E g : Iter(g)
  <2> DEFINE step == [n \in 1 .. m |-> [q \in Stat |-> UpdateStatWithTx(q, s[n])]]
  <2>1. step \in [1 .. m -> [Stat -> Stat]]
    BY <1>1, UpdateStatType
  <2>2. EmptyStat \in Stat
    <3>1. <<>> \in Seq(Tx)
      BY EmptySeq
    <3> QED
      BY <3>1, EmptyStatIs, StatOfType
  <2>3. \A n \in 1 .. m : \A q \in Stat : step[n][q] = UpdateStatWithTx(q, s[n])
    OBVIOUS
  <2> HIDE DEF m, step
  <2>4. PICK g : /\ g \in [0 .. m -> Stat]
                 /\ g[0] = EmptyStat
                 /\ \A n \in 1 .. m : g[n] = step[n][g[n - 1]]
    <3>1. m \in Nat
      BY <1>1
    <3> HIDE DEF Iter, it
    <3> QED
      BY <3>1, <2>1, <2>2, Iteration
  <2>5. \A n \in 0 .. m : g[n] = FeatureStep(s, g, n)
    <3> SUFFICES ASSUME NEW n \in 0 .. m PROVE g[n] = FeatureStep(s, g, n)
      OBVIOUS
    <3>1. CASE n = 0
      BY <2>4, <3>1 DEF FeatureStep
    <3>2. CASE n # 0
      <4>1. n \in 1 .. m /\ n - 1 \in 0 .. m
        BY <3>2, <1>1
      <4>2. g[n - 1] \in Stat
        BY <4>1, <2>4
      <4> QED
        BY <2>4, <3>2, <4>1, <4>2, <2>3 DEF FeatureStep
    <3> QED
      BY <3>1, <3>2
  <2>6. g = [n \in 0 .. m |-> g[n]]
    BY <2>4
  <2>7. g = [n \in 0 .. m |-> FeatureStep(s, g, n)]
    BY <2>5, <2>6
  <2> QED
    BY <2>7
<1>3. Iter(it)
  BY <1>2
<1>4. Features(s) = it[m]
  BY Zenon DEF Features, FeatureStep
<1> HIDE DEF it
<1>5. \A n \in 0 .. m : it[n] = FeatureStep(s, it, n)
  BY <1>3
<1> HIDE DEF m
<1> DEFINE D == {n \in Nat : n <= m => it[n] = StatOf(SubSeq(s, 1, n))}
<1>6. 0 \in D
  <2>1. it[0] = EmptyStat
    BY <1>1, <1>5 DEF FeatureStep
  <2>2. SubSeq(s, 1, 0) = <<>>
    BY SubSeqEmpty
  <2> QED
    BY <2>1, <2>2, EmptyStatIs
<1>7. ASSUME NEW n \in Nat, n \in D PROVE n + 1 \in D
  <2> SUFFICES ASSUME n + 1 <= m PROVE it[n + 1] = StatOf(SubSeq(s, 1, n + 1))
    OBVIOUS
  <2>1. it[n] = StatOf(SubSeq(s, 1, n))
    BY <1>1, <1>7
  <2>2. n + 1 # 0 /\ (n + 1) - 1 = n /\ n + 1 \in 0 .. m
    BY <1>1
  <2>3. it[n + 1] = UpdateStatWithTx(it[n], s[n + 1])
    BY <1>5, <2>2 DEF FeatureStep
  <2>4. /\ SubSeq(s, 1, n) \in Seq(Tx) /\ s[n + 1] \in Tx
        /\ SubSeq(s, 1, n + 1) = Append(SubSeq(s, 1, n), s[n + 1])
    BY NextPrefix DEF m
  <2> QED
    BY <2>1, <2>3, <2>4, StatGrows
<1>8. D = Nat
  <2>1. D \in SUBSET Nat
    OBVIOUS
  <2> HIDE DEF D
  <2> QED
    BY <1>6, <1>7, <2>1, SetInduction
<1>9. it[m] = StatOf(SubSeq(s, 1, m))
  BY <1>1, <1>8
<1> QED
  BY <1>4, <1>9, SubSeqFull DEF m
-----------------------------------------------------------------------------
(* Sorting.                                                                *)

\* s is in the order of time.
Ascending(s) == \A i, j \in 1 .. Len(s) : i <= j => s[i].time <= s[j].time

\* p numbers the elements of a list of length n in another order.
Reorders(p, n) ==
    /\ p \in [1 .. n -> 1 .. n]
    /\ \A i, j \in 1 .. n : p[i] = p[j] => i = j
    /\ \A z \in 1 .. n : \E i \in 1 .. n : p[i] = z

\* s has the elements of t in another order.
Permuted(s, t) ==
    /\ Len(s) = Len(t)
    /\ \E p : Reorders(p, Len(t)) /\ \A i \in 1 .. Len(t) : s[i] = t[p[i]]

\* The number of payments that stay before x.
Place(s, x) == Max({0} \cup {i \in DOMAIN s : s[i].time <= x.time})

\* All of them, and no others, are not later than x.
LEMMA PlaceIs ==
    ASSUME NEW s \in Seq(Tx), NEW x \in Tx
    PROVE  /\ Place(s, x) \in 0 .. Len(s)
           /\ Place(s, x) # 0 => s[Place(s, x)].time <= x.time
           /\ \A i \in 1 .. Len(s) : s[i].time <= x.time => i <= Place(s, x)
<1> DEFINE n == Len(s)
           I == {i \in DOMAIN s : s[i].time <= x.time}
           S == {0} \cup I
<1>1. n \in Nat /\ DOMAIN s = 1 .. n
  BY LenProperties
<1>2. S \in SUBSET (0 .. n) /\ 0 \in S
  BY <1>1
<1>3. \A i \in S : i # 0 => s[i].time <= x.time
  OBVIOUS
<1>4. \A i \in 1 .. n : s[i].time <= x.time => i \in S
  BY <1>1
<1>5. Place(s, x) = Max(S)
  BY DEF Place
<1> HIDE DEF S, n
<1>6. \E m \in S : \A y \in S : y <= m
  BY <1>1, <1>2, GreatestNat
<1>7. \E m \in S : \A y \in S : m >= y
  BY <1>1, <1>2, <1>6
<1>8. Max(S) \in S /\ \A y \in S : Max(S) >= y
  BY <1>7 DEF Max
<1> DEFINE k == Max(S)
<1>9. k \in S /\ \A y \in S : k >= y
  BY <1>8
<1> HIDE DEF k
<1>10. k \in 0 .. n /\ (k # 0 => s[k].time <= x.time)
       /\ \A i \in 1 .. n : s[i].time <= x.time => i <= k
  BY <1>1, <1>2, <1>3, <1>4, <1>9
<1> QED
  BY <1>5, <1>10 DEF k, n

\* Insertion, element by element.
LEMMA InsertIs ==
    ASSUME NEW s \in Seq(Tx), NEW x \in Tx
    PROVE  /\ Insert(s, x) \in Seq(Tx) /\ Len(Insert(s, x)) = Len(s) + 1
           /\ \A i \in 1 .. Len(s) + 1 :
                Insert(s, x)[i] = IF i <= Place(s, x) THEN s[i]
                                  ELSE IF i = Place(s, x) + 1 THEN x ELSE s[i - 1]
<1> DEFINE n == Len(s)
           m == n + 1
           k == Place(s, x)
           h == Insert(s, x)
<1>1. n \in Nat /\ m \in Nat /\ \A i \in 1 .. n : s[i] \in Tx
  BY EmptyOrNot
<1>2. h = [i \in 1 .. m |-> IF i <= k THEN s[i] ELSE IF i = k + 1 THEN x ELSE s[i - 1]]
  BY DEF Insert, Place
<1>3. k \in 0 .. n
  BY PlaceIs
<1> HIDE DEF k, h
<1>4. \A i \in 1 .. m : (IF i <= k THEN s[i] ELSE IF i = k + 1 THEN x ELSE s[i - 1]) \in Tx
  <2> SUFFICES ASSUME NEW i \in 1 .. m
               PROVE  (IF i <= k THEN s[i] ELSE IF i = k + 1 THEN x ELSE s[i - 1]) \in Tx
    OBVIOUS
  <2>1. CASE i <= k
    BY <2>1, <1>1, <1>3
  <2>2. CASE i = k + 1
    BY <2>2, <1>3
  <2>3. CASE i > k + 1
    <3>1. i - 1 \in 1 .. n
      BY <2>3, <1>1, <1>3
    <3> QED
      BY <2>3, <3>1, <1>1, <1>3
  <2> QED
    BY <2>1, <2>2, <2>3, <1>3
<1>5. h \in [1 .. m -> Tx]
  BY <1>2, <1>4
<1>6. h \in Seq(Tx)
  BY <1>1, <1>5, SeqDef
<1>7. Len(h) = m
  <2>1. DOMAIN h = 1 .. m
    BY <1>5
  <2> QED
    BY <1>1, <1>6, <2>1, LenProperties, SameInterval
<1>8. \A i \in 1 .. m : h[i] = IF i <= k THEN s[i] ELSE IF i = k + 1 THEN x ELSE s[i - 1]
  BY <1>2
<1> QED
  BY <1>6, <1>7, <1>8 DEF h, k, m, n

\* A sorted list stays sorted.
LEMMA InsertAscends ==
    ASSUME NEW s \in Seq(Tx), NEW x \in Tx, Ascending(s)
    PROVE  Ascending(Insert(s, x))
<1> DEFINE n == Len(s)
           k == Place(s, x)
           h == Insert(s, x)
<1>1. n \in Nat /\ \A i \in 1 .. n : s[i] \in Tx
  BY EmptyOrNot
<1>2. /\ k \in 0 .. n /\ (k # 0 => s[k].time <= x.time)
      /\ \A i \in 1 .. n : s[i].time <= x.time => i <= k
  BY PlaceIs
<1>3. /\ Len(h) = n + 1
      /\ \A i \in 1 .. (n + 1) :
           h[i] = IF i <= k THEN s[i] ELSE IF i = k + 1 THEN x ELSE s[i - 1]
  BY InsertIs
<1>4. \A y \in Tx : y.time \in Int
  BY DEF Tx
<1>5. \A i, j \in 1 .. n : i <= j => s[i].time <= s[j].time
  BY DEF Ascending
<1>6. x.time \in Int /\ \A i \in 1 .. n : s[i].time \in Int
  BY <1>1, <1>4
<1> HIDE DEF n, k, h
<1>7. \A i \in 1 .. n : i <= k => s[i].time <= x.time
  <2> SUFFICES ASSUME NEW i \in 1 .. n, i <= k PROVE s[i].time <= x.time
    OBVIOUS
  <2>1. k \in 1 .. n /\ k # 0
    BY <1>1, <1>2
  <2>2. s[i].time <= s[k].time /\ s[k].time <= x.time
    BY <2>1, <1>2, <1>5
  <2> QED
    BY <2>1, <2>2, <1>6
<1>8. \A i \in 1 .. n : i > k => x.time <= s[i].time
  <2> SUFFICES ASSUME NEW i \in 1 .. n, i > k PROVE x.time <= s[i].time
    OBVIOUS
  <2>1. ~ (s[i].time <= x.time)
    BY <1>1, <1>2
  <2> QED
    BY <2>1, <1>6
<1>9. \A i, j \in 1 .. (n + 1) : i <= j => h[i].time <= h[j].time
  <2> SUFFICES ASSUME NEW i \in 1 .. (n + 1), NEW j \in 1 .. (n + 1), i <= j
               PROVE  h[i].time <= h[j].time
    OBVIOUS
  <2>0. /\ h[i] = IF i <= k THEN s[i] ELSE IF i = k + 1 THEN x ELSE s[i - 1]
        /\ h[j] = IF j <= k THEN s[j] ELSE IF j = k + 1 THEN x ELSE s[j - 1]
        /\ i \in Int /\ j \in Int /\ k \in Int
    BY <1>1, <1>2, <1>3
  <2>1. CASE j <= k
    <3>1. i <= k /\ i \in 1 .. n /\ j \in 1 .. n
      BY <2>0, <2>1, <1>1, <1>2
    <3> QED
      BY <2>0, <2>1, <3>1, <1>5
  <2>2. CASE j = k + 1
    <3>1. CASE i <= k
      <4>1. i \in 1 .. n
        BY <3>1, <1>1, <1>2
      <4> QED
        BY <2>0, <2>2, <3>1, <4>1, <1>7
    <3>2. CASE i = k + 1
      BY <2>0, <2>2, <3>2, <1>6
    <3> QED
      BY <2>0, <2>2, <3>1, <3>2
  <2>3. CASE j > k + 1
    <3>1. j - 1 \in 1 .. n /\ j - 1 > k /\ h[j] = s[j - 1]
      BY <2>0, <2>3, <1>1, <1>2
    <3>2. CASE i <= k
      <4>1. i \in 1 .. n /\ h[i] = s[i] /\ i <= j - 1
        BY <2>0, <2>3, <3>2, <1>1, <1>2
      <4> QED
        BY <3>1, <4>1, <1>5
    <3>3. CASE i = k + 1
      <4>1. h[i] = x
        BY <2>0, <3>3
      <4> QED
        BY <3>1, <4>1, <1>8
    <3>4. CASE i > k + 1
      <4>1. i - 1 \in 1 .. n /\ h[i] = s[i - 1] /\ i - 1 <= j - 1
        BY <2>0, <3>4, <1>1, <1>2
      <4> QED
        BY <3>1, <4>1, <1>5
    <3> QED
      BY <2>0, <3>2, <3>3, <3>4
  <2> QED
    BY <2>0, <2>1, <2>2, <2>3
<1> QED
  BY <1>3, <1>9 DEF Ascending, h

\* A payment that is not earlier than any of the list goes to its end.
LEMMA InsertLast ==
    ASSUME NEW s \in Seq(Tx), NEW x \in Tx,
           \A i \in 1 .. Len(s) : s[i].time <= x.time
    PROVE  Insert(s, x) = Append(s, x)
<1> DEFINE n == Len(s)
           k == Place(s, x)
           h == Insert(s, x)
           a == Append(s, x)
<1>1. n \in Nat
  BY EmptyOrNot
<1>2. k \in 0 .. n /\ \A i \in 1 .. n : s[i].time <= x.time => i <= k
  BY PlaceIs
<1>3. /\ h \in Seq(Tx) /\ Len(h) = n + 1
      /\ \A i \in 1 .. (n + 1) :
           h[i] = IF i <= k THEN s[i] ELSE IF i = k + 1 THEN x ELSE s[i - 1]
  BY InsertIs
<1>4. a \in Seq(Tx) /\ Len(a) = n + 1 /\ a[n + 1] = x /\ \A i \in 1 .. n : a[i] = s[i]
  BY AppendProperties
<1>5. k = n
  <2>1. CASE n = 0
    BY <2>1, <1>2
  <2>2. CASE n # 0
    <3>1. n \in 1 .. n
      BY <2>2, <1>1
    <3>2. n <= k
      BY <3>1, <1>2
    <3> QED
      BY <3>2, <1>1, <1>2
  <2> QED
    BY <2>1, <2>2
<1> HIDE DEF n, k, h, a
<1>6. \A i \in 1 .. (n + 1) : h[i] = a[i]
  <2> SUFFICES ASSUME NEW i \in 1 .. (n + 1) PROVE h[i] = a[i]
    OBVIOUS
  <2>1. CASE i = n + 1
    BY <2>1, <1>1, <1>3, <1>4, <1>5
  <2>2. CASE i # n + 1
    <3>1. i \in 1 .. n /\ i <= n
      BY <2>2, <1>1
    <3> QED
      BY <3>1, <1>3, <1>4, <1>5
  <2> QED
    BY <2>1, <2>2
<1>7. h = a
  BY <1>3, <1>4, <1>6, SeqEqual
<1> QED
  BY <1>7 DEF h, a
\* The order in which the elements end up: one more is placed behind k others.
LEMMA ReorderOneMore ==
    ASSUME NEW n \in Nat, NEW k \in 0 .. n, NEW p, Reorders(p, n)
    PROVE  LET r == [i \in 1 .. (n + 1) |-> IF i = k + 1 THEN n + 1
                                            ELSE p[IF i <= k THEN i ELSE i - 1]]
           IN  Reorders(r, n + 1)
<1> DEFINE old(i) == IF i <= k THEN i ELSE i - 1
           r == [i \in 1 .. (n + 1) |-> IF i = k + 1 THEN n + 1 ELSE p[old(i)]]
<1>1. /\ p \in [1 .. n -> 1 .. n]
      /\ \A i, j \in 1 .. n : p[i] = p[j] => i = j
      /\ \A z \in 1 .. n : \E i \in 1 .. n : p[i] = z
  BY DEF Reorders
<1>2. \A i \in 1 .. (n + 1) : i # k + 1 => old(i) \in 1 .. n
  OBVIOUS
<1>5. k + 1 \in 1 .. (n + 1) /\ n + 1 \notin 1 .. n
  OBVIOUS
<1>6. \A i, j \in 1 .. (n + 1) : i # k + 1 /\ j # k + 1 /\ old(i) = old(j) => i = j
  OBVIOUS
<1>7. \A i \in 1 .. n : \E j \in 1 .. (n + 1) : j # k + 1 /\ old(j) = i
  <2> SUFFICES ASSUME NEW i \in 1 .. n PROVE \E j \in 1 .. (n + 1) : j # k + 1 /\ old(j) = i
    OBVIOUS
  <2>1. CASE i <= k
    <3>1. i \in 1 .. (n + 1) /\ i # k + 1 /\ old(i) = i
      BY <2>1
    <3> QED
      BY <3>1
  <2>2. CASE i > k
    <3>1. i + 1 \in 1 .. (n + 1) /\ i + 1 # k + 1 /\ old(i + 1) = i
      BY <2>2
    <3> QED
      BY <3>1
  <2> QED
    BY <2>1, <2>2
<1> HIDE DEF old
<1>3. /\ r[k + 1] = n + 1
      /\ \A i \in 1 .. (n + 1) : i # k + 1 => r[i] = p[old(i)] /\ r[i] \in 1 .. n
  <2>1. \A i \in 1 .. (n + 1) : r[i] = IF i = k + 1 THEN n + 1 ELSE p[old(i)]
    OBVIOUS
  <2> HIDE DEF r
  <2>2. r[k + 1] = n + 1
    BY <2>1, <1>5
  <2>3. ASSUME NEW i \in 1 .. (n + 1), i # k + 1
        PROVE  r[i] = p[old(i)] /\ r[i] \in 1 .. n
    <3>1. r[i] = p[old(i)] /\ old(i) \in 1 .. n
      BY <2>1, <2>3, <1>2
    <3> QED
      BY <3>1, <1>1
  <2> QED
    BY <2>2, <2>3
<1>4. r \in [1 .. (n + 1) -> 1 .. (n + 1)]
  <2>1. \A i \in 1 .. (n + 1) : r[i] \in 1 .. (n + 1)
    <3> SUFFICES ASSUME NEW i \in 1 .. (n + 1) PROVE r[i] \in 1 .. (n + 1)
      OBVIOUS
    <3> HIDE DEF r
    <3>1. CASE i = k + 1
      BY <1>3, <3>1
    <3>2. CASE i # k + 1
      <4>1. r[i] \in 1 .. n
        BY <1>3, <3>2
      <4> QED
        BY <4>1
    <3> QED
      BY <3>1, <3>2
  <2>2. r = [i \in 1 .. (n + 1) |-> r[i]]
    OBVIOUS
  <2> HIDE DEF r
  <2> QED
    BY <2>1, <2>2
<1> HIDE DEF r
<1>8. \A i, j \in 1 .. (n + 1) : r[i] = r[j] => i = j
  <2> SUFFICES ASSUME NEW i \in 1 .. (n + 1), NEW j \in 1 .. (n + 1), r[i] = r[j]
               PROVE  i = j
    OBVIOUS
  <2>1. CASE i = k + 1 \/ j = k + 1
    BY <2>1, <1>3, <1>5
  <2>2. CASE i # k + 1 /\ j # k + 1
    <3>1. p[old(i)] = p[old(j)] /\ old(i) \in 1 .. n /\ old(j) \in 1 .. n
      BY <2>2, <1>2, <1>3
    <3>2. old(i) = old(j)
      BY <3>1, <1>1
    <3> QED
      BY <2>2, <3>2, <1>6
  <2> QED
    BY <2>1, <2>2
<1>9. \A z \in 1 .. (n + 1) : \E i \in 1 .. (n + 1) : r[i] = z
  <2> SUFFICES ASSUME NEW z \in 1 .. (n + 1) PROVE \E i \in 1 .. (n + 1) : r[i] = z
    OBVIOUS
  <2>1. CASE z = n + 1
    BY <2>1, <1>3, <1>5
  <2>2. CASE z # n + 1
    <3>1. z \in 1 .. n
      BY <2>2
    <3>2. PICK i \in 1 .. n : p[i] = z
      BY <3>1, <1>1
    <3>3. PICK j \in 1 .. (n + 1) : j # k + 1 /\ old(j) = i
      BY <1>7
    <3>4. r[j] = z
      BY <3>2, <3>3, <1>3
    <3> QED
      BY <3>4
  <2> QED
    BY <2>1, <2>2
<1>10. Reorders(r, n + 1)
  BY <1>4, <1>8, <1>9 DEF Reorders
<1> QED
  BY <1>10 DEF r, old

\* Insertion into a list that has the elements of t.
LEMMA PermutedInsert ==
    ASSUME NEW s \in Seq(Tx), NEW t \in Seq(Tx), NEW x \in Tx, Permuted(s, t)
    PROVE  Permuted(Insert(s, x), Append(t, x))
<1> DEFINE n == Len(t)
           k == Place(s, x)
           h == Insert(s, x)
           a == Append(t, x)
<1>1. n \in Nat /\ Len(s) = n
  BY EmptyOrNot DEF Permuted
<1>2. PICK p : Reorders(p, n) /\ \A i \in 1 .. n : s[i] = t[p[i]]
  BY DEF Permuted
<1>3. k \in 0 .. n
  BY <1>1, PlaceIs
<1>4. /\ Len(h) = n + 1
      /\ \A i \in 1 .. (n + 1) :
           h[i] = IF i <= k THEN s[i] ELSE IF i = k + 1 THEN x ELSE s[i - 1]
  BY <1>1, InsertIs
<1>5. Len(a) = n + 1 /\ a[n + 1] = x /\ \A i \in 1 .. n : a[i] = t[i]
  BY AppendProperties
<1> DEFINE r == [i \in 1 .. (n + 1) |-> IF i = k + 1 THEN n + 1
                                        ELSE p[IF i <= k THEN i ELSE i - 1]]
<1>6. \A i \in 1 .. (n + 1) :
         r[i] = IF i = k + 1 THEN n + 1 ELSE p[IF i <= k THEN i ELSE i - 1]
  OBVIOUS
<1> HIDE DEF n, k, h, a
<1>7. Reorders(r, n + 1)
  BY <1>1, <1>2, <1>3, ReorderOneMore
<1> HIDE DEF r
<1>8. p \in [1 .. n -> 1 .. n]
  BY <1>2 DEF Reorders
<1>9. \A i \in 1 .. (n + 1) : h[i] = a[r[i]]
  <2> SUFFICES ASSUME NEW i \in 1 .. (n + 1) PROVE h[i] = a[r[i]]
    OBVIOUS
  <2>1. CASE i = k + 1
    BY <2>1, <1>3, <1>4, <1>5, <1>6
  <2>2. CASE i # k + 1
    <3> DEFINE j == IF i <= k THEN i ELSE i - 1
    <3>1. j \in 1 .. n
      BY <2>2, <1>1, <1>3
    <3>2. r[i] = p[j] /\ h[i] = s[j]
      BY <2>2, <1>3, <1>4, <1>6
    <3> HIDE DEF j
    <3>3. p[j] \in 1 .. n /\ s[j] = t[p[j]]
      BY <3>1, <1>2, <1>8
    <3> QED
      BY <3>2, <3>3, <1>5
  <2> QED
    BY <2>1, <2>2
<1>10. Permuted(h, a)
  BY <1>4, <1>5, <1>7, <1>9 DEF Permuted
<1> QED
  BY <1>10 DEF h, a

\* One round of the insertion sort.
SortStep(txs, g, n) == IF n = 0 THEN <<>> ELSE Insert(g[n - 1], txs[n])

\* g holds the list after each round.
IsSort(g, txs) ==
    /\ g \in [0 .. Len(txs) -> Seq(Tx)]
    /\ \A n \in 0 .. Len(txs) : g[n] = SortStep(txs, g, n)

\* ByTime is the last of them.
LEMMA ByTimeIsSort ==
    ASSUME NEW txs \in Seq(Tx)
    PROVE  \E g : IsSort(g, txs) /\ ByTime(txs) = g[Len(txs)]
<1> DEFINE m == Len(txs)
           Iter(g) == g = [n \in 0 .. m |-> SortStep(txs, g, n)]
           it == CHOOSE g : Iter(g)
           step == [n \in 1 .. m |-> [s \in Seq(Tx) |-> Insert(s, txs[n])]]
<1>1. m \in Nat /\ \A i \in 1 .. m : txs[i] \in Tx
  BY EmptyOrNot
<1>2. step \in [1 .. m -> [Seq(Tx) -> Seq(Tx)]]
  BY <1>1, InsertIs
<1>3. \A n \in 1 .. m : \A s \in Seq(Tx) : step[n][s] = Insert(s, txs[n])
  OBVIOUS
<1> HIDE DEF m, step
<1>4. PICK g : /\ g \in [0 .. m -> Seq(Tx)]
               /\ g[0] = <<>>
               /\ \A n \in 1 .. m : g[n] = step[n][g[n - 1]]
  <2>1. m \in Nat /\ <<>> \in Seq(Tx)
    BY <1>1, EmptySeq
  <2> DEFINE X == Seq(Tx)
             e == <<>>
  <2>2. m \in Nat /\ e \in X /\ step \in [1 .. m -> [X -> X]]
    BY <2>1, <1>2
  <2> HIDE DEF Iter, it, X, e
  <2>3. \E g : /\ g \in [0 .. m -> X]
               /\ g[0] = e
               /\ \A n \in 1 .. m : g[n] = step[n][g[n - 1]]
    BY <2>2, Iteration
  <2> QED
    BY <2>3 DEF X, e
<1>5. \A n \in 0 .. m : g[n] = SortStep(txs, g, n)
  <2> SUFFICES ASSUME NEW n \in 0 .. m PROVE g[n] = SortStep(txs, g, n)
    OBVIOUS
  <2>1. CASE n = 0
    BY <1>4, <2>1 DEF SortStep
  <2>2. CASE n # 0
    <3>1. n \in 1 .. m /\ n - 1 \in 0 .. m
      BY <2>2, <1>1
    <3>2. g[n - 1] \in Seq(Tx)
      BY <3>1, <1>4
    <3> QED
      BY <1>3, <1>4, <2>2, <3>1, <3>2 DEF SortStep
  <2> QED
    BY <2>1, <2>2
<1>6. g = [n \in 0 .. m |-> g[n]]
  BY <1>4
<1>7. Iter(g)
  BY <1>5, <1>6
<1>8. Iter(it)
  BY <1>7
<1>9. ByTime(txs) = it[m]
  BY Zenon DEF ByTime, SortStep, m
<1> HIDE DEF it
<1>10. DOMAIN it = 0 .. m /\ \A n \in 0 .. m : it[n] = SortStep(txs, it, n)
  BY <1>8
<1>11. \A n \in 0 .. m : it[n] = g[n]
  <2> DEFINE D == {n \in Nat : n <= m => it[n] = g[n]}
  <2>1. 0 \in D
    BY <1>1, <1>5, <1>10 DEF SortStep
  <2>2. ASSUME NEW n \in Nat, n \in D PROVE n + 1 \in D
    <3> SUFFICES ASSUME n + 1 <= m PROVE it[n + 1] = g[n + 1]
      OBVIOUS
    <3>1. it[n] = g[n] /\ n + 1 \in 0 .. m /\ n + 1 # 0 /\ (n + 1) - 1 = n
      BY <1>1, <2>2
    <3> QED
      BY <3>1, <1>5, <1>10 DEF SortStep
  <2>3. D = Nat
    <3>1. D \in SUBSET Nat
      OBVIOUS
    <3> HIDE DEF D
    <3> QED
      BY <2>1, <2>2, <3>1, SetInduction
  <2> QED
    BY <2>3, <1>1
<1>12. m \in 0 .. m
  BY <1>1
<1>13. IsSort(g, txs)
  BY <1>4, <1>5 DEF IsSort, m
<1> QED
  BY <1>9, <1>11, <1>12, <1>13 DEF m
\* sorted() returns the payments it was given, in the order of time.
LEMMA ByTimeSorts ==
    ASSUME NEW txs \in Seq(Tx)
    PROVE  /\ ByTime(txs) \in Seq(Tx) /\ Ascending(ByTime(txs))
           /\ Permuted(ByTime(txs), txs)
<1> DEFINE m == Len(txs)
           Pre(n) == SubSeq(txs, 1, n)
<1>1. m \in Nat
  BY EmptyOrNot
<1>2. PICK g : IsSort(g, txs) /\ ByTime(txs) = g[m]
  BY ByTimeIsSort
<1>3. /\ \A n \in 0 .. m : g[n] \in Seq(Tx)
      /\ \A n \in 0 .. m : g[n] = SortStep(txs, g, n)
  BY <1>2 DEF IsSort
<1> DEFINE Sorts(n) == Ascending(g[n]) /\ Permuted(g[n], Pre(n))
           D == {n \in Nat : n <= m => Sorts(n)}
<1>4. 0 \in D
  <2>1. g[0] = <<>>
    BY <1>1, <1>3 DEF SortStep
  <2>2. Pre(0) = <<>>
    BY SubSeqEmpty
  <2>3. Len(<<>>) = 0 /\ 1 .. 0 = {}
    BY EmptySeq
  <2>4. Ascending(<<>>)
    BY <2>3 DEF Ascending
  <2>5. Permuted(<<>>, <<>>)
    <3> DEFINE p == [i \in {} |-> i]
    <3>1. p \in [{} -> {}]
      OBVIOUS
    <3> HIDE DEF p
    <3>2. Reorders(p, 0)
      BY <2>3, <3>1 DEF Reorders
    <3> QED
      BY <2>3, <3>2 DEF Permuted
  <2> HIDE DEF Pre
  <2>6. Sorts(0)
    BY <2>1, <2>2, <2>4, <2>5
  <2> QED
    BY <2>6
<1>5. ASSUME NEW n \in Nat, n \in D PROVE n + 1 \in D
  <2> SUFFICES ASSUME n + 1 <= m PROVE Sorts(n + 1)
    OBVIOUS
  <2>1. Sorts(n) /\ n \in 0 .. m /\ n + 1 \in 0 .. m /\ n + 1 # 0 /\ (n + 1) - 1 = n
    BY <1>1, <1>5
  <2>2. g[n] \in Seq(Tx) /\ g[n + 1] = Insert(g[n], txs[n + 1])
    BY <2>1, <1>3 DEF SortStep
  <2>3. /\ Pre(n) \in Seq(Tx) /\ txs[n + 1] \in Tx
        /\ Pre(n + 1) = Append(Pre(n), txs[n + 1])
    BY NextPrefix
  <2> HIDE DEF Pre
  <2>4. Ascending(g[n + 1])
    BY <2>1, <2>2, <2>3, InsertAscends
  <2>5. Permuted(g[n + 1], Pre(n + 1))
    BY <2>1, <2>2, <2>3, PermutedInsert
  <2> QED
    BY <2>4, <2>5
<1>6. D = Nat
  <2>1. D \in SUBSET Nat
    OBVIOUS
  <2> HIDE DEF D
  <2> QED
    BY <1>4, <1>5, <2>1, SetInduction
<1> HIDE DEF Pre
<1>7. Sorts(m)
  BY <1>1, <1>6
<1>8. Pre(m) = txs
  BY SubSeqFull DEF Pre
<1>9. g[m] \in Seq(Tx)
  BY <1>1, <1>3
<1> QED
  BY <1>2, <1>7, <1>8, <1>9

\* Sorting a longer list inserts its last payment.
LEMMA ByTimeAppend ==
    ASSUME NEW txs \in Seq(Tx), NEW x \in Tx
    PROVE  ByTime(Append(txs, x)) = Insert(ByTime(txs), x)
<1> DEFINE m == Len(txs)
           h == Append(txs, x)
<1>1. m \in Nat
  BY EmptyOrNot
<1>2. h \in Seq(Tx) /\ Len(h) = m + 1 /\ h[m + 1] = x /\ \A i \in 1 .. m : h[i] = txs[i]
  BY AppendProperties
<1>3. PICK g : IsSort(g, txs) /\ ByTime(txs) = g[m]
  BY ByTimeIsSort
<1> HIDE DEF h
<1>4. PICK k : IsSort(k, h) /\ ByTime(h) = k[m + 1]
  BY <1>2, ByTimeIsSort
<1> HIDE DEF m
<1>5. /\ \A n \in 0 .. m : g[n] = SortStep(txs, g, n)
      /\ \A n \in 0 .. (m + 1) : k[n] = SortStep(h, k, n)
  BY <1>2, <1>3, <1>4 DEF IsSort, m
<1> DEFINE D == {n \in Nat : n <= m => g[n] = k[n]}
<1>6. 0 \in D
  BY <1>1, <1>5 DEF SortStep
<1>7. ASSUME NEW n \in Nat, n \in D PROVE n + 1 \in D
  <2> SUFFICES ASSUME n + 1 <= m PROVE g[n + 1] = k[n + 1]
    OBVIOUS
  <2>1. /\ g[n] = k[n] /\ n + 1 \in 0 .. m /\ n + 1 \in 0 .. (m + 1) /\ n + 1 \in 1 .. m
        /\ n + 1 # 0 /\ (n + 1) - 1 = n
    BY <1>1, <1>7
  <2>2. g[n + 1] = Insert(g[n], txs[n + 1]) /\ k[n + 1] = Insert(k[n], h[n + 1])
    BY <2>1, <1>5 DEF SortStep
  <2> QED
    BY <2>1, <2>2, <1>2
<1>8. D = Nat
  <2>1. D \in SUBSET Nat
    OBVIOUS
  <2> HIDE DEF D
  <2> QED
    BY <1>6, <1>7, <2>1, SetInduction
<1>9. g[m] = k[m]
  BY <1>1, <1>8
<1>10. k[m + 1] = Insert(k[m], h[m + 1])
  <2>1. m + 1 \in 0 .. (m + 1) /\ m + 1 # 0 /\ (m + 1) - 1 = m
    BY <1>1
  <2> QED
    BY <2>1, <1>5 DEF SortStep
<1> QED
  BY <1>2, <1>3, <1>4, <1>9, <1>10 DEF h

\* A payment that is not earlier than the others is the last of the sorted list.
LEMMA ByTimeLater ==
    ASSUME NEW txs \in Seq(Tx), NEW x \in Tx,
           \A i \in 1 .. Len(txs) : txs[i].time <= x.time
    PROVE  ByTime(Append(txs, x)) = Append(ByTime(txs), x)
<1> DEFINE s == ByTime(txs)
<1>1. s \in Seq(Tx) /\ Permuted(s, txs)
  BY ByTimeSorts
<1> HIDE DEF s
<1>2. \A i \in 1 .. Len(s) : s[i].time <= x.time
  <2>1. PICK p : Reorders(p, Len(txs)) /\ \A i \in 1 .. Len(txs) : s[i] = txs[p[i]]
    BY <1>1 DEF Permuted
  <2>2. Len(s) = Len(txs) /\ \A i \in 1 .. Len(txs) : p[i] \in 1 .. Len(txs)
    BY <1>1, <2>1 DEF Permuted, Reorders
  <2> QED
    BY <2>1, <2>2
<1>3. ByTime(Append(txs, x)) = Insert(s, x)
  BY ByTimeAppend DEF s
<1> QED
  BY <1>1, <1>2, <1>3, InsertLast DEF s

\* The payments s, numbered by S, are the payments t numbered in another way.
Shuffled(S, s, t, p) ==
    /\ DOMAIN s = S /\ DOMAIN t = S
    /\ \A i \in S : s[i].amount \in Int /\ t[i].amount \in Int
    /\ p \in Bijection(S, S)
    /\ \A i \in S : s[i] = t[p[i]]

\* A sum of amounts does not depend on the order.
LEMMA AmountsReordered ==
    ASSUME NEW S, IsFiniteSet(S), NEW s, NEW t, NEW p, Shuffled(S, s, t, p)
    PROVE  SumAmounts(s) = SumAmounts(t)
<1>0. /\ DOMAIN s = S /\ DOMAIN t = S
      /\ \A i \in S : s[i].amount \in Int /\ t[i].amount \in Int
      /\ p \in Bijection(S, S)
      /\ \A i \in S : s[i] = t[p[i]]
  BY DEF Shuffled
<1> DEFINE f == [i \in S |-> s[i].amount]
           h == [i \in S |-> t[i].amount]
<1>1. f \in [S -> Int] /\ h \in [S -> Int]
  BY <1>0
<1>2. p \in Bijection(S, S) /\ p \in [S -> S]
  BY <1>0 DEF Bijection, Injection
<1>3. \A i \in S : f[i] = h[p[i]]
  BY <1>0, <1>2
<1>4. SumAmounts(s) = SumFunction(f) /\ SumAmounts(t) = SumFunction(h)
  BY <1>0 DEF SumAmounts
<1> HIDE DEF f, h
<1>5. SumFunction(f) = SumFunction(h)
  BY <1>1, <1>2, <1>3, SumRenamed
<1> QED
  BY <1>4, <1>5

\* Sums and counts do not depend on the order.
LEMMA PermutedTotals ==
    ASSUME NEW s \in Seq(Tx), NEW t \in Seq(Tx), Permuted(s, t)
    PROVE  /\ SumAmounts(s) = SumAmounts(t)
           /\ \A b \in Buckets : Cardinality(InBucket(s, b)) = Cardinality(InBucket(t, b))
<1> DEFINE n == Len(t)
           S == 1 .. n
<1>1. /\ n \in Nat /\ Len(s) = n /\ DOMAIN s = S /\ DOMAIN t = S
      /\ \A i \in S : s[i] \in Tx /\ t[i] \in Tx
  BY EmptyOrNot DEF Permuted
<1>2. PICK p : Reorders(p, n) /\ \A i \in 1 .. n : s[i] = t[p[i]]
  BY DEF Permuted
<1>3. /\ p \in [S -> S]
      /\ \A i, j \in S : p[i] = p[j] => i = j
      /\ \A z \in S : \E i \in S : p[i] = z
      /\ \A i \in S : s[i] = t[p[i]]
  BY <1>2 DEF Reorders
<1>4. IsFiniteSet(S)
  BY <1>1, FirstNumbers
<1>5. \A y \in Tx : y.amount \in Int
  BY DEF Tx
<1> HIDE DEF S, n
<1>6. SumAmounts(s) = SumAmounts(t)
  <2>1. p \in Bijection(S, S)
    BY <1>3 DEF Bijection, Injection, Surjection, IsInjective
  <2>2. \A i \in S : s[i].amount \in Int /\ t[i].amount \in Int
    BY <1>1, <1>5
  <2>3. DOMAIN s = S /\ DOMAIN t = S /\ \A i \in S : s[i] = t[p[i]]
    BY <1>1, <1>3
  <2>4. Shuffled(S, s, t, p)
    BY <2>1, <2>2, <2>3 DEF Shuffled
  <2> QED
    BY <2>4, <1>4, AmountsReordered
<1>7. ASSUME NEW b \in Buckets
      PROVE  Cardinality(InBucket(s, b)) = Cardinality(InBucket(t, b))
  <2> DEFINE I == InBucket(s, b)
             J == InBucket(t, b)
             f == [i \in I |-> p[i]]
  <2>1. \A i : i \in I <=> i \in S /\ Bucket(s[i].amount) = b
    BY <1>1 DEF InBucket
  <2>2. \A i : i \in J <=> i \in S /\ Bucket(t[i].amount) = b
    BY <1>1 DEF InBucket
  <2> HIDE DEF I, J
  <2>3. IsFiniteSet(I)
    <3>1. I \in SUBSET S
      BY <2>1
    <3> QED
      BY <3>1, <1>4, FS_Subset
  <2>4. \A i \in I : i \in S /\ p[i] \in J
    BY <2>1, <2>2, <1>3
  <2>5. f \in [I -> J] /\ \A i \in I : f[i] = p[i]
    BY <2>4
  <2>6. \A z \in J : \E i \in I : f[i] = z
    <3> SUFFICES ASSUME NEW z \in J PROVE \E i \in I : f[i] = z
      OBVIOUS
    <3>1. PICK i \in S : p[i] = z
      BY <2>2, <1>3
    <3>2. i \in I
      BY <3>1, <2>1, <2>2, <1>3
    <3> QED
      BY <3>1, <3>2
  <2> HIDE DEF f
  <2>7. \A i, j \in I : f[i] = f[j] => i = j
    BY <2>4, <2>5, <1>3
  <2>8. f \in Bijection(I, J)
    BY <2>5, <2>6, <2>7 DEF Bijection, Injection, Surjection, IsInjective
  <2>9. ExistsBijection(I, J)
    BY <2>8 DEF ExistsBijection
  <2>10. Cardinality(J) = Cardinality(I)
    BY <2>3, <2>9, FS_Bijection
  <2> QED
    BY <2>10 DEF I, J
<1> QED
  BY <1>6, <1>7

\* The statistics recomputed from the stored payments, as StatMatchesHistory has
\* them.
Recomputed(txs) ==
    LET times == {txs[i].time : i \in DOMAIN txs}
        sorted == ByTime(txs)
    IN  [count |-> Len(txs), sum |-> SumAmounts(txs),
         first_ts |-> Min(times), last_ts |-> Max(times),
         intervals |-> [i \in 1 .. Len(txs) - 1 |-> sorted[i + 1].time - sorted[i].time],
         amount_counts |-> [b \in Buckets |->
             Cardinality({i \in DOMAIN txs : Bucket(txs[i].amount) = b})]]

\* The ends of the sorted list are the earliest and the latest time.
LEMMA SortedEnds ==
    ASSUME NEW txs \in Seq(Tx), txs # <<>>
    PROVE  LET times == {txs[i].time : i \in DOMAIN txs}
               s == ByTime(txs)
           IN  s[1].time = Min(times) /\ s[Len(s)].time = Max(times)
<1> DEFINE times == {txs[i].time : i \in DOMAIN txs}
           s == ByTime(txs)
           n == Len(txs)
<1>1. s \in Seq(Tx) /\ Ascending(s) /\ Permuted(s, txs)
  BY ByTimeSorts
<1> HIDE DEF s
<1>2. n \in Nat /\ n # 0 /\ DOMAIN txs = 1 .. n /\ Len(s) = n
      /\ \A i \in 1 .. n : txs[i] \in Tx
  BY <1>1, EmptyOrNot DEF Permuted
<1>3. PICK p : Reorders(p, n) /\ \A i \in 1 .. n : s[i] = txs[p[i]]
  BY <1>1 DEF Permuted
<1>4. times = {s[i].time : i \in 1 .. n}
  <2>1. ASSUME NEW i \in 1 .. n PROVE s[i].time \in times
    <3>1. p[i] \in 1 .. n /\ s[i] = txs[p[i]]
      BY <1>3 DEF Reorders
    <3> QED
      BY <3>1, <1>2
  <2>2. ASSUME NEW j \in 1 .. n PROVE txs[j].time \in {s[i].time : i \in 1 .. n}
    <3>1. PICK i \in 1 .. n : p[i] = j
      BY <1>3 DEF Reorders
    <3>2. s[i] = txs[j]
      BY <3>1, <1>3
    <3> QED
      BY <3>2
  <2> QED
    BY <2>1, <2>2, <1>2
<1>5. \A i, j \in 1 .. n : i <= j => s[i].time <= s[j].time
  BY <1>1, <1>2 DEF Ascending
<1>6. \A i \in 1 .. n : s[i].time \in Int
  <2>1. \A y \in Tx : y.time \in Int
    BY DEF Tx
  <2>2. \A i \in 1 .. n : s[i] \in Tx
    BY <1>1, <1>2, EmptyOrNot
  <2> QED
    BY <2>1, <2>2
<1>7. 1 \in 1 .. n /\ n \in 1 .. n /\ \A i \in 1 .. n : 1 <= i /\ i <= n
  BY <1>2
<1> HIDE DEF n, times
<1>8. /\ s[1].time \in times /\ \A y \in times : s[1].time <= y
      /\ s[n].time \in times /\ \A y \in times : s[n].time >= y
      /\ \A y \in times : y \in Int
  BY <1>4, <1>5, <1>6, <1>7
<1> DEFINE lo == s[1].time
           hi == s[n].time
<1>9. /\ lo \in times /\ (\A y \in times : lo <= y)
      /\ hi \in times /\ (\A y \in times : hi >= y)
  BY <1>8
<1> HIDE DEF lo, hi
<1>10. lo = Min(times)
  <2>1. Min(times) \in times /\ \A y \in times : Min(times) <= y
    BY <1>9 DEF Min
  <2> QED
    BY <2>1, <1>8, <1>9
<1>11. hi = Max(times)
  <2>1. Max(times) \in times /\ \A y \in times : Max(times) >= y
    BY <1>9 DEF Max
  <2> QED
    BY <2>1, <1>8, <1>9
<1> QED
  BY <1>2, <1>10, <1>11 DEF lo, hi, s, times, n

\* A recomputation gives the statistics of the sorted list.
LEMMA RecomputedIs ==
    ASSUME NEW txs \in Seq(Tx), txs # <<>>
    PROVE  StatOf(ByTime(txs)) = Recomputed(txs)
<1> DEFINE times == {txs[i].time : i \in DOMAIN txs}
           s == ByTime(txs)
           lo == Min(times)
           hi == Max(times)
<1>1. s \in Seq(Tx) /\ Permuted(s, txs)
  BY ByTimeSorts
<1>2. s[1].time = lo /\ s[Len(s)].time = hi
  BY SortedEnds
<1>3. Recomputed(txs) =
        [count |-> Len(txs), sum |-> SumAmounts(txs), first_ts |-> lo, last_ts |-> hi,
         intervals |-> [i \in 1 .. Len(txs) - 1 |-> s[i + 1].time - s[i].time],
         amount_counts |-> [b \in Buckets |-> Cardinality(InBucket(txs, b))]]
  BY Zenon DEF Recomputed, InBucket
<1> HIDE DEF s, lo, hi
<1>4. Len(s) = Len(txs) /\ s # <<>>
  <2>1. Len(s) = Len(txs)
    BY <1>1 DEF Permuted
  <2> QED
    BY <2>1, <1>1, EmptyOrNot
<1>5. /\ SumAmounts(s) = SumAmounts(txs)
      /\ \A b \in Buckets : Cardinality(InBucket(s, b)) = Cardinality(InBucket(txs, b))
  BY <1>1, PermutedTotals
<1>6. [b \in Buckets |-> Cardinality(InBucket(s, b))]
        = [b \in Buckets |-> Cardinality(InBucket(txs, b))]
  BY <1>5
<1>7. Gaps(s) = [i \in 1 .. Len(txs) - 1 |-> s[i + 1].time - s[i].time]
  BY <1>4 DEF Gaps
<1>8. StatOf(s) =
        [count |-> Len(s), sum |-> SumAmounts(s), first_ts |-> s[1].time,
         last_ts |-> s[Len(s)].time, intervals |-> Gaps(s),
         amount_counts |-> [b \in Buckets |-> Cardinality(InBucket(s, b))]]
  BY <1>4 DEF StatOf
<1>9. StatOf(s) = Recomputed(txs)
  BY <1>2, <1>3, <1>4, <1>5, <1>6, <1>7, <1>8
<1> QED
  BY <1>9 DEF s

-----------------------------------------------------------------------------
(* The account.                                                            *)

\* The statistics are those of the stored payments, in the order of time.
StatRight(a) ==
    a.stat = IF a.transaction = <<>> THEN NoStat ELSE StatOf(ByTime(a.transaction))

\* HistoriesAgree for any account.
HistoryOK(a) ==
    LET txs == a.transaction
        old == Len(txs) - Len(a.simple)
    IN  /\ old >= 0
        /\ \A i \in DOMAIN txs : txs[i].index = i - 1
        /\ \A i \in DOMAIN a.simple :
            /\ txs[old + i].time = a.simple[i].time
            /\ txs[old + i].amount = a.simple[i].amount

\* No payment is dated after minute t.
UpTo(a, t) == \A i \in 1 .. Len(a.transaction) : a.transaction[i].time <= t

\* What init_features returns has its type.
LEMMA InitFeaturesIs ==
    ASSUME NEW txs \in Seq(Tx)
    PROVE  /\ InitFeatures(txs) = IF txs = <<>> THEN NoStat ELSE StatOf(ByTime(txs))
           /\ InitFeatures(txs) \in Stat \cup {NoStat}
<1>1. ByTime(txs) \in Seq(Tx)
  BY ByTimeSorts
<1>2. Features(ByTime(txs)) = StatOf(ByTime(txs)) /\ StatOf(ByTime(txs)) \in Stat
  BY <1>1, FeaturesAreRight, StatOfType
<1> QED
  BY <1>2 DEF InitFeatures

\* A logged payment.
LEMMA LoggedIs ==
    ASSUME NEW a \in Account, NEW t \in Int, NEW amt \in Int
    PROVE  LET tx == [time |-> t, amount |-> amt, index |-> Len(a.transaction)]
               pay == [time |-> t, amount |-> amt]
               b == LogTransaction(a, t, amt)
           IN  /\ tx \in Tx /\ pay \in Payment
               /\ b \in Account
               /\ b.task = a.task
               /\ b.simple = Append(a.simple, pay)
               /\ b.transaction = Append(a.transaction, tx)
               /\ b.stat = IF a.stat = NoStat THEN InitFeatures(Append(a.transaction, tx))
                           ELSE UpdateStatWithTx(a.stat, tx)
<1> DEFINE tx == [time |-> t, amount |-> amt, index |-> Len(a.transaction)]
           pay == [time |-> t, amount |-> amt]
           b == LogTransaction(a, t, amt)
           s == Append(a.simple, pay)
           l == Append(a.transaction, tx)
           q == IF a.stat = NoStat THEN InitFeatures(l) ELSE UpdateStatWithTx(a.stat, tx)
<1>1. /\ a.task \in Int /\ a.simple \in Seq(Payment) /\ a.transaction \in Seq(Tx)
      /\ a.stat \in Stat \cup {NoStat}
  BY DEF Account
<1>2. Len(a.transaction) \in Nat
  BY <1>1, EmptyOrNot
<1>3. tx \in Tx /\ pay \in Payment
  BY <1>2 DEF Tx, Payment
<1>4. b = [task |-> a.task, simple |-> s, stat |-> q, transaction |-> l]
  BY DEF LogTransaction
<1> HIDE DEF tx, pay, b
<1>5. s \in Seq(Payment) /\ l \in Seq(Tx)
  BY <1>1, <1>3, AppendProperties
<1>6. q \in Stat \cup {NoStat}
  BY <1>1, <1>3, <1>5, InitFeaturesIs, UpdateStatType
<1> HIDE DEF s, l, q
<1>7. b \in Account /\ b.task = a.task /\ b.simple = s /\ b.transaction = l /\ b.stat = q
  BY <1>1, <1>4, <1>5, <1>6 DEF Account
<1> QED
  BY <1>3, <1>7 DEF tx, pay, b, s, l, q
\* A statistic that counts something is one.
LEMMA StatIsThere ==
    ASSUME NEW s \in Seq(Tx), s # <<>>
    PROVE  StatOf(s) # NoStat
<1>1. Len(s) \in Nat /\ Len(s) # 0
  BY EmptyOrNot
<1>2. StatOf(s).count = Len(s)
  BY <1>1 DEF StatOf
<1>3. NoStat.count = 0
  BY DEF NoStat
<1> QED
  BY <1>1, <1>2, <1>3

\* Logging a payment keeps the statistics right: it is dated after the others.
LEMMA LogKeepsStat ==
    ASSUME NEW a \in Account, NEW t \in Int, NEW amt \in Int, UpTo(a, t), StatRight(a)
    PROVE  StatRight(LogTransaction(a, t, amt))
<1> DEFINE tx == [time |-> t, amount |-> amt, index |-> Len(a.transaction)]
           b == LogTransaction(a, t, amt)
           l == a.transaction
<1>1. /\ tx \in Tx /\ b.transaction = Append(l, tx)
      /\ b.stat = IF a.stat = NoStat THEN InitFeatures(Append(l, tx))
                  ELSE UpdateStatWithTx(a.stat, tx)
  BY LoggedIs
<1>2. l \in Seq(Tx)
  BY DEF Account
<1>3. \A i \in 1 .. Len(l) : l[i].time <= tx.time
  BY DEF UpTo
<1>4. a.stat = IF l = <<>> THEN NoStat ELSE StatOf(ByTime(l))
  BY DEF StatRight
<1> HIDE DEF tx, b, l
<1>5. Append(l, tx) \in Seq(Tx) /\ Append(l, tx) # <<>>
  BY <1>1, <1>2, AppendProperties
<1>6. CASE l = <<>>
  <2>1. b.stat = InitFeatures(Append(l, tx))
    BY <1>1, <1>4, <1>6
  <2>2. b.stat = StatOf(ByTime(Append(l, tx)))
    BY <2>1, <1>5, InitFeaturesIs
  <2> QED
    BY <2>2, <1>1, <1>5 DEF StatRight, b
<1>7. CASE l # <<>>
  <2>1. ByTime(l) \in Seq(Tx) /\ Len(ByTime(l)) = Len(l)
    BY <1>2, ByTimeSorts DEF Permuted
  <2>2. ByTime(l) # <<>>
    BY <2>1, <1>2, <1>7, EmptyOrNot
  <2>3. a.stat = StatOf(ByTime(l)) /\ a.stat # NoStat
    BY <2>1, <2>2, <1>4, <1>7, StatIsThere
  <2>4. b.stat = StatOf(Append(ByTime(l), tx))
    BY <2>1, <2>3, <1>1, StatGrows
  <2>5. ByTime(Append(l, tx)) = Append(ByTime(l), tx)
    BY <1>1, <1>2, <1>3, ByTimeLater
  <2> QED
    BY <2>4, <2>5, <1>1, <1>5 DEF StatRight, b
<1> QED
  BY <1>6, <1>7

\* And it keeps the two lists together.
LEMMA LogKeepsHistory ==
    ASSUME NEW a \in Account, NEW t \in Int, NEW amt \in Int, UpTo(a, t), HistoryOK(a)
    PROVE  LET b == LogTransaction(a, t, amt)
           IN  HistoryOK(b) /\ UpTo(b, t)
<1> DEFINE tx == [time |-> t, amount |-> amt, index |-> Len(a.transaction)]
           pay == [time |-> t, amount |-> amt]
           b == LogTransaction(a, t, amt)
           l == a.transaction
           s == a.simple
           n == Len(l)
           k == Len(s)
           L == Append(l, tx)
           S == Append(s, pay)
<1>1. tx \in Tx /\ pay \in Payment /\ b.transaction = L /\ b.simple = S
  BY LoggedIs
<1>2. l \in Seq(Tx) /\ s \in Seq(Payment)
  BY DEF Account
<1>3. n \in Nat /\ DOMAIN l = 1 .. n /\ k \in Nat /\ DOMAIN s = 1 .. k
  BY <1>2, EmptyOrNot
<1>4. tx.time = t /\ tx.amount = amt /\ tx.index = n /\ pay.time = t /\ pay.amount = amt
  OBVIOUS
<1>5. /\ n - k >= 0
      /\ \A i \in 1 .. n : l[i].index = i - 1
      /\ \A i \in 1 .. k : l[n - k + i].time = s[i].time /\ l[n - k + i].amount = s[i].amount
  BY <1>3, Zenon DEF HistoryOK
<1>6. \A i \in 1 .. n : l[i].time <= t
  BY DEF UpTo
<1> HIDE DEF tx, pay, b, l, s, n, k
<1>7. /\ L \in Seq(Tx) /\ Len(L) = n + 1 /\ L[n + 1] = tx /\ \A i \in 1 .. n : L[i] = l[i]
  BY <1>1, <1>2, AppendProperties DEF n
<1>8. /\ S \in Seq(Payment) /\ Len(S) = k + 1 /\ S[k + 1] = pay
      /\ \A i \in 1 .. k : S[i] = s[i]
  BY <1>1, <1>2, AppendProperties DEF k
<1>9. DOMAIN L = 1 .. (n + 1) /\ DOMAIN S = 1 .. (k + 1)
  BY <1>7, <1>8, EmptyOrNot
<1> HIDE DEF L, S
<1>10. ASSUME NEW i \in 1 .. (n + 1) PROVE L[i].index = i - 1 /\ L[i].time <= t
  <2>1. CASE i = n + 1
    BY <2>1, <1>3, <1>4, <1>7
  <2>2. CASE i # n + 1
    <3>1. i \in 1 .. n
      BY <2>2, <1>3
    <3> QED
      BY <3>1, <1>5, <1>6, <1>7
  <2> QED
    BY <2>1, <2>2
<1>11. ASSUME NEW i \in 1 .. (k + 1)
       PROVE  L[n - k + i].time = S[i].time /\ L[n - k + i].amount = S[i].amount
  <2>1. CASE i = k + 1
    <3>1. n - k + i = n + 1
      BY <2>1, <1>3
    <3> QED
      BY <2>1, <3>1, <1>4, <1>7, <1>8
  <2>2. CASE i # k + 1
    <3>1. i \in 1 .. k /\ n - k + i \in 1 .. n
      BY <2>2, <1>3, <1>5
    <3> QED
      BY <3>1, <1>5, <1>7, <1>8
  <2> QED
    BY <2>1, <2>2
<1>12. Len(L) - Len(S) = n - k
  BY <1>3, <1>7, <1>8
<1>13. HistoryOK(b)
  <2>1. \A i \in DOMAIN L : L[i].index = i - 1
    BY <1>9, <1>10
  <2>2. \A i \in DOMAIN S : L[Len(L) - Len(S) + i].time = S[i].time
                          /\ L[Len(L) - Len(S) + i].amount = S[i].amount
    BY <1>9, <1>11, <1>12
  <2>3. Len(L) - Len(S) >= 0
    BY <1>5, <1>12
  <2> QED
    BY <1>1, <2>1, <2>2, <2>3, Zenon DEF HistoryOK
<1>14. UpTo(b, t)
  BY <1>1, <1>7, <1>10 DEF UpTo
<1> QED
  BY <1>13, <1>14 DEF b
-----------------------------------------------------------------------------
(* The task.                                                               *)

MaxDrift == Max(Drift)

\* The largest rounding error bounds them all, on both sides.
LEMMA DriftBounds ==
    MaxDrift \in Nat /\ \A d \in Drift : d \in Int /\ d <= MaxDrift /\ -MaxDrift <= d
<1>1. /\ IsFiniteSet(Drift) /\ 0 \in Drift /\ Drift \in SUBSET Int /\ Drift # {}
      /\ \A d \in Drift : -d \in Drift
  BY UserPlanAssumption
<1>2. \E x \in Drift : \A y \in Drift : x >= y
  BY <1>1, FiniteMaximum
<1>3. MaxDrift \in Drift /\ \A y \in Drift : MaxDrift >= y
  BY <1>2 DEF MaxDrift, Max
<1>4. MaxDrift \in Nat
  BY <1>1, <1>3
<1>5. ASSUME NEW d \in Drift PROVE d \in Int /\ d <= MaxDrift /\ -MaxDrift <= d
  <2>1. d \in Int /\ MaxDrift >= d /\ MaxDrift >= -d
    BY <1>1, <1>3
  <2> QED
    BY <2>1, <1>4
<1> QED
  BY <1>4, <1>5

\* The larger of two numbers.
LEMMA MaxOfTwo ==
    ASSUME NEW x \in Int, NEW y \in Int
    PROVE  Max({x, y}) = IF x >= y THEN x ELSE y
<1> DEFINE S == {x, y}
           m == IF x >= y THEN x ELSE y
<1>1. m \in S /\ m \in Int /\ (\A z \in S : m >= z) /\ S \in SUBSET Int
  OBVIOUS
<1> HIDE DEF m, S
<1>2. Max(S) \in S /\ \A z \in S : Max(S) >= z
  BY <1>1 DEF Max
<1>3. Max(S) = m
  <2>1. Max(S) \in Int /\ Max(S) >= m /\ m >= Max(S)
    BY <1>1, <1>2
  <2> QED
    BY <2>1, <1>1
<1> QED
  BY <1>3 DEF S, m

\* What is left of a task after an amount it covers.
LEMMA SubtractIs ==
    ASSUME NEW task \in Nat, NEW amt \in Nat, amt <= task, NEW r \in Subtract(task, amt)
    PROVE  /\ r \in Nat
           /\ r <= task - amt + MaxDrift
           /\ task - amt - MaxDrift <= r
<1>0. MaxDrift \in Nat
  BY DriftBounds
<1>1. CASE amt >= task
  <2>1. r = task - amt
    BY <1>1 DEF Subtract
  <2> QED
    BY <2>1, <1>1, <1>0
<1>2. CASE ~(amt >= task)
  <2>1. PICK d \in Drift : r = Max({1, task - amt + d})
    BY <1>2 DEF Subtract
  <2>2. d \in Int /\ d <= MaxDrift /\ -MaxDrift <= d
    BY DriftBounds
  <2> DEFINE x == 1
             y == task - amt + d
  <2>3. x \in Int /\ y \in Int
    BY <2>2
  <2> HIDE DEF x, y
  <2>4. Max({x, y}) = IF x >= y THEN x ELSE y
    BY <2>3, MaxOfTwo
  <2>5. r = IF x >= y THEN x ELSE y
    BY <2>1, <2>4 DEF x, y
  <2> QED
    BY <2>5, <2>2, <1>0, <1>2 DEF x, y
<1> QED
  BY <1>1, <1>2

\* A rule-based user pays something, and not more than its task.
LEMMA RuleAmountIs ==
    ASSUME NEW task \in Nat, task # 0, NEW amt \in ALLOWED_AMOUNTS
    PROVE  RuleAmount(task, amt) \in Nat \ {0} /\ RuleAmount(task, amt) <= task
<1> DEFINE possible == {x \in ALLOWED_AMOUNTS : x <= task}
<1>1. \A x \in ALLOWED_AMOUNTS : x \in Nat \ {0}
  BY ConstantFacts
<1>2. CASE amt <= task
  BY <1>1, <1>2 DEF RuleAmount
<1>3. CASE ~(amt <= task) /\ possible = {}
  <2>1. RuleAmount(task, amt) = task
    BY <1>3 DEF RuleAmount
  <2> QED
    BY <2>1
<1>4. CASE ~(amt <= task) /\ possible # {}
  <2>1. RuleAmount(task, amt) = Max(possible)
    BY <1>4 DEF RuleAmount
  <2>2. possible \in SUBSET (0 .. task) /\ \A x \in possible : x \in Nat \ {0} /\ x <= task
    BY <1>1
  <2> HIDE DEF possible
  <2>3. \E x \in possible : \A y \in possible : y <= x
    BY <1>4, <2>2, GreatestNat
  <2>4. \E x \in possible : \A y \in possible : x >= y
    BY <2>3, <2>2
  <2>5. Max(possible) \in possible
    BY <2>4 DEF Max
  <2> QED
    BY <2>1, <2>2, <2>5
<1> QED
  BY <1>2, <1>3, <1>4

\* How far rounding can have moved an account's task.
RoundingOf(a) == Len(a.simple) * MaxDrift

\* It is a natural number, and grows by one error per payment.
LEMMA RoundingGrows ==
    ASSUME NEW k \in Nat
    PROVE  k * MaxDrift \in Nat /\ (k + 1) * MaxDrift = k * MaxDrift + MaxDrift
<1>1. MaxDrift \in Nat
  BY DriftBounds
<1>2. \A x, y \in Nat : x * y \in Nat /\ (x + 1) * y = x * y + y
  OBVIOUS
<1> QED
  BY <1>1, <1>2

\* The lists and the statistics of an account at minute t.
Sound(a, t) == a \in Account /\ HistoryOK(a) /\ UpTo(a, t) /\ StatRight(a)

\* What a logged payment does to them.
LEMMA LogIsSound ==
    ASSUME NEW a, NEW t \in Int, NEW amt \in Int, Sound(a, t)
    PROVE  LET b == LogTransaction(a, t, amt)
           IN  /\ Sound(b, t) /\ b.task = a.task
               /\ Len(b.simple) = Len(a.simple) + 1 /\ Len(a.simple) \in Nat
               /\ SumAmounts(b.simple) = SumAmounts(a.simple) + amt
               /\ SumAmounts(a.simple) \in Int
<1> DEFINE b == LogTransaction(a, t, amt)
           pay == [time |-> t, amount |-> amt]
<1>1. a \in Account /\ HistoryOK(a) /\ UpTo(a, t) /\ StatRight(a)
  BY DEF Sound
<1>2. /\ pay \in Payment /\ b \in Account /\ b.task = a.task
      /\ b.simple = Append(a.simple, pay)
  BY <1>1, LoggedIs
<1>3. HistoryOK(b) /\ UpTo(b, t) /\ StatRight(b)
  BY <1>1, LogKeepsHistory, LogKeepsStat
<1>4. a.simple \in Seq(Payment)
  BY <1>1 DEF Account
<1>5. pay.amount = amt
  OBVIOUS
<1> HIDE DEF pay, b
<1>6. /\ Len(b.simple) = Len(a.simple) + 1 /\ Len(a.simple) \in Nat
  BY <1>2, <1>4, AppendProperties, EmptyOrNot
<1>7. \A y \in Payment : y.amount \in Int
  BY DEF Payment
<1>8. SumAmounts(b.simple) = SumAmounts(a.simple) + amt /\ SumAmounts(a.simple) \in Int
  BY <1>2, <1>4, <1>5, <1>7, SumAmountsAppend
<1>9. Sound(b, t)
  BY <1>2, <1>3 DEF Sound
<1> QED
  BY <1>2, <1>6, <1>8, <1>9 DEF b

\* An account with another task.
LEMMA TaskIsApart ==
    ASSUME NEW a, NEW t, Sound(a, t), NEW r \in Int
    PROVE  LET b == [a EXCEPT !.task = r]
           IN  Sound(b, t) /\ b.task = r /\ b.simple = a.simple
<1> DEFINE b == [a EXCEPT !.task = r]
<1>1. a \in Account /\ HistoryOK(a) /\ UpTo(a, t) /\ StatRight(a)
  BY DEF Sound
<1>2. /\ b \in Account /\ b.task = r /\ b.simple = a.simple
      /\ b.transaction = a.transaction /\ b.stat = a.stat
  BY <1>1 DEF Account
<1> HIDE DEF b
<1>3. HistoryOK(b) /\ UpTo(b, t) /\ StatRight(b)
  BY <1>1, <1>2, Zenon DEF HistoryOK, UpTo, StatRight
<1> QED
  BY <1>2, <1>3 DEF b, Sound

\* A payment of an attack user.
LEMMA PaidIs ==
    ASSUME NEW a, NEW t \in Int, Sound(a, t), a.task \in Nat,
           NEW amt \in Nat, amt <= a.task, NEW b \in Paid(a, t, amt)
    PROVE  /\ Sound(b, t) /\ b.task \in Nat
           /\ b.task <= a.task - amt + MaxDrift /\ a.task - amt - MaxDrift <= b.task
           /\ RoundingOf(b) = RoundingOf(a) + MaxDrift /\ RoundingOf(a) \in Nat
           /\ SumAmounts(b.simple) = SumAmounts(a.simple) + amt
           /\ SumAmounts(a.simple) \in Int
<1> DEFINE c == LogTransaction(a, t, amt)
<1>1. PICK r \in Subtract(a.task, amt) : b = [c EXCEPT !.task = r]
  BY DEF Paid
<1>2. r \in Nat /\ r <= a.task - amt + MaxDrift /\ a.task - amt - MaxDrift <= r
  BY SubtractIs
<1>3. /\ Sound(c, t)
      /\ Len(c.simple) = Len(a.simple) + 1 /\ Len(a.simple) \in Nat
      /\ SumAmounts(c.simple) = SumAmounts(a.simple) + amt
      /\ SumAmounts(a.simple) \in Int
  BY LogIsSound
<1> HIDE DEF c
<1>4. Sound(b, t) /\ b.task = r /\ b.simple = c.simple
  BY <1>1, <1>2, <1>3, TaskIsApart
<1>5. RoundingOf(b) = RoundingOf(a) + MaxDrift /\ RoundingOf(a) \in Nat
  BY <1>3, <1>4, RoundingGrows DEF RoundingOf
<1> QED
  BY <1>2, <1>3, <1>4, <1>5

\* The task and the payments add up, but for rounding.
Conserved(a) ==
    /\ a.task + SumAmounts(a.simple) - Task <= RoundingOf(a)
    /\ -RoundingOf(a) <= a.task + SumAmounts(a.simple) - Task

\* A good account of this user at minute t.
Good(a, t) ==
    /\ Sound(a, t)
    /\ a.task \in Nat
    /\ a.task <= Task + RoundingOf(a)
    /\ kind # "normal" => Conserved(a)

\* The task covers what is left of a plan, but for the tolerance and rounding.
Funded(a, left) == left <= a.task + TOL + RoundingOf(a)

\* What an account is worth has a number.
LEMMA GoodNumbers ==
    ASSUME NEW a, NEW t, Sound(a, t)
    PROVE  RoundingOf(a) \in Nat /\ SumAmounts(a.simple) \in Int /\ Len(a.simple) \in Nat
<1>1. a.simple \in Seq(Payment)
  BY DEF Sound, Account
<1>2. Len(a.simple) \in Nat
  BY <1>1, EmptyOrNot
<1>3. \A y \in Payment : y.amount \in Int
  BY DEF Payment
<1>4. [time |-> 0, amount |-> 0] \in Payment
  BY DEF Payment
<1>5. SumAmounts(a.simple) \in Int
  BY <1>1, <1>3, <1>4, SumAmountsAppend
<1> QED
  BY <1>2, <1>5, RoundingGrows DEF RoundingOf

\* A payment of an attack user keeps its account good, and what it takes off the
\* task it takes off the plan.
LEMMA PaidIsGood ==
    ASSUME NEW a, NEW t \in Int, Good(a, t), kind # "normal",
           NEW amt \in Nat, amt <= a.task, NEW b \in Paid(a, t, amt)
    PROVE  Good(b, t) /\ \A left \in Int : Funded(a, left) => Funded(b, left - amt)
<1>1. Sound(a, t) /\ a.task \in Nat /\ a.task <= Task + RoundingOf(a) /\ Conserved(a)
  BY DEF Good
<1>2. /\ Sound(b, t) /\ b.task \in Nat
      /\ b.task <= a.task - amt + MaxDrift /\ a.task - amt - MaxDrift <= b.task
      /\ RoundingOf(b) = RoundingOf(a) + MaxDrift /\ RoundingOf(a) \in Nat
      /\ SumAmounts(b.simple) = SumAmounts(a.simple) + amt
      /\ SumAmounts(a.simple) \in Int
  BY <1>1, PaidIs
<1> DEFINE x == a.task
           y == b.task
           R == RoundingOf(a)
           Q == RoundingOf(b)
           s == SumAmounts(a.simple)
           u == SumAmounts(b.simple)
<1>3. /\ x \in Nat /\ y \in Nat /\ R \in Nat /\ s \in Int
      /\ y <= x - amt + MaxDrift /\ x - amt - MaxDrift <= y /\ Q = R + MaxDrift /\ u = s + amt
      /\ x <= Task + R /\ x + s - Task <= R /\ -R <= x + s - Task
  BY <1>1, <1>2 DEF Conserved
<1>4. MaxDrift \in Nat /\ Task \in Nat /\ TOL \in Nat
  BY DriftBounds, ConstantFacts
<1> HIDE DEF x, y, R, Q, s, u
<1>5. y <= Task + Q /\ y + u - Task <= Q /\ -Q <= y + u - Task
  BY <1>3, <1>4
<1>6. \A left \in Int : left <= x + TOL + R => left - amt <= y + TOL + Q
  BY <1>3, <1>4
<1>7. Good(b, t)
  BY <1>2, <1>5 DEF Good, Conserved, y, Q, u
<1> QED
  BY <1>6, <1>7 DEF Funded, x, y, R, Q

\* One round of Decide's loop.
LEMMA PaysIsGood ==
    ASSUME NEW a, NEW t \in Int, Good(a, t), kind \in {"normal", "rule", "llm"},
           NEW amt \in ALLOWED_AMOUNTS, NEW b \in Pays(a, t, amt)
    PROVE  /\ Good(b, t)
           /\ kind = "llm" => \A left \in Int : Funded(a, left) => Funded(b, left - amt)
<1>1. amt \in Nat /\ amt > 0 /\ amt \in Int
  BY ConstantFacts
<1>2. Sound(a, t) /\ a.task \in Nat /\ a.task <= Task + RoundingOf(a)
  BY DEF Good
<1>3. CASE kind = "normal"
  <2>1. b = LogTransaction(a, t, amt)
    BY <1>3 DEF Pays
  <2>2. /\ Sound(b, t) /\ b.task = a.task
        /\ Len(b.simple) = Len(a.simple) + 1 /\ Len(a.simple) \in Nat
    BY <2>1, <1>1, <1>2, LogIsSound
  <2>3. RoundingOf(b) = RoundingOf(a) + MaxDrift /\ RoundingOf(a) \in Nat
    BY <2>2, RoundingGrows DEF RoundingOf
  <2>4. MaxDrift \in Nat /\ Task \in Nat
    BY DriftBounds, ConstantFacts
  <2>5. b.task <= Task + RoundingOf(b)
    BY <2>2, <2>3, <2>4, <1>2
  <2> QED
    BY <2>2, <2>5, <1>2, <1>3 DEF Good
<1>4. CASE kind = "rule"
  <2>1. b \in RulePays(a, t, amt)
    BY <1>4 DEF Pays
  <2>2. CASE a.task <= 0
    <3>1. b = a
      BY <2>1, <2>2 DEF RulePays
    <3> QED
      BY <3>1, <1>4
  <2>3. CASE ~(a.task <= 0)
    <3>1. b \in Paid(a, t, RuleAmount(a.task, amt))
      BY <2>1, <2>3 DEF RulePays
    <3>2. RuleAmount(a.task, amt) \in Nat /\ RuleAmount(a.task, amt) <= a.task
      BY <2>3, <1>2, RuleAmountIs
    <3>3. Good(b, t)
      BY <3>1, <3>2, <1>4, PaidIsGood
    <3> QED
      BY <3>3, <1>4
  <2> QED
    BY <2>2, <2>3
<1>5. CASE kind = "llm"
  <2>1. b \in LLMPays(a, t, amt)
    BY <1>5 DEF Pays
  <2>2. CASE a.task >= amt
    <3>1. b \in Paid(a, t, amt) /\ amt <= a.task
      BY <2>1, <2>2, <1>1, <1>2 DEF LLMPays
    <3> QED
      BY <3>1, <1>1, <1>5, PaidIsGood
  <2>3. CASE ~(a.task >= amt)
    <3>1. b = a
      BY <2>1, <2>3 DEF LLMPays
    <3>2. RoundingOf(a) \in Nat /\ TOL \in Nat
      BY <1>2, GoodNumbers, ConstantFacts
    <3>3. \A left \in Int : Funded(a, left) => Funded(a, left - amt)
      BY <3>2, <1>1, <1>2 DEF Funded
    <3> QED
      BY <3>1, <3>3
  <2> QED
    BY <2>2, <2>3
<1> QED
  BY <1>3, <1>4, <1>5
\* A sequence of allowed amounts is one of numbers.
LEMMA AmountsAreNumbers ==
    ASSUME NEW s \in Seq(ALLOWED_AMOUNTS)
    PROVE  s \in Seq(Int) /\ s \in [1 .. Len(s) -> Nat]
<1>1. Len(s) \in Nat /\ DOMAIN s = 1 .. Len(s)
      /\ \A i \in 1 .. Len(s) : s[i] \in ALLOWED_AMOUNTS
  BY EmptyOrNot
<1>2. s \in [1 .. Len(s) -> ALLOWED_AMOUNTS]
  BY LenProperties
<1>3. \A x \in ALLOWED_AMOUNTS : x \in Nat /\ x \in Int
  BY ConstantFacts
<1>4. s \in [1 .. Len(s) -> Int] /\ s \in [1 .. Len(s) -> Nat]
  BY <1>2, <1>3
<1> QED
  BY <1>1, <1>4, SeqDef

\* The sum of nothing.
LEMMA SumEmpty ==
    SumFunction(<<>>) = 0
<1> DEFINE S == {}
           f == [i \in S |-> 0]
<1>1. <<>> \in Seq(Int) /\ Len(<<>>) = 0
  BY EmptySeq
<1>2. IsFiniteSet(S)
  BY FS_EmptySet
<1>3. <<>> = f
  BY <1>1, EmptySeq
<1>4. f \in [S -> Int] /\ \A x \in S : f[x] = 0
  OBVIOUS
<1> HIDE DEF f
<1>5. SumFunction(f) = 0
  BY <1>2, <1>4, SumZero
<1> QED
  BY <1>3, <1>5

\* One round of Decide's loop over the accounts that are possible.
SpendStep(a, t, amts, g, n) ==
    IF n = 0 THEN {a} ELSE UNION {Pays(b, t, amts[n]) : b \in g[n - 1]}

\* g lists the accounts that are possible before each payment.
IsSpend(g, a, t, amts) ==
    /\ \A n \in 0 .. Len(amts) : \A b \in g[n] : Good(b, t)
    /\ g[0] = {a}
    /\ \A n \in 1 .. Len(amts) : g[n] = UNION {Pays(b, t, amts[n]) : b \in g[n - 1]}

\* Decide's loop runs.
LEMMA SpendRuns ==
    ASSUME NEW a, NEW t \in Int, Good(a, t), kind \in {"normal", "rule", "llm"},
           NEW amts \in Seq(ALLOWED_AMOUNTS)
    PROVE  \E g : IsSpend(g, a, t, amts) /\ Spend(a, t, amts) = g[Len(amts)]
<1> DEFINE m == Len(amts)
           G == {b \in Account : Good(b, t)}
           X == SUBSET G
           Iter(g) == g = [n \in 0 .. m |-> SpendStep(a, t, amts, g, n)]
           it == CHOOSE g : Iter(g)
           step == [n \in 1 .. m |-> [Y \in X |-> UNION {Pays(b, t, amts[n]) : b \in Y}]]
           e == {a}
<1>1. m \in Nat /\ \A i \in 1 .. m : amts[i] \in ALLOWED_AMOUNTS
  BY EmptyOrNot
<1>2. step \in [1 .. m -> [X -> X]]
  <2> SUFFICES ASSUME NEW n \in 1 .. m, NEW Y \in X
               PROVE  UNION {Pays(b, t, amts[n]) : b \in Y} \in X
    OBVIOUS
  <2>1. ASSUME NEW b \in Y, NEW c \in Pays(b, t, amts[n]) PROVE c \in G
    <3>1. Good(b, t) /\ amts[n] \in ALLOWED_AMOUNTS
      BY <1>1
    <3>2. Good(c, t)
      BY <3>1, PaysIsGood
    <3>3. c \in Account
      BY <3>2 DEF Good, Sound
    <3> QED
      BY <3>2, <3>3
  <2> QED
    BY <2>1
<1>3. e \in X
  BY DEF Good, Sound
<1>4. \A n \in 1 .. m : \A Y \in X : step[n][Y] = UNION {Pays(b, t, amts[n]) : b \in Y}
  OBVIOUS
<1>5. Spend(a, t, amts) = it[m]
  BY Zenon DEF Spend, SpendStep
<1>6. \A Y \in X : \A b \in Y : Good(b, t)
  OBVIOUS
<1> HIDE DEF m, step, X, G, it, e
<1>7. PICK g : /\ g \in [0 .. m -> X]
               /\ g[0] = e
               /\ \A n \in 1 .. m : g[n] = step[n][g[n - 1]]
  <2>1. m \in Nat
    BY <1>1
  <2> HIDE DEF Iter
  <2>2. \E g : IsLoop(g, X, e, m, step)
    BY <2>1, <1>2, <1>3, LoopRuns
  <2> QED
    BY <2>2, Zenon DEF IsLoop
<1>8. \A n \in 1 .. m : g[n] = UNION {Pays(b, t, amts[n]) : b \in g[n - 1]}
  <2> SUFFICES ASSUME NEW n \in 1 .. m
               PROVE  g[n] = UNION {Pays(b, t, amts[n]) : b \in g[n - 1]}
    OBVIOUS
  <2>1. n - 1 \in 0 .. m
    BY <1>1
  <2>2. g[n - 1] \in X /\ g[n] = step[n][g[n - 1]]
    BY <2>1, <1>7
  <2> QED
    BY <2>2, <1>4
<1>9. \E f : Iter(f)
  <2>1. \A n \in 0 .. m : g[n] = SpendStep(a, t, amts, g, n)
    <3> SUFFICES ASSUME NEW n \in 0 .. m PROVE g[n] = SpendStep(a, t, amts, g, n)
      OBVIOUS
    <3>1. CASE n = 0
      BY <3>1, <1>7 DEF SpendStep, e
    <3>2. CASE n # 0
      <4>1. n \in 1 .. m
        BY <3>2, <1>1
      <4> QED
        BY <3>2, <4>1, <1>8 DEF SpendStep
    <3> QED
      BY <3>1, <3>2
  <2>2. g = [n \in 0 .. m |-> g[n]]
    BY <1>7
  <2>3. g = [n \in 0 .. m |-> SpendStep(a, t, amts, g, n)]
    BY <2>1, <2>2
  <2> QED
    BY <2>3
<1>10. Iter(it)
  BY <1>9 DEF it
<1>11. \A n \in 0 .. m : it[n] = SpendStep(a, t, amts, it, n)
  BY <1>10
<1> DEFINE D == {n \in Nat : n <= m => it[n] = g[n]}
<1>12. 0 \in D
  <2>1. 0 \in 0 .. m
    BY <1>1
  <2>2. it[0] = {a}
    BY <2>1, <1>11 DEF SpendStep
  <2> QED
    BY <2>2, <1>7 DEF e
<1>13. ASSUME NEW n \in Nat, n \in D PROVE n + 1 \in D
  <2> SUFFICES ASSUME n + 1 <= m PROVE it[n + 1] = g[n + 1]
    OBVIOUS
  <2>1. n + 1 # 0 /\ (n + 1) - 1 = n /\ n + 1 \in 0 .. m /\ n + 1 \in 1 .. m /\ n <= m
    BY <1>1
  <2>2. it[n] = g[n]
    BY <2>1, <1>13
  <2>3. it[n + 1] = UNION {Pays(b, t, amts[n + 1]) : b \in it[n]}
    BY <2>1, <1>11 DEF SpendStep
  <2>4. g[n + 1] = UNION {Pays(b, t, amts[n + 1]) : b \in g[n]}
    BY <2>1, <1>8
  <2> QED
    BY <2>2, <2>3, <2>4
<1>14. D = Nat
  <2>1. D \in SUBSET Nat
    OBVIOUS
  <2> HIDE DEF D
  <2> QED
    BY <1>12, <1>13, <2>1, SetInduction
<1>15. it[m] = g[m]
  BY <1>1, <1>14
<1>16. IsSpend(g, a, t, amts)
  <2>1. \A n \in 0 .. m : \A b \in g[n] : Good(b, t)
    BY <1>6, <1>7
  <2> QED
    BY <2>1, <1>7, <1>8 DEF IsSpend, m, e
<1> QED
  BY <1>5, <1>15, <1>16 DEF m

\* The payments of one minute keep the account good and follow the plan.
LEMMA SpendIsGood ==
    ASSUME NEW a, NEW t \in Int, Good(a, t), kind \in {"normal", "rule", "llm"},
           NEW amts \in Seq(ALLOWED_AMOUNTS), NEW b \in Spend(a, t, amts)
    PROVE  /\ Good(b, t)
           /\ kind = "llm" =>
                \A left \in Int : Funded(a, left) => Funded(b, left - SumFunction(amts))
<1> DEFINE m == Len(amts)
           Sum(n) == SumFunction(SubSeq(amts, 1, n))
           Follows(c, n) == \A left \in Int : Funded(a, left) => Funded(c, left - Sum(n))
<1>1. m \in Nat /\ \A i \in 1 .. m : amts[i] \in ALLOWED_AMOUNTS
  BY EmptyOrNot
<1>2. PICK g : IsSpend(g, a, t, amts) /\ Spend(a, t, amts) = g[m]
  BY SpendRuns
<1>3. /\ \A n \in 0 .. m : \A c \in g[n] : Good(c, t)
      /\ g[0] = {a}
      /\ \A n \in 1 .. m : g[n] = UNION {Pays(c, t, amts[n]) : c \in g[n - 1]}
  BY <1>2 DEF IsSpend
<1>4. Good(b, t)
  <2>1. m \in 0 .. m
    BY <1>1
  <2> QED
    BY <2>1, <1>2, <1>3
<1>5. amts \in Seq(Int)
  BY AmountsAreNumbers
<1>6. SubSeq(amts, 1, m) = amts
  BY SubSeqFull
<1> HIDE DEF m
<1>7. ASSUME kind = "llm" PROVE Follows(b, m)
  <2> DEFINE D == {n \in Nat : n <= m => \A c \in g[n] : Follows(c, n)}
  <2>1. 0 \in D
    <3>1. SubSeq(amts, 1, 0) = <<>>
      BY SubSeqEmpty
    <3>2. Sum(0) = 0
      BY <3>1, SumEmpty
    <3>3. Follows(a, 0)
      BY <3>2
    <3> QED
      BY <3>3, <1>3
  <2>2. ASSUME NEW n \in Nat, n \in D PROVE n + 1 \in D
    <3> SUFFICES ASSUME n + 1 <= m, NEW c \in g[n + 1] PROVE Follows(c, n + 1)
      OBVIOUS
    <3>1. n + 1 \in 1 .. m /\ (n + 1) - 1 = n /\ n <= m /\ n \in 0 .. m
      BY <1>1
    <3>2. PICK d \in g[n] : c \in Pays(d, t, amts[n + 1])
      BY <3>1, <1>3
    <3>3. Follows(d, n) /\ Good(d, t) /\ amts[n + 1] \in ALLOWED_AMOUNTS
      BY <3>1, <2>2, <1>1, <1>3
    <3>4. \A left \in Int : Funded(d, left) => Funded(c, left - amts[n + 1])
      <4> HIDE DEF D, Follows
      <4> QED
        BY <3>2, <3>3, <1>7, PaysIsGood
    <3>5. /\ SubSeq(amts, 1, n) \in Seq(Int) /\ amts[n + 1] \in Int
          /\ SubSeq(amts, 1, n + 1) = Append(SubSeq(amts, 1, n), amts[n + 1])
      BY <1>5, NextPrefix DEF m
    <3>6. Sum(n + 1) = Sum(n) + amts[n + 1] /\ Sum(n) \in Int
      BY <3>5, SumAppend
    <3> SUFFICES ASSUME NEW left \in Int, Funded(a, left) PROVE Funded(c, left - Sum(n + 1))
      OBVIOUS
    <3>7. Funded(d, left - Sum(n))
      BY <3>3
    <3> HIDE DEF Sum, D, Follows
    <3>8. left - Sum(n) \in Int /\ (left - Sum(n)) - amts[n + 1] = left - Sum(n + 1)
      BY <3>5, <3>6
    <3> QED
      BY <3>4, <3>7, <3>8
  <2>3. D = Nat
    <3>1. D \in SUBSET Nat
      OBVIOUS
    <3> HIDE DEF D
    <3> QED
      BY <2>1, <2>2, <3>1, SetInduction
  <2> QED
    BY <2>3, <1>1, <1>2
<1> QED
  BY <1>4, <1>6, <1>7
-----------------------------------------------------------------------------
(* The plan check.                                                         *)

\* What a fixed plan holds.
PlanTotal(clean) == SumFunction([k \in Minutes |-> SumFunction(clean[k])])

\* A state of the check: what it has used is in the plan, and is affordable.
Checked(max_task) ==
    {acc \in [used : Int, clean : [Minutes -> Seq(ALLOWED_AMOUNTS)]] :
        acc.used = PlanTotal(acc.clean) /\ acc.used <= max_task + TOL}

\* The minutes of a plan are finitely many.
LEMMA MinutesAre ==
    IsFiniteSet(Minutes) /\ \A i : i \in Minutes <=> i \in Nat /\ i < PlanLength
<1>1. PlanLength \in Nat
  BY ConstantFacts
<1> DEFINE a == 0
           b == PlanLength - 1
<1>2. a \in Int /\ b \in Int
  BY <1>1
<1> HIDE DEF a, b
<1>3. IsFiniteSet(a .. b)
  BY <1>2, FS_Interval
<1>4. Minutes = a .. b
  BY DEF Minutes, a, b
<1>5. \A i : i \in Minutes <=> i \in Nat /\ i < PlanLength
  BY <1>1 DEF Minutes
<1> QED
  BY <1>3, <1>4, <1>5

\* The payments of the minutes have sums.
LEMMA SumsAre ==
    ASSUME NEW S, NEW clean \in [S -> Seq(ALLOWED_AMOUNTS)]
    PROVE  [k \in S |-> SumFunction(clean[k])] \in [S -> Nat]
<1> SUFFICES ASSUME NEW k \in S PROVE SumFunction(clean[k]) \in Nat
  OBVIOUS
<1> DEFINE s == clean[k]
           n == Len(s)
           N == 1 .. n
<1>1. s \in Seq(ALLOWED_AMOUNTS)
  OBVIOUS
<1>2. n \in Nat
  BY <1>1, EmptyOrNot
<1>3. s \in [N -> Nat]
  BY <1>1, AmountsAreNumbers
<1>4. IsFiniteSet(N)
  BY <1>2, FirstNumbers
<1> HIDE DEF s, n, N
<1>5. SumFunction(s) \in Nat
  BY <1>3, <1>4, SumNat
<1> QED
  BY <1>5 DEF s

\* One amount: dropped, or added to what is used and to its minute.
LEMMA ValidateAmountKeeps ==
    ASSUME NEW max_task \in Nat, NEW acc \in Checked(max_task), NEW i \in Minutes, NEW amt
    PROVE  ValidateAmount(max_task, acc, i, amt) \in Checked(max_task)
<1>1. CASE ~(amt \in ALLOWED_AMOUNTS /\ acc.used + amt <= max_task + TOL)
  BY <1>1 DEF ValidateAmount
<1>2. CASE amt \in ALLOWED_AMOUNTS /\ acc.used + amt <= max_task + TOL
  <2> DEFINE c == acc.clean
             u == acc.used
             d == [c EXCEPT ![i] = Append(@, amt)]
             v == u + amt
             f == [k \in Minutes |-> SumFunction(c[k])]
             h == [k \in Minutes |-> SumFunction(d[k])]
             r == [used |-> v, clean |-> d]
  <2>1. /\ u \in Int /\ c \in [Minutes -> Seq(ALLOWED_AMOUNTS)] /\ u = SumFunction(f)
    BY DEF Checked, PlanTotal
  <2>2. ValidateAmount(max_task, acc, i, amt) = r
    BY <1>2 DEF ValidateAmount
  <2>3. v <= max_task + TOL
    BY <1>2
  <2>4. amt \in Int
    BY <1>2, ConstantFacts
  <2>5. c[i] \in Seq(ALLOWED_AMOUNTS) /\ Append(c[i], amt) \in Seq(ALLOWED_AMOUNTS)
    <3>1. c[i] \in Seq(ALLOWED_AMOUNTS)
      BY <2>1
    <3> HIDE DEF c
    <3> QED
      BY <3>1, <1>2, AppendProperties
  <2> HIDE DEF c, u, r
  <2>6. /\ d \in [Minutes -> Seq(ALLOWED_AMOUNTS)]
        /\ d[i] = Append(c[i], amt) /\ \A k \in Minutes \ {i} : d[k] = c[k]
    BY <2>1, <2>5
  <2> HIDE DEF d
  <2>7. f \in [Minutes -> Nat] /\ h \in [Minutes -> Nat]
    BY ZenonT(30), <2>1, <2>6, SumsAre
  <2>8. f \in [Minutes -> Int] /\ h \in [Minutes -> Int]
    BY <2>7
  <2>9. \A k \in Minutes \ {i} : h[k] = f[k]
    BY <2>6
  <2>10. h[i] = f[i] + amt
    <3>1. c[i] \in Seq(Int)
      BY <2>5, AmountsAreNumbers
    <3>2. SumFunction(Append(c[i], amt)) = SumFunction(c[i]) + amt
      BY <3>1, <2>4, SumAppend
    <3> QED
      BY <3>2, <2>6
  <2> HIDE DEF f, h
  <2>11. SumFunction(h) = SumFunction(f) - f[i] + h[i]
    BY <2>8, <2>9, MinutesAre, SumUpdate
  <2>12. v \in Int
    BY <2>1, <2>4
  <2>13. v = SumFunction(h)
    BY <2>1, <2>4, <2>8, <2>10, <2>11
  <2> HIDE DEF v
  <2>14. v = PlanTotal(d)
    BY <2>13 DEF PlanTotal, h
  <2>15. r \in [used : Int, clean : [Minutes -> Seq(ALLOWED_AMOUNTS)]]
         /\ r.used = v /\ r.clean = d
    BY <2>6, <2>12 DEF r
  <2>16. r \in Checked(max_task)
    BY <2>3, <2>14, <2>15 DEF Checked
  <2> QED
    BY <2>2, <2>16
<1> QED
  BY <1>1, <1>2

\* One round of the inner loop.
AmountStep(max_task, acc, i, amts, g, n) ==
    IF n = 0 THEN acc ELSE ValidateAmount(max_task, g[n - 1], i, amts[n])

\* The amounts of one minute.
LEMMA ValidateMinuteKeeps ==
    ASSUME NEW max_task \in Nat, NEW acc \in Checked(max_task), NEW i \in Minutes,
           NEW amts, Len(amts) \in Nat
    PROVE  ValidateMinute(max_task, acc, i, amts) \in Checked(max_task)
<1> DEFINE m == Len(amts)
           X == Checked(max_task)
           Iter(g) == g = [n \in 0 .. m |-> AmountStep(max_task, acc, i, amts, g, n)]
           it == CHOOSE g : Iter(g)
           step == [n \in 1 .. m |-> [q \in X |-> ValidateAmount(max_task, q, i, amts[n])]]
<1>1. m \in Nat
  OBVIOUS
<1>2. \A n \in 1 .. m : \A q \in X : ValidateAmount(max_task, q, i, amts[n]) \in X
  BY ValidateAmountKeeps
<1> HIDE DEF X, m
<1>3. step \in [1 .. m -> [X -> X]]
  BY <1>2
<1>4. \A n \in 1 .. m : \A q \in X : step[n][q] = ValidateAmount(max_task, q, i, amts[n])
  OBVIOUS
<1>5. ValidateMinute(max_task, acc, i, amts) = it[m]
  BY Zenon DEF ValidateMinute, AmountStep, m
<1>6. acc \in X
  BY DEF X
<1> HIDE DEF step, it
<1>7. PICK g : IsLoop(g, X, acc, m, step)
  <2> HIDE DEF Iter
  <2> QED
    BY <1>1, <1>3, <1>6, LoopRuns
<1>8. g \in [0 .. m -> X] /\ g[0] = acc /\ \A n \in 1 .. m : g[n] = step[n][g[n - 1]]
  BY <1>7 DEF IsLoop
<1>9. \A n \in 0 .. m : g[n] = AmountStep(max_task, acc, i, amts, g, n)
  <2> SUFFICES ASSUME NEW n \in 0 .. m
               PROVE  g[n] = AmountStep(max_task, acc, i, amts, g, n)
    OBVIOUS
  <2>1. CASE n = 0
    BY <2>1, <1>8 DEF AmountStep
  <2>2. CASE n # 0
    <3>1. n \in 1 .. m /\ n - 1 \in 0 .. m
      BY <2>2, <1>1
    <3>2. g[n - 1] \in X
      BY <3>1, <1>8
    <3> QED
      BY <2>2, <3>1, <3>2, <1>4, <1>8 DEF AmountStep
  <2> QED
    BY <2>1, <2>2
<1>10. Iter(it)
  <2>1. g = [n \in 0 .. m |-> g[n]]
    BY <1>8
  <2>2. Iter(g)
    BY <2>1, <1>9
  <2> QED
    BY <2>2 DEF it
<1>11. \A n \in 0 .. m : it[n] = AmountStep(max_task, acc, i, amts, it, n)
  BY <1>10
<1>12. it[0] \in X
  <2>1. 0 \in 0 .. m
    BY <1>1
  <2> QED
    BY <2>1, <1>6, <1>11 DEF AmountStep
<1>13. \A n \in 1 .. m : it[n - 1] \in X => it[n] \in X
  <2> SUFFICES ASSUME NEW n \in 1 .. m, it[n - 1] \in X PROVE it[n] \in X
    OBVIOUS
  <2>1. n \in 0 .. m /\ n # 0
    BY <1>1
  <2>2. it[n] = ValidateAmount(max_task, it[n - 1], i, amts[n])
    BY <2>1, <1>11 DEF AmountStep
  <2> QED
    BY <2>2, <1>2
<1>14. it[m] \in X
  <2> HIDE DEF Iter
  <2> QED
    BY <1>1, <1>12, <1>13, LoopStays
<1> QED
  BY <1>5, <1>14 DEF X

\* One round of the outer loop.
MinuteStep(raw, max_task, g, n) ==
    IF n = 0 THEN [used |-> 0, clean |-> [m \in Minutes |-> <<>>]]
    ELSE ValidateMinute(max_task, g[n - 1], n - 1, raw[n - 1])

\* The check starts with an empty plan.
LEMMA NothingChecked ==
    ASSUME NEW max_task \in Nat
    PROVE  [used |-> 0, clean |-> [m \in Minutes |-> <<>>]] \in Checked(max_task)
<1> DEFINE u == 0
           c == [m \in Minutes |-> <<>>]
           f == [k \in Minutes |-> SumFunction(c[k])]
           r == [used |-> u, clean |-> c]
<1>1. \A k \in Minutes : f[k] = 0
  BY SumEmpty
<1>2. f \in [Minutes -> Int]
  BY <1>1
<1>3. <<>> \in Seq(ALLOWED_AMOUNTS)
  BY EmptySeq
<1>4. c \in [Minutes -> Seq(ALLOWED_AMOUNTS)]
  BY <1>3
<1> HIDE DEF f
<1>5. SumFunction(f) = 0
  BY <1>1, <1>2, MinutesAre, SumZero
<1>6. u = PlanTotal(c) /\ u \in Int /\ u <= max_task + TOL
  BY <1>5, ConstantFacts DEF PlanTotal, f
<1> HIDE DEF u, c
<1>7. r \in Checked(max_task)
  BY <1>4, <1>6 DEF Checked
<1> QED
  BY <1>7 DEF u, c

\* A checked plan is made of allowed amounts and is affordable.
LEMMA FixedPlanIs ==
    ASSUME NEW max_task \in Nat, NEW raw, \A i \in Minutes : Len(raw[i]) \in Nat
    PROVE  LET p == ValidateAndFixPlan(raw, max_task)
           IN  p \in [Minutes -> Seq(ALLOWED_AMOUNTS)] /\ PlanTotal(p) <= max_task + TOL
<1> DEFINE m == PlanLength
           X == Checked(max_task)
           e == [used |-> 0, clean |-> [k \in Minutes |-> <<>>]]
           Iter(g) == g = [n \in 0 .. m |-> MinuteStep(raw, max_task, g, n)]
           it == CHOOSE g : Iter(g)
           step == [n \in 1 .. m |-> [q \in X |-> ValidateMinute(max_task, q, n - 1, raw[n - 1])]]
<1>1. m \in Nat
  BY ConstantFacts
<1>2. \A n \in 1 .. m : \A q \in X : ValidateMinute(max_task, q, n - 1, raw[n - 1]) \in X
  <2> SUFFICES ASSUME NEW n \in 1 .. m, NEW q \in X
               PROVE  ValidateMinute(max_task, q, n - 1, raw[n - 1]) \in X
    OBVIOUS
  <2>1. n - 1 \in Minutes
    BY <1>1, MinutesAre
  <2> QED
    BY <2>1, ValidateMinuteKeeps
<1>3. e \in X
  BY NothingChecked
<1>4. ValidateAndFixPlan(raw, max_task) = it[m].clean
  BY Zenon DEF ValidateAndFixPlan, MinuteStep
<1>5. \A g : MinuteStep(raw, max_task, g, 0) = e
  BY DEF MinuteStep
<1> HIDE DEF X, m, e
<1>6. step \in [1 .. m -> [X -> X]]
  BY <1>2
<1>7. \A n \in 1 .. m : \A q \in X :
        step[n][q] = ValidateMinute(max_task, q, n - 1, raw[n - 1])
  OBVIOUS
<1> HIDE DEF step, it
<1>8. PICK g : IsLoop(g, X, e, m, step)
  <2> HIDE DEF Iter
  <2> QED
    BY <1>1, <1>3, <1>6, LoopRuns
<1>9. g \in [0 .. m -> X] /\ g[0] = e /\ \A n \in 1 .. m : g[n] = step[n][g[n - 1]]
  BY <1>8 DEF IsLoop
<1>10. \A n \in 0 .. m : g[n] = MinuteStep(raw, max_task, g, n)
  <2> SUFFICES ASSUME NEW n \in 0 .. m PROVE g[n] = MinuteStep(raw, max_task, g, n)
    OBVIOUS
  <2>1. CASE n = 0
    BY <2>1, <1>5, <1>9
  <2>2. CASE n # 0
    <3>1. n \in 1 .. m /\ n - 1 \in 0 .. m
      BY <2>2, <1>1
    <3>2. g[n - 1] \in X
      BY <3>1, <1>9
    <3> QED
      BY <2>2, <3>1, <3>2, <1>7, <1>9 DEF MinuteStep
  <2> QED
    BY <2>1, <2>2
<1>11. Iter(it)
  <2>1. g = [n \in 0 .. m |-> g[n]]
    BY <1>9
  <2>2. Iter(g)
    BY <2>1, <1>10
  <2> QED
    BY <2>2 DEF it
<1>12. \A n \in 0 .. m : it[n] = MinuteStep(raw, max_task, it, n)
  BY <1>11
<1>13. it[0] \in X
  <2>1. 0 \in 0 .. m
    BY <1>1
  <2> QED
    BY <2>1, <1>3, <1>5, <1>12
<1>14. \A n \in 1 .. m : it[n - 1] \in X => it[n] \in X
  <2> SUFFICES ASSUME NEW n \in 1 .. m, it[n - 1] \in X PROVE it[n] \in X
    OBVIOUS
  <2>1. n \in 0 .. m /\ n # 0
    BY <1>1
  <2>2. it[n] = ValidateMinute(max_task, it[n - 1], n - 1, raw[n - 1])
    BY <2>1, <1>12 DEF MinuteStep
  <2> QED
    BY <2>2, <1>2
<1>15. it[m] \in X
  <2> HIDE DEF Iter
  <2> QED
    BY <1>1, <1>13, <1>14, LoopStays
<1>16. it[m].clean \in [Minutes -> Seq(ALLOWED_AMOUNTS)]
       /\ PlanTotal(it[m].clean) <= max_task + TOL
  BY <1>15 DEF X, Checked
<1> QED
  BY <1>4, <1>16
-----------------------------------------------------------------------------
(* The plan in force.                                                      *)

\* At minute t a plan holds allowed amounts, for minutes within the bounds, and
\* has no gap from t on.
PlanOK(plan, t) ==
    /\ DOMAIN plan \in SUBSET (0 .. MaxTime + PlanLength)
    /\ plan \in [DOMAIN plan -> Seq(ALLOWED_AMOUNTS)]
    /\ \A m \in DOMAIN plan : t .. m \subseteq DOMAIN plan

\* The minutes of a plan from t on.
Later(plan, t) == {k \in DOMAIN plan : k >= t}

\* They are finitely many, and so are their payments.
LEMMA PlannedIs ==
    ASSUME NEW plan, NEW t, PlanOK(plan, t), NEW s
    PROVE  /\ IsFiniteSet(Later(plan, s))
           /\ [m \in Later(plan, s) |-> SumFunction(plan[m])] \in [Later(plan, s) -> Nat]
           /\ Planned(plan, s) = SumFunction([m \in Later(plan, s) |-> SumFunction(plan[m])])
           /\ Planned(plan, s) \in Nat
<1> DEFINE L == Later(plan, s)
           a == 0
           b == MaxTime + PlanLength
           f == [m \in L |-> SumFunction(plan[m])]
<1>1. a \in Int /\ b \in Int
  BY ConstantFacts
<1>2. L \in SUBSET (a .. b) /\ L \subseteq DOMAIN plan
  BY DEF PlanOK, Later
<1> DEFINE c == [m \in L |-> plan[m]]
<1>3. c \in [L -> Seq(ALLOWED_AMOUNTS)] /\ \A m \in L : c[m] = plan[m]
  BY <1>2 DEF PlanOK
<1>4. Planned(plan, s) = SumFunction(f)
  BY DEF Planned, Later
<1> HIDE DEF L, a, b, c
<1>5. IsFiniteSet(L)
  BY <1>1, <1>2, FS_Interval, FS_Subset
<1>6. [m \in L |-> SumFunction(c[m])] \in [L -> Nat]
  BY <1>3, SumsAre
<1>7. f \in [L -> Nat]
  BY <1>3, <1>6
<1>8. SumFunction(f) \in Nat
  <2> HIDE DEF f
  <2> QED
    BY <1>5, <1>7, SumNat
<1> QED
  BY <1>4, <1>5, <1>7, <1>8 DEF L

\* When a minute has passed, what it held is planned no more.
LEMMA PlannedNext ==
    ASSUME NEW plan, NEW t \in Int, PlanOK(plan, t)
    PROVE  /\ PlanOK(plan, t + 1)
           /\ Planned(plan, t) \in Nat /\ Planned(plan, t + 1) \in Nat
           /\ Planned(plan, t + 1) <= Planned(plan, t)
           /\ t \in DOMAIN plan =>
                /\ SumFunction(plan[t]) \in Nat
                /\ Planned(plan, t + 1) = Planned(plan, t) - SumFunction(plan[t])
<1> DEFINE D == DOMAIN plan
           S == Later(plan, t + 1)
           T == Later(plan, t)
           f == [m \in S |-> SumFunction(plan[m])]
           h == [m \in T |-> SumFunction(plan[m])]
<1>1. D \in SUBSET Int
  BY ConstantFacts DEF PlanOK
<1>2. PlanOK(plan, t + 1)
  <2>1. ASSUME NEW m \in D PROVE (t + 1) .. m \subseteq D
    <3>1. t .. m \subseteq D /\ m \in Int
      BY <1>1 DEF PlanOK
    <3>2. (t + 1) .. m \subseteq t .. m
      BY <3>1
    <3> QED
      BY <3>1, <3>2
  <2> QED
    BY <2>1 DEF PlanOK
<1>3. /\ IsFiniteSet(S) /\ f \in [S -> Nat] /\ Planned(plan, t + 1) = SumFunction(f)
      /\ Planned(plan, t + 1) \in Nat
  BY PlannedIs
<1>4. /\ h \in [T -> Nat] /\ Planned(plan, t) = SumFunction(h) /\ Planned(plan, t) \in Nat
  BY PlannedIs
<1>5. t \notin S /\ \A m \in D : m >= t <=> m = t \/ m >= t + 1
  BY <1>1 DEF Later
<1>6. CASE t \in D
  <2>1. T = S \cup {t}
    BY <1>1, <1>5, <1>6 DEF Later
  <2>2. h \in [S \cup {t} -> Int] /\ f \in [S -> Int] /\ \A x \in S : f[x] = h[x]
    BY <1>3, <1>4, <2>1
  <2>3. h[t] = SumFunction(plan[t]) /\ h[t] \in Nat
    BY <1>4, <2>1
  <2> HIDE DEF f, h, S, T
  <2>4. SumFunction(h) = SumFunction(f) + h[t]
    BY <1>3, <1>5, <2>2, SumExtended
  <2>5. SumFunction(plan[t]) \in Nat
    BY <2>3
  <2>6. Planned(plan, t) = Planned(plan, t + 1) + SumFunction(plan[t])
    BY <1>3, <1>4, <2>3, <2>4
  <2>7. /\ Planned(plan, t + 1) <= Planned(plan, t)
        /\ Planned(plan, t + 1) = Planned(plan, t) - SumFunction(plan[t])
    BY <1>3, <1>4, <2>5, <2>6
  <2> QED
    BY <1>2, <1>3, <1>4, <2>5, <2>7
<1>7. CASE t \notin D
  <2>1. T = S
    BY <1>1, <1>5, <1>7 DEF Later
  <2>2. Planned(plan, t + 1) = Planned(plan, t)
    BY <2>1, <1>3, <1>4
  <2> QED
    BY <1>2, <1>3, <1>4, <1>7, <2>2
<1> QED
  BY <1>6, <1>7

\* A new plan, from minute t on.
Extended(plan, t, p) ==
    [m \in DOMAIN plan \cup {t + i : i \in Minutes} |-> IF m >= t THEN p[m - t] ELSE plan[m]]

\* It is in order, covers the minute it was made for, and holds what the check let
\* through and no more.
LEMMA ExtendedIs ==
    ASSUME NEW plan, NEW t \in Nat, t <= MaxTime, PlanOK(plan, t), t \notin DOMAIN plan,
           NEW p \in [Minutes -> Seq(ALLOWED_AMOUNTS)]
    PROVE  LET q == Extended(plan, t, p)
           IN  PlanOK(q, t) /\ t \in DOMAIN q /\ Planned(q, t) = PlanTotal(p)
<1> DEFINE D == DOMAIN plan
           N == {t + i : i \in Minutes}
           q == Extended(plan, t, p)
<1>0. MaxTime \in Nat /\ PlanLength \in Nat \ {0}
  BY ConstantFacts
<1>1. \A i : i \in Minutes <=> i \in Nat /\ i < PlanLength
  BY MinutesAre
<1>2. D \in SUBSET (0 .. MaxTime + PlanLength) /\ \A m \in D : t .. m \subseteq D
  BY DEF PlanOK
<1>3. \A m \in D : m \in Int /\ m < t
  <2> SUFFICES ASSUME NEW m \in D, ~(m < t) PROVE FALSE
    BY <1>0, <1>2
  <2>1. t \in t .. m
    BY <1>0, <1>2
  <2> QED
    BY <2>1, <1>2
<1>4. \A m : m \in N <=> m \in Int /\ t <= m /\ m < t + PlanLength
  <2>1. ASSUME NEW m \in N PROVE m \in Int /\ t <= m /\ m < t + PlanLength
    <3>1. PICK i \in Minutes : m = t + i
      OBVIOUS
    <3>2. i \in Nat /\ i < PlanLength
      BY <1>1
    <3> QED
      BY <3>1, <3>2, <1>0
  <2>2. ASSUME NEW m \in Int, t <= m, m < t + PlanLength PROVE m \in N
    <3>1. m - t \in Minutes /\ m = t + (m - t)
      BY <2>2, <1>0, <1>1
    <3> QED
      BY <3>1
  <2> QED
    BY <2>1, <2>2
<1>5. \A m \in N : m - t \in Minutes /\ t + (m - t) = m
  BY <1>0, <1>1, <1>4
<1>6. DOMAIN q = D \cup N
  BY DEF Extended
<1>7. (\A m \in N : q[m] = p[m - t]) /\ \A m \in D : q[m] = plan[m]
  <2>1. \A m \in N : m >= t
    BY <1>4
  <2>2. \A m \in D : ~(m >= t)
    BY <1>3
  <2> QED
    BY <2>1, <2>2 DEF Extended
<1>8. q \in [D \cup N -> Seq(ALLOWED_AMOUNTS)]
  <2>1. \A m \in N : p[m - t] \in Seq(ALLOWED_AMOUNTS)
    BY <1>5
  <2>2. \A m \in D : plan[m] \in Seq(ALLOWED_AMOUNTS)
    BY DEF PlanOK
  <2>3. \A m \in D \cup N : q[m] \in Seq(ALLOWED_AMOUNTS)
    BY <2>1, <2>2, <1>7
  <2>4. q = [m \in D \cup N |-> q[m]]
    BY DEF Extended
  <2> HIDE DEF q, N, D
  <2> QED
    BY <2>3, <2>4
<1> HIDE DEF q, N
<1>9. PlanOK(q, t)
  <2>1. D \cup N \in SUBSET (0 .. MaxTime + PlanLength)
    BY <1>0, <1>2, <1>4
  <2>2. ASSUME NEW m \in D \cup N PROVE t .. m \subseteq D \cup N
    <3>1. CASE m \in D
      BY <3>1, <1>2
    <3>2. CASE m \in N
      BY <3>2, <1>0, <1>4
    <3> QED
      BY <3>1, <3>2
  <2> QED
    BY <2>1, <2>2, <1>6, <1>8 DEF PlanOK
<1>10. t \in DOMAIN q
  BY <1>0, <1>4, <1>6
<1>11. Later(q, t) = N
  <2>1. \A m \in D : ~(m >= t)
    BY <1>3
  <2>2. \A m \in N : m >= t
    BY <1>4
  <2> QED
    BY <2>1, <2>2, <1>6 DEF Later
<1> DEFINE f == [k \in Minutes |-> SumFunction(p[k])]
           h == [m \in N |-> SumFunction(q[m])]
           r == [i \in Minutes |-> t + i]
<1>12. IsFiniteSet(N) /\ h \in [N -> Nat] /\ Planned(q, t) = SumFunction(h)
  BY <1>9, <1>11, PlannedIs
<1>13. f \in [Minutes -> Nat]
  BY SumsAre
<1>14. \A i \in Minutes : t + i \in N /\ (t + i) - t = i /\ i \in Int
  BY <1>0, <1>1, <1>4
<1>15. \A i \in Minutes : f[i] = h[r[i]]
  <2> SUFFICES ASSUME NEW i \in Minutes PROVE f[i] = h[r[i]]
    OBVIOUS
  <2>1. r[i] = t + i /\ t + i \in N
    BY <1>14
  <2>2. q[t + i] = p[i]
    BY <1>7, <1>14
  <2> QED
    BY <2>1, <2>2
<1>16. r \in Bijection(Minutes, N)
  <2>1. r \in [Minutes -> N]
    BY <1>14
  <2>2. \A i, j \in Minutes : r[i] = r[j] => i = j
    BY <1>14
  <2>3. \A m \in N : \E i \in Minutes : r[i] = m
    BY <1>5
  <2> HIDE DEF r
  <2> QED
    BY <2>1, <2>2, <2>3 DEF Bijection, Injection, Surjection, IsInjective
<1>17. f \in [Minutes -> Int] /\ h \in [N -> Int] /\ IsFiniteSet(Minutes)
  BY <1>12, <1>13, MinutesAre
<1>18. PlanTotal(p) = SumFunction(f)
  BY DEF PlanTotal
<1> HIDE DEF f, h, r
<1>19. SumFunction(f) = SumFunction(h)
  <2>1. Renames(Minutes, f, N, h, r)
    BY <1>12, <1>15, <1>16, <1>17, Zenon DEF Renames
  <2> QED
    BY <2>1, SumSameTerms
<1> QED
  BY <1>9, <1>10, <1>12, <1>18, <1>19 DEF q
-----------------------------------------------------------------------------
(* The inductive invariant.                                                *)

(* A user is what UserInv, StatMatchesHistory, TaskIsConserved and         *)
(* PlansAreSound say of it; besides, no stored payment is dated in the     *)
(* future (so that a new one is the latest), and a plan has no gap (so     *)
(* that a minute without a plan is behind the last one).                   *)
UserIInv ==
    /\ kind \in Kinds
    /\ time \in 0 .. MaxTime
    /\ time_left = TimeLeft - time
    /\ Good(account, time)
    /\ PlanOK(action_plan, time)
    /\ kind = "llm" => Funded(account, Planned(action_plan, time))
    /\ PlansKnowTheBans
\* An account that is good at one minute is good at the next.
LEMMA GoodStays ==
    ASSUME NEW a, NEW t \in Int, NEW s \in Int, t <= s, Sound(a, t)
    PROVE  Sound(a, s)
<1> DEFINE l == a.transaction
<1>1. a \in Account /\ HistoryOK(a) /\ UpTo(a, t) /\ StatRight(a)
  BY DEF Sound
<1>2. l \in Seq(Tx)
  BY <1>1 DEF Account
<1>3. \A y \in Tx : y.time \in Int
  BY DEF Tx
<1>4. \A i \in 1 .. Len(l) : l[i].time <= t
  BY <1>1 DEF UpTo
<1> HIDE DEF l
<1>5. \A i \in 1 .. Len(l) : l[i].time \in Int
  BY <1>2, <1>3, EmptyOrNot
<1>6. \A i \in 1 .. Len(l) : l[i].time <= s
  BY <1>4, <1>5
<1> QED
  BY <1>1, <1>6 DEF Sound, UpTo, l

\* A CSV history, as it is loaded.
LEMMA LoadedIs ==
    ASSUME NEW csv \in Histories
    PROVE  LET l == Loaded(csv)
           IN  /\ l \in Seq(Tx)
               /\ \A i \in DOMAIN l : l[i].index = i - 1
               /\ \A i \in 1 .. Len(l) : l[i].time <= 0
<1> DEFINE P == [time : {x \in Int : x <= 0}, amount : Int]
           l == Loaded(csv)
           n == Len(csv)
<1>1. csv \in Seq(P)
  BY UserPlanAssumption
<1>2. \A y \in P : y.time \in Int /\ y.time <= 0 /\ y.amount \in Int
  OBVIOUS
<1> HIDE DEF P
<1>3. n \in Nat /\ DOMAIN csv = 1 .. n /\ \A i \in 1 .. n : csv[i] \in P
  BY <1>1, EmptyOrNot
<1>4. l = [i \in 1 .. n |-> [time |-> csv[i].time, amount |-> csv[i].amount, index |-> i - 1]]
  BY <1>3 DEF Loaded
<1>5. ASSUME NEW i \in 1 .. n
      PROVE  l[i] \in Tx /\ l[i].index = i - 1 /\ l[i].time <= 0
  <2> DEFINE x == csv[i].time
             y == csv[i].amount
             z == i - 1
  <2>1. x \in Int /\ x <= 0 /\ y \in Int /\ z \in Nat
    BY <1>2, <1>3
  <2>2. l[i] = [time |-> x, amount |-> y, index |-> z]
    BY <1>4
  <2> HIDE DEF x, y, z
  <2>3. l[i] \in Tx /\ l[i].index = z /\ l[i].time = x
    BY <2>1, <2>2 DEF Tx
  <2> QED
    BY <2>1, <2>3 DEF z
<1>6. l \in [1 .. n -> Tx] /\ DOMAIN l = 1 .. n
  BY <1>4, <1>5
<1> HIDE DEF l, n
<1>7. l \in Seq(Tx)
  BY SMTT(30), <1>3, <1>6, SeqDef
<1>8. Len(l) = n
  <2>1. Len(l) \in Nat /\ DOMAIN l = 1 .. Len(l)
    BY <1>7, EmptyOrNot
  <2> QED
    BY ZenonT(30), <2>1, <1>3, <1>6, SameInterval
<1> QED
  BY <1>5, <1>6, <1>7, <1>8 DEF l

\* An empty plan is in order and holds nothing.
LEMMA EmptyPlan ==
    ASSUME NEW t
    PROVE  PlanOK(<<>>, t) /\ Planned(<<>>, t) = 0 /\ DOMAIN <<>> = {}
<1>1. <<>> \in Seq(Seq(ALLOWED_AMOUNTS)) /\ Len(<<>>) = 0
  BY EmptySeq
<1> DEFINE plan == <<>>
<1>2. plan \in [1 .. 0 -> Seq(ALLOWED_AMOUNTS)]
  BY <1>1, LenProperties
<1>3. 1 .. 0 = {}
  OBVIOUS
<1>4. plan \in [{} -> Seq(ALLOWED_AMOUNTS)] /\ DOMAIN plan = {}
  BY <1>2, <1>3
<1> HIDE DEF plan
<1>5. PlanOK(plan, t)
  BY <1>4 DEF PlanOK
<1>6. Planned(plan, t) = 0
  <2> DEFINE S == Later(plan, t)
             f == [m \in S |-> SumFunction(plan[m])]
  <2>1. S = {}
    BY <1>4 DEF Later
  <2>2. IsFiniteSet(S) /\ f \in [S -> Nat] /\ Planned(plan, t) = SumFunction(f)
    BY <1>5, PlannedIs
  <2>3. f \in [S -> Int] /\ \A x \in S : f[x] = 0
    BY <2>1, <2>2
  <2> HIDE DEF S, f
  <2> QED
    BY <2>2, <2>3, SumZero
<1> QED
  BY <1>4, <1>5, <1>6 DEF plan

\* The invariant holds initially.
LEMMA UserInitial ==
    UserInit => UserIInv
<1> SUFFICES ASSUME UserInit PROVE UserIInv
  OBVIOUS
<1>1. PICK csv \in Histories :
        account = [task |-> Task, simple |-> <<>>, transaction |-> Loaded(csv),
                   stat |-> InitFeatures(Loaded(csv))]
  BY DEF UserInit
<1> DEFINE l == Loaded(csv)
           s == <<>>
           q == InitFeatures(l)
<1>2. /\ l \in Seq(Tx) /\ (\A i \in DOMAIN l : l[i].index = i - 1)
      /\ \A i \in 1 .. Len(l) : l[i].time <= 0
  BY LoadedIs
<1>3. s \in Seq(Payment) /\ Len(s) = 0 /\ DOMAIN s = {}
  <2>1. s \in Seq(Payment) /\ Len(s) = 0
    BY EmptySeq
  <2> QED
    BY <2>1, EmptySeq
<1>4. /\ q = IF l = <<>> THEN NoStat ELSE StatOf(ByTime(l))
      /\ q \in Stat \cup {NoStat}
  BY <1>2, InitFeaturesIs
<1>5. account = [task |-> Task, simple |-> s, transaction |-> l, stat |-> q]
  BY <1>1
<1>6. SumAmounts(s) = 0
  <2>1. SumAmounts(<<>>) = SumFunction([i \in {} |-> 0])
    <3>1. DOMAIN s = {}
      BY <1>3
    <3>2. [i \in DOMAIN s |-> s[i].amount] = [i \in {} |-> 0]
      BY <3>1
    <3> QED
      BY <3>2 DEF SumAmounts
  <2>2. SumFunction([i \in {} |-> 0]) = 0
    <3> DEFINE S == {}
               f == [i \in S |-> 0]
    <3>1. IsFiniteSet(S) /\ f \in [S -> Int] /\ \A x \in S : f[x] = 0
      BY FS_EmptySet
    <3> HIDE DEF f, S
    <3>2. SumFunction(f) = 0
      BY <3>1, SumZero
    <3> QED
      BY <3>2 DEF f, S
  <2> QED
    BY <2>1, <2>2
<1>7. Task \in Nat /\ MaxTime \in Nat /\ TimeLeft \in Nat /\ TOL \in Nat /\ MaxDrift \in Nat
      /\ PlanLength \in Nat
  BY ConstantFacts, DriftBounds
<1>8. Len(l) \in Nat
  BY <1>2, EmptyOrNot
<1> HIDE DEF l, s, q
<1>9. /\ account \in Account /\ account.task = Task /\ account.simple = s
      /\ account.transaction = l /\ account.stat = q
  BY <1>2, <1>3, <1>4, <1>5, <1>7 DEF Account
<1>10. HistoryOK(account) /\ UpTo(account, 0) /\ StatRight(account)
  <2>1. Len(l) - Len(s) >= 0
    BY <1>3, <1>8
  <2>2. HistoryOK(account)
    BY <2>1, <1>2, <1>3, <1>9, Zenon DEF HistoryOK
  <2> QED
    BY <2>2, <1>2, <1>4, <1>9 DEF UpTo, StatRight
<1>11. Sound(account, 0)
  BY <1>9, <1>10 DEF Sound
<1>12. RoundingOf(account) = 0
  <2>1. \A x \in Nat : 0 * x = 0
    OBVIOUS
  <2> QED
    BY <2>1, <1>3, <1>7, <1>9 DEF RoundingOf
<1>13. time = 0 /\ kind \in Kinds /\ time_left = TimeLeft - time /\ action_plan = <<>>
  BY <1>7 DEF UserInit
<1>14. Conserved(account) /\ account.task \in Nat /\ account.task <= Task + RoundingOf(account)
  BY <1>6, <1>7, <1>9, <1>12 DEF Conserved
<1>15. Good(account, time)
  BY <1>11, <1>13, <1>14 DEF Good
<1>16. DOMAIN action_plan = {} /\ PlanOK(action_plan, time)
       /\ Planned(action_plan, time) = 0
  BY <1>13, EmptyPlan
<1>17. Funded(account, Planned(action_plan, time))
  BY <1>7, <1>9, <1>12, <1>16 DEF Funded
<1>18. PlansKnowTheBans
  BY <1>16 DEF PlansKnowTheBans
<1> QED
  BY <1>7, <1>13, <1>15, <1>16, <1>17, <1>18 DEF UserIInv

\* What the invariant says, in parts.
LEMMA UserFacts ==
    ASSUME UserIInv
    PROVE  /\ kind \in {"normal", "rule", "llm"} /\ kind \in Kinds
           /\ time \in Nat /\ time \in Int /\ time <= MaxTime /\ time + 1 \in Int
           /\ MaxTime \in Nat /\ TimeLeft \in Nat
           /\ Good(account, time) /\ PlanOK(action_plan, time) /\ account.task \in Nat
BY ConstantFacts, UserPlanAssumption DEF UserIInv, Good

\* What is drawn for a minute is a sequence.
LEMMA DrawnIs ==
    ASSUME NEW S, NEW amts \in Drawn(S)
    PROVE  amts \in Seq(S) /\ Len(amts) \in Nat
<1>1. PICK n \in 0 .. MaxPerMinute : amts \in [1 .. n -> S]
  BY DEF Drawn
<1>2. n \in Nat
  BY ConstantFacts
<1>3. amts \in Seq(S)
  BY <1>1, <1>2, SeqDef
<1> QED
  BY <1>3, EmptyOrNot

\* The clock's part of a step, and what the account must be after it.
LEMMA MinutePasses ==
    ASSUME UserIInv, Tick, kind' = kind, Good(account', time)
    PROVE  /\ (kind \in Kinds)' /\ (time \in 0 .. MaxTime)' /\ (time_left = TimeLeft - time)'
           /\ Good(account, time)'
           /\ time' = time + 1
<1>1. /\ kind \in Kinds /\ time \in Nat /\ time \in Int /\ time + 1 \in Int /\ MaxTime \in Nat
      /\ TimeLeft \in Nat
  BY UserFacts
<1>2. time' = time + 1 /\ time < MaxTime /\ time_left' = TimeLeft - time'
  BY <1>1 DEF Tick, UserIInv
<1>3. Sound(account', time + 1)
  <2>1. Sound(account', time) /\ time <= time + 1
    BY <1>1 DEF Good
  <2> QED
    BY <2>1, <1>1, GoodStays
<1>4. Good(account, time)'
  <2>1. /\ account'.task \in Nat /\ account'.task <= Task + RoundingOf(account')
        /\ kind' # "normal" => Conserved(account')
    BY DEF Good
  <2>2. Sound(account', time')
    BY <1>2, <1>3
  <2> QED
    BY <2>1, <2>2 DEF Good
<1> QED
  BY <1>1, <1>2, <1>4

\* A minute of a normal or a rule-based user.
LEMMA PlainMinuteKeeps ==
    ASSUME UserIInv, NormalMinute \/ RuleMinute
    PROVE  UserIInv'
<1>1. /\ kind \in {"normal", "rule", "llm"} /\ time \in Int
      /\ Good(account, time) /\ PlanOK(action_plan, time)
  BY UserFacts
<1>2. /\ kind # "llm" /\ Tick /\ kind' = kind /\ action_plan' = action_plan
      /\ bansSeen' = bansSeen /\ bansInPlan' = bansInPlan
      /\ account' = account
         \/ \E amts \in Drawn(ALLOWED_AMOUNTS) : account' \in Spend(account, time, amts)
  BY DEF NormalMinute, RuleMinute
<1>3. Good(account', time)
  <2>1. CASE account' = account
    BY <2>1, <1>1
  <2>2. CASE \E amts \in Drawn(ALLOWED_AMOUNTS) : account' \in Spend(account, time, amts)
    <3>1. PICK amts \in Drawn(ALLOWED_AMOUNTS) : account' \in Spend(account, time, amts)
      BY <2>2
    <3>2. amts \in Seq(ALLOWED_AMOUNTS)
      BY DrawnIs
    <3> QED
      BY <3>1, <3>2, <1>1, SpendIsGood
  <2> QED
    BY <2>1, <2>2, <1>2
<1>4. /\ (kind \in Kinds)' /\ (time \in 0 .. MaxTime)' /\ (time_left = TimeLeft - time)'
      /\ Good(account, time)' /\ time' = time + 1
  BY <1>2, <1>3, MinutePasses
<1>5. PlanOK(action_plan', time')
  BY <1>1, <1>2, <1>4, PlannedNext
<1>6. PlansKnowTheBans'
  <2>1. ASSUME NEW m \in DOMAIN action_plan, m >= time + 1 PROVE m >= time
    <3>1. m \in Int
      BY <1>1, ConstantFacts DEF PlanOK
    <3> QED
      BY <3>1, <2>1, <1>1
  <2>2. PlansKnowTheBans
    BY DEF UserIInv
  <2> QED
    BY <2>1, <2>2, <1>2, <1>4 DEF PlansKnowTheBans
<1> QED
  BY <1>2, <1>4, <1>5, <1>6 DEF UserIInv

\* Every plan that can be in force covers this minute, is affordable, and is new or
\* the old one.
LEMMA PlansInForceAre ==
    ASSUME UserIInv, kind = "llm", NEW p \in PlansInForce
    PROVE  /\ PlanOK(p, time) /\ time \in DOMAIN p /\ Funded(account, Planned(p, time))
           /\ time \in DOMAIN action_plan => p = action_plan
<1>1. /\ time \in Nat /\ time <= MaxTime /\ PlanOK(action_plan, time)
      /\ Good(account, time) /\ account.task \in Nat
  BY UserFacts
<1>2. CASE time \in DOMAIN action_plan
  <2>1. p = action_plan
    BY <1>2 DEF PlansInForce
  <2> QED
    BY <2>1, <1>1, <1>2 DEF UserIInv
<1>3. CASE time \notin DOMAIN action_plan
  <2>1. PICK d \in Decisions(account.task) : p = Extended(action_plan, time, d)
    BY <1>3 DEF PlansInForce, Extended
  <2>2. PICK raw \in [Minutes -> Drawn(ALLOWED_AMOUNTS \cup Junk)] :
          d = ValidateAndFixPlan(raw, account.task)
    BY DEF Decisions
  <2>3. \A i \in Minutes : Len(raw[i]) \in Nat
    BY DrawnIs
  <2>4. d \in [Minutes -> Seq(ALLOWED_AMOUNTS)] /\ PlanTotal(d) <= account.task + TOL
    BY <2>2, <2>3, <1>1, FixedPlanIs
  <2>5. PlanOK(p, time) /\ time \in DOMAIN p /\ Planned(p, time) = PlanTotal(d)
    BY <2>1, <2>4, <1>1, <1>3, ExtendedIs
  <2>6. Planned(p, time) \in Nat
    BY <2>5, PlannedIs
  <2>7. RoundingOf(account) \in Nat /\ TOL \in Nat
    BY <1>1, GoodNumbers, ConstantFacts DEF Good
  <2>8. Funded(account, Planned(p, time))
    BY <2>4, <2>5, <2>6, <2>7, <1>1 DEF Funded
  <2> QED
    BY <2>5, <2>8, <1>3
<1> QED
  BY <1>2, <1>3

\* A minute of a user with a plan.
LEMMA LLMMinuteKeeps ==
    ASSUME UserIInv, LLMMinute
    PROVE  UserIInv'
<1>1. /\ kind \in {"normal", "rule", "llm"} /\ time \in Int
      /\ Good(account, time) /\ PlanOK(action_plan, time) /\ account.task \in Nat
  BY UserFacts
<1>2. kind = "llm" /\ Tick /\ kind' = kind /\ bansSeen' = bansSeen
  BY DEF LLMMinute
<1>3. CASE account.task <= 0
  <2>1. account' = account /\ action_plan' = action_plan /\ bansInPlan' = bansInPlan
    BY <1>3 DEF LLMMinute
  <2>2. Good(account', time)
    BY <2>1, <1>1
  <2>3. /\ (kind \in Kinds)' /\ (time \in 0 .. MaxTime)' /\ (time_left = TimeLeft - time)'
        /\ Good(account, time)' /\ time' = time + 1
    BY <1>2, <2>2, MinutePasses
  <2>4. /\ PlanOK(action_plan, time + 1)
        /\ Planned(action_plan, time) \in Nat /\ Planned(action_plan, time + 1) \in Nat
        /\ Planned(action_plan, time + 1) <= Planned(action_plan, time)
    BY <1>1, PlannedNext
  <2>5. RoundingOf(account) \in Nat /\ TOL \in Nat
    BY <1>1, GoodNumbers, ConstantFacts DEF Good
  <2>6. Funded(account, Planned(action_plan, time))
    BY <1>2 DEF UserIInv
  <2>7. Funded(account, Planned(action_plan, time + 1))
    BY <2>4, <2>5, <2>6, <1>1 DEF Funded
  <2>8. PlansKnowTheBans'
    <3>1. ASSUME NEW m \in DOMAIN action_plan, m >= time + 1 PROVE m >= time
      <4>1. m \in Int
        BY <1>1, ConstantFacts DEF PlanOK
      <4> QED
        BY <4>1, <3>1, <1>1
    <3>2. PlansKnowTheBans
      BY DEF UserIInv
    <3> QED
      BY <3>1, <3>2, <2>1, <2>3, <1>2 DEF PlansKnowTheBans
  <2>9. PlanOK(action_plan', time') /\ Funded(account', Planned(action_plan', time'))
    BY <2>1, <2>3, <2>4, <2>7
  <2> QED
    BY <2>3, <2>8, <2>9 DEF UserIInv
<1>4. CASE ~(account.task <= 0)
  <2>1. PICK p \in PlansInForce :
          /\ action_plan' = p
          /\ account' \in Spend(account, time, p[time])
          /\ bansInPlan' = IF time \in DOMAIN action_plan THEN bansInPlan ELSE bansSeen
    BY <1>4 DEF LLMMinute
  <2>2. /\ PlanOK(p, time) /\ time \in DOMAIN p /\ Funded(account, Planned(p, time))
        /\ time \in DOMAIN action_plan => p = action_plan
    BY <1>2, PlansInForceAre
  <2>3. p[time] \in Seq(ALLOWED_AMOUNTS)
    BY <2>2 DEF PlanOK
  <2>4. /\ PlanOK(p, time + 1) /\ Planned(p, time) \in Nat
        /\ Planned(p, time + 1) = Planned(p, time) - SumFunction(p[time])
    BY <2>2, <1>1, PlannedNext
  <2>5. /\ Good(account', time)
        /\ \A left \in Int : Funded(account, left) => Funded(account', left - SumFunction(p[time]))
    BY <2>1, <2>3, <1>1, <1>2, SpendIsGood
  <2>6. Funded(account', Planned(p, time + 1))
    <3>1. Planned(p, time) \in Int
      BY <2>4
    <3> QED
      BY <3>1, <2>2, <2>4, <2>5
  <2>7. /\ (kind \in Kinds)' /\ (time \in 0 .. MaxTime)' /\ (time_left = TimeLeft - time)'
        /\ Good(account, time)' /\ time' = time + 1
    BY <1>2, <2>5, MinutePasses
  <2>8. bansInPlan' = bansSeen
    <3>1. CASE time \in DOMAIN action_plan
      <4>1. time >= time
        BY <1>1
      <4>2. bansInPlan = bansSeen
        BY <3>1, <4>1 DEF UserIInv, PlansKnowTheBans
      <4> QED
        BY <3>1, <4>2, <2>1
    <3>2. CASE time \notin DOMAIN action_plan
      BY <3>2, <2>1
    <3> QED
      BY <3>1, <3>2
  <2>9. PlansKnowTheBans'
    BY <2>8, <1>2 DEF PlansKnowTheBans
  <2>10. PlanOK(action_plan', time') /\ Funded(account', Planned(action_plan', time'))
    BY <2>1, <2>4, <2>6, <2>7
  <2> QED
    BY <2>7, <2>9, <2>10 DEF UserIInv
<1> QED
  BY <1>3, <1>4

\* A ban that is observed drops the plan; a ban of the user changes nothing else.
LEMMA BansKeep ==
    ASSUME UserIInv, Ban \/ ObserveBan
    PROVE  UserIInv'
<1>1. /\ kind \in Kinds /\ time \in Nat /\ Good(account, time) /\ account.task \in Nat
  BY UserFacts
<1>2. /\ kind' = kind /\ time' = time /\ time_left' = time_left /\ account' = account
      /\ bansInPlan' = bansInPlan
  BY DEF Ban, ObserveBan
<1>3. /\ (kind \in Kinds)' /\ (time \in 0 .. MaxTime)' /\ (time_left = TimeLeft - time)'
      /\ Good(account, time)'
  BY <1>2 DEF UserIInv, Good
<1>4. CASE Ban
  <2>1. action_plan' = action_plan /\ bansSeen' = bansSeen
    BY <1>4 DEF Ban
  <2>2. PlanOK(action_plan, time)' /\ PlansKnowTheBans'
    BY <1>2, <2>1 DEF UserIInv, PlansKnowTheBans
  <2>3. kind' = "llm" => Funded(account', Planned(action_plan', time'))
    BY <1>2, <2>1 DEF UserIInv
  <2> QED
    BY <1>3, <2>2, <2>3 DEF UserIInv
<1>5. CASE ObserveBan
  <2>1. action_plan' = <<>>
    BY <1>5 DEF ObserveBan
  <2>2. PlanOK(<<>>, time') /\ Planned(<<>>, time') = 0 /\ DOMAIN <<>> = {}
    BY EmptyPlan
  <2>3. RoundingOf(account) \in Nat /\ TOL \in Nat
    BY <1>1, GoodNumbers, ConstantFacts DEF Good
  <2>4. Funded(account, 0)
    BY <1>1, <2>3 DEF Funded
  <2>5. PlanOK(action_plan', time') /\ Funded(account', Planned(action_plan', time'))
    BY <1>2, <2>1, <2>2, <2>4
  <2>6. PlansKnowTheBans'
    BY <2>1, <2>2 DEF PlansKnowTheBans
  <2> QED
    BY <1>3, <2>5, <2>6 DEF UserIInv
<1> QED
  BY <1>4, <1>5

(* The invariant holds throughout, for every kind of user, set of amounts, *)
(* task, plan length, rounding, tolerance and CSV history.                 *)
THEOREM UserInvariant ==
    UserSpec => []UserIInv
<1>1. ASSUME UserIInv, [UserNext]_vars PROVE UserIInv'
  <2>1. CASE NormalMinute \/ RuleMinute
    BY <1>1, <2>1, PlainMinuteKeeps
  <2>2. CASE LLMMinute
    BY <1>1, <2>2, LLMMinuteKeeps
  <2>3. CASE Ban \/ ObserveBan
    BY <1>1, <2>3, BansKeep
  <2>4. CASE UNCHANGED vars
    <3>1. /\ kind' = kind /\ time' = time /\ time_left' = time_left /\ account' = account
          /\ action_plan' = action_plan /\ bansSeen' = bansSeen /\ bansInPlan' = bansInPlan
      BY <2>4 DEF vars
    <3>2. Good(account, time)' /\ PlansKnowTheBans'
      BY <1>1, <3>1 DEF UserIInv, Good, PlansKnowTheBans
    <3>3. (kind \in Kinds)' /\ (time \in 0 .. MaxTime)' /\ (time_left = TimeLeft - time)'
      BY <1>1, <3>1 DEF UserIInv
    <3>4. PlanOK(action_plan', time')
          /\ (kind' = "llm" => Funded(account', Planned(action_plan', time')))
      BY <1>1, <3>1 DEF UserIInv
    <3> QED
      BY <3>2, <3>3, <3>4 DEF UserIInv
  <2> QED
    BY <1>1, <2>1, <2>2, <2>3, <2>4 DEF UserNext
<1> QED
  BY <1>1, UserInitial, PTL DEF UserSpec

(* The record of a user is sound: its task never goes below zero nor, but  *)
(* for rounding, above what it started with, and transaction and           *)
(* transaction_simple hold the same payments, in order and with their      *)
(* positions as indices.                                                   *)
THEOREM RecordIsSound ==
    UserSpec => []UserInv
<1>1. UserIInv => UserInv
  <2> SUFFICES ASSUME UserIInv PROVE UserInv
    OBVIOUS
  <2>1. Good(account, time) /\ PlanOK(action_plan, time)
    BY DEF UserIInv
  <2>2. /\ Sound(account, time) /\ account.task \in Nat
        /\ account.task <= Task + RoundingOf(account)
    BY <2>1 DEF Good
  <2>3. Rounding = RoundingOf(account) /\ RoundingOf(account) \in Nat /\ Task \in Nat
    BY <2>2, GoodNumbers, ConstantFacts DEF Rounding, RoundingOf, MaxDrift
  <2>4. account.task \in 0 .. Task + Rounding
    BY <2>2, <2>3
  <2>5. UserTypeOK
    BY <2>1, <2>4 DEF UserIInv, UserTypeOK, PlanOK
  <2>6. HistoriesAgree
    BY <2>2, Zenon DEF Sound, HistoryOK, HistoriesAgree
  <2> QED
    BY <2>5, <2>6 DEF UserInv
<1> QED
  BY <1>1, UserInvariant, PTL

(* The statistics a user carries along with its payments are those that a  *)
(* recomputation from all the stored payments gives, whatever the order of *)
(* the history it was loaded with: updating them one payment at a time     *)
(* loses nothing.                                                          *)
THEOREM StatisticsAreRight ==
    UserSpec => []StatMatchesHistory
<1>1. UserIInv => StatMatchesHistory
  <2> SUFFICES ASSUME UserIInv PROVE StatMatchesHistory
    OBVIOUS
  <2> DEFINE txs == account.transaction
  <2>1. account \in Account /\ StatRight(account)
    BY DEF UserIInv, Good, Sound
  <2>2. txs \in Seq(Tx)
    BY <2>1 DEF Account
  <2>3. account.stat = IF txs = <<>> THEN NoStat ELSE StatOf(ByTime(txs))
    BY <2>1 DEF StatRight
  <2>4. account.stat = IF txs = <<>> THEN NoStat ELSE Recomputed(txs)
    BY <2>2, <2>3, RecomputedIs
  <2> QED
    BY <2>4, Zenon DEF StatMatchesHistory, Recomputed
<1> QED
  BY <1>1, UserInvariant, PTL

(* An attack user moves its task and no more: what is left and what was    *)
(* paid add up to it, but for one rounding error per payment.              *)
THEOREM NoTaskIsLost ==
    UserSpec => []TaskIsConserved
<1>1. UserIInv => TaskIsConserved
  <2> SUFFICES ASSUME UserIInv, kind # "normal"
               PROVE  account.task + SumAmounts(account.simple) - Task \in -Rounding .. Rounding
    BY DEF TaskIsConserved
  <2>1. Sound(account, time) /\ account.task \in Nat /\ Conserved(account)
    BY DEF UserIInv, Good
  <2>2. /\ Rounding = RoundingOf(account) /\ RoundingOf(account) \in Nat /\ Task \in Nat
        /\ SumAmounts(account.simple) \in Int
    BY <2>1, GoodNumbers, ConstantFacts DEF Rounding, RoundingOf, MaxDrift
  <2> QED
    BY <2>1, <2>2 DEF Conserved
<1> QED
  BY <1>1, UserInvariant, PTL

(* What a plan still holds is affordable, but for the tolerance of the     *)
(* check and the rounding since, and it was made in knowledge of every ban *)
(* that was observed.                                                      *)
THEOREM PlansHold ==
    UserSpec => []PlansAreSound
<1>1. UserIInv => PlansAreSound
  BY DEF UserIInv, PlansAreSound, PlanIsFunded, Funded, Rounding, RoundingOf, MaxDrift
<1> QED
  BY <1>1, UserInvariant, PTL
=============================================================================
