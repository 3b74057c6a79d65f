------------------------- MODULE PuzzlePayment_proofs -------------------------
(***************************************************************************)
(* For any number of sessions, any assignment of escrow ids and pools and  *)
(* any prime Q: the payment protocol keeps its sessions apart.             *)
(***************************************************************************)
EXTENDS PuzzlePayment, DataInduction

-----------------------------------------------------------------------------
(* Arithmetic modulo a prime.                                              *)

\* What a remainder is, and that it is the only one.
LEMMA Remainder ==
    ASSUME NEW a \in Int, NEW d \in Nat \ {0}
    PROVE  /\ a % d \in 0 .. d - 1
           /\ a \div d \in Int
           /\ a = d * (a \div d) + (a % d)
OBVIOUS

\* A number that differs from w by a multiple of d leaves w.
LEMMA RemainderIs ==
    ASSUME NEW a \in Int, NEW d \in Nat \ {0}, NEW w \in 0 .. d - 1, NEW k \in Int,
           a = d * k + w
    PROVE  a % d = w
<1> DEFINE q == a \div d
           r == a % d
<1>1. r \in 0 .. d - 1 /\ q \in Int /\ a = d * q + r
  BY Remainder
<1> HIDE DEF q, r
<1>2. d * k \in Int /\ d * q \in Int /\ d * (q + 1) = d * q + d /\ d * (k + 1) = d * k + d
  BY <1>1
<1>3. d * k < d * (q + 1) /\ d * q < d * (k + 1)
  BY <1>1, <1>2
<1>4. k < q + 1 /\ q < k + 1
  BY <1>1, <1>3, Cancel
<1>5. k = q
  BY <1>1, <1>4
<1>6. r = w
  BY <1>1, <1>2, <1>5
<1> QED
  BY <1>6 DEF r

\* What is assumed of Q.
LEMMA PrimeQ ==
    /\ Q \in Nat \ {0} /\ Q > 1 /\ Zq = 0 .. Q - 1
    /\ \A p, r \in 1 .. Q - 1 : p * r # Q
BY PuzzleAssumption DEF Zq

\* Random shifts are numbers modulo Q.
LEMMA ShiftsInZq == Shifts \subseteq Zq
BY PuzzleAssumption DEF Zq

\* bn_gcd_ext finds an inverse of everything but 0, because Q is prime: the
\* least positive combination of x and Q divides both.
LEMMA InverseExists ==
    ASSUME NEW x \in 1 .. Q - 1
    PROVE  \E y \in Zq : (x * y) % Q = 1
<1> DEFINE S == {n \in Nat \ {0} : \E y, z \in Int : n = x * y + Q * z}
<1>1. Q \in Nat \ {0} /\ Q > 1 /\ x \in Nat \ {0} /\ x < Q
  BY PrimeQ
<1>2. x \in S /\ S \in SUBSET Nat
  <2>1. x = x * 1 + Q * 0
    BY <1>1
  <2> QED
    BY <1>1, <2>1
<1>3. PICK d \in S : \A n \in S : d <= n
  BY <1>2, LeastNat
<1>4. PICK y, z \in Int : d = x * y + Q * z
  BY <1>3
<1>5. d \in Nat \ {0} /\ d <= x
  BY <1>2, <1>3
<1>6. Q % d = 0
  <2> DEFINE q == Q \div d
             r == Q % d
  <2>1. r \in 0 .. d - 1 /\ q \in Int /\ Q = d * q + r
    BY <1>1, <1>5, Remainder
  <2> HIDE DEF q, r
  <2>2. r = x * (0 - y * q) + Q * (1 - z * q)
    <3>1. d * q = x * (y * q) + Q * (z * q)
      <4>1. d * q = (x * y + Q * z) * q
        BY <1>4, <1>5, <2>1
      <4>2. (x * y + Q * z) * q = x * (y * q) + Q * (z * q)
        BY <1>1, <1>4, <2>1
      <4> QED
        BY <4>1, <4>2
    <3>2. x * (0 - y * q) = 0 - x * (y * q) /\ Q * (1 - z * q) = Q - Q * (z * q)
      BY <1>1, <1>4, <2>1
    <3>3. x * (y * q) \in Int /\ Q * (z * q) \in Int
      BY <1>1, <1>4, <2>1
    <3> QED
      BY <1>1, <2>1, <3>1, <3>2, <3>3
  <2>3. 0 - y * q \in Int /\ 1 - z * q \in Int
    BY <1>4, <2>1
  <2>4. r # 0 => r \in S
    <3>1. ASSUME r # 0 PROVE r \in S
      <4>1. r \in Nat \ {0}
        BY <1>5, <2>1, <3>1
      <4> QED
        BY <2>2, <2>3, <4>1
    <3> QED
      BY <3>1
  <2>5. r = 0
    <3> HIDE DEF S
    <3>1. r \in S => d <= r
      BY <1>3
    <3> QED
      BY <1>5, <2>1, <2>4, <3>1
  <2> QED
    BY <2>5 DEF r
<1> HIDE DEF S
<1>7. d = 1
  <2> SUFFICES ASSUME d # 1 PROVE FALSE
    OBVIOUS
  <2> DEFINE e == Q \div d
  <2>1. e \in Int /\ Q = d * e
    BY <1>1, <1>5, <1>6, Remainder
  <2> HIDE DEF e
  <2>2. d > 1 /\ d \in 1 .. Q - 1
    BY <1>1, <1>5
  <2>3. e > 0
    BY <1>1, <1>5, <2>1
  <2>4. e < Q
    <3>1. (d - 1) * e > 0 /\ d * e = (d - 1) * e + e /\ (d - 1) * e \in Int
      BY <2>1, <2>2, <2>3
    <3> QED
      BY <1>1, <2>1, <3>1
  <2>5. e \in 1 .. Q - 1
    BY <1>1, <2>1, <2>3, <2>4
  <2> QED
    BY <2>1, <2>2, <2>5, PrimeQ
<1> DEFINE k == y \div Q
           v == y % Q
<1>8. v \in Zq /\ k \in Int /\ y = Q * k + v
  BY <1>1, <1>4, PrimeQ, Remainder
<1> HIDE DEF k, v
<1>9. v \in Int
  BY <1>1, <1>8, PrimeQ
<1>10. x * v = Q * (0 - z - x * k) + 1
  <2>1. x * y = x * (Q * k) + x * v
    BY <1>1, <1>8, <1>9
  <2>2. x * y = 1 - Q * z
    BY <1>1, <1>4, <1>7
  <2>3. x * (Q * k) = Q * (x * k) /\ Q * (0 - z - x * k) = 0 - Q * z - Q * (x * k)
    BY <1>1, <1>4, <1>8
  <2>4. x * (Q * k) \in Int /\ x * v \in Int /\ Q * z \in Int /\ Q * (x * k) \in Int
    BY <1>1, <1>4, <1>8, <1>9
  <2> QED
    BY <2>1, <2>2, <2>3, <2>4
<1>11. (x * v) % Q = 1
  <2> DEFINE n == x * v
             m == 0 - z - x * k
  <2>1. n \in Int /\ m \in Int /\ 1 \in 0 .. Q - 1 /\ n = Q * m + 1
    BY <1>1, <1>4, <1>8, <1>9, <1>10
  <2> HIDE DEF n, m
  <2>2. n % Q = 1
    BY <1>1, <2>1, RemainderIs
  <2> QED
    BY <2>2 DEF n
<1> QED
  BY <1>8, <1>11

\* The inverse that is chosen, and the equation it solves.
LEMMA InverseSolves ==
    ASSUME NEW x \in 1 .. Q - 1
    PROVE  /\ InverseModQ(x) \in Zq
           /\ \E k \in Int : x * InverseModQ(x) = Q * k + 1
<1> DEFINE v == CHOOSE y \in Zq : (x * y) % Q = 1
<1>1. v \in Zq /\ (x * v) % Q = 1
  BY InverseExists
<1>2. x # 0
  OBVIOUS
<1>3. InverseModQ(x) = v
  BY <1>2 DEF InverseModQ
<1> HIDE DEF v
<1>4. Q \in Nat \ {0} /\ x * v \in Int
  BY <1>1, PrimeQ
<1>5. (x * v) \div Q \in Int /\ x * v = Q * ((x * v) \div Q) + 1
  BY <1>1, <1>4, Remainder
<1> QED
  BY <1>1, <1>3, <1>5

\* Everything the parties compute is a number modulo Q.
LEMMA ModQType ==
    /\ \A x \in Zq : InverseModQ(x) \in Zq
    /\ \A a \in Nat : a % Q \in Zq
    /\ \A s, w \in Zq : Complete(s, w) \in Zq /\ ExtractGamma(s, w) \in Zq
                        /\ Derandomize(s, w) \in Zq /\ ExtractAlpha(s, w) \in Zq
    /\ \A p \in Puzzle, r \in Zq : Randomize(p, r) \in Puzzle
<1>1. Q \in Nat \ {0} /\ Zq = 0 .. Q - 1 /\ Zq \subseteq Nat
  BY PrimeQ
<1>2. ASSUME NEW x \in Zq PROVE InverseModQ(x) \in Zq
  <2>1. CASE x = 0
    BY <1>1, <2>1 DEF InverseModQ
  <2>2. CASE x # 0
    <3>1. x \in 1 .. Q - 1
      BY <1>1, <2>2
    <3> QED
      BY <3>1, InverseSolves
  <2> QED
    BY <2>1, <2>2
<1>3. ASSUME NEW a \in Nat PROVE a % Q \in Zq
  BY <1>1, Remainder
<1>4. ASSUME NEW s \in Zq, NEW w \in Zq PROVE (s * w) % Q \in Zq
  <2>1. s * w \in Nat
    BY <1>1
  <2> QED
    BY <1>3, <2>1
<1>5. ASSUME NEW s \in Zq, NEW w \in Zq
      PROVE  Complete(s, w) \in Zq /\ ExtractGamma(s, w) \in Zq
             /\ Derandomize(s, w) \in Zq /\ ExtractAlpha(s, w) \in Zq
  BY <1>2, <1>4 DEF Complete, ExtractGamma, Derandomize, ExtractAlpha
<1>6. ASSUME NEW p \in Puzzle, NEW r \in Zq PROVE Randomize(p, r) \in Puzzle
  <2>1. p.g \in Nat /\ p.ctx \in Nat /\ r \in Nat
    BY <1>1 DEF Puzzle
  <2>2. p.g + r \in Nat /\ p.ctx + r \in Nat
    BY <2>1
  <2>3. (p.g + r) % Q \in Zq /\ (p.ctx + r) % Q \in Zq
    BY <1>3, <2>2
  <2> QED
    BY <2>3 DEF Randomize, Puzzle
<1> QED
  BY <1>2, <1>3, <1>5, <1>6

\* A presignature completed with a nonzero secret is a nonzero signature, and
\* gives the secret back.
LEMMA CompleteAndExtract ==
    ASSUME NEW s \in 1 .. Q - 1, NEW w \in 1 .. Q - 1
    PROVE  /\ Complete(s, w) \in 1 .. Q - 1
           /\ ExtractGamma(s, Complete(s, w)) = w
<1> DEFINE i == InverseModQ(w)
           c == Complete(s, w)
           v == InverseModQ(c)
           b == (s * i) \div Q
<1>1. Q \in Nat \ {0} /\ Q > 1 /\ s \in Nat /\ w \in Nat /\ s # 0 /\ s < Q
  BY PrimeQ
<1>2. i \in Int /\ \E k \in Int : w * i = Q * k + 1
  <2>1. i \in Zq /\ \E k \in Int : w * i = Q * k + 1
    BY InverseSolves
  <2> HIDE DEF i
  <2>2. i \in Int
    <3>1. i \in Zq
      BY <2>1
    <3> QED
      BY <3>1, PrimeQ
  <2> QED
    BY <2>1, <2>2
<1>3. PICK a \in Int : w * i = Q * a + 1
  BY <1>2
<1> HIDE DEF i
<1>4. c \in 0 .. Q - 1 /\ b \in Int /\ s * i = Q * b + c
  <2>1. s * i \in Int
    BY <1>1, <1>2
  <2>2. c = (s * i) % Q
    BY DEF Complete, i
  <2> QED
    BY <1>1, <2>1, <2>2, Remainder
<1> HIDE DEF b, c
\* s is w times c, up to a multiple of Q.
<1>5. s = Q * (w * b - s * a) + w * c
  <2>1. s * (w * i) = s * (Q * a) + s
    BY <1>1, <1>2, <1>3
  <2>2. s * (w * i) = w * (s * i)
    BY <1>1, <1>2
  <2>3. w * (s * i) = w * (Q * b) + w * c
    BY <1>1, <1>2, <1>4
  <2>4. s * (Q * a) = Q * (s * a) /\ w * (Q * b) = Q * (w * b)
        /\ Q * (w * b - s * a) = Q * (w * b) - Q * (s * a)
    BY <1>1, <1>3, <1>4
  <2>5. Q * (s * a) \in Int /\ Q * (w * b) \in Int /\ w * c \in Int
    BY <1>1, <1>3, <1>4
  <2> QED
    BY <1>1, <2>1, <2>2, <2>3, <2>4, <2>5
<1>6. c # 0
  <2> SUFFICES ASSUME c = 0 PROVE FALSE
    OBVIOUS
  <2> DEFINE k == w * b - s * a
  <2>1. k \in Int /\ s = Q * k
    BY <1>1, <1>3, <1>4, <1>5
  <2> HIDE DEF k
  <2>2. Q * 0 < Q * k /\ Q * k < Q * 1
    BY <1>1, <2>1
  <2>3. 0 < k /\ k < 1
    BY <1>1, <2>1, <2>2, Cancel
  <2> QED
    BY <2>1, <2>3
<1>7. c \in 1 .. Q - 1
  BY <1>1, <1>4, <1>6
<1>8. v \in Int /\ \E k \in Int : c * v = Q * k + 1
  <2>1. v \in Zq /\ \E k \in Int : c * v = Q * k + 1
    BY <1>7, InverseSolves
  <2> HIDE DEF v
  <2>2. v \in Int
    <3>1. v \in Zq
      BY <2>1
    <3> QED
      BY <3>1, PrimeQ
  <2> QED
    BY <2>1, <2>2
<1>9. PICK e \in Int : c * v = Q * e + 1
  BY <1>8
<1> HIDE DEF v
<1>10. v * s = Q * (v * (w * b - s * a) + w * e) + w
  <2> DEFINE k == w * b - s * a
  <2>1. k \in Int /\ s = Q * k + w * c
    BY <1>1, <1>3, <1>4, <1>5
  <2> HIDE DEF k
  <2>2. v * s = v * (Q * k) + v * (w * c)
    BY <1>1, <1>4, <1>8, <2>1
  <2>3. v * (w * c) = w * (c * v) /\ w * (c * v) = w * (Q * e) + w
    BY <1>1, <1>4, <1>8, <1>9
  <2>4. v * (Q * k) = Q * (v * k) /\ w * (Q * e) = Q * (w * e)
        /\ Q * (v * k + w * e) = Q * (v * k) + Q * (w * e)
    BY <1>1, <1>8, <1>9, <2>1
  <2>5. Q * (v * k) \in Int /\ Q * (w * e) \in Int
    BY <1>1, <1>8, <1>9, <2>1
  <2>6. v * s = Q * (v * k + w * e) + w
    BY <1>1, <2>2, <2>3, <2>4, <2>5
  <2> QED
    BY <2>6 DEF k
<1>11. (v * s) % Q = w
  <2> DEFINE n == v * s
             m == v * (w * b - s * a) + w * e
  <2>1. n \in Int /\ m \in Int /\ w \in 0 .. Q - 1 /\ n = Q * m + w
    BY <1>1, <1>3, <1>4, <1>8, <1>9, <1>10
  <2> HIDE DEF n, m
  <2>2. n % Q = w
    BY <1>1, <2>1, RemainderIs
  <2> QED
    BY <2>2 DEF n
<1> QED
  BY <1>7, <1>11 DEF ExtractGamma, c, v

\* Randomising twice adds both numbers.
LEMMA SumModQ ==
    ASSUME NEW a \in Nat, NEW b \in Nat, NEW c \in Nat
    PROVE  (((a + b) % Q) + c) % Q = (a + b + c) % Q
<1> DEFINE k == (a + b) \div Q
           r == (a + b) % Q
           l == (r + c) \div Q
           t == (r + c) % Q
<1>1. Q \in Nat \ {0} /\ a + b \in Int
  BY PrimeQ
<1>2. k \in Int /\ r \in 0 .. Q - 1 /\ a + b = Q * k + r
  BY <1>1, Remainder
<1>3. r \in Int /\ r + c \in Int
  BY <1>1, <1>2
<1> HIDE DEF k, r
<1>4. l \in Int /\ t \in 0 .. Q - 1 /\ r + c = Q * l + t
  BY <1>1, <1>3, Remainder
<1> HIDE DEF l, t
<1>5. a + b + c = Q * (k + l) + t
  <2>1. Q * (k + l) = Q * k + Q * l /\ Q * k \in Int /\ Q * l \in Int
    BY <1>1, <1>2, <1>4
  <2> QED
    BY <1>2, <1>3, <1>4, <2>1
<1>6. (a + b + c) % Q = t
  <2>1. k + l \in Int /\ a + b + c \in Int
    BY <1>2, <1>4
  <2> QED
    BY <1>1, <1>4, <1>5, <2>1, RemainderIs
<1> QED
  BY <1>6 DEF t, r

-----------------------------------------------------------------------------
(* The inductive invariant: what each party's state says of the others'    *)
(* and of the messages under way.                                          *)

\* Alice has sent her payment, Bob his puzzle.
Paying == {"paying", "done"}
Shared == {"puzzle_shared", "waiting", "done"}

\* One session's stages fit, and the puzzle is the same along its way: the
\* tumbler's alpha, plus Bob's beta, plus Alice's tau.
SessionOK(s) ==
    /\ alice[s].stage \in {"start", "registering"} => bob[s].stage = "start"
    /\ alice[s].stage \in Paying => bob[s].stage \in Shared
    /\ bob[s].stage = "done" => alice[s].stage = "done"
    /\ verified[s] # "unpaid" => alice[s].stage \in Paying
    /\ alice[s].hash \in {s, NoSession}
    /\ bob[s].stage \in Shared => bob[s].puzzle.g = bob[s].puzzle.ctx
    /\ alice[s].stage \in Paying =>
          /\ alice[s].puzzle.g = (bob[s].puzzle.g + bob[s].beta + alice[s].tau) % Q
          /\ alice[s].puzzle.ctx = alice[s].puzzle.g
          /\ alice[s].puzzle.g # 0
          /\ alice[s].presig \in Presignatures
    /\ alice[s].stage = "done" => alice[s].gamma = alice[s].puzzle.g

MessageType ==
    {"registration", "registration_done", "token_share", "promise_init", "promise_done",
     "puzzle_share", "puzzle_share_done", "payment_init", "payment_done",
     "puzzle_solution_share", "bob_confirm_done"}

\* What a message under way says of its session.
MessageOK(m) ==
    LET a == alice[m.s]
        b == bob[m.s]
    IN  /\ m.s \in Session /\ m.type \in MessageType
        /\ m.type \in {"registration", "registration_done"} => a.stage = "registering"
        /\ m.type = "registration" => m.id = a.id /\ m.hash = a.hash
        /\ m.type \in {"token_share", "promise_init", "promise_done", "puzzle_share"} =>
              a.stage = "token_shared"
        /\ m.type = "token_share" => b.stage = "start"
        /\ m.type \in {"token_share", "promise_init"} => m.pool = a.pool
        /\ m.type \in {"promise_init", "promise_done"} => b.stage = "promising"
        /\ m.type = "promise_done" =>
              m.id \in Nat /\ m.puzzle \in Puzzle /\ m.puzzle.g = m.puzzle.ctx /\ m.presig \in Zq
        /\ m.type \in {"puzzle_share", "puzzle_share_done"} => b.stage = "puzzle_shared"
        /\ m.type = "puzzle_share" => m.puzzle = Randomize(b.puzzle, b.beta)
        /\ m.type = "puzzle_share_done" => a.stage \in Paying
        /\ m.type \in {"payment_init", "payment_done"} => a.stage = "paying"
        /\ m.type = "payment_init" =>
              /\ m.presig = a.presig /\ m.puzzle = a.puzzle
              /\ m \notin dealing => verified[m.s] = "unpaid"
        /\ m.type = "payment_done" => m.sig = Complete(a.presig, a.puzzle.ctx)
        /\ m.type \in {"puzzle_solution_share", "bob_confirm_done"} => a.stage = "done"
        /\ m.type = "puzzle_solution_share" => b.stage \in Shared \ {"done"} /\ m.alphaHat \in Zq
        /\ m.type = "bob_confirm_done" => b.stage = "done"

\* Alice's answer to Bob is under way beside the payment itself.
IsSide(m) == m.type = "puzzle_share_done"

MessagesFit == \A m \in net : MessageOK(m)

\* A session has one message under way, and perhaps that answer.
OneAtATime == \A m, n \in net : m.s = n.s /\ (IsSide(m) <=> IsSide(n)) => m = n

\* The tumbler deals for one message at a time, which is not yet answered.
Dealt == {"payment_init", "bob_confirm_done"}
DealsFit ==
    /\ dealing \subseteq net
    /\ \A m \in dealing : m.type \in Dealt
    /\ \A m, n \in dealing : m = n

\* What NobodyWaitsInVain says of one session.
UnderWay(s, types) == \E m \in net : m.s = s /\ m.type \in types
Served(s) ==
    /\ alice[s].stage = "registering" => UnderWay(s, {"registration", "registration_done"})
    /\ alice[s].stage = "paying" => UnderWay(s, {"payment_init", "payment_done"})
    /\ bob[s].stage = "promising" => UnderWay(s, {"promise_init", "promise_done"})

\* An escrow belongs to the Alice who opened it, in her pool and with her id.
Key == Pools \X Session
KeyOf(a) == <<a.pool, a.id>>
EscrowsOwned ==
    \A k \in Key :
        LET e == escrows[k]
        IN  /\ e.opener = NoSession => e.dataHash = NoSession /\ ~e.released
            /\ e.opener # NoSession => /\ KeyOf(alice[e.opener]) = k
                                       /\ e.dataHash \in {e.opener, NoSession}
            /\ e.released => verified[e.opener] = "accepted"

\* The tumbler's one session is that of the only Alice who came.
TumblerKnows ==
    \A s \in Session :
        /\ alice[s].stage # "start"
        /\ \A t \in Session \ {s} : alice[t].stage = "start"
        /\ ~UnderWay(s, {"registration"})
        => tumbler.aliceId = alice[s].id /\ tumbler.aliceHash = alice[s].hash

\* The inductive invariant.
PaymentIInv ==
    /\ PaymentTypeOK
    /\ \A s \in Session : SessionOK(s)
    /\ MessagesFit
    /\ OneAtATime
    /\ DealsFit
    /\ tumbler.up => \A s \in Session : Served(s)
    /\ EscrowsOwned
    /\ TumblerKnows
    /\ RejectedOnlyWhenDisturbed

-----------------------------------------------------------------------------
(* What a step of one session leaves alone.                                *)

\* The sets of the type invariant.
AliceState ==
    [stage : {"start", "registering", "token_shared", "paying", "done", "failed"},
     id : Session, pool : Pools, hash : Session \cup {NoSession},
     tau : Zq, puzzle : Puzzle, presig : Zq, gamma : Zq]
BobState ==
    [stage : {"start", "promising", "puzzle_shared", "waiting", "done", "failed"},
     id : Nat, puzzle : Puzzle, presig : Zq, beta : Zq, alpha : Zq, sig : Zq]
TumblerState ==
    [up : BOOLEAN, skip : BOOLEAN, aliceId : Session \cup {NoSession},
     aliceHash : Session \cup {NoSession}, bobId : Nat, pool : Pools \cup {NoSession}]
EscrowState ==
    [opener : Session \cup {NoSession}, dataHash : Session \cup {NoSession}, released : BOOLEAN]

\* The type invariant in their words.
LEMMA StateTypes ==
    PaymentTypeOK <=>
        /\ alice \in [Session -> AliceState] /\ bob \in [Session -> BobState]
        /\ tumbler \in TumblerState /\ reachable \in BOOLEAN /\ nullifiers \subseteq Session
        /\ escrows \in [Key -> EscrowState] /\ funded \subseteq Nat
        /\ verified \in [Session -> {"unpaid", "accepted", "rejected"}]
BY Zenon DEF PaymentTypeOK, AliceState, BobState, TumblerState, EscrowState, Key

\* The same after a step.
LEMMA StateTypesAfter ==
    ASSUME alice' \in [Session -> AliceState], bob' \in [Session -> BobState],
           tumbler' \in TumblerState, reachable' \in BOOLEAN, nullifiers' \subseteq Session,
           escrows' \in [Key -> EscrowState], funded' \subseteq Nat,
           verified' \in [Session -> {"unpaid", "accepted", "rejected"}]
    PROVE  PaymentTypeOK'
BY Zenon DEF PaymentTypeOK, AliceState, BobState, TumblerState, EscrowState, Key

\* Only session s is worked on, by taking the messages D and sending A.
StepOf(s, D, A) ==
    /\ \A t \in Session \ {s} :
          alice'[t] = alice[t] /\ bob'[t] = bob[t] /\ verified'[t] = verified[t]
    /\ net' = (net \ D) \cup A
    /\ \A m \in D \cup A : m.s = s
    /\ \A m \in dealing : m.s # s => m \in dealing'
    /\ tumbler'.up => tumbler.up

\* What holds of the session itself after the step.
SessionAfter(s) ==
    /\ SessionOK(s)'
    /\ \A m \in net' : m.s = s => MessageOK(m)'
    /\ \A m, n \in net' : m.s = s /\ n.s = s /\ (IsSide(m) <=> IsSide(n)) => m = n
    /\ tumbler'.up => Served(s)'

\* The sessions are independent of each other.
LEMMA SessionStep ==
    ASSUME PaymentIInv, NEW s \in Session, NEW D, NEW A, StepOf(s, D, A), SessionAfter(s)
    PROVE  /\ \A t \in Session : SessionOK(t)'
           /\ MessagesFit' /\ OneAtATime'
           /\ tumbler'.up => \A t \in Session : Served(t)'
<1>1. /\ \A t \in Session \ {s} :
            alice'[t] = alice[t] /\ bob'[t] = bob[t] /\ verified'[t] = verified[t]
      /\ net' = (net \ D) \cup A /\ \A m \in D \cup A : m.s = s
      /\ \A m \in dealing : m.s # s => m \in dealing'
      /\ tumbler'.up => tumbler.up
  BY DEF StepOf
<1>2. ASSUME NEW t \in Session \ {s} PROVE SessionOK(t)'
  BY <1>1 DEF PaymentIInv, SessionOK
<1>3. ASSUME NEW m \in net', m.s # s PROVE m \in net /\ MessageOK(m)'
  <2>1. m \in net /\ MessageOK(m)
    BY <1>1, <1>3 DEF PaymentIInv, MessagesFit
  <2>2. m.s \in Session \ {s}
    BY <1>3, <2>1 DEF MessageOK
  <2> QED
    BY <1>1, <1>3, <2>1, <2>2 DEF MessageOK
<1>4. OneAtATime'
  BY <1>3 DEF PaymentIInv, OneAtATime, SessionAfter, IsSide
<1>5. ASSUME NEW t \in Session \ {s}, tumbler'.up PROVE Served(t)'
  <2>1. Served(t)
    BY <1>1, <1>5 DEF PaymentIInv
  <2>2. \A types : UnderWay(t, types) => UnderWay(t, types)'
    BY <1>1 DEF UnderWay
  <2> QED
    BY <1>1, <2>1, <2>2 DEF Served
<1> QED
  BY <1>2, <1>3, <1>4, <1>5 DEF SessionAfter, MessagesFit

\* Steps without a registration or a payment leave the tumbler's session and
\* the escrows' owners as they are.
LEMMA QuietStep ==
    ASSUME PaymentIInv, escrows' = escrows, verified' = verified,
           tumbler'.aliceId = tumbler.aliceId, tumbler'.aliceHash = tumbler.aliceHash,
           \A t \in Session : /\ alice'[t].id = alice[t].id /\ alice'[t].pool = alice[t].pool
                              /\ alice'[t].hash = alice[t].hash
                              /\ alice'[t].stage = "start" <=> alice[t].stage = "start",
           \A m : m.type = "registration" => (m \in net' <=> m \in net)
    PROVE  EscrowsOwned' /\ TumblerKnows' /\ RejectedOnlyWhenDisturbed'
<1>1. EscrowsOwned'
  <2>1. \A k \in Key : escrows[k].opener \in Session \cup {NoSession}
    BY DEF PaymentIInv, PaymentTypeOK, Key
  <2>2. \A t \in Session : KeyOf(alice'[t]) = KeyOf(alice[t])
    BY DEF KeyOf
  <2> HIDE DEF KeyOf
  <2> QED
    BY <2>1, <2>2 DEF PaymentIInv, EscrowsOwned
<1>2. \A t \in Session : UnderWay(t, {"registration"})' <=> UnderWay(t, {"registration"})
  BY DEF UnderWay
<1>3. TumblerKnows'
  BY <1>2 DEF PaymentIInv, TumblerKnows
<1>4. RejectedOnlyWhenDisturbed'
  BY DEF PaymentIInv, RejectedOnlyWhenDisturbed
<1> QED
  BY <1>1, <1>3, <1>4

\* What is under way of a session besides one of its messages.
LEMMA TheOthers ==
    ASSUME PaymentIInv, NEW m \in net, NEW n \in net, n # m, n.s = m.s
    PROVE  /\ IsSide(m) => ~IsSide(n)
           /\ ~IsSide(m) => IsSide(n)
BY DEF PaymentIInv, OneAtATime

\* A message that makes no deal.
LEMMA NotDealt ==
    ASSUME PaymentIInv, NEW m, m.type \notin Dealt \/ dealing = {}
    PROVE  dealing \ {m} = dealing
BY DEF PaymentIInv, DealsFit

-----------------------------------------------------------------------------
(* The first state, and the steps.                                         *)

\* Before anybody has started.
LEMMA PaymentInitially == PaymentInit => PaymentIInv
<1> SUFFICES ASSUME PaymentInit PROVE PaymentIInv
  OBVIOUS
<1>1. PICK start \in Starts :
          alice = [s \in Session |->
                     [stage |-> "start", id |-> start.id[s], pool |-> start.pool[s],
                      hash |-> NoSession, tau |-> 0, puzzle |-> NoPuzzle, presig |-> 0, gamma |-> 0]]
  BY DEF PaymentInit
<1>2. start.id \in [Session -> Session] /\ start.pool \in [Session -> Pools]
  BY PuzzleAssumption
<1>3. 0 \in Zq /\ NoPuzzle \in Puzzle
  BY PrimeQ DEF NoPuzzle, Puzzle
<1>4. PaymentTypeOK
  <2>1. alice \in [Session ->
         [stage : {"start", "registering", "token_shared", "paying", "done", "failed"},
          id : Session, pool : Pools, hash : Session \cup {NoSession},
          tau : Zq, puzzle : Puzzle, presig : Zq, gamma : Zq]]
    BY <1>1, <1>2, <1>3
  <2>2. bob \in [Session ->
         [stage : {"start", "promising", "puzzle_shared", "waiting", "done", "failed"},
          id : Nat, puzzle : Puzzle, presig : Zq, beta : Zq, alpha : Zq, sig : Zq]]
    BY <1>3 DEF PaymentInit
  <2>3. escrows \in [Pools \X Session -> [opener : Session \cup {NoSession},
                                dataHash : Session \cup {NoSession}, released : BOOLEAN]]
    BY DEF PaymentInit, NoEscrow
  <2>4. tumbler \in [up : BOOLEAN, skip : BOOLEAN, aliceId : Session \cup {NoSession},
                     aliceHash : Session \cup {NoSession}, bobId : Nat,
                     pool : Pools \cup {NoSession}]
    BY DEF PaymentInit
  <2>5. /\ reachable \in BOOLEAN /\ nullifiers \subseteq Session /\ funded \subseteq Nat
        /\ verified \in [Session -> {"unpaid", "accepted", "rejected"}]
    BY DEF PaymentInit
  <2> QED
    BY <2>1, <2>2, <2>3, <2>4, <2>5, Zenon DEF PaymentTypeOK
<1>5. \A s \in Session : alice[s].stage = "start" /\ alice[s].hash = NoSession
  BY <1>1
<1>6. /\ \A s \in Session : bob[s].stage = "start" /\ verified[s] = "unpaid"
      /\ net = {} /\ dealing = {}
  BY DEF PaymentInit
<1>7. \A s \in Session : SessionOK(s) /\ Served(s)
  BY <1>5, <1>6 DEF SessionOK, Served, Paying, Shared
<1>8. EscrowsOwned
  BY DEF EscrowsOwned, Key, PaymentInit, NoEscrow
<1>9. TumblerKnows /\ RejectedOnlyWhenDisturbed /\ MessagesFit /\ OneAtATime /\ DealsFit
  BY <1>5, <1>6 DEF TumblerKnows, RejectedOnlyWhenDisturbed, MessagesFit, OneAtATime, DealsFit
<1> QED
  BY <1>4, <1>7, <1>8, <1>9 DEF PaymentIInv

\* Alice opens her escrow and registers.
LEMMA AliceRegistrationStep ==
    ASSUME PaymentIInv, NEW s \in Session, AliceRegistration(s)
    PROVE  PaymentIInv'
<1>1. PICK id, k : id = alice[s].id /\ k = KeyOf(alice[s])
  OBVIOUS
<1>2. /\ alice[s].stage = "start" /\ bob' = bob /\ tumbler' = tumbler /\ verified' = verified
      /\ nullifiers' = nullifiers /\ funded' = funded
      /\ dealing' = dealing /\ reachable' = reachable
  BY DEF AliceRegistration
<1>3. PICK hash, h :
        /\ hash \in {s, NoSession} /\ h \in {s, NoSession}
        /\ alice' = [alice EXCEPT ![s].stage = "registering", ![s].hash = hash]
        /\ net' = net \cup {[type |-> "registration", s |-> s, id |-> id, hash |-> hash]}
        /\ \/ escrows' = escrows
           \/ /\ escrows[k].opener = NoSession
              /\ escrows' = [escrows EXCEPT ![k].opener = s, ![k].dataHash = h]
  <2>1. PICK opens, writes \in ChainOutcomes :
             LET opened == OpensEscrow(opens, s, escrows[k].opener = NoSession)
                 hash == IF opened THEN s ELSE NoSession
             IN  /\ escrows' = IF opened
                               THEN [escrows EXCEPT
                                       ![k].opener = s,
                                       ![k].dataHash = IF writes THEN s ELSE NoSession]
                               ELSE escrows
                 /\ alice' = [alice EXCEPT ![s].stage = "registering", ![s].hash = hash]
                 /\ Send([type |-> "registration", s |-> s, id |-> id, hash |-> hash])
    BY <1>1 DEF AliceRegistration, KeyOf
  <2> DEFINE opened == OpensEscrow(opens, s, escrows[k].opener = NoSession)
             hash == IF opened THEN s ELSE NoSession
             h == IF writes THEN s ELSE NoSession
  <2>2. hash \in {s, NoSession} /\ h \in {s, NoSession}
    OBVIOUS
  <2>3. opened => escrows[k].opener = NoSession
    BY DEF OpensEscrow
  <2>4. /\ alice' = [alice EXCEPT ![s].stage = "registering", ![s].hash = hash]
        /\ net' = net \cup {[type |-> "registration", s |-> s, id |-> id, hash |-> hash]}
    BY <2>1 DEF Send
  <2>5. escrows' = IF opened THEN [escrows EXCEPT ![k].opener = s, ![k].dataHash = h]
                             ELSE escrows
    BY <2>1
  <2> HIDE DEF opened, hash, h
  <2> QED
    BY <2>2, <2>3, <2>4, <2>5
<1>4. PICK r : /\ r.type = "registration" /\ r.s = s /\ r.id = id /\ r.hash = hash
               /\ net' = net \cup {r}
  BY <1>3
<1>5. net' = net \cup {r}
  BY <1>4
<1>6. /\ PaymentTypeOK /\ alice \in [Session -> AliceState] /\ escrows \in [Key -> EscrowState]
      /\ id \in Session /\ k \in Key
  <2>1. PaymentTypeOK /\ alice \in [Session -> AliceState] /\ escrows \in [Key -> EscrowState]
    BY StateTypes DEF PaymentIInv
  <2> QED
    BY <1>1, <2>1 DEF AliceState, KeyOf, Key
<1> DEFINE a == [alice[s] EXCEPT !.stage = "registering", !.hash = hash]
<1>7. /\ a \in AliceState /\ a.stage = "registering" /\ a.hash = hash /\ a.id = id
      /\ a.pool = alice[s].pool
  <2>1. alice[s] \in AliceState /\ hash \in Session \cup {NoSession}
    BY <1>3, <1>6
  <2> QED
    BY <1>1, <2>1 DEF AliceState
<1>8. alice' = [alice EXCEPT ![s] = a]
  BY <1>3
<1> HIDE DEF a
<1>9. alice'[s] = a /\ alice' \in [Session -> AliceState]
  BY <1>6, <1>7, <1>8
<1>10. /\ \A t \in Session \ {s} : alice'[t] = alice[t]
       /\ \A t \in Session : KeyOf(alice'[t]) = KeyOf(alice[t])
  <2>1. \A t \in Session \ {s} : alice'[t] = alice[t]
    BY <1>6, <1>8
  <2>2. KeyOf(alice'[s]) = KeyOf(alice[s])
    BY <1>1, <1>7, <1>9 DEF KeyOf
  <2> QED
    BY <2>1, <2>2
<1>11. \A m \in net : m.s # s
  BY <1>2 DEF PaymentIInv, MessagesFit, MessageOK, MessageType, Paying
<1> DEFINE e == [escrows[k] EXCEPT !.opener = s, !.dataHash = h]
<1>12. e \in EscrowState /\ e.opener = s /\ e.dataHash = h /\ e.released = escrows[k].released
  <2>1. escrows[k] \in EscrowState /\ h \in Session \cup {NoSession}
    BY <1>3, <1>6
  <2> QED
    BY <2>1 DEF EscrowState
<1>13. \/ escrows' = escrows
       \/ escrows[k].opener = NoSession /\ escrows' = [escrows EXCEPT ![k] = e]
  BY <1>3
<1> HIDE DEF e
<1>14. PaymentTypeOK'
  <2>1. escrows' \in [Key -> EscrowState]
    BY <1>6, <1>12, <1>13
  <2> QED
    BY <1>2, <1>9, <2>1, StateTypes, StateTypesAfter DEF PaymentIInv
<1>15. StepOf(s, {}, {r})
  BY <1>2, <1>4, <1>5, <1>10 DEF StepOf
<1>16. SessionAfter(s)
  <2>1. SessionOK(s)'
    <3>1. SessionOK(s)
      BY DEF PaymentIInv
    <3> QED
      BY <1>2, <1>3, <1>7, <1>9, <3>1 DEF SessionOK, Paying
  <2>2. \A m \in net' : m.s = s => m = r
    BY <1>5, <1>11
  <2>3. MessageOK(r)'
    BY <1>4, <1>7, <1>9 DEF MessageOK, MessageType
  <2>4. Served(s)'
    <3>1. UnderWay(s, {"registration", "registration_done"})'
      BY <1>4, <1>5 DEF UnderWay
    <3>2. bob[s].stage = "start"
      BY <1>2 DEF PaymentIInv, SessionOK
    <3> QED
      BY <1>2, <1>7, <1>9, <3>1, <3>2 DEF Served
  <2> QED
    BY <1>4, <2>1, <2>2, <2>3, <2>4 DEF SessionAfter
<1>17. EscrowsOwned'
  <2>1. \A i \in Key : escrows[i].opener \in Session \cup {NoSession}
    BY <1>6 DEF EscrowState
  <2>2. CASE escrows' = escrows
    BY <1>2, <1>10, <2>1, <2>2 DEF PaymentIInv, EscrowsOwned
  <2>3. CASE /\ escrows[k].opener = NoSession
             /\ escrows' = [escrows EXCEPT ![k] = e]
    <3>1. /\ escrows'[k].opener = s /\ escrows'[k].dataHash = h
          /\ escrows'[k].released = escrows[k].released
          /\ \A i \in Key \ {k} : escrows'[i] = escrows[i]
      BY <1>6, <1>12, <2>3
    <3>2. ~escrows[k].released
      BY <1>6, <2>3 DEF PaymentIInv, EscrowsOwned
    <3>3. s # NoSession
      BY PuzzleAssumption
    <3> QED
      <4>1. h \in {s, NoSession} /\ KeyOf(alice[s]) = k
        BY <1>1, <1>3
      <4>2. \A i \in Key \ {k} : escrows'[i] = escrows[i] /\ escrows[i].opener # NoSession =>
               KeyOf(alice'[escrows[i].opener]) = KeyOf(alice[escrows[i].opener])
        BY <1>10, <2>1, <3>1
      <4> QED
        BY <1>2, <1>6, <1>10, <3>1, <3>2, <3>3, <4>1, <4>2 DEF PaymentIInv, EscrowsOwned
  <2> QED
    BY <1>13, <2>2, <2>3
<1>18. TumblerKnows'
  <2>1. UnderWay(s, {"registration"})'
    BY <1>4, <1>5 DEF UnderWay
  <2> QED
    BY <1>7, <1>9, <2>1 DEF TumblerKnows
<1>19. RejectedOnlyWhenDisturbed'
  BY <1>2, <1>10, <1>7, <1>9 DEF PaymentIInv, RejectedOnlyWhenDisturbed
<1>20. DealsFit'
  BY <1>2, <1>5 DEF PaymentIInv, DealsFit
<1> QED
  BY <1>14, <1>15, <1>16, <1>17, <1>18, <1>19, <1>20, SessionStep DEF PaymentIInv

\* A party takes the message m of a session and sends the messages A; what
\* else the session has under way still fits, and is of the other kind.
LEMMA MessagesStep ==
    ASSUME PaymentIInv, NEW s \in Session, NEW m \in net, NEW A,
           m.s = s, net' = (net \ {m}) \cup A, dealing' = dealing \ {m},
           \A n \in A : n.s = s /\ MessageOK(n)',
           \A n, k \in A : (IsSide(n) <=> IsSide(k)) => n = k,
           \A n \in net \ {m} : n.s = s =>
              MessageOK(n)' /\ \A k \in A : ~(IsSide(n) <=> IsSide(k)),
           \A t \in Session \ {s} :
              alice'[t] = alice[t] /\ bob'[t] = bob[t] /\ verified'[t] = verified[t],
           tumbler'.up => tumbler.up,
           SessionOK(s)', tumbler'.up => Served(s)'
    PROVE  /\ \A t \in Session : SessionOK(t)'
           /\ MessagesFit' /\ OneAtATime' /\ DealsFit'
           /\ tumbler'.up => \A t \in Session : Served(t)'
<1>1. StepOf(s, {m}, A)
  BY DEF StepOf
<1>2. \A n \in net' : n.s = s => n \in A \/ n \in net \ {m}
  OBVIOUS
<1>3. SessionAfter(s)
  <2>1. \A n \in net' : n.s = s => MessageOK(n)'
    BY <1>2
  <2>2. \A n, k \in net' : n.s = s /\ k.s = s /\ (IsSide(n) <=> IsSide(k)) => n = k
    <3> TAKE n, k \in net'
    <3> HAVE n.s = s /\ k.s = s /\ (IsSide(n) <=> IsSide(k))
    <3>1. CASE n \in A \/ k \in A
      BY <1>2, <3>1
    <3>2. CASE n \notin A /\ k \notin A
      BY <1>2, <3>2 DEF PaymentIInv, OneAtATime
    <3> QED
      BY <3>1, <3>2
  <2> QED
    BY <2>1, <2>2 DEF SessionAfter
<1>4. DealsFit'
  BY DEF PaymentIInv, DealsFit
<1> QED
  BY <1>1, <1>3, <1>4, SessionStep

\* The same, where neither a registration nor a payment is concerned.
LEMMA AnsweringStep ==
    ASSUME PaymentIInv, PaymentTypeOK', NEW s \in Session, NEW m \in net, NEW A,
           m.s = s, m.type # "registration", net' = (net \ {m}) \cup A,
           dealing' = dealing \ {m},
           \A n \in A : n.s = s /\ n.type # "registration" /\ MessageOK(n)',
           \A n, k \in A : (IsSide(n) <=> IsSide(k)) => n = k,
           \A n \in net \ {m} : n.s = s =>
              MessageOK(n)' /\ \A k \in A : ~(IsSide(n) <=> IsSide(k)),
           \A t \in Session \ {s} : alice'[t] = alice[t] /\ bob'[t] = bob[t],
           verified' = verified, escrows' = escrows,
           tumbler'.aliceId = tumbler.aliceId, tumbler'.aliceHash = tumbler.aliceHash,
           tumbler'.up => tumbler.up,
           alice'[s].id = alice[s].id, alice'[s].hash = alice[s].hash,
           alice'[s].pool = alice[s].pool,
           alice'[s].stage = "start" <=> alice[s].stage = "start",
           SessionOK(s)', tumbler'.up => Served(s)'
    PROVE  PaymentIInv'
<1>1. /\ \A t \in Session : SessionOK(t)'
      /\ MessagesFit' /\ OneAtATime' /\ DealsFit'
      /\ tumbler'.up => \A t \in Session : Served(t)'
  BY MessagesStep, SMTT(30)
<1>2. EscrowsOwned' /\ TumblerKnows' /\ RejectedOnlyWhenDisturbed'
  <2>1. \A t \in Session : /\ alice'[t].id = alice[t].id /\ alice'[t].hash = alice[t].hash
                           /\ alice'[t].pool = alice[t].pool
                           /\ alice'[t].stage = "start" <=> alice[t].stage = "start"
    OBVIOUS
  <2>2. \A n : n.type = "registration" => (n \in net' <=> n \in net)
    OBVIOUS
  <2> QED
    BY <2>1, <2>2, QuietStep
<1> QED
  BY <1>1, <1>2 DEF PaymentIInv

\* A step sets the state of one session's Alice only.
LEMMA AliceMoves ==
    ASSUME PaymentIInv, NEW s \in Session, NEW a \in AliceState, alice' = [alice EXCEPT ![s] = a]
    PROVE  /\ alice' \in [Session -> AliceState] /\ alice'[s] = a
           /\ \A t \in Session \ {s} : alice'[t] = alice[t]
BY StateTypes DEF PaymentIInv

\* Or of one session's Bob.
LEMMA BobMoves ==
    ASSUME PaymentIInv, NEW s \in Session, NEW b \in BobState, bob' = [bob EXCEPT ![s] = b]
    PROVE  /\ bob' \in [Session -> BobState] /\ bob'[s] = b
           /\ \A t \in Session \ {s} : bob'[t] = bob[t]
BY StateTypes DEF PaymentIInv

\* The parts of the invariant that a handler's proof starts from.
LEMMA StatesNow ==
    ASSUME PaymentIInv, NEW s \in Session
    PROVE  /\ alice[s] \in AliceState /\ bob[s] \in BobState /\ tumbler \in TumblerState
           /\ SessionOK(s) /\ \A m \in net : MessageOK(m)
BY StateTypes DEF PaymentIInv, MessagesFit

\* Alice learns that she is registered and shares the token with Bob.
LEMMA AliceRegistrationDoneStep ==
    ASSUME PaymentIInv, NEW s \in Session, AliceRegistrationDone(s)
    PROVE  PaymentIInv'
<1>1. PICK m \in net : m.type = "registration_done" /\ m.s = s
                       /\ m = [type |-> "registration_done", s |-> s]
  BY DEF AliceRegistrationDone
<1>2. /\ bob' = bob /\ tumbler' = tumbler /\ verified' = verified
      /\ nullifiers' = nullifiers /\ funded' = funded /\ escrows' = escrows
      /\ dealing' = dealing /\ reachable' = reachable
  BY DEF AliceRegistrationDone
<1>3. PICK stage \in {"token_shared", "failed"} : \E A :
       /\ alice' = [alice EXCEPT ![s].stage = stage]
       /\ net' = (net \ {m}) \cup A
       /\ \A n \in A : /\ n.type = "token_share" /\ n.s = s /\ n.pool = alice[s].pool
                       /\ stage = "token_shared"
       /\ \A n, k \in A : n = k
  <2>1. \/ /\ alice' = [alice EXCEPT ![s].stage = "token_shared"]
           /\ net' = (net \ {m}) \cup {[type |-> "token_share", s |-> s, pool |-> alice[s].pool]}
        \/ /\ alice' = [alice EXCEPT ![s].stage = "failed"]
           /\ net' = (net \ {m}) \cup {}
    BY <1>1 DEF AliceRegistrationDone, Reply
  <2>2. CASE /\ alice' = [alice EXCEPT ![s].stage = "token_shared"]
             /\ net' = (net \ {m}) \cup {[type |-> "token_share", s |-> s, pool |-> alice[s].pool]}
    <3> DEFINE st == "token_shared"
               A == {[type |-> "token_share", s |-> s, pool |-> alice[s].pool]}
    <3>1. /\ alice' = [alice EXCEPT ![s].stage = st] /\ st \in {"token_shared", "failed"}
          /\ net' = (net \ {m}) \cup A
      BY <2>2
    <3>2. /\ \A n \in A : /\ n.type = "token_share" /\ n.s = s /\ n.pool = alice[s].pool
                          /\ st = "token_shared"
          /\ \A n, k \in A : n = k
      OBVIOUS
    <3> HIDE DEF st, A
    <3> QED
      BY <3>1, <3>2
  <2>3. CASE alice' = [alice EXCEPT ![s].stage = "failed"] /\ net' = (net \ {m}) \cup {}
    <3> DEFINE st == "failed"
               A == {}
    <3>1. /\ alice' = [alice EXCEPT ![s].stage = st] /\ st \in {"token_shared", "failed"}
          /\ net' = (net \ {m}) \cup A /\ \A n \in A : FALSE
      BY <2>3
    <3> HIDE DEF st, A
    <3> QED
      BY <3>1
  <2> QED
    BY <2>1, <2>2, <2>3
<1>4. PICK A :
        /\ alice' = [alice EXCEPT ![s].stage = stage]
        /\ net' = (net \ {m}) \cup A
        /\ \A n \in A : /\ n.type = "token_share" /\ n.s = s /\ n.pool = alice[s].pool
                        /\ stage = "token_shared"
        /\ \A n, k \in A : n = k
  BY <1>3
<1>5. PICK a \in AliceState :
        /\ alice' = [alice EXCEPT ![s] = a]
        /\ a.stage = stage /\ a.id = alice[s].id /\ a.hash = alice[s].hash /\ a.pool = alice[s].pool
  <2> DEFINE a == [alice[s] EXCEPT !.stage = stage]
  <2>1. alice[s] \in AliceState
    BY StatesNow
  <2>2. /\ a \in AliceState /\ a.stage = stage /\ a.id = alice[s].id
        /\ a.hash = alice[s].hash /\ a.pool = alice[s].pool
    BY <2>1, <1>4 DEF AliceState
  <2>3. alice' = [alice EXCEPT ![s] = a]
    BY <1>4
  <2> QED
    BY <2>2, <2>3
<1>6. /\ alice' \in [Session -> AliceState] /\ alice'[s] = a
      /\ \A t \in Session \ {s} : alice'[t] = alice[t]
  BY <1>5, AliceMoves
<1>7. PaymentTypeOK'
  BY <1>2, <1>6, StateTypes, StateTypesAfter DEF PaymentIInv
<1>8. /\ alice[s].stage = "registering" /\ bob[s].stage = "start" /\ SessionOK(s)
      /\ \A n \in net \ {m} : n.s # s
  <2>1. /\ alice[s].stage = "registering" /\ bob[s].stage = "start" /\ SessionOK(s)
        /\ \A n \in net : n.s = s => ~IsSide(n)
    BY <1>1, StatesNow DEF MessageOK, SessionOK, IsSide, Paying
  <2> QED
    BY <1>1, <2>1, TheOthers
<1>9. SessionOK(s)'
  BY <1>2, <1>4, <1>5, <1>6, <1>8 DEF SessionOK, Paying, Shared
<1>10. Served(s)'
  BY <1>2, <1>4, <1>5, <1>6, <1>8 DEF Served
<1>11. \A n \in A : n.s = s /\ n.type # "registration" /\ MessageOK(n)'
  BY <1>2, <1>4, <1>5, <1>6, <1>8 DEF MessageOK, MessageType, IsSide
<1>12. /\ net' = (net \ {m}) \cup A /\ \A n, k \in A : n = k
       /\ alice'[s].id = alice[s].id /\ alice'[s].hash = alice[s].hash
       /\ alice'[s].pool = alice[s].pool
       /\ alice'[s].stage = "start" <=> alice[s].stage = "start"
  BY <1>4, <1>5, <1>6, <1>8
<1>13. /\ m.s = s /\ m.type # "registration"
       /\ \A n \in net \ {m} : n.s = s =>
              MessageOK(n)' /\ \A k \in A : ~(IsSide(n) <=> IsSide(k))
       /\ \A n, k \in A : (IsSide(n) <=> IsSide(k)) => n = k
       /\ \A t \in Session \ {s} : alice'[t] = alice[t] /\ bob'[t] = bob[t]
  BY <1>1, <1>2, <1>6, <1>8, <1>12
<1>20. dealing' = dealing \ {m}
  BY <1>1, <1>2, NotDealt DEF Dealt
<1> QED
  BY <1>2, <1>7, <1>9, <1>10, <1>11, <1>12, <1>13, <1>20, AnsweringStep

\* Bob gets the token, and asks the tumbler for a promise.
LEMMA BobPromiseInitStep ==
    ASSUME PaymentIInv, NEW s \in Session, BobPromiseInit(s)
    PROVE  PaymentIInv'
<1>1. PICK m \in net, proof \in ProofOutcomes :
        /\ m.type = "token_share" /\ m.s = s
        /\ IF proof
           THEN /\ bob' = [bob EXCEPT ![s].stage = "promising"]
                /\ Reply(m, {[type |-> "promise_init", s |-> s, pool |-> m.pool]})
           ELSE /\ bob' = [bob EXCEPT ![s].stage = "failed"]
                /\ Reply(m, {})
  BY DEF BobPromiseInit
<1>2. m.type = "token_share" /\ m.s = s
  BY <1>1
<1>3. /\ alice' = alice /\ tumbler' = tumbler /\ verified' = verified
      /\ nullifiers' = nullifiers /\ funded' = funded /\ escrows' = escrows
      /\ dealing' = dealing /\ reachable' = reachable
  BY DEF BobPromiseInit
<1>4. PICK stage \in {"promising", "failed"} : \E A :
       /\ bob' = [bob EXCEPT ![s].stage = stage]
       /\ net' = (net \ {m}) \cup A
       /\ \A n \in A : /\ n.type = "promise_init" /\ n.s = s /\ n.pool = m.pool
                       /\ stage = "promising"
       /\ \A n, k \in A : n = k
       /\ stage = "promising" => \E n \in A : n.type = "promise_init" /\ n.s = s
  <2>1. \/ /\ bob' = [bob EXCEPT ![s].stage = "promising"]
           /\ net' = (net \ {m}) \cup {[type |-> "promise_init", s |-> s, pool |-> m.pool]}
        \/ /\ bob' = [bob EXCEPT ![s].stage = "failed"]
           /\ net' = (net \ {m}) \cup {}
    BY <1>1 DEF Reply
  <2>2. CASE /\ bob' = [bob EXCEPT ![s].stage = "promising"]
             /\ net' = (net \ {m}) \cup {[type |-> "promise_init", s |-> s, pool |-> m.pool]}
    <3> DEFINE st == "promising"
               A == {[type |-> "promise_init", s |-> s, pool |-> m.pool]}
    <3>1. /\ bob' = [bob EXCEPT ![s].stage = st] /\ st \in {"promising", "failed"}
          /\ net' = (net \ {m}) \cup A
      BY <2>2
    <3>2. /\ \A n \in A : /\ n.type = "promise_init" /\ n.s = s /\ n.pool = m.pool
                          /\ st = "promising"
          /\ \A n, k \in A : n = k
          /\ \E n \in A : n.type = "promise_init" /\ n.s = s
      OBVIOUS
    <3> HIDE DEF st, A
    <3> QED
      BY <3>1, <3>2
  <2>3. CASE bob' = [bob EXCEPT ![s].stage = "failed"] /\ net' = (net \ {m}) \cup {}
    <3> DEFINE st == "failed"
               A == {}
    <3>1. /\ bob' = [bob EXCEPT ![s].stage = st] /\ st = "failed"
          /\ net' = (net \ {m}) \cup A /\ \A n \in A : FALSE
      BY <2>3
    <3> HIDE DEF st, A
    <3> QED
      BY <3>1
  <2> QED
    BY <2>1, <2>2, <2>3
<1>5. PICK A :
        /\ bob' = [bob EXCEPT ![s].stage = stage]
        /\ net' = (net \ {m}) \cup A
        /\ \A n \in A : /\ n.type = "promise_init" /\ n.s = s /\ n.pool = m.pool
                        /\ stage = "promising"
        /\ \A n, k \in A : n = k
        /\ stage = "promising" => \E n \in A : n.type = "promise_init" /\ n.s = s
  BY <1>4
<1>6. PICK b \in BobState : bob' = [bob EXCEPT ![s] = b] /\ b.stage = stage
  <2> DEFINE b == [bob[s] EXCEPT !.stage = stage]
  <2>1. bob[s] \in BobState
    BY StatesNow
  <2>2. b \in BobState /\ b.stage = stage
    BY <2>1, <1>5 DEF BobState
  <2>3. bob' = [bob EXCEPT ![s] = b]
    BY <1>5
  <2> QED
    BY <2>2, <2>3
<1>7. /\ bob' \in [Session -> BobState] /\ bob'[s] = b
      /\ \A t \in Session \ {s} : bob'[t] = bob[t]
  BY <1>6, BobMoves
<1>8. PaymentTypeOK'
  BY <1>3, <1>7, StateTypes, StateTypesAfter DEF PaymentIInv
<1>9. /\ alice[s].stage = "token_shared" /\ bob[s].stage = "start" /\ SessionOK(s)
      /\ m.pool = alice[s].pool /\ \A n \in net \ {m} : n.s # s
  <2>1. /\ alice[s].stage = "token_shared" /\ bob[s].stage = "start" /\ SessionOK(s)
        /\ m.pool = alice[s].pool /\ \A n \in net : n.s = s => ~IsSide(n)
    BY <1>2, StatesNow DEF MessageOK, IsSide, Paying
  <2> QED
    BY <1>2, <2>1, TheOthers
<1>10. SessionOK(s)'
  BY <1>3, <1>5, <1>6, <1>7, <1>9 DEF SessionOK, Paying, Shared
<1>11. Served(s)'
  <2>1. b.stage = "promising" => UnderWay(s, {"promise_init", "promise_done"})'
    BY <1>5, <1>6 DEF UnderWay
  <2> QED
    BY <1>3, <1>7, <1>9, <2>1 DEF Served
<1>12. \A n \in A : n.s = s /\ n.type # "registration" /\ MessageOK(n)'
  BY <1>3, <1>5, <1>6, <1>7, <1>9 DEF MessageOK, MessageType
<1>13. net' = (net \ {m}) \cup A /\ \A n, k \in A : n = k
  BY <1>5
<1>14. /\ m.s = s /\ m.type # "registration"
       /\ \A n \in net \ {m} : n.s = s =>
              MessageOK(n)' /\ \A k \in A : ~(IsSide(n) <=> IsSide(k))
       /\ \A n, k \in A : (IsSide(n) <=> IsSide(k)) => n = k
       /\ \A t \in Session \ {s} : alice'[t] = alice[t] /\ bob'[t] = bob[t]
  BY <1>2, <1>3, <1>7, <1>9, <1>13
<1>20. dealing' = dealing \ {m}
  BY <1>2, <1>3, NotDealt DEF Dealt
<1> QED
  BY <1>3, <1>8, <1>10, <1>11, <1>12, <1>13, <1>14, <1>20, AnsweringStep

\* Bob gets the promise, and shares the randomised puzzle with Alice.
LEMMA BobPuzzleShareStep ==
    ASSUME PaymentIInv, NEW s \in Session, BobPuzzleShare(s)
    PROVE  PaymentIInv'
<1>1. PICK m \in net :
        /\ m.type = "promise_done" /\ m.s = s
        /\ IF m.hashed
           THEN \E beta \in Shifts :
                  /\ bob' = [bob EXCEPT ![s].stage = "puzzle_shared", ![s].id = m.id,
                                        ![s].puzzle = m.puzzle, ![s].presig = m.presig,
                                        ![s].beta = beta]
                  /\ Reply(m, {[type |-> "puzzle_share", s |-> s, original |-> m.puzzle,
                                puzzle |-> Randomize(m.puzzle, beta)]})
           ELSE /\ bob' = [bob EXCEPT ![s].stage = "failed"]
                /\ Reply(m, {})
  BY DEF BobPuzzleShare
<1>2. m.type = "promise_done" /\ m.s = s
  BY <1>1
<1>3. /\ alice' = alice /\ tumbler' = tumbler /\ verified' = verified
      /\ nullifiers' = nullifiers /\ funded' = funded /\ escrows' = escrows
      /\ dealing' = dealing /\ reachable' = reachable
  BY DEF BobPuzzleShare
<1>4. /\ alice[s].stage = "token_shared" /\ bob[s].stage = "promising" /\ SessionOK(s)
      /\ m.id \in Nat /\ m.puzzle \in Puzzle /\ m.puzzle.g = m.puzzle.ctx /\ m.presig \in Zq
      /\ \A n \in net \ {m} : n.s # s
  <2>1. /\ alice[s].stage = "token_shared" /\ bob[s].stage = "promising" /\ SessionOK(s)
        /\ m.id \in Nat /\ m.puzzle \in Puzzle /\ m.puzzle.g = m.puzzle.ctx /\ m.presig \in Zq
        /\ \A n \in net : n.s = s => ~IsSide(n)
    BY <1>2, StatesNow DEF MessageOK, IsSide, Paying
  <2> QED
    BY <1>2, <2>1, TheOthers DEF IsSide
\* Bob ends with a shared puzzle, or has failed and says nothing.
<1>5. PICK b, A :
        /\ b \in BobState
        /\ bob' = [bob EXCEPT ![s] = b] /\ net' = (net \ {m}) \cup A
        /\ \/ b.stage = "failed" /\ \A n \in A : FALSE
           \/ /\ b.stage = "puzzle_shared" /\ b.puzzle = m.puzzle
              /\ \E r : /\ A = {r} /\ r.type = "puzzle_share" /\ r.s = s
                       /\ r.puzzle = Randomize(b.puzzle, b.beta)
  <2>1. bob[s] \in BobState
    BY StatesNow
  <2>2. CASE m.hashed
    <3>1. PICK beta \in Shifts :
            /\ bob' = [bob EXCEPT ![s].stage = "puzzle_shared", ![s].id = m.id,
                                  ![s].puzzle = m.puzzle, ![s].presig = m.presig,
                                  ![s].beta = beta]
            /\ Reply(m, {[type |-> "puzzle_share", s |-> s, original |-> m.puzzle,
                          puzzle |-> Randomize(m.puzzle, beta)]})
      BY <1>1, <2>2
    <3> DEFINE z == Randomize(m.puzzle, beta)
               r == [type |-> "puzzle_share", s |-> s, original |-> m.puzzle, puzzle |-> z]
               b == [bob[s] EXCEPT !.stage = "puzzle_shared", !.id = m.id,
                                   !.puzzle = m.puzzle, !.presig = m.presig, !.beta = beta]
    <3>2. net' = (net \ {m}) \cup {r}
      BY <3>1 DEF Reply
    <3>3. bob' = [bob EXCEPT ![s] = b]
      BY <3>1
    <3>4. b \in BobState /\ b.stage = "puzzle_shared" /\ b.puzzle = m.puzzle /\ b.beta = beta
      BY <1>4, <2>1, ShiftsInZq DEF BobState
    <3> HIDE DEF b
    <3>5. z = Randomize(b.puzzle, b.beta)
      BY <3>4
    <3> HIDE DEF z
    <3>6. r.type = "puzzle_share" /\ r.s = s /\ r.puzzle = z
      OBVIOUS
    <3> HIDE DEF r
    <3> QED
      BY <3>2, <3>3, <3>4, <3>5, <3>6
  <2>3. CASE ~m.hashed
    <3> DEFINE A == {}
               b == [bob[s] EXCEPT !.stage = "failed"]
    <3>1. net' = (net \ {m}) \cup A /\ \A n \in A : FALSE
      BY <1>1, <2>3 DEF Reply
    <3>2. bob' = [bob EXCEPT ![s] = b]
      BY <1>1, <2>3
    <3>3. b \in BobState /\ b.stage = "failed"
      BY <2>1 DEF BobState
    <3> HIDE DEF A, b
    <3> QED
      BY <3>1, <3>2, <3>3
  <2> QED
    BY <2>2, <2>3
<1>6. /\ b.stage \in {"failed", "puzzle_shared"}
      /\ b.stage = "puzzle_shared" => b.puzzle = m.puzzle
      /\ \A n \in A : /\ n.type = "puzzle_share" /\ n.s = s /\ b.stage = "puzzle_shared"
                      /\ n.puzzle = Randomize(b.puzzle, b.beta)
  BY <1>5
<1>7. /\ bob' \in [Session -> BobState] /\ bob'[s] = b
      /\ \A t \in Session \ {s} : bob'[t] = bob[t]
  BY <1>5, BobMoves
<1>8. PaymentTypeOK'
  BY <1>3, <1>7, StateTypes, StateTypesAfter DEF PaymentIInv
<1>9. SessionOK(s)'
  BY <1>3, <1>4, <1>6, <1>7 DEF SessionOK, Paying, Shared
<1>10. Served(s)'
  BY <1>3, <1>4, <1>6, <1>7 DEF Served
<1>11. \A n \in A : n.s = s /\ n.type # "registration" /\ MessageOK(n)'
  BY <1>3, <1>4, <1>6, <1>7 DEF MessageOK, MessageType
<1>12. net' = (net \ {m}) \cup A /\ \A n, k \in A : n = k
  BY <1>5
<1>13. /\ m.s = s /\ m.type # "registration"
       /\ \A n \in net \ {m} : n.s = s =>
              MessageOK(n)' /\ \A k \in A : ~(IsSide(n) <=> IsSide(k))
       /\ \A n, k \in A : (IsSide(n) <=> IsSide(k)) => n = k
       /\ \A t \in Session \ {s} : alice'[t] = alice[t] /\ bob'[t] = bob[t]
  BY <1>2, <1>3, <1>4, <1>7, <1>12
<1>20. dealing' = dealing \ {m}
  BY <1>2, <1>3, NotDealt DEF Dealt
<1> QED
  BY <1>3, <1>8, <1>9, <1>10, <1>11, <1>12, <1>13, <1>20, AnsweringStep

\* Bob has Alice's answer, and waits for the solution.
LEMMA BobPuzzleShareDoneStep ==
    ASSUME PaymentIInv, NEW s \in Session, BobPuzzleShareDone(s)
    PROVE  PaymentIInv'
<1>1. PICK m \in net : /\ m.type = "puzzle_share_done" /\ m.s = s
                       /\ m = [type |-> "puzzle_share_done", s |-> s]
  BY DEF BobPuzzleShareDone
<1>2. /\ alice' = alice /\ tumbler' = tumbler /\ verified' = verified
      /\ nullifiers' = nullifiers /\ funded' = funded /\ escrows' = escrows
      /\ dealing' = dealing /\ reachable' = reachable
  BY DEF BobPuzzleShareDone
<1>3. bob' = [bob EXCEPT ![s].stage = "waiting"] /\ net' = (net \ {m}) \cup {}
  BY <1>1 DEF BobPuzzleShareDone, Reply
<1> DEFINE A == {}
<1>4. PICK b \in BobState :
        /\ bob' = [bob EXCEPT ![s] = b] /\ b.stage = "waiting"
        /\ b.puzzle = bob[s].puzzle /\ b.beta = bob[s].beta
  <2> DEFINE b == [bob[s] EXCEPT !.stage = "waiting"]
  <2>1. bob[s] \in BobState
    BY StatesNow
  <2>2. b \in BobState /\ b.stage = "waiting" /\ b.puzzle = bob[s].puzzle /\ b.beta = bob[s].beta
    BY <2>1 DEF BobState
  <2>3. bob' = [bob EXCEPT ![s] = b]
    BY <1>3
  <2> QED
    BY <2>2, <2>3
<1>5. /\ bob' \in [Session -> BobState] /\ bob'[s] = b
      /\ \A t \in Session \ {s} : bob'[t] = bob[t]
  BY <1>4, BobMoves
<1>6. PaymentTypeOK'
  BY <1>2, <1>5, StateTypes, StateTypesAfter DEF PaymentIInv
<1>7. /\ alice[s].stage \in Paying /\ bob[s].stage = "puzzle_shared" /\ SessionOK(s)
      /\ \A n \in net \ {m} : n.s = s => ~IsSide(n) /\ MessageOK(n)
  BY <1>1, StatesNow, TheOthers DEF MessageOK, IsSide
<1>8. SessionOK(s)'
  BY <1>2, <1>4, <1>5, <1>7 DEF SessionOK, Paying, Shared
<1>9. tumbler'.up => Served(s)'
  <2>1. tumbler.up => Served(s)
    BY DEF PaymentIInv
  <2> DEFINE types == {"payment_init", "payment_done"}
  <2>2. m.type \notin types
    BY <1>1
  <2> HIDE DEF types
  <2>3. UnderWay(s, types) => UnderWay(s, types)'
    BY <1>3, <2>2 DEF UnderWay
  <2> QED
    BY <1>2, <1>4, <1>5, <1>7, <2>1, <2>3 DEF Served, Paying, types
<1>10. \A n \in A : n.s = s /\ n.type # "registration" /\ MessageOK(n)'
  OBVIOUS
<1>11. net' = (net \ {m}) \cup A /\ \A n \in A : FALSE
  BY <1>3
<1> HIDE DEF A
<1>12. \A n \in net \ {m} : n.s = s => MessageOK(n)'
  BY <1>2, <1>4, <1>5, <1>7 DEF MessageOK, IsSide, Paying, Shared
<1>13. /\ m.s = s /\ m.type # "registration"
       /\ \A n \in net \ {m} : n.s = s =>
              MessageOK(n)' /\ \A k \in A : ~(IsSide(n) <=> IsSide(k))
       /\ \A n, k \in A : (IsSide(n) <=> IsSide(k)) => n = k
       /\ \A t \in Session \ {s} : alice'[t] = alice[t] /\ bob'[t] = bob[t]
  BY <1>1, <1>2, <1>5, <1>7, <1>11, <1>12
<1>20. dealing' = dealing \ {m}
  BY <1>1, <1>2, NotDealt DEF Dealt
<1> QED
  BY <1>2, <1>6, <1>8, <1>9, <1>10, <1>11, <1>13, <1>20, AnsweringStep

\* Bob has the solution, and tells the tumbler.
LEMMA BobSolutionStep ==
    ASSUME PaymentIInv, NEW s \in Session, BobSolution(s)
    PROVE  PaymentIInv'
<1>1. PICK m \in net :
        /\ m.type = "puzzle_solution_share" /\ m.s = s /\ bob[s].stage = "waiting"
        /\ LET alpha == ExtractAlpha(m.alphaHat, bob[s].beta)
           IN  bob' = [bob EXCEPT ![s].stage = "done", ![s].alpha = alpha,
                                  ![s].sig = Complete(bob[s].presig, alpha)]
        /\ Reply(m, {[type |-> "bob_confirm_done", s |-> s]})
  BY DEF BobSolution
<1>2. m.type = "puzzle_solution_share" /\ m.s = s
  BY <1>1
<1>3. /\ alice' = alice /\ tumbler' = tumbler /\ verified' = verified
      /\ nullifiers' = nullifiers /\ funded' = funded /\ escrows' = escrows
      /\ dealing' = dealing /\ reachable' = reachable
  BY DEF BobSolution
<1>4. PICK r : net' = (net \ {m}) \cup {r} /\ r.type = "bob_confirm_done" /\ r.s = s
  <2> DEFINE r == [type |-> "bob_confirm_done", s |-> s]
  <2>1. net' = (net \ {m}) \cup {r} /\ r.type = "bob_confirm_done" /\ r.s = s
    BY <1>1 DEF Reply
  <2> HIDE DEF r
  <2> QED
    BY <2>1
<1> DEFINE A == {r}
<1>5. /\ alice[s].stage = "done" /\ bob[s].stage = "waiting" /\ SessionOK(s)
      /\ m.alphaHat \in Zq /\ \A n \in net \ {m} : n.s # s
  <2>1. /\ alice[s].stage = "done" /\ bob[s].stage = "waiting" /\ SessionOK(s)
        /\ m.alphaHat \in Zq /\ \A n \in net : n.s = s => ~IsSide(n)
    BY <1>1, StatesNow DEF MessageOK, IsSide
  <2> QED
    BY <1>2, <2>1, TheOthers
<1>6. PICK b \in BobState : /\ bob' = [bob EXCEPT ![s] = b] /\ b.stage = "done"
                            /\ b.puzzle = bob[s].puzzle /\ b.beta = bob[s].beta
  <2>1. bob[s] \in BobState
    BY StatesNow
  <2>2. bob[s].beta \in Zq /\ bob[s].presig \in Zq
    BY <2>1 DEF BobState
  <2> DEFINE alpha == ExtractAlpha(m.alphaHat, bob[s].beta)
             sig == Complete(bob[s].presig, alpha)
             b == [bob[s] EXCEPT !.stage = "done", !.alpha = alpha, !.sig = sig]
  <2>3. alpha \in Zq
    BY <1>5, <2>2, ModQType
  <2>4. bob' = [bob EXCEPT ![s] = b]
    BY <1>1
  <2> HIDE DEF alpha
  <2>5. sig \in Zq
    BY <2>2, <2>3, ModQType
  <2> HIDE DEF sig
  <2>6. b \in BobState /\ b.stage = "done" /\ b.puzzle = bob[s].puzzle /\ b.beta = bob[s].beta
    BY <2>1, <2>3, <2>5 DEF BobState
  <2> HIDE DEF b
  <2> QED
    BY <2>4, <2>6
<1>7. /\ bob' \in [Session -> BobState] /\ bob'[s] = b
      /\ \A t \in Session \ {s} : bob'[t] = bob[t]
  BY <1>6, BobMoves
<1>8. PaymentTypeOK'
  BY <1>3, <1>7, StateTypes, StateTypesAfter DEF PaymentIInv
<1>9. SessionOK(s)'
  BY <1>3, <1>6, <1>7, <1>5 DEF SessionOK, Paying, Shared
<1>10. Served(s)'
  BY <1>3, <1>6, <1>7, <1>5 DEF Served
<1>11. \A n \in A : n.s = s /\ n.type # "registration" /\ MessageOK(n)'
  <2>1. MessageOK(r)'
    BY <1>3, <1>4, <1>6, <1>7, <1>5 DEF MessageOK, MessageType
  <2> QED
    BY <1>4, <2>1
<1>12. net' = (net \ {m}) \cup A /\ \A n, k \in A : n = k
  BY <1>4
<1> HIDE DEF A
<1>13. /\ m.s = s /\ m.type # "registration"
       /\ \A n \in net \ {m} : n.s = s =>
              MessageOK(n)' /\ \A k \in A : ~(IsSide(n) <=> IsSide(k))
       /\ \A n, k \in A : (IsSide(n) <=> IsSide(k)) => n = k
       /\ \A t \in Session \ {s} : alice'[t] = alice[t] /\ bob'[t] = bob[t]
  BY <1>2, <1>3, <1>7, <1>5, <1>12
<1>20. dealing' = dealing \ {m}
  BY <1>2, <1>3, NotDealt DEF Dealt
<1> QED
  BY <1>3, <1>8, <1>9, <1>10, <1>11, <1>12, <1>13, <1>20, AnsweringStep

\* A Bob has finished, and so has a deal if there is one: the tumbler ends.
LEMMA FinishExit ==
    ASSUME PaymentIInv, NEW m \in net, m.type = "bob_confirm_done", Finish(m),
           dealing' = dealing \ {m},
           UNCHANGED <<alice, bob, reachable, nullifiers, escrows, funded, verified>>
    PROVE  PaymentIInv'
<1>1. tumbler' = [tumbler EXCEPT !.up = FALSE] /\ Reply(m, {})
  BY DEF Finish
<1>2. PICK s \in Session : m.s = s /\ m.type = "bob_confirm_done"
  BY DEF PaymentIInv, MessagesFit, MessageOK
<1>3. /\ alice' = alice /\ bob' = bob /\ verified' = verified
      /\ nullifiers' = nullifiers /\ funded' = funded /\ escrows' = escrows
      /\ dealing' = dealing \ {m} /\ reachable' = reachable
  OBVIOUS
<1> DEFINE A == {}
<1>4. /\ tumbler' \in TumblerState /\ tumbler'.up = FALSE
      /\ tumbler'.aliceId = tumbler.aliceId /\ tumbler'.aliceHash = tumbler.aliceHash
  <2>1. tumbler \in TumblerState
    BY StatesNow
  <2> QED
    BY <1>1, <2>1 DEF TumblerState
<1>5. PaymentTypeOK'
  BY <1>3, <1>4, StateTypes, StateTypesAfter DEF PaymentIInv
<1>6. SessionOK(s) /\ \A n \in net \ {m} : n.s # s
  <2>1. SessionOK(s) /\ \A n \in net : n.s = s => ~IsSide(n)
    BY <1>2, StatesNow DEF MessageOK, IsSide
  <2> QED
    BY <1>2, <2>1, TheOthers
<1>7. SessionOK(s)'
  BY <1>3, <1>6 DEF SessionOK
<1>8. tumbler'.up => Served(s)'
  BY <1>4
<1>9. \A n \in A : n.s = s /\ n.type # "registration" /\ MessageOK(n)'
  OBVIOUS
<1>10. net' = (net \ {m}) \cup A /\ \A n \in A : FALSE
  BY <1>1 DEF Reply
<1> HIDE DEF A
<1>11. /\ m.s = s /\ m.type # "registration"
       /\ \A n \in net \ {m} : n.s = s =>
              MessageOK(n)' /\ \A k \in A : ~(IsSide(n) <=> IsSide(k))
       /\ \A n, k \in A : (IsSide(n) <=> IsSide(k)) => n = k
       /\ \A t \in Session \ {s} : alice'[t] = alice[t] /\ bob'[t] = bob[t]
  BY <1>2, <1>3, <1>4, <1>6, <1>10
<1> QED
  BY <1>3, <1>4, <1>5, <1>7, <1>8, <1>9, <1>10, <1>11, AnsweringStep

\* What a request for payment says of its session.
PaymentMessage(m, s) ==
    /\ alice[s].stage = "paying" /\ SessionOK(s) /\ bob[s].stage \in Shared
    /\ m \notin dealing => verified[s] = "unpaid"
    /\ m.presig = alice[s].presig /\ m.puzzle = alice[s].puzzle
    /\ \A n \in net \ {m} : n.s = s => IsSide(n) /\ MessageOK(n)

LEMMA PaymentMessageNow ==
    ASSUME PaymentIInv, NEW s \in Session, NEW m \in net, m.type = "payment_init", m.s = s
    PROVE  PaymentMessage(m, s)
<1>1. /\ alice[s].stage = "paying" /\ SessionOK(s)
      /\ m \notin dealing => verified[s] = "unpaid"
      /\ m.presig = alice[s].presig /\ m.puzzle = alice[s].puzzle
  BY StatesNow DEF MessageOK
<1>2. bob[s].stage \in Shared
  BY <1>1 DEF SessionOK, Paying
<1>3. ~IsSide(m)
  BY DEF IsSide
<1>4. \A n \in net \ {m} : n.s = s => IsSide(n) /\ MessageOK(n)
  BY <1>3, StatesNow, TheOthers
<1> QED
  BY <1>1, <1>2, <1>4 DEF PaymentMessage

\* The answer to it.
LEMMA PaymentAnswer ==
    ASSUME NEW m, NEW s, m.type = "payment_init", m.s = s, PaymentMessage(m, s), Finish(m)
    PROVE  \E r : /\ r.type = "payment_done" /\ r.s = s /\ net' = (net \ {m}) \cup {r}
                 /\ r.sig = Complete(alice[s].presig, alice[s].puzzle.ctx)
                 /\ tumbler' = tumbler
<1> DEFINE z == PaymentSignature(m)
           r == [type |-> "payment_done", s |-> s, sig |-> z]
<1>1. net' = (net \ {m}) \cup {r} /\ tumbler' = tumbler
  BY DEF Finish, Reply
<1>2. z = Complete(alice[s].presig, alice[s].puzzle.ctx)
  BY DEF PaymentSignature, Decrypt, PaymentMessage
<1> HIDE DEF z
<1>3. r.type = "payment_done" /\ r.s = s /\ r.sig = z
  OBVIOUS
<1> HIDE DEF r
<1> QED
  BY <1>1, <1>2, <1>3

\* The tumbler sends the completed signature, at once or after its deal.
LEMMA FinishPayment ==
    ASSUME PaymentIInv, NEW m \in net, m.type = "payment_init", Finish(m),
           dealing' = dealing \ {m},
           UNCHANGED <<alice, bob, reachable, nullifiers, escrows, funded, verified>>
    PROVE  PaymentIInv'
<1>1. PICK s \in Session : m.s = s /\ m.type = "payment_init"
  BY DEF PaymentIInv, MessagesFit, MessageOK
<1>2. /\ alice' = alice /\ bob' = bob /\ verified' = verified
      /\ nullifiers' = nullifiers /\ funded' = funded /\ escrows' = escrows
      /\ dealing' = dealing \ {m} /\ reachable' = reachable
  OBVIOUS
<1>3. PaymentMessage(m, s)
  BY <1>1, PaymentMessageNow
<1>4. PICK r : /\ r.type = "payment_done" /\ r.s = s /\ net' = (net \ {m}) \cup {r}
               /\ r.sig = Complete(alice[s].presig, alice[s].puzzle.ctx)
               /\ tumbler' = tumbler
  BY <1>1, <1>3, PaymentAnswer
<1> DEFINE A == {r}
<1>5. PaymentTypeOK'
  BY <1>2, <1>4, StateTypes, StateTypesAfter DEF PaymentIInv
<1>6. SessionOK(s)'
  BY <1>2, <1>3 DEF SessionOK, PaymentMessage
<1>7. Served(s)'
  <2>1. UnderWay(s, {"payment_init", "payment_done"})'
    BY <1>4 DEF UnderWay
  <2> QED
    BY <1>2, <1>3, <2>1 DEF Served, Shared, PaymentMessage
<1>8. MessageOK(r)'
  BY <1>2, <1>3, <1>4 DEF MessageOK, MessageType, PaymentMessage
<1>9. /\ \A n \in A : n.s = s /\ n.type # "registration" /\ MessageOK(n)' /\ ~IsSide(n)
      /\ \A n, k \in A : (IsSide(n) <=> IsSide(k)) => n = k
      /\ net' = (net \ {m}) \cup A
  BY <1>4, <1>8 DEF IsSide
<1>10. \A n \in net \ {m} : n.s = s => MessageOK(n)'
  BY <1>2, <1>3 DEF MessageOK, IsSide, PaymentMessage
<1> HIDE DEF A
<1>11. /\ m.s = s /\ m.type # "registration"
       /\ \A n \in net \ {m} : n.s = s =>
              MessageOK(n)' /\ \A k \in A : ~(IsSide(n) <=> IsSide(k))
       /\ \A t \in Session \ {s} : alice'[t] = alice[t] /\ bob'[t] = bob[t]
  BY <1>1, <1>2, <1>3, <1>9, <1>10 DEF PaymentMessage
<1> QED
  BY <1>2, <1>4, <1>5, <1>6, <1>7, <1>9, <1>11, AnsweringStep

\* The shares have left: the handler ends.
LEMMA TumblerDealtStep ==
    ASSUME PaymentIInv, TumblerDealt
    PROVE  PaymentIInv'
<1>1. PICK m \in dealing : dealing' = {} /\ Finish(m)
  BY DEF TumblerDealt
<1>2. m \in net /\ m.type \in Dealt /\ dealing' = dealing \ {m}
  BY <1>1 DEF PaymentIInv, DealsFit
<1>3. UNCHANGED <<alice, bob, reachable, nullifiers, escrows, funded, verified>>
  BY DEF TumblerDealt
<1> QED
  BY <1>1, <1>2, <1>3, FinishPayment, FinishExit DEF Dealt

\* A deal begins, a receiver comes or goes, or nothing happens.
LEMMA DealsOnly ==
    ASSUME PaymentIInv, dealing \subseteq dealing', DealsFit', reachable' \in BOOLEAN,
           UNCHANGED <<alice, bob, tumbler, net, nullifiers, escrows, funded, verified>>
    PROVE  PaymentIInv'
<1>1. /\ alice' = alice /\ bob' = bob /\ tumbler' = tumbler /\ net' = net
      /\ nullifiers' = nullifiers /\ escrows' = escrows /\ funded' = funded
      /\ verified' = verified
  OBVIOUS
<1>2. PaymentTypeOK'
  BY <1>1, StateTypes, StateTypesAfter DEF PaymentIInv
<1>3. \A s \in Session : SessionOK(s)'
  BY <1>1 DEF PaymentIInv, SessionOK
<1>4. tumbler'.up => \A s \in Session : Served(s)'
  BY <1>1 DEF PaymentIInv, Served, UnderWay
<1>5. MessagesFit'
  BY <1>1 DEF PaymentIInv, MessagesFit, MessageOK
<1>6. OneAtATime'
  BY <1>1 DEF PaymentIInv, OneAtATime
<1>7. EscrowsOwned' /\ TumblerKnows' /\ RejectedOnlyWhenDisturbed'
  BY <1>1 DEF PaymentIInv, EscrowsOwned, TumblerKnows, UnderWay, RejectedOnlyWhenDisturbed
<1> QED
  BY <1>2, <1>3, <1>4, <1>5, <1>6, <1>7 DEF PaymentIInv

\* A Bob reports that he has finished.
LEMMA TumblerExitStep ==
    ASSUME PaymentIInv, TumblerExit, dealing = {}, reachable' = reachable
    PROVE  PaymentIInv'
<1>1. PICK m \in net : m.type = "bob_confirm_done" /\ Deal(m)
  BY DEF TumblerExit
<1>2. UNCHANGED <<alice, bob, reachable, nullifiers, escrows, funded, verified>>
  BY DEF TumblerExit
<1>3. CASE dealing' = {m} /\ UNCHANGED <<net, tumbler>>
  <2>1. DealsFit'
    BY <1>1, <1>3 DEF DealsFit, Dealt
  <2>2. reachable' \in BOOLEAN
    BY StateTypes DEF PaymentIInv
  <2> QED
    BY <1>2, <1>3, <2>1, <2>2, DealsOnly
<1>4. CASE UNCHANGED dealing /\ Finish(m)
  BY <1>1, <1>2, <1>4, FinishExit
<1> QED
  BY <1>1, <1>3, <1>4 DEF Deal

\* The tumbler signs a promise, or refuses and ends.
LEMMA TumblerPromiseStep ==
    ASSUME PaymentIInv, TumblerPromise, dealing = {}, reachable' = reachable
    PROVE  PaymentIInv'
<1>1. PICK m \in net, proof \in ProofOutcomes, opens \in ChainOutcomes :
        /\ m.type = "promise_init"
        /\ IF MayPromise(m) /\ proof
           THEN \E alpha \in 1 .. Q - 1, presig \in Presignatures :
                  /\ tumbler' = [tumbler EXCEPT !.pool = m.pool]
                  /\ nullifiers' = nullifiers \cup {m.s}
                  /\ funded' = IF /\ ~tumbler.skip
                                  /\ OpensEscrow(opens, NoSession, tumbler.bobId \notin funded)
                               THEN funded \cup {tumbler.bobId}
                               ELSE funded
                  /\ Reply(m, {[type |-> "promise_done", s |-> m.s, id |-> tumbler.bobId,
                                hashed |-> ~tumbler.skip,
                                puzzle |-> [g |-> alpha, ctx |-> alpha],
                                presig |-> presig]})
           ELSE /\ tumbler' = Aborted
                /\ Reply(m, {})
                /\ UNCHANGED <<nullifiers, funded>>
  BY DEF TumblerPromise
<1>2. PICK s \in Session : m.s = s /\ m.type = "promise_init"
  BY <1>1 DEF PaymentIInv, MessagesFit, MessageOK
<1>3. /\ alice' = alice /\ bob' = bob /\ verified' = verified /\ escrows' = escrows
      /\ dealing' = dealing /\ reachable' = reachable
  BY DEF TumblerPromise
<1>4. /\ alice[s].stage = "token_shared" /\ bob[s].stage = "promising" /\ SessionOK(s)
      /\ m.pool \in Pools /\ \A n \in net \ {m} : n.s # s
  <2>1. /\ alice[s].stage = "token_shared" /\ bob[s].stage = "promising" /\ SessionOK(s)
        /\ m.pool = alice[s].pool /\ \A n \in net : n.s = s => ~IsSide(n)
    BY <1>2, StatesNow DEF MessageOK, IsSide, Paying
  <2>2. alice[s].pool \in Pools
    BY StatesNow DEF AliceState
  <2> QED
    BY <1>2, <2>1, <2>2, TheOthers DEF IsSide
<1>5. PICK A :
        /\ net' = (net \ {m}) \cup A /\ \A n, k \in A : n = k
        /\ \A n \in A : /\ n.type = "promise_done" /\ n.s = s /\ n.id = tumbler.bobId
                        /\ n.puzzle \in Puzzle /\ n.puzzle.g = n.puzzle.ctx /\ n.presig \in Zq
        /\ \/ /\ tumbler' = [tumbler EXCEPT !.pool = m.pool]
              /\ nullifiers' = nullifiers \cup {s}
              /\ funded' \in {funded, funded \cup {tumbler.bobId}}
              /\ \E n \in A : n.type = "promise_done" /\ n.s = s
           \/ tumbler' = [tumbler EXCEPT !.up = FALSE] /\ nullifiers' = nullifiers /\ funded' = funded
  <2>1. CASE MayPromise(m) /\ proof
    <3>1. PICK alpha \in 1 .. Q - 1, presig \in Presignatures :
                  /\ tumbler' = [tumbler EXCEPT !.pool = m.pool]
                  /\ nullifiers' = nullifiers \cup {m.s}
                  /\ funded' = IF /\ ~tumbler.skip
                                  /\ OpensEscrow(opens, NoSession, tumbler.bobId \notin funded)
                               THEN funded \cup {tumbler.bobId}
                               ELSE funded
                  /\ Reply(m, {[type |-> "promise_done", s |-> m.s, id |-> tumbler.bobId,
                                hashed |-> ~tumbler.skip,
                                puzzle |-> [g |-> alpha, ctx |-> alpha],
                                presig |-> presig]})
      BY <1>1, <2>1
    <3>2. alpha \in Zq /\ presig \in Zq
      BY PuzzleAssumption DEF Zq
    <3> DEFINE z == [g |-> alpha, ctx |-> alpha]
               r == [type |-> "promise_done", s |-> s, id |-> tumbler.bobId,
                     hashed |-> ~tumbler.skip, puzzle |-> z, presig |-> presig]
               A == {r}
    <3>3. net' = (net \ {m}) \cup A
      BY <1>2, <3>1 DEF Reply
    <3>4. z \in Puzzle /\ z.g = z.ctx
      BY <3>2 DEF Puzzle
    <3> HIDE DEF z
    <3>5. /\ r.type = "promise_done" /\ r.s = s /\ r.id = tumbler.bobId /\ r.puzzle = z
          /\ r.presig = presig
      OBVIOUS
    <3> HIDE DEF r
    <3>6. /\ \A n, k \in A : n = k
          /\ \A n \in A : /\ n.type = "promise_done" /\ n.s = s /\ n.id = tumbler.bobId
                          /\ n.puzzle \in Puzzle /\ n.puzzle.g = n.puzzle.ctx /\ n.presig \in Zq
          /\ \E n \in A : n.type = "promise_done" /\ n.s = s
      BY <3>2, <3>4, <3>5
    <3> HIDE DEF A
    <3>7. /\ tumbler' = [tumbler EXCEPT !.pool = m.pool]
          /\ nullifiers' = nullifiers \cup {s}
          /\ funded' \in {funded, funded \cup {tumbler.bobId}}
      BY <1>2, <3>1
    <3> QED
      BY <3>3, <3>6, <3>7
  <2>2. CASE ~(MayPromise(m) /\ proof)
    <3> DEFINE A == {}
    <3>1. /\ tumbler' = [tumbler EXCEPT !.up = FALSE] /\ nullifiers' = nullifiers /\ funded' = funded
          /\ net' = (net \ {m}) \cup A /\ \A n \in A : FALSE
      BY <1>1, <2>2 DEF Aborted, Reply
    <3> HIDE DEF A
    <3> QED
      BY <3>1
  <2> QED
    BY <2>1, <2>2
<1>6. /\ tumbler.bobId \in Nat
      /\ tumbler' \in TumblerState /\ (tumbler'.up => tumbler.up)
      /\ tumbler'.aliceId = tumbler.aliceId /\ tumbler'.aliceHash = tumbler.aliceHash
      /\ tumbler'.up => \E n \in A : n.type = "promise_done" /\ n.s = s
  <2>1. tumbler \in TumblerState
    BY StatesNow
  <2>2. tumbler.bobId \in Nat
    BY <2>1 DEF TumblerState
  <2>3. CASE tumbler' = [tumbler EXCEPT !.pool = m.pool]
    <3>1. /\ tumbler' \in TumblerState /\ tumbler'.up = tumbler.up
          /\ tumbler'.aliceId = tumbler.aliceId /\ tumbler'.aliceHash = tumbler.aliceHash
      BY <1>4, <2>1, <2>3 DEF TumblerState
    <3>2. \/ \E n \in A : n.type = "promise_done" /\ n.s = s
          \/ tumbler' = [tumbler EXCEPT !.up = FALSE]
      BY <1>5
    <3>3. tumbler' = [tumbler EXCEPT !.up = FALSE] => ~tumbler'.up
      BY <2>1 DEF TumblerState
    <3> QED
      BY <2>2, <3>1, <3>2, <3>3
  <2>4. CASE tumbler' = [tumbler EXCEPT !.up = FALSE]
    <3>1. /\ tumbler' \in TumblerState /\ ~tumbler'.up
          /\ tumbler'.aliceId = tumbler.aliceId /\ tumbler'.aliceHash = tumbler.aliceHash
      BY <2>1, <2>4 DEF TumblerState
    <3> QED
      BY <2>2, <3>1
  <2> QED
    BY <1>5, <2>3, <2>4
<1>7. nullifiers' \subseteq Session /\ funded' \subseteq Nat
  <2>1. nullifiers \subseteq Session /\ funded \subseteq Nat
    BY StateTypes DEF PaymentIInv
  <2> QED
    BY <1>5, <1>6, <2>1
<1>8. PaymentTypeOK'
  BY <1>3, <1>6, <1>7, StateTypes, StateTypesAfter DEF PaymentIInv
<1>9. SessionOK(s)'
  BY <1>3, <1>4 DEF SessionOK
<1>10. tumbler'.up => Served(s)'
  <2>1. tumbler'.up => UnderWay(s, {"promise_init", "promise_done"})'
    BY <1>5, <1>6 DEF UnderWay
  <2> QED
    BY <1>3, <1>4, <2>1 DEF Served
<1>11. \A n \in A : n.s = s /\ n.type # "registration" /\ MessageOK(n)'
  <2>1. \A n \in A : /\ n.type = "promise_done" /\ n.s = s /\ n.id \in Nat
                     /\ n.puzzle \in Puzzle /\ n.puzzle.g = n.puzzle.ctx /\ n.presig \in Zq
    BY <1>5, <1>6
  <2> QED
    BY <1>3, <1>4, <2>1 DEF MessageOK, MessageType
<1>12. net' = (net \ {m}) \cup A /\ \A n, k \in A : n = k
  BY <1>5
<1>13. /\ m.s = s /\ m.type # "registration"
       /\ \A n \in net \ {m} : n.s = s =>
              MessageOK(n)' /\ \A k \in A : ~(IsSide(n) <=> IsSide(k))
       /\ \A n, k \in A : (IsSide(n) <=> IsSide(k)) => n = k
       /\ \A t \in Session \ {s} : alice'[t] = alice[t] /\ bob'[t] = bob[t]
  BY <1>2, <1>3, <1>7, <1>4, <1>12
<1>20. dealing' = dealing \ {m}
  BY <1>2, <1>3, NotDealt DEF Dealt
<1> QED
  BY <1>3, <1>6, <1>8, <1>9, <1>10, <1>11, <1>12, <1>13, <1>20, AnsweringStep

\* Alice has the tumbler's answer: what she extracts is her puzzle's exponent.
LEMMA AlicePaymentDoneStep ==
    ASSUME PaymentIInv, NEW s \in Session, AlicePaymentDone(s)
    PROVE  PaymentIInv'
<1>1. PICK m \in net :
        /\ m.type = "payment_done" /\ m.s = s
        /\ alice' = [alice EXCEPT ![s].stage = "done",
                                  ![s].gamma = ExtractGamma(alice[s].presig, m.sig)]
        /\ Reply(m, {[type |-> "puzzle_solution_share", s |-> s,
                      alphaHat |-> Derandomize(ExtractGamma(alice[s].presig, m.sig), alice[s].tau)]})
  BY DEF AlicePaymentDone
<1>2. m.type = "payment_done" /\ m.s = s
  BY <1>1
<1>3. /\ bob' = bob /\ tumbler' = tumbler /\ verified' = verified
      /\ nullifiers' = nullifiers /\ funded' = funded /\ escrows' = escrows
      /\ dealing' = dealing /\ reachable' = reachable
  BY DEF AlicePaymentDone
<1>4. /\ alice[s].stage = "paying" /\ bob[s].stage \in Shared \ {"done"} /\ SessionOK(s)
      /\ m.sig = Complete(alice[s].presig, alice[s].puzzle.ctx)
      /\ \A n \in net \ {m} : n.s = s => IsSide(n) /\ MessageOK(n)
  <2>1. /\ alice[s].stage = "paying" /\ SessionOK(s)
        /\ m.sig = Complete(alice[s].presig, alice[s].puzzle.ctx)
    BY <1>2, StatesNow DEF MessageOK
  <2>2. bob[s].stage \in Shared \ {"done"}
    BY <2>1 DEF SessionOK, Paying
  <2>3. ~IsSide(m)
    BY <1>2 DEF IsSide
  <2> QED
    BY <1>2, <2>1, <2>2, <2>3, StatesNow, TheOthers
<1>5. PICK gamma : gamma = ExtractGamma(alice[s].presig, m.sig)
  OBVIOUS
<1>6. gamma = alice[s].puzzle.g /\ gamma \in Zq /\ alice[s].tau \in Zq
  <2>1. alice[s] \in AliceState
    BY StatesNow
  <2>2. /\ alice[s].tau \in Zq /\ alice[s].puzzle \in Puzzle
    BY <2>1 DEF AliceState
  <2>3. /\ alice[s].puzzle.ctx = alice[s].puzzle.g /\ alice[s].puzzle.g # 0
        /\ alice[s].presig \in Presignatures
    BY <1>4 DEF SessionOK, Paying
  <2>4. alice[s].puzzle.g \in Zq
    BY <2>2 DEF Puzzle
  <2>5. alice[s].puzzle.g \in 1 .. Q - 1 /\ alice[s].presig \in 1 .. Q - 1
    <3>1. \A x \in Zq : x # 0 => x \in 1 .. Q - 1
      BY PrimeQ
    <3> QED
      BY <2>3, <2>4, <3>1, PuzzleAssumption
  <2>6. ExtractGamma(alice[s].presig, Complete(alice[s].presig, alice[s].puzzle.g)) = alice[s].puzzle.g
    BY <2>5, CompleteAndExtract
  <2> QED
    BY <1>4, <1>5, <2>2, <2>3, <2>4, <2>6
<1>7. PICK r : /\ net' = (net \ {m}) \cup {r} /\ r.type = "puzzle_solution_share" /\ r.s = s
               /\ r.alphaHat \in Zq
  <2> DEFINE z == Derandomize(gamma, alice[s].tau)
             r == [type |-> "puzzle_solution_share", s |-> s, alphaHat |-> z]
  <2>1. net' = (net \ {m}) \cup {r}
    BY <1>1, <1>5 DEF Reply
  <2>2. z \in Zq
    BY <1>6, ModQType
  <2> HIDE DEF z
  <2>3. r.type = "puzzle_solution_share" /\ r.s = s /\ r.alphaHat = z
    OBVIOUS
  <2> HIDE DEF r
  <2> QED
    BY <2>1, <2>2, <2>3
<1> DEFINE A == {r}
<1>8. PICK a \in AliceState :
        /\ alice' = [alice EXCEPT ![s] = a]
        /\ a.stage = "done" /\ a.gamma = gamma /\ a.id = alice[s].id /\ a.hash = alice[s].hash
        /\ a.pool = alice[s].pool
        /\ a.puzzle = alice[s].puzzle /\ a.tau = alice[s].tau /\ a.presig = alice[s].presig
  <2> DEFINE a == [alice[s] EXCEPT !.stage = "done", !.gamma = gamma]
  <2>1. alice[s] \in AliceState
    BY StatesNow
  <2>2. /\ a \in AliceState
        /\ a.stage = "done" /\ a.gamma = gamma /\ a.id = alice[s].id /\ a.hash = alice[s].hash
        /\ a.pool = alice[s].pool
        /\ a.puzzle = alice[s].puzzle /\ a.tau = alice[s].tau /\ a.presig = alice[s].presig
    BY <2>1, <1>6 DEF AliceState
  <2>3. alice' = [alice EXCEPT ![s] = a]
    BY <1>1, <1>5
  <2> HIDE DEF a
  <2> QED
    BY <2>2, <2>3
<1>9. /\ alice' \in [Session -> AliceState] /\ alice'[s] = a
      /\ \A t \in Session \ {s} : alice'[t] = alice[t]
  BY <1>8, AliceMoves
<1>10. PaymentTypeOK'
  BY <1>3, <1>9, StateTypes, StateTypesAfter DEF PaymentIInv
<1>11. /\ a.stage = "done" /\ a.gamma = gamma /\ a.id = alice[s].id /\ a.hash = alice[s].hash
       /\ a.pool = alice[s].pool
       /\ a.puzzle = alice[s].puzzle /\ a.tau = alice[s].tau /\ a.presig = alice[s].presig
  BY <1>8
<1>12. SessionOK(s)'
  BY <1>3, <1>9, <1>4, <1>6, <1>11 DEF SessionOK, Paying, Shared
<1>13. Served(s)'
  BY <1>3, <1>9, <1>4, <1>11 DEF Served, Shared
<1>14. \A n \in A : n.s = s /\ n.type # "registration" /\ MessageOK(n)'
  <2>1. MessageOK(r)'
    BY <1>3, <1>7, <1>9, <1>4, <1>11 DEF MessageOK, MessageType
  <2> QED
    BY <1>7, <2>1
<1>15. /\ net' = (net \ {m}) \cup A /\ \A n, k \in A : n = k
       /\ \A n \in A : ~IsSide(n)
       /\ alice'[s].id = alice[s].id /\ alice'[s].hash = alice[s].hash
       /\ alice'[s].pool = alice[s].pool
       /\ alice'[s].stage = "start" <=> alice[s].stage = "start"
  BY <1>7, <1>9, <1>4, <1>11 DEF IsSide
<1> HIDE DEF A
<1>16. \A n \in net \ {m} : n.s = s => MessageOK(n)'
  BY <1>3, <1>9, <1>4, <1>11 DEF MessageOK, IsSide, Paying, Shared
<1>17. /\ m.s = s /\ m.type # "registration"
       /\ \A n \in net \ {m} : n.s = s =>
              MessageOK(n)' /\ \A k \in A : ~(IsSide(n) <=> IsSide(k))
       /\ \A n, k \in A : (IsSide(n) <=> IsSide(k)) => n = k
       /\ \A t \in Session \ {s} : alice'[t] = alice[t] /\ bob'[t] = bob[t]
  BY <1>2, <1>3, <1>9, <1>4, <1>15, <1>16
<1>20. dealing' = dealing \ {m}
  BY <1>2, <1>3, NotDealt DEF Dealt
<1> QED
  BY <1>3, <1>10, <1>12, <1>13, <1>14, <1>15, <1>17, <1>20, AnsweringStep

\* Alice checks Bob's puzzle, randomises it once more and pays.
LEMMA AlicePaymentInitStep ==
    ASSUME PaymentIInv, NEW s \in Session, AlicePaymentInit(s)
    PROVE  PaymentIInv'
<1>1. PICK m \in net :
        /\ m.type = "puzzle_share" /\ m.s = s
        /\ alice[s].stage = "token_shared"
        /\ IF Related(m.original, m.puzzle)
           THEN \E tau \in Shifts, presig \in Presignatures :
                  LET puzzle == Randomize(m.puzzle, tau)
                  IN  /\ puzzle.g # 0
                      /\ alice' = [alice EXCEPT ![s].stage = "paying", ![s].tau = tau,
                                                ![s].puzzle = puzzle, ![s].presig = presig]
                      /\ Reply(m, {[type |-> "puzzle_share_done", s |-> s],
                                   [type |-> "payment_init", s |-> s, presig |-> presig,
                                    original |-> m.puzzle, puzzle |-> puzzle]})
           ELSE /\ alice' = [alice EXCEPT ![s].stage = "failed"]
                /\ Reply(m, {})
  BY DEF AlicePaymentInit
<1>2. m.type = "puzzle_share" /\ m.s = s
  BY <1>1
<1>3. /\ bob' = bob /\ tumbler' = tumbler /\ verified' = verified
      /\ nullifiers' = nullifiers /\ funded' = funded /\ escrows' = escrows
      /\ dealing' = dealing /\ reachable' = reachable
  BY DEF AlicePaymentInit
<1>4. /\ alice[s].stage = "token_shared" /\ bob[s].stage = "puzzle_shared" /\ SessionOK(s)
      /\ m.puzzle = Randomize(bob[s].puzzle, bob[s].beta)
      /\ \A n \in net \ {m} : n.s # s
  <2>1. /\ alice[s].stage = "token_shared" /\ bob[s].stage = "puzzle_shared" /\ SessionOK(s)
        /\ m.puzzle = Randomize(bob[s].puzzle, bob[s].beta)
        /\ \A n \in net : n.s = s => ~IsSide(n)
    BY <1>2, StatesNow DEF MessageOK, IsSide, Paying
  <2> QED
    BY <1>2, <2>1, TheOthers
<1>5. alice[s] \in AliceState /\ verified[s] = "unpaid"
  <2>1. verified[s] \in {"unpaid", "accepted", "rejected"}
    BY StateTypes DEF PaymentIInv
  <2> QED
    BY <1>4, <2>1, StatesNow DEF SessionOK, Paying
<1>6. CASE Related(m.original, m.puzzle)
  <2>1. PICK tau, presig, puzzle :
          /\ tau \in Zq /\ presig \in Presignatures
          /\ puzzle = Randomize(m.puzzle, tau) /\ puzzle.g # 0
          /\ alice' = [alice EXCEPT ![s].stage = "paying", ![s].tau = tau,
                                    ![s].puzzle = puzzle, ![s].presig = presig]
          /\ Reply(m, {[type |-> "puzzle_share_done", s |-> s],
                       [type |-> "payment_init", s |-> s, presig |-> presig,
                        original |-> m.puzzle, puzzle |-> puzzle]})
    <3>1. PICK tau \in Shifts, presig \in Presignatures :
                  LET puzzle == Randomize(m.puzzle, tau)
                  IN  /\ puzzle.g # 0
                      /\ alice' = [alice EXCEPT ![s].stage = "paying", ![s].tau = tau,
                                                ![s].puzzle = puzzle, ![s].presig = presig]
                      /\ Reply(m, {[type |-> "puzzle_share_done", s |-> s],
                                   [type |-> "payment_init", s |-> s, presig |-> presig,
                                    original |-> m.puzzle, puzzle |-> puzzle]})
      BY <1>1, <1>6
    <3> DEFINE puzzle == Randomize(m.puzzle, tau)
    <3>2. /\ puzzle.g # 0
          /\ alice' = [alice EXCEPT ![s].stage = "paying", ![s].tau = tau,
                                    ![s].puzzle = puzzle, ![s].presig = presig]
          /\ Reply(m, {[type |-> "puzzle_share_done", s |-> s],
                       [type |-> "payment_init", s |-> s, presig |-> presig,
                        original |-> m.puzzle, puzzle |-> puzzle]})
      BY <3>1
    <3>3. puzzle = Randomize(m.puzzle, tau)
      OBVIOUS
    <3> HIDE DEF puzzle
    <3> QED
      BY <3>2, <3>3, ShiftsInZq
  <2>2. PICK p, q :
          /\ net' = (net \ {m}) \cup {p, q}
          /\ p.type = "puzzle_share_done" /\ p.s = s
          /\ q.type = "payment_init" /\ q.s = s /\ q.presig = presig /\ q.puzzle = puzzle
    <3> DEFINE p == [type |-> "puzzle_share_done", s |-> s]
               q == [type |-> "payment_init", s |-> s, presig |-> presig,
                     original |-> m.puzzle, puzzle |-> puzzle]
    <3>1. net' = (net \ {m}) \cup {p, q}
      BY <2>1 DEF Reply
    <3>2. p.type = "puzzle_share_done" /\ p.s = s
      OBVIOUS
    <3>3. q.type = "payment_init" /\ q.s = s /\ q.presig = presig /\ q.puzzle = puzzle
      OBVIOUS
    <3> HIDE DEF p, q
    <3> QED
      BY <3>1, <3>2, <3>3
  <2>3. /\ puzzle \in Puzzle /\ puzzle.g = puzzle.ctx /\ presig \in Zq /\ tau \in Zq
        /\ puzzle.g = (bob[s].puzzle.g + bob[s].beta + tau) % Q
    <3>1. bob[s] \in BobState
      BY StatesNow
    <3>2. bob[s].puzzle \in Puzzle /\ bob[s].beta \in Zq
      BY <3>1 DEF BobState
    <3>3. bob[s].puzzle.g = bob[s].puzzle.ctx
      BY <1>4 DEF SessionOK, Shared
    <3>4. presig \in Zq
      BY <2>1, PuzzleAssumption DEF Zq
    <3>5. m.puzzle \in Puzzle
      BY <1>4, <3>2, ModQType
    <3>6. puzzle \in Puzzle
      BY <2>1, <3>5, ModQType
    <3> DEFINE x == bob[s].puzzle.g
               y == bob[s].beta
    <3>7. x \in Nat /\ y \in Nat /\ tau \in Nat
      BY <2>1, <3>2 DEF Puzzle, Zq
    <3>8. m.puzzle.g = (x + y) % Q /\ m.puzzle.ctx = (x + y) % Q
      <4>1. /\ m.puzzle.g = (bob[s].puzzle.g + bob[s].beta) % Q
            /\ m.puzzle.ctx = (bob[s].puzzle.ctx + bob[s].beta) % Q
        <5>1. \A z, w : /\ Randomize(z, w).g = (z.g + w) % Q
                        /\ Randomize(z, w).ctx = (z.ctx + w) % Q
          BY DEF Randomize
        <5>2. m.puzzle = Randomize(bob[s].puzzle, bob[s].beta)
          BY <1>4
        <5> QED
          BY ZenonT(30), <5>1, <5>2
      <4> QED
        BY Zenon, <3>3, <4>1
    <3>9. puzzle.g = (m.puzzle.g + tau) % Q /\ puzzle.ctx = (m.puzzle.ctx + tau) % Q
      BY <2>1 DEF Randomize
    <3> HIDE DEF x, y
    <3>10. (((x + y) % Q) + tau) % Q = (x + y + tau) % Q
      BY <3>7, SumModQ
    <3>11. puzzle.g = (x + y + tau) % Q
      BY Zenon, <3>8, <3>9, <3>10
    <3>12. puzzle.g = puzzle.ctx
      BY Zenon, <3>8, <3>9
    <3> QED
      BY <2>1, <3>4, <3>6, <3>11, <3>12 DEF x, y
  <2>4. PICK a \in AliceState :
          /\ alice' = [alice EXCEPT ![s] = a]
          /\ a.stage = "paying" /\ a.id = alice[s].id /\ a.hash = alice[s].hash
          /\ a.pool = alice[s].pool
          /\ a.puzzle = puzzle /\ a.tau = tau /\ a.presig = presig
    <3> DEFINE a == [alice[s] EXCEPT !.stage = "paying", !.tau = tau,
                                     !.puzzle = puzzle, !.presig = presig]
    <3>1. /\ a \in AliceState
          /\ a.stage = "paying" /\ a.id = alice[s].id /\ a.hash = alice[s].hash
          /\ a.pool = alice[s].pool
          /\ a.puzzle = puzzle /\ a.tau = tau /\ a.presig = presig
      BY <1>5, <2>3 DEF AliceState
    <3>2. alice' = [alice EXCEPT ![s] = a]
      BY <2>1
    <3> HIDE DEF a
    <3> QED
      BY <3>1, <3>2
  <2>5. /\ alice' \in [Session -> AliceState] /\ alice'[s] = a
        /\ \A t \in Session \ {s} : alice'[t] = alice[t]
    BY <2>4, AliceMoves
  <2>6. PaymentTypeOK'
    BY <1>3, <2>5, StateTypes, StateTypesAfter DEF PaymentIInv
  <2>7. /\ a.stage = "paying" /\ a.id = alice[s].id /\ a.hash = alice[s].hash
        /\ a.pool = alice[s].pool
        /\ a.puzzle = puzzle /\ a.tau = tau /\ a.presig = presig /\ puzzle.g # 0
        /\ presig \in Presignatures
    BY <2>1, <2>4
  <2>8. SessionOK(s)'
    BY <1>3, <1>4, <2>3, <2>5, <2>7 DEF SessionOK, Paying, Shared
  <2>9. Served(s)'
    <3>1. UnderWay(s, {"payment_init", "payment_done"})'
      BY <2>2 DEF UnderWay
    <3> QED
      BY <1>3, <1>4, <2>5, <2>7, <3>1 DEF Served
  <2>10. MessageOK(p)' /\ MessageOK(q)'
    <3>1. MessageOK(p)'
      BY <1>3, <1>4, <2>2, <2>5, <2>7 DEF MessageOK, MessageType, Paying
    <3>2. MessageOK(q)'
      BY <1>3, <1>4, <1>5, <2>2, <2>5, <2>7 DEF MessageOK, MessageType, Paying
    <3> QED
      BY <3>1, <3>2
  <2> DEFINE A == {p, q}
  <2>11. /\ net' = (net \ {m}) \cup A
         /\ \A n \in A : n.s = s /\ n.type # "registration" /\ MessageOK(n)'
         /\ \A n, k \in A : (IsSide(n) <=> IsSide(k)) => n = k
    BY <2>2, <2>10 DEF IsSide
  <2> HIDE DEF A
  <2>12. /\ m.s = s /\ m.type # "registration"
         /\ \A n \in net \ {m} : n.s = s =>
                MessageOK(n)' /\ \A k \in A : ~(IsSide(n) <=> IsSide(k))
         /\ \A t \in Session \ {s} : alice'[t] = alice[t] /\ bob'[t] = bob[t]
         /\ alice'[s].id = alice[s].id /\ alice'[s].hash = alice[s].hash
         /\ alice'[s].pool = alice[s].pool
         /\ alice'[s].stage = "start" <=> alice[s].stage = "start"
    BY <1>2, <1>3, <1>4, <2>5, <2>7
  <2>20. dealing' = dealing \ {m}
    BY <1>2, <1>3, NotDealt DEF Dealt
  <2> QED
    BY <1>3, <2>6, <2>8, <2>9, <2>11, <2>12, <2>20, AnsweringStep
<1>7. CASE ~Related(m.original, m.puzzle)
  <2> DEFINE A == {}
  <2>1. /\ alice' = [alice EXCEPT ![s].stage = "failed"]
        /\ net' = (net \ {m}) \cup A /\ \A n \in A : FALSE
    BY <1>1, <1>7 DEF Reply
  <2> HIDE DEF A
  <2>2. PICK a \in AliceState :
          /\ alice' = [alice EXCEPT ![s] = a]
          /\ a.stage = "failed" /\ a.id = alice[s].id /\ a.hash = alice[s].hash
          /\ a.pool = alice[s].pool
    <3> DEFINE a == [alice[s] EXCEPT !.stage = "failed"]
    <3>1. /\ a \in AliceState
          /\ a.stage = "failed" /\ a.id = alice[s].id /\ a.hash = alice[s].hash
          /\ a.pool = alice[s].pool
      BY <1>5 DEF AliceState
    <3>2. alice' = [alice EXCEPT ![s] = a]
      BY <2>1
    <3> HIDE DEF a
    <3> QED
      BY <3>1, <3>2
  <2>3. /\ alice' \in [Session -> AliceState] /\ alice'[s] = a
        /\ \A t \in Session \ {s} : alice'[t] = alice[t]
    BY <2>2, AliceMoves
  <2>4. PaymentTypeOK'
    BY <1>3, <2>3, StateTypes, StateTypesAfter DEF PaymentIInv
  <2>5. a.stage = "failed" /\ a.id = alice[s].id /\ a.hash = alice[s].hash /\ a.pool = alice[s].pool
    BY <2>2
  <2>6. SessionOK(s)'
    BY <1>3, <1>4, <1>5, <2>3, <2>5 DEF SessionOK, Paying, Shared
  <2>7. Served(s)'
    BY <1>3, <1>4, <2>3, <2>5 DEF Served
  <2>8. /\ net' = (net \ {m}) \cup A
        /\ \A n \in A : n.s = s /\ n.type # "registration" /\ MessageOK(n)'
        /\ \A n, k \in A : (IsSide(n) <=> IsSide(k)) => n = k
    BY <2>1
  <2>9. /\ m.s = s /\ m.type # "registration"
        /\ \A n \in net \ {m} : n.s = s =>
               MessageOK(n)' /\ \A k \in A : ~(IsSide(n) <=> IsSide(k))
        /\ \A t \in Session \ {s} : alice'[t] = alice[t] /\ bob'[t] = bob[t]
        /\ alice'[s].id = alice[s].id /\ alice'[s].hash = alice[s].hash
        /\ alice'[s].pool = alice[s].pool
        /\ alice'[s].stage = "start" <=> alice[s].stage = "start"
    BY <1>2, <1>3, <1>4, <2>3, <2>5
  <2>20. dealing' = dealing \ {m}
    BY <1>2, <1>3, NotDealt DEF Dealt
  <2> QED
    BY <1>3, <2>4, <2>6, <2>7, <2>8, <2>9, <2>20, AnsweringStep
<1> QED
  BY <1>6, <1>7

\* The tumbler takes up the session of an Alice, whatever it held before.
LEMMA TumblerRegistrationStep ==
    ASSUME PaymentIInv, TumblerRegistration, dealing = {}, reachable' = reachable
    PROVE  PaymentIInv'
<1>1. PICK m \in net :
        /\ m.type = "registration"
        /\ tumbler' = [tumbler EXCEPT !.aliceId = m.id, !.aliceHash = m.hash, !.bobId = @ + 1]
        /\ Reply(m, {[type |-> "registration_done", s |-> m.s]})
  BY DEF TumblerRegistration
<1>2. PICK s \in Session : m.s = s /\ m.type = "registration"
  BY <1>1 DEF PaymentIInv, MessagesFit, MessageOK
<1>3. /\ alice' = alice /\ bob' = bob /\ verified' = verified
      /\ nullifiers' = nullifiers /\ funded' = funded /\ escrows' = escrows
      /\ dealing' = dealing /\ reachable' = reachable
  BY DEF TumblerRegistration
<1>4. PICK r : net' = (net \ {m}) \cup {r} /\ r.type = "registration_done" /\ r.s = s
  <2> DEFINE r == [type |-> "registration_done", s |-> s]
  <2>1. net' = (net \ {m}) \cup {r} /\ r.type = "registration_done" /\ r.s = s
    BY <1>1, <1>2 DEF Reply
  <2> HIDE DEF r
  <2> QED
    BY <2>1
<1>5. /\ alice[s].stage = "registering" /\ m.id = alice[s].id /\ m.hash = alice[s].hash
      /\ SessionOK(s) /\ \A n \in net \ {m} : n.s # s
  <2>1. /\ alice[s].stage = "registering" /\ m.id = alice[s].id /\ m.hash = alice[s].hash
        /\ SessionOK(s) /\ \A n \in net : n.s = s => ~IsSide(n)
    BY <1>2, StatesNow DEF MessageOK, IsSide, Paying
  <2> QED
    BY <1>2, <2>1, TheOthers
<1>6. /\ tumbler' \in TumblerState /\ tumbler'.up = tumbler.up
      /\ tumbler'.aliceId = alice[s].id /\ tumbler'.aliceHash = alice[s].hash
  <2>1. alice[s] \in AliceState /\ tumbler \in TumblerState
    BY StatesNow
  <2>2. m.id \in Session \cup {NoSession} /\ m.hash \in Session \cup {NoSession}
    BY <1>5, <2>1 DEF AliceState
  <2>3. /\ tumbler' \in TumblerState /\ tumbler'.up = tumbler.up
        /\ tumbler'.aliceId = m.id /\ tumbler'.aliceHash = m.hash
    <3> DEFINE b == tumbler.bobId + 1
    <3>1. b \in Nat
      BY <2>1 DEF TumblerState
    <3>2. tumbler' = [tumbler EXCEPT !.aliceId = m.id, !.aliceHash = m.hash, !.bobId = b]
      BY <1>1
    <3> HIDE DEF b
    <3> QED
      BY <2>1, <2>2, <3>1, <3>2 DEF TumblerState
  <2> QED
    BY <1>5, <2>3
<1>7. PaymentTypeOK'
  BY <1>3, <1>6, StateTypes, StateTypesAfter DEF PaymentIInv
<1>8. /\ \A t \in Session : SessionOK(t)'
      /\ MessagesFit' /\ OneAtATime' /\ DealsFit'
      /\ tumbler'.up => \A t \in Session : Served(t)'
  <2>1. SessionOK(s)'
    BY <1>3, <1>5 DEF SessionOK
  <2>2. Served(s)'
    <3>1. UnderWay(s, {"registration", "registration_done"})'
      BY <1>4 DEF UnderWay
    <3>2. bob[s].stage = "start"
      BY <1>5 DEF SessionOK
    <3> QED
      BY <1>3, <1>5, <3>1, <3>2 DEF Served
  <2>3. MessageOK(r)'
    BY <1>3, <1>4, <1>5 DEF MessageOK, MessageType
  <2> DEFINE A == {r}
  <2>4. /\ net' = (net \ {m}) \cup A
        /\ \A n \in A : n.s = s /\ MessageOK(n)'
        /\ \A n, k \in A : (IsSide(n) <=> IsSide(k)) => n = k
    BY <1>4, <2>3
  <2> HIDE DEF A
  <2>5. \A n \in net \ {m} : n.s = s =>
           MessageOK(n)' /\ \A k \in A : ~(IsSide(n) <=> IsSide(k))
    BY <1>5
  <2>6. dealing' = dealing \ {m}
    BY <1>2, <1>3, NotDealt DEF Dealt
  <2> QED
    BY <1>2, <1>3, <1>6, <2>1, <2>2, <2>4, <2>5, <2>6, MessagesStep
<1>9. EscrowsOwned' /\ RejectedOnlyWhenDisturbed'
  BY <1>3 DEF PaymentIInv, EscrowsOwned, RejectedOnlyWhenDisturbed
<1>10. TumblerKnows'
  BY <1>3, <1>5, <1>6 DEF TumblerKnows
<1> QED
  BY <1>7, <1>8, <1>9, <1>10 DEF PaymentIInv

\* The tumbler completes Alice's presignature with the decrypted secret, and
\* takes her money if the escrow of its session is hers.
LEMMA TumblerPaymentStep ==
    ASSUME PaymentIInv, TumblerPayment, dealing = {}, reachable' = reachable
    PROVE  PaymentIInv'
<1>1. PICK m \in net, confirms \in ChainOutcomes :
        /\ m.type = "payment_init"
        /\ IF Related(m.original, m.puzzle)
           THEN LET sig == PaymentSignature(m)
                    e == <<tumbler.pool, tumbler.aliceId>>
                    signed == <<alice[m.s].id, alice[m.s].hash>>
                IN  /\ verified' = [verified EXCEPT ![m.s] =
                          IF /\ signed = <<tumbler.aliceId, tumbler.aliceHash>>
                             /\ IsSignature(sig, m.presig, m.puzzle.g)
                          THEN "accepted" ELSE "rejected"]
                    /\ escrows' = IF /\ confirms
                                     /\ Confirms(e, tumbler.aliceHash, m.s, sig,
                                                 m.presig, m.puzzle.g)
                                  THEN [escrows EXCEPT ![e].released = TRUE]
                                  ELSE escrows
                    /\ Deal(m)
           ELSE /\ tumbler' = Aborted
                /\ Reply(m, {})
                /\ UNCHANGED <<dealing, escrows, verified>>
  BY DEF TumblerPayment
<1>2. PICK s \in Session : m.s = s /\ m.type = "payment_init"
  BY <1>1 DEF PaymentIInv, MessagesFit, MessageOK
<1>3. /\ alice' = alice /\ bob' = bob /\ nullifiers' = nullifiers /\ funded' = funded
      /\ reachable' = reachable
  BY DEF TumblerPayment
<1>4. /\ alice[s].stage = "paying" /\ SessionOK(s) /\ verified[s] = "unpaid"
      /\ m.presig = alice[s].presig /\ m.puzzle = alice[s].puzzle
      /\ bob[s].stage \in Shared
      /\ \A n \in net \ {m} : n.s = s => IsSide(n) /\ MessageOK(n)
  <2>1. PaymentMessage(m, s)
    BY <1>2, PaymentMessageNow
  <2> QED
    BY <2>1 DEF PaymentMessage
<1>5. CASE ~Related(m.original, m.puzzle)
  <2> DEFINE A == {}
  <2>1. /\ tumbler' = [tumbler EXCEPT !.up = FALSE] /\ escrows' = escrows /\ verified' = verified
        /\ net' = (net \ {m}) \cup A /\ \A n \in A : FALSE
        /\ dealing' = dealing
    BY <1>1, <1>5 DEF Reply, Aborted
  <2> HIDE DEF A
  <2>2. /\ tumbler' \in TumblerState /\ tumbler'.up = FALSE
        /\ tumbler'.aliceId = tumbler.aliceId /\ tumbler'.aliceHash = tumbler.aliceHash
    <3>1. tumbler \in TumblerState
      BY StatesNow
    <3> QED
      BY <2>1, <3>1 DEF TumblerState
  <2>3. PaymentTypeOK'
    BY <1>3, <2>1, <2>2, StateTypes, StateTypesAfter DEF PaymentIInv
  <2>4. SessionOK(s)'
    BY <1>3, <1>4, <2>1 DEF SessionOK
  <2>5. \A n \in net \ {m} : n.s = s => MessageOK(n)'
    BY <1>3, <1>4, <2>1 DEF MessageOK
  <2>6. /\ \A n \in A : n.s = s /\ n.type # "registration" /\ MessageOK(n)'
        /\ \A n, k \in A : (IsSide(n) <=> IsSide(k)) => n = k
        /\ \A n \in net \ {m} : n.s = s =>
              MessageOK(n)' /\ \A k \in A : ~(IsSide(n) <=> IsSide(k))
        /\ m.type # "registration"
    BY <1>2, <2>1, <2>5
  <2>7. /\ net' = (net \ {m}) \cup A /\ escrows' = escrows /\ verified' = verified
        /\ dealing' = dealing \ {m}
    BY <1>2, <2>1, NotDealt
  <2> QED
    BY <1>2, <1>3, <2>2, <2>3, <2>4, <2>6, <2>7, AnsweringStep
<1>6. CASE Related(m.original, m.puzzle)
  <2> DEFINE id == <<tumbler.pool, tumbler.aliceId>>
             paid == /\ <<alice[s].id, alice[s].hash>> = <<tumbler.aliceId, tumbler.aliceHash>>
                     /\ IsSignature(PaymentSignature(m), m.presig, m.puzzle.g)
             confirmed == confirms /\ Confirms(id, tumbler.aliceHash, s, PaymentSignature(m),
                                               m.presig, m.puzzle.g)
  <2>1. /\ verified' = [verified EXCEPT ![s] = IF paid THEN "accepted" ELSE "rejected"]
        /\ escrows' = IF confirmed THEN [escrows EXCEPT ![id].released = TRUE] ELSE escrows
        /\ Deal(m)
    BY <1>1, <1>2, <1>6
  <2>2. IsSignature(PaymentSignature(m), m.presig, m.puzzle.g)
    <3>1. alice[s] \in AliceState
      BY StatesNow
    <3>2. alice[s].puzzle \in Puzzle
      BY <3>1 DEF AliceState
    <3>3. /\ m.puzzle.ctx = m.puzzle.g /\ m.puzzle.g # 0 /\ m.presig \in Presignatures
      BY <1>4 DEF SessionOK, Paying
    <3>4. m.puzzle.g \in Zq
      BY <1>4, <3>2 DEF Puzzle
    <3>5. m.puzzle.g \in 1 .. Q - 1 /\ m.presig \in 1 .. Q - 1
      <4>1. \A x \in Zq : x # 0 => x \in 1 .. Q - 1
        BY PrimeQ
      <4> QED
        BY <3>3, <3>4, <4>1, PuzzleAssumption
    <3>6. Complete(m.presig, m.puzzle.g) \in 1 .. Q - 1
      BY <3>5, CompleteAndExtract
    <3>7. PaymentSignature(m) = Complete(m.presig, m.puzzle.g)
      BY <3>3 DEF PaymentSignature, Decrypt
    <3>8. Complete(m.presig, m.puzzle.g) # 0
      BY <3>6
    <3> QED
      BY Zenon, <3>7, <3>8 DEF IsSignature
  <2>3. paid <=> tumbler.aliceId = alice[s].id /\ tumbler.aliceHash = alice[s].hash
    BY <2>2
  \* The handler deals, or answers at once.
  <2>4. /\ tumbler' = tumbler
        /\ \/ dealing' = {m} /\ net' = net
           \/ /\ dealing' = dealing
              /\ \E r : /\ r.type = "payment_done" /\ r.s = s /\ net' = (net \ {m}) \cup {r}
                       /\ r.sig = Complete(alice[s].presig, alice[s].puzzle.ctx)
    <3>1. CASE dealing' = {m} /\ UNCHANGED <<net, tumbler>>
      BY <3>1
    <3>2. CASE UNCHANGED dealing /\ Finish(m)
      <4>1. PaymentMessage(m, s)
        BY <1>2, PaymentMessageNow
      <4> QED
        BY <1>2, <3>2, <4>1, PaymentAnswer
    <3> QED
      BY <2>1, <3>1, <3>2 DEF Deal
  <2>5. alice[s].id \in Session /\ alice[s].hash \in {s, NoSession}
    <3>1. alice[s] \in AliceState
      BY StatesNow
    <3> QED
      BY <1>4, <3>1 DEF AliceState, SessionOK
  <2>6. confirmed => /\ paid /\ id \in Key
                     /\ escrows[id].dataHash = s
    <3>1. DOMAIN escrows = Key
      BY StateTypes DEF PaymentIInv
    <3> QED
      BY <2>3, <2>5, <3>1 DEF Confirms
  <2>7. PICK v \in {"accepted", "rejected"} :
          /\ verified' = [verified EXCEPT ![s] = v]
          /\ v = "rejected" => ~paid
          /\ confirmed => v = "accepted"
    <3> DEFINE v == IF paid THEN "accepted" ELSE "rejected"
    <3>1. verified' = [verified EXCEPT ![s] = v]
      BY <2>1
    <3>2. /\ v \in {"accepted", "rejected"} /\ (v = "rejected" => ~paid)
          /\ confirmed => v = "accepted"
      BY <2>6
    <3> HIDE DEF v
    <3> QED
      BY <3>1, <3>2
  <2>8. /\ verified' \in [Session -> {"unpaid", "accepted", "rejected"}]
        /\ verified'[s] = v /\ \A t \in Session \ {s} : verified'[t] = verified[t]
    <3>1. verified \in [Session -> {"unpaid", "accepted", "rejected"}]
      BY StateTypes DEF PaymentIInv
    <3> QED
      BY <2>7, <3>1
  <2> HIDE DEF id, paid, confirmed
  <2>9. escrows \in [Key -> EscrowState]
    BY StateTypes DEF PaymentIInv
  <2>10. /\ escrows' \in [Key -> EscrowState]
         /\ \A i \in Key : /\ escrows'[i].opener = escrows[i].opener
                           /\ escrows'[i].dataHash = escrows[i].dataHash
                           /\ escrows'[i].released =>
                                 escrows[i].released \/ (confirmed /\ i = id)
    <3>1. CASE confirmed
      <4> DEFINE e == [escrows[id] EXCEPT !.released = TRUE]
      <4>1. escrows[id] \in EscrowState
        BY <2>6, <2>9, <3>1
      <4>2. /\ e \in EscrowState /\ e.opener = escrows[id].opener
            /\ e.dataHash = escrows[id].dataHash
        BY <4>1 DEF EscrowState
      <4>3. escrows' = [escrows EXCEPT ![id] = e]
        BY <2>1, <3>1
      <4> HIDE DEF e
      <4> QED
        BY <2>6, <2>9, <3>1, <4>2, <4>3
    <3>2. CASE ~confirmed
      BY <2>1, <2>9, <3>2
    <3> QED
      BY <3>1, <3>2
  <2>11. tumbler' = tumbler
    BY <2>4
  <2>12. PaymentTypeOK'
    BY <1>3, <2>8, <2>10, <2>11, StateTypes, StateTypesAfter DEF PaymentIInv
  <2>13. /\ \A t \in Session : SessionOK(t)'
         /\ MessagesFit' /\ OneAtATime' /\ DealsFit'
         /\ tumbler'.up => \A t \in Session : Served(t)'
         /\ \A n : n.type = "registration" => (n \in net' <=> n \in net)
    <3>1. SessionOK(s)'
      BY <1>3, <1>4 DEF SessionOK, Paying
    <3>2. CASE /\ dealing' = dealing
               /\ \E r : /\ r.type = "payment_done" /\ r.s = s /\ net' = (net \ {m}) \cup {r}
                        /\ r.sig = Complete(alice[s].presig, alice[s].puzzle.ctx)
      <4>1. PICK r : /\ r.type = "payment_done" /\ r.s = s /\ net' = (net \ {m}) \cup {r}
                     /\ r.sig = Complete(alice[s].presig, alice[s].puzzle.ctx)
        BY <3>2
      <4> DEFINE A == {r}
      <4>2. Served(s)'
        <5>1. UnderWay(s, {"payment_init", "payment_done"})'
          BY <4>1 DEF UnderWay
        <5> QED
          BY <1>3, <1>4, <5>1 DEF Served, Shared
      <4>3. MessageOK(r)'
        BY <1>3, <1>4, <4>1 DEF MessageOK, MessageType
      <4>4. /\ \A n \in A : n.s = s /\ MessageOK(n)' /\ ~IsSide(n)
            /\ \A n, k \in A : (IsSide(n) <=> IsSide(k)) => n = k
            /\ net' = (net \ {m}) \cup A
        BY <4>1, <4>3 DEF IsSide
      <4>5. \A n \in net \ {m} : n.s = s => MessageOK(n)'
        BY <1>3, <1>4 DEF MessageOK, IsSide
      <4> HIDE DEF A
      <4>6. \A n \in net \ {m} : n.s = s =>
               MessageOK(n)' /\ \A k \in A : ~(IsSide(n) <=> IsSide(k))
        BY <1>4, <4>4, <4>5
      <4>7. dealing' = dealing \ {m}
        BY <3>2, NotDealt
      <4>8. \A n : n.type = "registration" => (n \in net' <=> n \in net)
        BY <1>2, <4>1
      <4> QED
        BY <1>2, <1>3, <2>8, <2>11, <3>1, <4>2, <4>4, <4>6, <4>7, <4>8, MessagesStep
    <3>3. CASE dealing' = {m} /\ net' = net
      <4>1. Served(s)'
        <5>1. UnderWay(s, {"payment_init", "payment_done"})'
          BY <1>2, <3>3 DEF UnderWay
        <5> QED
          BY <1>3, <1>4, <5>1 DEF Served, Shared
      <4>2. MessageOK(m)'
        <5>1. MessageOK(m)
          BY StatesNow
        <5> QED
          BY <1>2, <1>3, <3>3, <5>1 DEF MessageOK
      <4>3. \A n \in net \ {m} : n.s = s => MessageOK(n)'
        BY <1>3, <1>4 DEF MessageOK, IsSide
      <4>4. DealsFit'
        BY <1>2, <3>3 DEF DealsFit, Dealt
      <4>5. StepOf(s, {}, {})
        BY <1>3, <2>8, <2>11, <3>3 DEF StepOf
      <4>6. SessionAfter(s)
        BY <3>1, <3>3, <4>1, <4>2, <4>3 DEF SessionAfter, PaymentIInv, OneAtATime
      <4> QED
        BY <3>3, <4>4, <4>5, <4>6, SessionStep
    <3> QED
      BY <2>4, <3>2, <3>3
  <2>14. EscrowsOwned'
    <3> SUFFICES ASSUME NEW i \in Key
                 PROVE  /\ escrows'[i].opener = NoSession =>
                              escrows'[i].dataHash = NoSession /\ ~escrows'[i].released
                        /\ escrows'[i].opener # NoSession =>
                              /\ KeyOf(alice'[escrows'[i].opener]) = i
                              /\ escrows'[i].dataHash \in {escrows'[i].opener, NoSession}
                        /\ escrows'[i].released => verified'[escrows'[i].opener] = "accepted"
      BY DEF EscrowsOwned
    <3>1. /\ escrows[i].opener = NoSession =>
                escrows[i].dataHash = NoSession /\ ~escrows[i].released
          /\ escrows[i].opener # NoSession =>
                /\ KeyOf(alice[escrows[i].opener]) = i
                /\ escrows[i].dataHash \in {escrows[i].opener, NoSession}
          /\ escrows[i].released => verified[escrows[i].opener] = "accepted"
      BY DEF PaymentIInv, EscrowsOwned
    <3>2. escrows[i].opener \in Session \cup {NoSession} /\ s # NoSession
      BY <2>9, PuzzleAssumption DEF EscrowState
    <3>3. confirmed /\ i = id => escrows[i].opener = s /\ v = "accepted"
      BY <2>6, <2>7, <3>1, <3>2
    <3>4. escrows[i].released => escrows[i].opener \in Session \ {s}
      BY <1>4, <3>1, <3>2
    <3>5. escrows'[i].released => verified'[escrows'[i].opener] = "accepted"
      BY <2>8, <2>10, <3>1, <3>3, <3>4
    <3>6. escrows[i].opener = NoSession => ~(confirmed /\ i = id)
      BY <3>2, <3>3
    <3> QED
      BY <1>3, <2>10, <3>1, <3>5, <3>6
  <2>15. ~UnderWay(s, {"registration"})
    BY <1>4, StatesNow DEF UnderWay, MessageOK
  <2>16. TumblerKnows'
    <3>1. \A t \in Session : UnderWay(t, {"registration"})' <=> UnderWay(t, {"registration"})
      BY <2>13 DEF UnderWay
    <3> QED
      BY <1>3, <2>11, <3>1 DEF PaymentIInv, TumblerKnows
  <2>17. RejectedOnlyWhenDisturbed'
    <3>1. v = "rejected" => \E t \in Session \ {s} : alice[t].stage # "start"
      <4>1. v = "rejected" => ~(tumbler.aliceId = alice[s].id /\ tumbler.aliceHash = alice[s].hash)
        BY <2>3, <2>7
      <4> QED
        BY <1>4, <2>15, <4>1 DEF PaymentIInv, TumblerKnows
    <3> QED
      BY <1>3, <2>8, <3>1 DEF PaymentIInv, RejectedOnlyWhenDisturbed
  <2> QED
    BY <2>12, <2>13, <2>14, <2>16, <2>17 DEF PaymentIInv
<1> QED
  BY <1>5, <1>6

-----------------------------------------------------------------------------
(* The theorems.                                                           *)

\* The invariant only looks at the variables.
LEMMA PaymentStutters == PaymentIInv /\ UNCHANGED vars => PaymentIInv'
<1> SUFFICES ASSUME PaymentIInv, UNCHANGED vars PROVE PaymentIInv'
  OBVIOUS
<1>1. /\ UNCHANGED <<alice, bob, tumbler, net, nullifiers, escrows, funded, verified>>
      /\ dealing' = dealing /\ reachable' = reachable
  BY DEF vars
<1>2. DealsFit'
  BY <1>1 DEF PaymentIInv, DealsFit
<1>3. reachable' \in BOOLEAN
  BY <1>1, StateTypes DEF PaymentIInv
<1> QED
  BY <1>1, <1>2, <1>3, DealsOnly

\* A receiver of the shares stops or starts.
LEMMA ReceiversChangeStep ==
    ASSUME PaymentIInv, ReceiversChange
    PROVE  PaymentIInv'
<1>1. /\ UNCHANGED <<alice, bob, tumbler, net, nullifiers, escrows, funded, verified>>
      /\ dealing' = dealing /\ reachable' \in BOOLEAN
  BY DEF ReceiversChange
<1>2. DealsFit'
  BY <1>1 DEF PaymentIInv, DealsFit
<1> QED
  BY <1>1, <1>2, DealsOnly

\* Every handler of the three programs keeps it.
LEMMA PaymentStep == PaymentIInv /\ [PaymentNext]_vars => PaymentIInv'
<1> SUFFICES ASSUME PaymentIInv, [PaymentNext]_vars PROVE PaymentIInv'
  OBVIOUS
<1>1. ASSUME NEW s \in Session, AliceNext(s) PROVE PaymentIInv'
  BY <1>1, AliceRegistrationStep, AliceRegistrationDoneStep, AlicePaymentInitStep,
     AlicePaymentDoneStep DEF AliceNext
<1>2. ASSUME NEW s \in Session, BobNext(s) PROVE PaymentIInv'
  BY <1>2, BobPromiseInitStep, BobPuzzleShareStep, BobPuzzleShareDoneStep, BobSolutionStep
     DEF BobNext
<1>3. ASSUME TumblerNext PROVE PaymentIInv'
  BY <1>3, TumblerRegistrationStep, TumblerPromiseStep, TumblerPaymentStep, TumblerExitStep
     DEF TumblerNext
<1> QED
  BY <1>1, <1>2, <1>3, TumblerDealtStep, ReceiversChangeStep, PaymentStutters DEF PaymentNext

\* The sessions' states, the messages under way and the tumbler's one global
\* session always fit, however the sessions of alice.c, bob.c and tumbler.c
\* interleave.
THEOREM PaymentInvariant == PaymentSpec => []PaymentIInv
<1>1. PaymentSpec => PaymentInit /\ [][PaymentNext]_vars
  BY PTL DEF PaymentSpec
<1> QED
  BY <1>1, PaymentInitially, PaymentStep, PTL

\* No client waits in vain for a running tumbler, and a session left alone is
\* never refused (payment_init_handler).
THEOREM PaymentInvAlways == PaymentSpec => []PaymentInv
<1>1. PaymentIInv => PaymentInv
  <2> SUFFICES ASSUME PaymentIInv PROVE PaymentInv
    OBVIOUS
  <2>1. NobodyWaitsInVain
    BY DEF PaymentIInv, NobodyWaitsInVain, Served, UnderWay
  <2> QED
    BY <2>1 DEF PaymentIInv, PaymentInv
<1> QED
  BY <1>1, PaymentInvariant, PTL

\* payment_done_handler extracts the exponent of Alice's own puzzle, for every
\* prime order of the group.
THEOREM AliceExtractsGammaAlways == PaymentSpec => []AliceExtractsGamma
<1>1. PaymentIInv => AliceExtractsGamma
  BY DEF PaymentIInv, SessionOK, Paying, AliceExtractsGamma
<1> QED
  BY <1>1, PaymentInvariant, PTL

\* release_escrow_for_alice never takes another Alice's deposit.
THEOREM ReleasedByItsOwnerAlways == PaymentSpec => []ReleasedByItsOwner
<1>1. PaymentIInv => ReleasedByItsOwner
  <2> SUFFICES ASSUME PaymentIInv, NEW pool \in Pools, NEW id \in Session,
                      escrows[<<pool, id>>].released
               PROVE  /\ escrows[<<pool, id>>].opener # NoSession
                      /\ verified[escrows[<<pool, id>>].opener] = "accepted"
                      /\ alice[escrows[<<pool, id>>].opener].id = id
                      /\ alice[escrows[<<pool, id>>].opener].pool = pool
    BY DEF ReleasedByItsOwner
  <2>1. <<pool, id>> \in Key
    BY DEF Key
  <2> QED
    BY <2>1 DEF PaymentIInv, EscrowsOwned, KeyOf
<1> QED
  BY <1>1, PaymentInvariant, PTL
=============================================================================
