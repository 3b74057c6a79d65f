------------------------- MODULE CommitteeSelection -------------------------
(***************************************************************************)
(* The selection algorithm of CommitteeRotation.sol: rank the candidates   *)
(* by reputation, keep the best TOP_K, turn their scores into weights and  *)
(* spin a weighted roulette without replacement, one 32-bit word of the    *)
(* VRF output per seat.                                                    *)
(***************************************************************************)
EXTENDS Integers, Sequences, FiniteSets, Functions

CONSTANTS
    MAX_COMMITTEE_SIZE,      \* seats
    TOP_K,                   \* candidates that take part in the roulette
    BASE_WEIGHT,
    MAX_WEIGHT

ASSUME SelectionAssumption ==
    /\ MAX_COMMITTEE_SIZE \in Nat \ {0}
    /\ TOP_K \in Nat /\ TOP_K >= MAX_COMMITTEE_SIZE
    /\ BASE_WEIGHT \in Nat \ {0}
    /\ MAX_WEIGHT \in Nat /\ MAX_WEIGHT >= BASE_WEIGHT

Least(S) == CHOOSE x \in S : \A y \in S : x <= y

-----------------------------------------------------------------------------
(* Top-K.                                                                  *)

\* The first position from i on that carries the largest score.
MaxIdx(cs, score, i) ==
    Least({j \in i .. Len(cs) : \A k \in i .. Len(cs) : score[cs[j]] >= score[cs[k]]})

\* Mutant of Swapped: forgets the second half of the exchange.
SwappedHalf(cs, i, j) == [cs EXCEPT ![i] = cs[j]]

Swapped(cs, i, j) == [cs EXCEPT ![i] = cs[j], ![j] = cs[i]]

\* The selection sort that stops after TOP_K positions.
TopKCandidates(pool, score) ==
    LET topK == IF Len(pool) < TOP_K THEN Len(pool) ELSE TOP_K
        sorted[i \in 0 .. topK] ==
            IF i = 0 THEN pool
            ELSE Swapped(sorted[i - 1], i, MaxIdx(sorted[i - 1], score, i))
    IN  SubSeq(sorted[topK], 1, topK)

-----------------------------------------------------------------------------
(* Weights.                                                                *)

\* Mutant of Weight: the smallest score is not taken off.
WeightUnshifted(score, minScore, maxScore) ==
    IF maxScore = minScore
    THEN BASE_WEIGHT
    ELSE BASE_WEIGHT + (score * (MAX_WEIGHT - BASE_WEIGHT)) \div (maxScore - minScore)

\* A score scaled linearly onto BASE_WEIGHT .. MAX_WEIGHT, rounded down.
Weight(score, minScore, maxScore) ==
    IF maxScore = minScore
    THEN BASE_WEIGHT
    ELSE BASE_WEIGHT
         + ((score - minScore) * (MAX_WEIGHT - BASE_WEIGHT)) \div (maxScore - minScore)

CalculateWeights(scores) ==
    LET values == Range(scores)
        minScore == Least(values)
        maxScore == CHOOSE x \in values : \A y \in values : x >= y
    IN  [i \in DOMAIN scores |-> Weight(scores[i], minScore, maxScore)]

CumulativeWeights(weights) ==
    LET cumulative[i \in 1 .. Len(weights)] ==
            IF i = 1 THEN weights[1] ELSE cumulative[i - 1] + weights[i]
    IN  cumulative

-----------------------------------------------------------------------------
(* Roulette.  A wheel holds the arrays of the loop; picked is the sequence *)
(* of selectedIdx so far, its range the positions whose flag is set.       *)

NewWheel(weights) ==
    LET cumulative == CumulativeWeights(weights)
    IN  [weights |-> weights,
         cumulativeWeights |-> cumulative,
         totalWeight |-> cumulative[Len(weights)],
         picked |-> <<>>]

Unpicked(wheel) == DOMAIN wheel.weights \ Range(wheel.picked)

\* The first unpicked position whose cumulative weight exceeds the value and,
\* should there be none, the first unpicked position.
SelectedIdx(wheel, value) ==
    LET hits == {i \in Unpicked(wheel) : value < wheel.cumulativeWeights[i]}
    IN  IF hits # {} THEN Least(hits) ELSE Least(Unpicked(wheel))

\* One seat: the random word is reduced modulo the weight that is left, and
\* the weight of the winner is taken off the positions from its own on.
Spin(wheel, word) ==
    LET idx == SelectedIdx(wheel, word % wheel.totalWeight)
        removed == wheel.weights[idx]
    IN  [wheel EXCEPT
           !.cumulativeWeights =
               [i \in DOMAIN @ |-> IF i >= idx /\ @[i] >= removed THEN @[i] - removed ELSE @[i]],
           !.totalWeight = @ - removed,
           !.picked = Append(@, idx)]

\* selectNewCommittee, for a pool of at least MAX_COMMITTEE_SIZE candidates;
\* random gives the word used for each seat.
SelectNewCommittee(pool, score, random) ==
    LET topK == TopKCandidates(pool, score)
        weights == CalculateWeights([i \in DOMAIN topK |-> score[topK[i]]])
        wheel[n \in 0 .. MAX_COMMITTEE_SIZE] ==
            IF n = 0 THEN NewWheel(weights) ELSE Spin(wheel[n - 1], random[n])
        final == wheel[MAX_COMMITTEE_SIZE]
    IN  [n \in 1 .. MAX_COMMITTEE_SIZE |-> topK[final.picked[n]]]
=============================================================================
