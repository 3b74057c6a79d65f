-------------------------- MODULE SelectionRounds --------------------------
(***************************************************************************)
(* The roulette of CommitteeSelection run one seat at a time, so that the  *)
(* wheel can be inspected between two spins.  A behaviour is one call of   *)
(* selectNewCommittee: the pool and the scores are chosen at the start,    *)
(* the word of each seat when it is spun.                                  *)
(***************************************************************************)
EXTENDS CommitteeSelection

CONSTANTS
    MaxPool,                 \* bound on the size of the candidate pool
    ScoreValue,              \* reputations a candidate may have
    MaxWord                  \* words are 0 .. MaxWord (2^32 - 1 in the code)

ASSUME RoundsAssumption ==
    /\ MaxPool \in Nat /\ MaxWord \in Nat
    /\ ScoreValue \subseteq Nat

VARIABLES
    candidates,              \* the pool; a candidate is named by its position
    score,                   \* the reputation of each candidate
    wheel

roundsVars == <<candidates, score, wheel>>

StartWheel ==
    LET topK == TopKCandidates(candidates, score)
    IN  NewWheel(CalculateWeights([i \in DOMAIN topK |-> score[topK[i]]]))

RoundsInit ==
    /\ candidates \in {[i \in 1 .. n |-> i] : n \in MAX_COMMITTEE_SIZE .. MaxPool}
    /\ score \in [Range(candidates) -> ScoreValue]
    /\ wheel = StartWheel

SpinSeat(word) ==
    /\ Len(wheel.picked) < MAX_COMMITTEE_SIZE
    /\ wheel' = Spin(wheel, word)
    /\ UNCHANGED <<candidates, score>>

RoundsNext == \E word \in 0 .. MaxWord : SpinSeat(word)

RoundsSpec == RoundsInit /\ [][RoundsNext]_roundsVars

-----------------------------------------------------------------------------
(* Properties.                                                             *)

\* Nobody outside the best TOP_K takes part, nobody in it is left out or
\* doubled: the partial selection sort returns distinct candidates, and every
\* candidate it leaves out has a score no higher than any it returns.
TopKIsTheBest ==
    LET topK == TopKCandidates(candidates, score)
    IN  /\ IsInjective(topK)
        /\ Range(topK) \subseteq Range(candidates)
        /\ Len(topK) = Least({TOP_K, Len(candidates)})
        /\ \A a \in Range(topK), b \in Range(candidates) \ Range(topK) :
              score[a] >= score[b]

\* A better reputation never gives a smaller weight, and the division never
\* leaves BASE_WEIGHT .. MAX_WEIGHT, the best candidate getting all of it.
WeightsFollowScores ==
    LET topK == TopKCandidates(candidates, score)
        s == [i \in DOMAIN topK |-> score[topK[i]]]
        w == wheel.weights
    IN  \A i, j \in DOMAIN w :
           /\ w[i] \in BASE_WEIGHT .. MAX_WEIGHT
           /\ s[i] >= s[j] => w[i] >= w[j]
           /\ (s[i] > s[j] /\ \A k \in DOMAIN w : s[i] >= s[k]) => w[i] = MAX_WEIGHT

\* The roulette is exact in every round: of the totalWeight values a word is
\* reduced to, precisely weights[i] choose the unpicked candidate i and none
\* chooses a picked one.  In particular the "should not happen" fallback of
\* the code never happens, and removing winners never skews later rounds.
RouletteIsExact ==
    Len(wheel.picked) < MAX_COMMITTEE_SIZE =>
        \A i \in DOMAIN wheel.weights :
            Cardinality({v \in 0 .. wheel.totalWeight - 1 : SelectedIdx(wheel, v) = i})
                = IF i \in Unpicked(wheel) THEN wheel.weights[i] ELSE 0

\* A seat is won with a chance that follows the reputation: weights follow
\* scores and the wheel turns them into draws exactly, in every round.
WheelIsFair == WeightsFollowScores /\ RouletteIsExact
=============================================================================
