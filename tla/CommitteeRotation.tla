-------------------------- MODULE CommitteeRotation --------------------------
(***************************************************************************)
(* CommitteeRotation.sol: a VRF output is submitted, checked, and consumed *)
(* by a rotation, which draws the new committee from the candidate pool by *)
(* current reputation, closes the reward epoch and rewards the committee   *)
(* that is leaving.                                                        *)
(*                                                                         *)
(* A VRF output is the tuple of words the selection reads from it; a proof *)
(* is whether VRF.sol accepts it (external).                               *)
(***************************************************************************)
EXTENDS RewardPool, ReputationManager, CommitteeSelection

CONSTANTS
    ROTATION_INTERVAL,       \* seconds between rotations
    Random,                  \* VRF outputs: a word for each seat
    NoRandom,                \* bytes32(0)
    InitialCommittee,        \* as passed to the constructor
    MaxRotations,            \* bound on rotationCount
    MaxSubmissions,          \* bound on submitted VRF outputs
    MaxReputation            \* reputations are updated up to this bound

ASSUME RotationAssumption ==
    /\ ROTATION_INTERVAL \in Nat
    /\ NoRandom \notin Random
    /\ InitialCommittee \in [1 .. MAX_COMMITTEE_SIZE -> User]
    /\ IsInjective(InitialCommittee)      \* migration 5 passes different accounts
    /\ MaxRotations \in Nat
    /\ MaxSubmissions \in Nat
    /\ MaxReputation \in Nat

VARIABLES
    currentCommittee,        \* the members, by seat
    lastRotationTime,
    rotationCount,
    candidatePool,           \* a sequence of addresses
    vrf,                     \* currentVRFRandom, whether its proof is right,
                             \* currentVRFVerified and currentVRFUsed
    vrfGenerator,            \* the only account that may submit, or NoAddress
    rotationRewardPool,      \* the rewardPool reference, or NoAddress
    rotationRandom,          \* [round -> random], the mapping kept as history
    randomUsed,              \* [round -> BOOLEAN]
    submissions,             \* history: how many outputs were submitted
    drawnWith                \* history: each rotation's output, and the number
                             \* of the submission that brought it

rotationVars ==
    <<currentCommittee, lastRotationTime, rotationCount, candidatePool, vrf, vrfGenerator,
      rotationRewardPool, rotationRandom, randomUsed, submissions, drawnWith>>

Round == 0 .. MaxRotations

RotationInit ==
    /\ currentCommittee = InitialCommittee
    /\ lastRotationTime = now
    /\ rotationCount = 0
    /\ candidatePool = <<>>
    /\ vrf = [random |-> NoRandom, provable |-> FALSE, verified |-> FALSE, used |-> FALSE]
    /\ vrfGenerator = NoAddress
    /\ rotationRewardPool \in {NoAddress, RewardPoolAddr}
    /\ rotationRandom = [r \in Round |-> NoRandom]
    /\ randomUsed = [r \in Round |-> FALSE]
    /\ submissions = 0
    /\ drawnWith = <<>>

-----------------------------------------------------------------------------

\* The require shared by setRewardPool, setVRFGenerator and the submission.
IsVRFGenerator(sender) == vrfGenerator \in {sender, NoAddress}

SetRotationRewardPool(sender) ==
    /\ IsVRFGenerator(sender)
    /\ rotationRewardPool' = RewardPoolAddr
    /\ UNCHANGED <<currentCommittee, lastRotationTime, rotationCount, candidatePool, vrf,
                   vrfGenerator, rotationRandom, randomUsed, submissions, drawnWith>>

\* The zero address gives the role back to everybody.
SetVRFGenerator(sender, a) ==
    /\ IsVRFGenerator(sender)
    /\ vrfGenerator' = a
    /\ UNCHANGED <<currentCommittee, lastRotationTime, rotationCount, candidatePool, vrf,
                   rotationRewardPool, rotationRandom, randomUsed, submissions, drawnWith>>

\* Mutant of RandomHistory: the entry of the last rotation is written.
RandomHistoryLate(random) ==
    [rotationRandom EXCEPT ![IF rotationCount = 0 THEN 0 ELSE rotationCount - 1] = random]

RandomHistory(random) == [rotationRandom EXCEPT ![rotationCount] = random]

\* A new output replaces the current one, used or not.
SubmitVRFRandomWithProof(sender, random, provable) ==
    /\ IsVRFGenerator(sender)
    /\ submissions < MaxSubmissions
    /\ vrf' = [random |-> random, provable |-> provable, verified |-> FALSE, used |-> FALSE]
    /\ rotationRandom' = RandomHistory(random)
    /\ submissions' = submissions + 1
    /\ UNCHANGED <<currentCommittee, lastRotationTime, rotationCount, candidatePool,
                   vrfGenerator, rotationRewardPool, randomUsed, drawnWith>>

\* The proof is checked for the submitted message and key; an output may be
\* verified again after it was used.
VerifyVRFProof ==
    /\ vrf.random # NoRandom
    /\ vrf' = [vrf EXCEPT !.verified = vrf.provable]
    /\ UNCHANGED <<currentCommittee, lastRotationTime, rotationCount, candidatePool,
                   vrfGenerator, rotationRewardPool, rotationRandom, randomUsed,
                   submissions, drawnWith>>

AddCandidate(candidate) ==
    /\ candidate \notin Range(candidatePool)
    /\ candidatePool' = Append(candidatePool, candidate)
    /\ UNCHANGED <<currentCommittee, lastRotationTime, rotationCount, vrf, vrfGenerator,
                   rotationRewardPool, rotationRandom, randomUsed, submissions, drawnWith>>

\* Mutant of Without: the last entry is not popped.
WithoutUnpopped(cs, candidate) ==
    [i \in 1 .. Len(cs) |-> IF cs[i] = candidate THEN cs[Len(cs)] ELSE cs[i]]

\* The last candidate takes the place of the removed one.
Without(cs, candidate) ==
    [i \in 1 .. Len(cs) - 1 |-> IF cs[i] = candidate THEN cs[Len(cs)] ELSE cs[i]]

RemoveCandidate(candidate) ==
    /\ candidate \in Range(candidatePool)
    /\ candidatePool' = Without(candidatePool, candidate)
    /\ UNCHANGED <<currentCommittee, lastRotationTime, rotationCount, vrf, vrfGenerator,
                   rotationRewardPool, rotationRandom, randomUsed, submissions, drawnWith>>

CanRotate == now >= lastRotationTime + ROTATION_INTERVAL

\* Mutant of CloseEpoch: distributes the epoch that begins.
CloseEpochLate(committee) ==
    LET ended == EndEpoch(pool)
    IN  /\ CanEndEpoch(pool, RotationAddr)
        /\ pool' = IF CanDistribute(ended, RotationAddr, ended.currentEpoch)
                   THEN DistributeRewardsToMembers(ended, ended.currentEpoch, committee)
                   ELSE ended

\* endEpoch must succeed; distributing the epoch it ended may fail (no
\* reward, no transaction, already distributed) and is then skipped.
CloseEpoch(committee) ==
    LET ended == EndEpoch(pool)
        previousEpoch == ended.currentEpoch - 1
    IN  /\ CanEndEpoch(pool, RotationAddr)
        /\ pool' = IF CanDistribute(ended, RotationAddr, previousEpoch)
                   THEN DistributeRewardsToMembers(ended, previousEpoch, committee)
                   ELSE ended

\* Mutant of VRFReady: an output may be used again.
VRFPresent == vrf.random # NoRandom

VRFReady == vrf.random # NoRandom /\ ~vrf.used

\* rotateCommittee.  The require on currentVRFVerified is commented out in
\* the contract, so the verdict is not looked at.
RotateCommittee ==
    /\ CanRotate
    /\ rotationCount < MaxRotations
    /\ Len(candidatePool) >= MAX_COMMITTEE_SIZE
    /\ VRFReady
    /\ \/ rotationRewardPool = NoAddress /\ UNCHANGED pool
       \/ rotationRewardPool # NoAddress /\ CloseEpoch(Range(currentCommittee))
    /\ currentCommittee' =
          SelectNewCommittee(candidatePool, [u \in User |-> Reputation(u)], vrf.random)
    /\ lastRotationTime' = now
    /\ vrf' = [vrf EXCEPT !.used = TRUE]
    /\ randomUsed' = [randomUsed EXCEPT ![rotationCount] = TRUE]
    /\ rotationCount' = rotationCount + 1
    /\ drawnWith' = Append(drawnWith, [random |-> vrf.random, submission |-> submissions])
    /\ UNCHANGED <<candidatePool, vrfGenerator, rotationRewardPool, rotationRandom, submissions>>

\* The steps that leave the reward pool alone.
RotationAdminNext ==
    \/ \E s \in User : SetRotationRewardPool(s)
    \/ \E s \in User, a \in User \cup {NoAddress} : SetVRFGenerator(s, a)
    \/ \E s \in User, r \in Random \cup {NoRandom}, ok \in BOOLEAN :
          SubmitVRFRandomWithProof(s, r, ok)
    \/ VerifyVRFProof
    \/ \E c \in User : AddCandidate(c)
    \/ \E c \in User : RemoveCandidate(c)

RotationNext ==
    \/ RotationAdminNext /\ UNCHANGED <<poolVars, chainVars, memberReputations>>
    \/ RotateCommittee /\ UNCHANGED <<claimed, chainVars, memberReputations>>

\* The rest of the chain: time, reputations, and a pool that collects fees,
\* counts transactions and may be closed or distributed by its owner.
RotationEnvironment ==
    /\ \/ Mine /\ UNCHANGED <<poolVars, memberReputations>>
       \/ /\ \E u \in User, p, c \in Score :
                Reputation(u) < MaxReputation /\ UpdateReputation(u, p, c)
          /\ UNCHANGED <<poolVars, chainVars>>
       \/ /\ \/ SetCommitteeRotation(RotationAddr)
             \/ \E v \in 1 .. Funds : ReceiveTx(Owner, v)
             \/ PoolUserNext
          /\ UNCHANGED memberReputations
    /\ UNCHANGED rotationVars

CommitteeRotationVars == <<RewardPoolVars, memberReputations, rotationVars>>

CommitteeRotationInit == RewardPoolInit /\ ReputationInit /\ RotationInit

CommitteeRotationNext == RotationNext \/ RotationEnvironment

CommitteeRotationSpec ==
    CommitteeRotationInit /\ [][CommitteeRotationNext]_CommitteeRotationVars

\* The same chain with an escrow that uses the pool, for what is about the
\* pool's money.
PooledRotationNext ==
    \/ CommitteeRotationNext
    \/ PoolEscrowNext /\ UNCHANGED <<memberReputations, rotationVars>>

PooledRotationSpec ==
    CommitteeRotationInit /\ [][PooledRotationNext]_CommitteeRotationVars

-----------------------------------------------------------------------------
(* Properties.                                                             *)

VRFState ==
    [random : Random \cup {NoRandom}, provable : BOOLEAN, verified : BOOLEAN, used : BOOLEAN]

\* The storage has the declared types.
RotationTypeOK ==
    /\ currentCommittee \in [1 .. MAX_COMMITTEE_SIZE -> User]
    /\ lastRotationTime \in 0 .. MaxTime
    /\ rotationCount \in Round
    /\ candidatePool \in Seq(User)
    /\ vrf \in VRFState
    /\ vrfGenerator \in User \cup {NoAddress}
    /\ rotationRewardPool \in {NoAddress, RewardPoolAddr}
    /\ rotationRandom \in [Round -> Random \cup {NoRandom}]
    /\ randomUsed \in [Round -> BOOLEAN]
    /\ submissions \in 0 .. MaxSubmissions
    /\ drawnWith \in Seq([random : Random, submission : 1 .. MaxSubmissions])

\* Adding and removing never leaves a candidate twice in the pool: it would
\* have two chances in the roulette, and could take two seats.
CandidatesAreDistinct == IsInjective(candidatePool)

\* A committee always has as many different members as seats.
CommitteeMembersAreDistinct == IsInjective(currentCommittee)

\* k rotations take at least k intervals, however transactions are timed.
RotationsAreSpaced == rotationCount * ROTATION_INTERVAL <= lastRotationTime

\* The rotation's storage is sound: typed, no candidate and no member twice, and
\* the rotations spaced by the interval.
RotationInv ==
    /\ RotationTypeOK
    /\ CandidatesAreDistinct
    /\ CommitteeMembersAreDistinct
    /\ RotationsAreSpaced

\* No submission draws two committees: each rotation uses a later submission
\* than the rotation before, and while the current output may still be used no
\* rotation has used its submission.  This is about submissions and not about
\* values: submitVRFRandomWithProof clears currentVRFUsed for any value, so the
\* output of an earlier rotation can be submitted, and drawn with, again.
EachSubmissionDrawsOnce ==
    /\ \A i, j \in DOMAIN drawnWith :
          i < j => drawnWith[i].submission < drawnWith[j].submission
    /\ \A i \in DOMAIN drawnWith :
          /\ drawnWith[i].submission <= submissions
          /\ vrf.random # NoRandom /\ ~vrf.used => drawnWith[i].submission < submissions

\* The mappings kept "for the record" tell the truth: for every past round
\* rotationRandom is the output the committee was drawn with, although a
\* later submission may overwrite the entry of the current round.
HistoryIsTrue ==
    /\ Len(drawnWith) = rotationCount
    /\ \A r \in Round :
          /\ randomUsed[r] <=> r < rotationCount
          /\ r < rotationCount => rotationRandom[r] = drawnWith[r + 1].random

\* A rotation with a pool never loses the epoch it closes: afterwards the
\* epoch is distributed, or there was nothing to share or nobody to share with.
RotationSettlesEpoch ==
    [][(rotationCount' # rotationCount /\ rotationRewardPool # NoAddress) =>
          LET e == pool.currentEpoch
          IN  /\ pool'.currentEpoch = e + 1
              /\ \/ pool'.epochs[e].distributed
                 \/ pool.epochs[e].totalReward = 0
                 \/ pool.epochs[e].totalTransactions = 0]_CommitteeRotationVars
=============================================================================
