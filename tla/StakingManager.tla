--------------------------- MODULE StakingManager ---------------------------
(***************************************************************************)
(* StakingManager.sol: a member locks exactly REQUIRED_STAKE, takes back   *)
(* what is left of it at any time, and can be slashed by the owner or by   *)
(* the rotation contract.  Slashed ether goes to the reward pool, or stays *)
(* in the contract while no pool is set.  stakeTime, which no function     *)
(* but a getter reads, is left out.                                        *)
(***************************************************************************)
EXTENDS RewardPool

CONSTANT REQUIRED_STAKE      \* 1 ether, in the model's unit

ASSUME StakingAssumption ==
    /\ REQUIRED_STAKE \in Nat \ {0}
    /\ IsFiniteSet(User)

VARIABLES
    stakes,                  \* [User -> [amount, isActive]]
    totalStakePool,
    slashedAmounts,          \* [User -> Nat]
    stakingRewardPool,       \* the rewardPool reference, or NoAddress
    stakingRotation,         \* the committeeRotation reference, or NoAddress
    surplus                  \* history: ether that backs no stake (donations,
                             \* slashes made while no pool was set)

stakingVars ==
    <<stakes, totalStakePool, slashedAmounts, stakingRewardPool, stakingRotation, surplus>>

StakeInfo == [amount : 0 .. REQUIRED_STAKE, isActive : BOOLEAN]

StakingInit ==
    /\ stakes = [u \in User |-> [amount |-> 0, isActive |-> FALSE]]
    /\ totalStakePool = 0
    /\ slashedAmounts = [u \in User |-> 0]
    /\ stakingRewardPool = NoAddress
    /\ stakingRotation = NoAddress
    /\ surplus = 0

-----------------------------------------------------------------------------

Stake(u) ==
    /\ balance[u] >= REQUIRED_STAKE
    /\ ~stakes[u].isActive
    /\ stakes' = [stakes EXCEPT ![u] = [amount |-> REQUIRED_STAKE, isActive |-> TRUE]]
    /\ totalStakePool' = totalStakePool + REQUIRED_STAKE
    /\ balance' = Moved(balance, u, StakingAddr, REQUIRED_STAKE)
    /\ UNCHANGED <<slashedAmounts, stakingRewardPool, stakingRotation, surplus, poolVars, now>>

\* Mutant of Unstake: pays a whole stake, also after a slash.
UnstakeInFull(u) ==
    /\ stakes[u].isActive
    /\ balance[StakingAddr] >= REQUIRED_STAKE
    /\ stakes' = [stakes EXCEPT ![u].isActive = FALSE]
    /\ totalStakePool' = totalStakePool - stakes[u].amount
    /\ balance' = Moved(balance, StakingAddr, u, REQUIRED_STAKE)
    /\ UNCHANGED <<slashedAmounts, stakingRewardPool, stakingRotation, surplus, poolVars, now>>

\* The record keeps its amount: only isActive tells that it was paid back.
Unstake(u) ==
    LET amount == stakes[u].amount
    IN  /\ stakes[u].isActive
        /\ balance[StakingAddr] >= amount
        /\ stakes' = [stakes EXCEPT ![u].isActive = FALSE]
        /\ totalStakePool' = totalStakePool - amount
        /\ balance' = Moved(balance, StakingAddr, u, amount)
        /\ UNCHANGED <<slashedAmounts, stakingRewardPool, stakingRotation, surplus,
                       poolVars, now>>

\* setRewardPool and setCommitteeRotation, both for the owner only.
SetStakingRewardPool ==
    /\ stakingRewardPool' = RewardPoolAddr
    /\ UNCHANGED <<stakes, totalStakePool, slashedAmounts, stakingRotation, surplus,
                   poolVars, chainVars>>

SetStakingRotation(a) ==
    /\ stakingRotation' = a
    /\ UNCHANGED <<stakes, totalStakePool, slashedAmounts, stakingRewardPool, surplus,
                   poolVars, chainVars>>

CanSlash(sender, member, penaltyAmount) ==
    /\ sender \in {Owner, stakingRotation}
    /\ stakes[member].isActive
    /\ penaltyAmount > 0
    /\ penaltyAmount <= stakes[member].amount

\* Mutant of AfterSlash: a stake is always deactivated.
AfterSlashInactive(s, penaltyAmount) == [amount |-> s.amount - penaltyAmount, isActive |-> FALSE]

\* A stake slashed to nothing is deactivated.
AfterSlash(s, penaltyAmount) ==
    [amount |-> s.amount - penaltyAmount, isActive |-> s.amount # penaltyAmount]

Slash(sender, member, penaltyAmount) ==
    /\ CanSlash(sender, member, penaltyAmount)
    /\ stakes' = [stakes EXCEPT ![member] = AfterSlash(@, penaltyAmount)]
    /\ totalStakePool' = totalStakePool - penaltyAmount
    /\ slashedAmounts' = [slashedAmounts EXCEPT ![member] = @ + penaltyAmount]
    /\ \/ /\ stakingRewardPool # NoAddress
          /\ balance[StakingAddr] >= penaltyAmount
          /\ CanReceive(penaltyAmount)
          /\ pool' = Receive(pool, penaltyAmount)
          /\ balance' = Moved(balance, StakingAddr, stakingRewardPool, penaltyAmount)
          /\ UNCHANGED surplus
       \/ /\ stakingRewardPool = NoAddress
          /\ surplus' = surplus + penaltyAmount
          /\ UNCHANGED <<pool, balance>>
    /\ UNCHANGED <<stakingRewardPool, stakingRotation, claimed, now>>

\* receive(): plain transfers are accepted.
StakingReceive(sender, v) ==
    /\ balance[sender] >= v
    /\ balance' = Moved(balance, sender, StakingAddr, v)
    /\ surplus' = surplus + v
    /\ UNCHANGED <<stakes, totalStakePool, slashedAmounts, stakingRewardPool,
                   stakingRotation, poolVars, now>>

StakingNext ==
    \/ \E u \in User : Stake(u) \/ Unstake(u)
    \/ SetStakingRewardPool
    \/ \E a \in User \cup {RotationAddr} : SetStakingRotation(a)
    \/ \E s, m \in User, p \in 1 .. REQUIRED_STAKE : Slash(s, m, p)
    \/ \E u \in User, v \in 1 .. Funds : StakingReceive(u, v)

StakingManagerVars == <<RewardPoolVars, stakingVars>>

StakingManagerInit == RewardPoolInit /\ StakingInit

StakingManagerSpec == StakingManagerInit /\ [][StakingNext]_StakingManagerVars

-----------------------------------------------------------------------------
(* Properties.                                                             *)

\* The storage has the declared types, so no subtraction wraps around.
StakingTypeOK ==
    /\ balance \in [Address -> Nat]
    /\ stakes \in [User -> StakeInfo]
    /\ totalStakePool \in Nat
    /\ slashedAmounts \in [User -> Nat]
    /\ stakingRewardPool \in {NoAddress, RewardPoolAddr}
    /\ stakingRotation \in Address \cup {NoAddress}
    /\ surplus \in Nat

\* The ether at stake, counted coin by coin: a coin is an owner and a rank.
StakedCoins ==
    {c \in User \X (1 .. REQUIRED_STAKE) :
        stakes[c[1]].isActive /\ c[2] <= stakes[c[1]].amount}

\* totalStakePool is the sum of the active stakes, through restaking after a
\* slash to zero and through the stale amount an unstaked record keeps.
TotalIsSumOfStakes == totalStakePool = Cardinality(StakedCoins)

\* The contract holds all the ether it owes to stakers: every member can
\* unstake, whatever was slashed before and whoever unstakes first.
StakesBacked == balance[StakingAddr] = totalStakePool + surplus

\* An active stake always has ether left in it: a stake slashed to nothing is
\* inactive (so it can be staked anew), in every order of partial slashes.
ActiveStakeNotEmpty == \A u \in User : stakes[u].isActive => stakes[u].amount > 0
=============================================================================
