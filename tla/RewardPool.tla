----------------------------- MODULE RewardPool -----------------------------
(***************************************************************************)
(* RewardPool.sol: service fees and slashed stakes are collected per       *)
(* epoch, the transactions of each member are counted, and a closed epoch  *)
(* is split among members in proportion to their transactions.             *)
(*                                                                         *)
(* The contract's storage is one record, and every external function is an *)
(* operator on that record, because other contracts call two of them       *)
(* within one transaction (receive then recordTransaction, endEpoch then   *)
(* distributeRewardsToMembers).  CanX is the conjunction of X's requires.  *)
(***************************************************************************)
EXTENDS Accounts, Functions, FiniteSets

CONSTANTS
    MaxEpoch,          \* bound on currentEpoch
    MaxTransactions    \* bound on the transactions recorded in one epoch

ASSUME RewardPoolAssumption ==
    /\ IsFiniteSet(User)
    /\ MaxEpoch \in Nat \ {0}
    /\ MaxTransactions \in Nat

VARIABLES
    pool,              \* the contract's storage
    claimed            \* history: claimed[e][m], ether paid to m for epoch e

poolVars == <<pool, claimed>>

Epoch == 1 .. MaxEpoch

EpochReward ==
    [totalReward : Nat,
     totalTransactions : Nat,
     distributed : BOOLEAN,
     memberTransactions : [User -> Nat],
     memberRewards : [User -> Nat]]

PoolState ==
    [currentEpoch : Epoch,
     epochs : [Epoch -> EpochReward],
     totalPoolBalance : Nat,
     committeeRotation : Address \cup {NoAddress},
     signatureEscrow : Address \cup {NoAddress},
     fixedMixerEscrow : Address \cup {NoAddress}]

NewEpochReward ==
    [totalReward |-> 0,
     totalTransactions |-> 0,
     distributed |-> FALSE,
     memberTransactions |-> [m \in User |-> 0],
     memberRewards |-> [m \in User |-> 0]]

NewPool ==
    [currentEpoch |-> 1,
     epochs |-> [e \in Epoch |-> NewEpochReward],
     totalPoolBalance |-> 0,
     committeeRotation |-> NoAddress,
     signatureEscrow |-> NoAddress,
     fixedMixerEscrow |-> NoAddress]

-----------------------------------------------------------------------------
(* The contract's functions on its storage p.                              *)

\* modifier onlyAuthorized
OnlyAuthorized(p, sender) ==
    sender \in {Owner, p.committeeRotation, p.signatureEscrow, p.fixedMixerEscrow}

\* The sender test of endEpoch and distributeRewardsToMembers.
MayCloseEpoch(p, sender) == sender \in {Owner, p.committeeRotation}

CanReceive(v) == v > 0

Receive(p, v) ==
    [p EXCEPT !.epochs[p.currentEpoch].totalReward = @ + v,
              !.totalPoolBalance = @ + v]

CanRecordTransaction(p, sender, member) ==
    /\ OnlyAuthorized(p, sender)
    /\ member # NoAddress
    /\ p.epochs[p.currentEpoch].totalTransactions < MaxTransactions

RecordTransaction(p, member) ==
    [p EXCEPT !.epochs[p.currentEpoch].memberTransactions[member] = @ + 1,
              !.epochs[p.currentEpoch].totalTransactions = @ + 1]

CanEndEpoch(p, sender) ==
    /\ MayCloseEpoch(p, sender)
    /\ p.currentEpoch < MaxEpoch

EndEpoch(p) ==
    LET next == p.currentEpoch + 1
    IN  [p EXCEPT !.currentEpoch = next,
                  !.epochs[next].totalReward = 0,
                  !.epochs[next].totalTransactions = 0,
                  !.epochs[next].distributed = FALSE]

\* Mutant of CanDistribute: an epoch may be distributed again.
CanRedistribute(p, sender, epoch) ==
    /\ epoch <= p.currentEpoch
    /\ p.epochs[epoch].totalReward > 0
    /\ p.epochs[epoch].totalTransactions > 0
    /\ MayCloseEpoch(p, sender)

CanDistribute(p, sender, epoch) ==
    /\ epoch <= p.currentEpoch
    /\ ~p.epochs[epoch].distributed
    /\ p.epochs[epoch].totalReward > 0
    /\ p.epochs[epoch].totalTransactions > 0
    /\ MayCloseEpoch(p, sender)

\* Mutant of Share: rounds up.
ShareRoundedUp(er, member) ==
    (er.totalReward * er.memberTransactions[member] + er.totalTransactions - 1)
        \div er.totalTransactions

\* The integer division of the contract: the remainder stays in the pool.
Share(er, member) ==
    (er.totalReward * er.memberTransactions[member]) \div er.totalTransactions

\* A reward is assigned, not added, and depends only on totals the loop does
\* not change: the order of members, and repetitions in it, do not matter.
DistributeRewardsToMembers(p, epoch, members) ==
    LET er == p.epochs[epoch]
        Gets(m) == m \in members /\ er.memberTransactions[m] > 0
    IN  [p EXCEPT
           !.epochs[epoch].memberRewards =
               [m \in User |-> IF Gets(m) THEN Share(er, m) ELSE er.memberRewards[m]],
           !.epochs[epoch].distributed = TRUE]

CanClaim(p, epoch, member) ==
    /\ epoch < p.currentEpoch
    /\ p.epochs[epoch].distributed
    /\ p.epochs[epoch].memberRewards[member] > 0

ClaimReward(p, epoch, member) ==
    [p EXCEPT !.epochs[epoch].memberRewards[member] = 0,
              !.totalPoolBalance = @ - p.epochs[epoch].memberRewards[member]]

-----------------------------------------------------------------------------
(* Transactions sent to the contract.                                      *)

PoolInit ==
    /\ pool = NewPool
    /\ claimed = [e \in Epoch |-> [m \in User |-> 0]]

\* setCommitteeRotation, setSignatureEscrow and setFixedMixerEscrow, onlyOwner.
SetCommitteeRotation(a) ==
    /\ pool' = [pool EXCEPT !.committeeRotation = a]
    /\ UNCHANGED <<claimed, chainVars>>

SetSignatureEscrow(a) ==
    /\ pool' = [pool EXCEPT !.signatureEscrow = a]
    /\ UNCHANGED <<claimed, chainVars>>

SetFixedMixerEscrow(a) ==
    /\ pool' = [pool EXCEPT !.fixedMixerEscrow = a]
    /\ UNCHANGED <<claimed, chainVars>>

ReceiveTx(sender, v) ==
    /\ CanReceive(v)
    /\ balance[sender] >= v
    /\ pool' = Receive(pool, v)
    /\ balance' = Moved(balance, sender, RewardPoolAddr, v)
    /\ UNCHANGED <<claimed, now>>

RecordTransactionTx(sender, member) ==
    /\ CanRecordTransaction(pool, sender, member)
    /\ pool' = RecordTransaction(pool, member)
    /\ UNCHANGED <<claimed, chainVars>>

EndEpochTx(sender) ==
    /\ CanEndEpoch(pool, sender)
    /\ pool' = EndEpoch(pool)
    /\ UNCHANGED <<claimed, chainVars>>

DistributeTx(sender, epoch, members) ==
    /\ CanDistribute(pool, sender, epoch)
    /\ pool' = DistributeRewardsToMembers(pool, epoch, members)
    /\ UNCHANGED <<claimed, chainVars>>

ClaimRewardTx(epoch, member) ==
    LET reward == pool.epochs[epoch].memberRewards[member]
    IN  /\ CanClaim(pool, epoch, member)
        /\ balance[RewardPoolAddr] >= reward
        /\ pool' = ClaimReward(pool, epoch, member)
        /\ balance' = Moved(balance, RewardPoolAddr, member, reward)
        /\ claimed' = [claimed EXCEPT ![epoch][member] = @ + reward]
        /\ UNCHANGED now

\* What the owner and the members may do at any time, whoever else uses the pool.
PoolUserNext ==
    \/ \E m \in User : RecordTransactionTx(Owner, m)
    \/ EndEpochTx(Owner)
    \/ \E e \in Epoch, ms \in SUBSET User : DistributeTx(Owner, e, ms)
    \/ \E e \in Epoch, m \in User : ClaimRewardTx(e, m)

\* The signature escrow: the owner appoints it, then it records the payments
\* it releases.  (FixedMixerEscrow does the same for the fixed-amount escrow.)
PoolEscrowNext ==
    \/ SetSignatureEscrow(OtherEscrowAddr)
    \/ \E m \in User : RecordTransactionTx(OtherEscrowAddr, m)

RewardPoolVars == <<chainVars, poolVars>>

RewardPoolInit == AccountsInit /\ PoolInit

-----------------------------------------------------------------------------
(* Properties.                                                             *)

\* The storage has the declared types.  Subtractions are on Nat: staying in
\* the type means that no uint256 subtraction of the contract wraps around.
PoolTypeOK ==
    /\ AccountsTypeOK
    /\ pool \in PoolState
    /\ claimed \in [Epoch -> [User -> Nat]]

\* totalPoolBalance, which claimReward decreases without a check of its own,
\* is exactly the ether the contract holds.
PoolBacked == pool.totalPoolBalance = balance[RewardPoolAddr]

\* What was promised and what was already paid for an epoch never exceed the
\* ether that arrived in it: rounding, an early distribution by the owner and
\* late fees never let one epoch spend another epoch's money.
EpochNotOverspent ==
    \A e \in Epoch :
        SumFunction(pool.epochs[e].memberRewards) + SumFunction(claimed[e])
            <= pool.epochs[e].totalReward

\* Every reward still to be claimed is covered by the pool at once: claimReward
\* can never fail on "Insufficient balance", in whatever order members claim.
AllClaimsPayable ==
    SumFunction([e \in Epoch |-> SumFunction(pool.epochs[e].memberRewards)])
        <= balance[RewardPoolAddr]

\* The books of the pool: storage in its types (no wrap-around), the recorded
\* balance exactly the ether held, no epoch promising or paying more than the
\* ether that arrived in it, and every open claim covered.
PoolInv == PoolTypeOK /\ PoolBacked /\ EpochNotOverspent /\ AllClaimsPayable

\* A member is paid at most once for an epoch: distributing, claiming and
\* distributing again never opens a second payment.
PaidOncePerEpoch ==
    [][\A e \in Epoch, m \in User :
          claimed[e][m] > 0 => claimed'[e][m] = claimed[e][m]]_RewardPoolVars
=============================================================================
