-------------------------- MODULE Contracts_proofs --------------------------
(***************************************************************************)
(* The contracts that hold ether, for any users, epochs and bounds.        *)
(*                                                                         *)
(* RewardPool: its functions are operators on its storage, so what each    *)
(* one keeps is proved once here, and the proofs about the contracts that  *)
(* call them (a rotation ends an epoch and distributes it, an escrow       *)
(* records a transaction) put the facts together.                          *)
(*                                                                         *)
(* StakingManager: the stakes, drawn on the same balances.                 *)
(*                                                                         *)
(* FixedMixerEscrow, for any escrows, accounts, deadlines and              *)
(* denomination: it is solvent, implements EscrowPromise, never rewrites   *)
(* the terms of a deposit, and keeps its Merkle tree and its deposits in   *)
(* step.  First the tree by itself, for any height, ring of roots, hash    *)
(* and leaves: the root that _insert computes from the path of the next    *)
(* leaf alone is the root of the complete tree.                            *)
(***************************************************************************)
EXTENDS FixedMixerEscrow, StakingManager, DataInduction

-----------------------------------------------------------------------------
(* Accounts.                                                               *)

\* A covered transfer between two accounts keeps every balance a natural
\* number, and changes no balance but the sender's and the receiver's.
LEMMA MovedBalance ==
    ASSUME NEW b \in [Address -> Nat], NEW from \in Address, NEW to \in Address,
           from # to, NEW v \in Nat, b[from] >= v
    PROVE  /\ Moved(b, from, to, v) \in [Address -> Nat]
           /\ Moved(b, from, to, v)[from] = b[from] - v
           /\ Moved(b, from, to, v)[to] = b[to] + v
           /\ \A a \in Address \ {from, to} : Moved(b, from, to, v)[a] = b[a]
BY DEF Moved

\* Users and contracts have different addresses, and none is the null address.
LEMMA Addresses ==
    /\ User \subseteq Address
    /\ Contract \subseteq Address
    /\ User \cap Contract = {}
    /\ NoAddress \notin Address
BY AccountsAssumption DEF Address

-----------------------------------------------------------------------------
(* The books.                                                              *)

\* The books of one epoch in the storage p, with c the ether already claimed.
EpochBooks(p, c, e) ==
    LET er == p.epochs[e]
    IN  /\ SumFunction(er.memberTransactions) = er.totalTransactions
        /\ SumFunction(er.memberRewards) + SumFunction(c[e]) <= er.totalReward
        /\ ~er.distributed => \A m \in User : er.memberRewards[m] = 0 /\ c[e][m] = 0
        /\ \A m \in User : c[e][m] > 0 => er.memberRewards[m] = 0
        /\ e > p.currentEpoch => er = NewEpochReward

\* The ether of each epoch that is still in the contract.
Unclaimed(p, c) == [e \in Epoch |-> p.epochs[e].totalReward - SumFunction(c[e])]

\* The storage p is typed, the books of every epoch are right, and the
\* recorded balance is what all epochs together have left.
PoolBooks(p, c) ==
    /\ p \in PoolState
    /\ c \in [Epoch -> [User -> Nat]]
    /\ \A e \in Epoch : EpochBooks(p, c, e)
    /\ SumFunction(Unclaimed(p, c)) = p.totalPoolBalance

\* The inductive invariant.
PoolIInv == AccountsTypeOK /\ PoolBooks(pool, claimed) /\ PoolBacked

-----------------------------------------------------------------------------
(* What the functions of the contract keep.                                *)

\* Epochs are a finite range of positive numbers.
LEMMA EpochFacts ==
    /\ Epoch \subseteq Nat
    /\ IsFiniteSet(Epoch)
    /\ 1 \in Epoch
    /\ \A e \in Epoch : e < MaxEpoch => e + 1 \in Epoch
<1>1. IsFiniteSet(1 .. MaxEpoch)
  BY RewardPoolAssumption, FS_Interval
<1> QED
  BY <1>1, RewardPoolAssumption DEF Epoch

\* The sums over an epoch's members are natural numbers.
LEMMA EpochSums ==
    ASSUME NEW p, NEW c, PoolBooks(p, c), NEW e \in Epoch
    PROVE  /\ p.epochs[e] \in EpochReward
           /\ c[e] \in [User -> Nat]
           /\ SumFunction(p.epochs[e].memberRewards) \in Nat
           /\ SumFunction(p.epochs[e].memberTransactions) \in Nat
           /\ SumFunction(c[e]) \in Nat
           /\ Unclaimed(p, c) \in [Epoch -> Int]
<1>1. \A d \in Epoch : p.epochs[d] \in EpochReward /\ c[d] \in [User -> Nat]
  BY DEF PoolBooks, PoolState
<1>2. /\ p.epochs[e].memberRewards \in [User -> Nat]
      /\ p.epochs[e].memberTransactions \in [User -> Nat]
  BY <1>1 DEF EpochReward
<1>3. \A d \in Epoch : SumFunction(c[d]) \in Nat /\ p.epochs[d].totalReward \in Nat
  BY <1>1, RewardPoolAssumption, SumNat DEF EpochReward
<1> QED
  BY <1>1, <1>2, <1>3, RewardPoolAssumption, SumNat DEF Unclaimed

\* A freshly deployed pool has nothing to account for.
LEMMA NewPoolBooks ==
    PoolBooks(NewPool, [e \in Epoch |-> [m \in User |-> 0]])
<1> DEFINE none == [m \in User |-> 0]
           c == [e \in Epoch |-> none]
<1>1. none \in [User -> Nat] /\ SumFunction(none) = 0
  <2>1. none \in [User -> Int] /\ \A m \in User : none[m] = 0
    OBVIOUS
  <2> HIDE DEF none
  <2> QED
    BY <2>1, RewardPoolAssumption, SumZero
<1> HIDE DEF none
<1>2. \A m \in User : none[m] = 0
  BY DEF none
<1>3. NewEpochReward =
         [totalReward |-> 0, totalTransactions |-> 0, distributed |-> FALSE,
          memberTransactions |-> none, memberRewards |-> none]
  BY DEF NewEpochReward, none
<1>4. NewPool \in PoolState
  BY <1>1, <1>3, EpochFacts DEF NewPool, PoolState, EpochReward
<1>5. \A e \in Epoch : NewPool.epochs[e] = NewEpochReward /\ c[e] = none
  BY DEF NewPool
<1>6. ASSUME NEW e \in Epoch PROVE EpochBooks(NewPool, c, e)
  <2> DEFINE er == NewPool.epochs[e]
             ce == c[e]
  <2>0. er = NewEpochReward /\ ce = none
    BY <1>5
  <2> HIDE DEF er, ce
  <2>1. /\ er.memberTransactions = none /\ er.memberRewards = none
        /\ er.totalReward = 0 /\ er.totalTransactions = 0
    BY <1>3, <2>0
  <2>2. /\ SumFunction(er.memberTransactions) = er.totalTransactions
        /\ SumFunction(er.memberRewards) + SumFunction(ce) <= er.totalReward
        /\ \A m \in User : er.memberRewards[m] = 0 /\ ce[m] = 0
    BY <1>1, <1>2, <2>0, <2>1
  <2> QED
    BY <2>0, <2>1, <2>2 DEF EpochBooks, er, ce
<1>7. SumFunction(Unclaimed(NewPool, c)) = NewPool.totalPoolBalance
  <2>1. Unclaimed(NewPool, c) \in [Epoch -> Int]
    BY <1>1, <1>3, <1>5 DEF Unclaimed
  <2>2. \A e \in Epoch : Unclaimed(NewPool, c)[e] = 0
    BY <1>1, <1>3, <1>5 DEF Unclaimed
  <2>3. SumFunction(Unclaimed(NewPool, c)) = 0
    BY <2>1, <2>2, EpochFacts, SumZero
  <2> QED
    BY <2>3 DEF NewPool
<1> QED
  BY <1>1, <1>4, <1>6, <1>7 DEF PoolBooks, none

\* A function that writes one epoch n, whose ether changes by delta, keeps the
\* books if it keeps those of epoch n and the balance changes by delta.
LEMMA OneEpochBooks ==
    ASSUME NEW p, NEW c, PoolBooks(p, c), NEW q \in PoolState,
           NEW d \in [Epoch -> [User -> Nat]], NEW n \in Epoch, NEW delta \in Int,
           \A e \in Epoch \ {n} : q.epochs[e] = p.epochs[e] /\ d[e] = c[e],
           q.currentEpoch >= p.currentEpoch,
           EpochBooks(q, d, n),
           q.epochs[n].totalReward - SumFunction(d[n])
               = p.epochs[n].totalReward - SumFunction(c[n]) + delta,
           q.totalPoolBalance = p.totalPoolBalance + delta
    PROVE  PoolBooks(q, d)
<1>1. ASSUME NEW e \in Epoch PROVE EpochBooks(q, d, e)
  <2>1. CASE e = n
    BY <2>1
  <2>2. CASE e # n
    <3>1. EpochBooks(p, c, e)
      BY DEF PoolBooks
    <3>2. q.epochs[e] = p.epochs[e] /\ d[e] = c[e]
      BY <2>2
    <3>3. p.currentEpoch \in Nat /\ q.currentEpoch \in Nat /\ e \in Nat
      BY EpochFacts DEF PoolBooks, PoolState
    <3>4. e > q.currentEpoch => e > p.currentEpoch
      BY <3>3
    <3> QED
      BY <3>1, <3>2, <3>4 DEF EpochBooks
  <2> QED
    BY <2>1, <2>2
<1>2. SumFunction(Unclaimed(q, d)) = q.totalPoolBalance
  <2> DEFINE f == Unclaimed(p, c)
             h == Unclaimed(q, d)
  <2>1. f \in [Epoch -> Int]
    BY EpochSums
  <2>2. h \in [Epoch -> Int]
    <3>1. \A e \in Epoch : q.epochs[e].totalReward \in Nat
      BY DEF PoolState, EpochReward
    <3>2. \A e \in Epoch : SumFunction(d[e]) \in Nat
      BY RewardPoolAssumption, SumNat
    <3> QED
      BY <3>1, <3>2 DEF Unclaimed
  <2>3. \A e \in Epoch \ {n} : h[e] = f[e]
    BY DEF Unclaimed
  <2>4. h[n] = f[n] + delta
    BY DEF Unclaimed
  <2>5. SumFunction(f) = p.totalPoolBalance
    BY DEF PoolBooks
  <2>6. IsFiniteSet(Epoch)
    BY EpochFacts
  <2> HIDE DEF f, h
  <2>7. SumFunction(h) = SumFunction(f) - f[n] + h[n] /\ SumFunction(f) \in Int
    BY <2>1, <2>2, <2>3, <2>6, SumUpdate, SMTT(30)
  <2>8. f[n] \in Int
    BY <2>1
  <2>9. SumFunction(h) = SumFunction(f) + delta
    BY <2>4, <2>7, <2>8
  <2> QED
    BY <2>5, <2>9 DEF h
<1> QED
  BY <1>1, <1>2 DEF PoolBooks

\* receive(): the current epoch and the recorded balance grow by the value.
LEMMA ReceiveBooks ==
    ASSUME NEW p, NEW c, PoolBooks(p, c), NEW v \in Nat
    PROVE  /\ PoolBooks(Receive(p, v), c)
           /\ Receive(p, v).totalPoolBalance = p.totalPoolBalance + v
<1> DEFINE n == p.currentEpoch
           old == p.epochs[n]
           er == [old EXCEPT !.totalReward = old.totalReward + v]
           es == [p.epochs EXCEPT ![n] = er]
           q == Receive(p, v)
<1>1. /\ p \in PoolState /\ n \in Epoch /\ c \in [Epoch -> [User -> Nat]]
      /\ p.epochs \in [Epoch -> EpochReward] /\ p.totalPoolBalance \in Nat
      /\ EpochBooks(p, c, n)
  BY DEF PoolBooks, PoolState
<1>2. old \in EpochReward
  BY <1>1
<1>3. /\ er \in EpochReward
      /\ er.totalReward = old.totalReward + v
      /\ er.totalTransactions = old.totalTransactions
      /\ er.distributed = old.distributed
      /\ er.memberTransactions = old.memberTransactions
      /\ er.memberRewards = old.memberRewards
      /\ old.totalReward \in Nat
  BY <1>2 DEF EpochReward
<1>4. q = [p EXCEPT !.currentEpoch = n, !.epochs = es,
                    !.totalPoolBalance = p.totalPoolBalance + v]
  BY <1>1 DEF Receive, PoolState
<1>5. /\ es \in [Epoch -> EpochReward]
      /\ es[n] = er
      /\ \A e \in Epoch \ {n} : es[e] = p.epochs[e]
  BY <1>1, <1>3
<1> HIDE DEF q, es, er, old, n
<1>6. /\ q \in PoolState /\ q.currentEpoch = n /\ q.epochs = es
      /\ q.totalPoolBalance = p.totalPoolBalance + v
  <2>1. p.totalPoolBalance + v \in Nat
    BY <1>1
  <2> QED
    BY <1>1, <1>4, <1>5, <2>1 DEF PoolState
<1>7. /\ SumFunction(old.memberRewards) \in Nat /\ SumFunction(c[n]) \in Nat
      /\ n \in Nat
  BY <1>1, EpochSums, EpochFacts DEF old
<1>8. EpochBooks(q, c, n)
  BY <1>1, <1>3, <1>5, <1>6, <1>7 DEF EpochBooks, old
<1>9. PoolBooks(q, c)
  BY <1>1, <1>3, <1>5, <1>6, <1>7, <1>8, OneEpochBooks DEF n, old
<1> QED
  BY <1>6, <1>9 DEF q

\* recordTransaction(): the member's count and the total grow together.
LEMMA RecordTransactionBooks ==
    ASSUME NEW p, NEW c, PoolBooks(p, c), NEW m \in User
    PROVE  /\ PoolBooks(RecordTransaction(p, m), c)
           /\ RecordTransaction(p, m).totalPoolBalance = p.totalPoolBalance
<1> DEFINE n == p.currentEpoch
           old == p.epochs[n]
           txs == [old.memberTransactions EXCEPT ![m] = old.memberTransactions[m] + 1]
           er == [old EXCEPT !.memberTransactions = txs,
                             !.totalTransactions = old.totalTransactions + 1]
           es == [p.epochs EXCEPT ![n] = er]
           q == RecordTransaction(p, m)
<1>1. /\ p \in PoolState /\ n \in Epoch /\ c \in [Epoch -> [User -> Nat]]
      /\ p.epochs \in [Epoch -> EpochReward] /\ p.totalPoolBalance \in Nat
      /\ EpochBooks(p, c, n)
  BY DEF PoolBooks, PoolState
<1>2. old \in EpochReward
  BY <1>1
<1>3. /\ txs \in [User -> Nat]
      /\ txs[m] = old.memberTransactions[m] + 1
      /\ \A u \in User \ {m} : txs[u] = old.memberTransactions[u]
      /\ old.memberTransactions \in [User -> Nat]
      /\ old.totalTransactions \in Nat
  BY <1>2 DEF EpochReward
<1>4. q = [p EXCEPT !.currentEpoch = n, !.epochs = es, !.totalPoolBalance = p.totalPoolBalance]
  <2>1. q = [p EXCEPT !.epochs = es]
    BY <1>1, <1>2 DEF RecordTransaction, PoolState, EpochReward
  <2> HIDE DEF q, es
  <2> QED
    BY <1>1, <2>1 DEF PoolState
<1> HIDE DEF txs
<1>5. /\ er \in EpochReward
      /\ er.totalReward = old.totalReward
      /\ er.totalTransactions = old.totalTransactions + 1
      /\ er.distributed = old.distributed
      /\ er.memberTransactions = txs
      /\ er.memberRewards = old.memberRewards
  <2> DEFINE total == old.totalTransactions + 1
  <2>1. total \in Nat /\ txs \in [User -> Nat]
    BY <1>3
  <2> HIDE DEF old, total
  <2>2. er = [old EXCEPT !.memberTransactions = txs, !.totalTransactions = total]
    BY DEF total
  <2> HIDE DEF er
  <2>3. /\ er \in EpochReward
        /\ er.totalReward = old.totalReward
        /\ er.totalTransactions = total
        /\ er.distributed = old.distributed
        /\ er.memberTransactions = txs
        /\ er.memberRewards = old.memberRewards
    BY <1>2, <2>1, <2>2 DEF EpochReward
  <2> QED
    BY <2>3 DEF total
<1>6. /\ es \in [Epoch -> EpochReward]
      /\ es[n] = er
      /\ \A e \in Epoch \ {n} : es[e] = p.epochs[e]
  BY <1>1, <1>5
<1> HIDE DEF q, es, er, old, n
<1>7. /\ q \in PoolState /\ q.currentEpoch = n /\ q.epochs = es
      /\ q.totalPoolBalance = p.totalPoolBalance
  BY <1>1, <1>4, <1>6 DEF PoolState
<1>8. SumFunction(txs) = SumFunction(old.memberTransactions) + 1
  <2>1. old.memberTransactions \in [User -> Int] /\ txs \in [User -> Int]
    BY <1>3
  <2>2. /\ SumFunction(txs) = SumFunction(old.memberTransactions)
                                 - old.memberTransactions[m] + txs[m]
        /\ SumFunction(old.memberTransactions) \in Int
    BY <2>1, <1>3, RewardPoolAssumption, SumUpdate
  <2>3. old.memberTransactions[m] \in Int
    BY <2>1
  <2> QED
    BY <1>3, <2>2, <2>3
<1>9. EpochBooks(q, c, n)
  <2>1. n \in Nat
    BY <1>1, EpochFacts
  <2> QED
    BY <1>1, <1>3, <1>5, <1>6, <1>7, <1>8, <2>1 DEF EpochBooks, old, n
<1>10. PoolBooks(q, c)
  <2>1. /\ old.totalReward \in Nat /\ SumFunction(c[n]) \in Nat /\ n \in Nat
    BY <1>1, <1>2, EpochSums, EpochFacts DEF EpochReward
  <2> QED
    BY <1>1, <1>5, <1>6, <1>7, <1>9, <2>1, OneEpochBooks DEF n, old
<1> QED
  BY <1>7, <1>10 DEF q

\* endEpoch(): the next epoch starts as it was created, because nothing is
\* written to an epoch before it is the current one.
LEMMA EndEpochBooks ==
    ASSUME NEW p, NEW c, PoolBooks(p, c), p.currentEpoch < MaxEpoch
    PROVE  /\ PoolBooks(EndEpoch(p), c)
           /\ EndEpoch(p).currentEpoch = p.currentEpoch + 1
           /\ EndEpoch(p).currentEpoch \in Epoch
           /\ EndEpoch(p).epochs = p.epochs
           /\ EndEpoch(p).totalPoolBalance = p.totalPoolBalance
           /\ EndEpoch(p).committeeRotation = p.committeeRotation
<1> DEFINE n == p.currentEpoch + 1
           old == p.epochs[n]
           q == EndEpoch(p)
<1>1. /\ p \in PoolState /\ p.currentEpoch \in Epoch /\ n \in Epoch
      /\ p.epochs \in [Epoch -> EpochReward] /\ p.totalPoolBalance \in Nat
      /\ c \in [Epoch -> [User -> Nat]]
      /\ EpochBooks(p, c, n)
  BY EpochFacts DEF PoolBooks, PoolState
<1>2. p.currentEpoch \in Nat /\ n > p.currentEpoch
  <2>1. p.currentEpoch \in Nat
    BY <1>1, EpochFacts
  <2> QED
    BY <2>1
<1>3. old = NewEpochReward
  BY <1>1, <1>2 DEF EpochBooks
<1>4. q = [p EXCEPT !.currentEpoch = n, !.epochs = p.epochs,
                    !.totalPoolBalance = p.totalPoolBalance]
  <2>1. [old EXCEPT !.totalReward = 0, !.totalTransactions = 0, !.distributed = FALSE] = old
    <3>1. old.totalReward = 0 /\ old.totalTransactions = 0 /\ old.distributed = FALSE
      BY <1>3 DEF NewEpochReward
    <3>2. old \in EpochReward
      BY <1>1
    <3> HIDE DEF old
    <3> QED
      BY <3>1, <3>2 DEF EpochReward
  <2>2. q = [p EXCEPT !.currentEpoch = n,
                      !.epochs = [p.epochs EXCEPT ![n] =
                          [old EXCEPT !.totalReward = 0, !.totalTransactions = 0,
                                      !.distributed = FALSE]]]
    BY ZenonT(30), <1>1 DEF EndEpoch, PoolState, EpochReward
  <2>3. [p.epochs EXCEPT ![n] = old] = p.epochs
    BY <1>1
  <2>4. q = [p EXCEPT !.currentEpoch = n, !.epochs = p.epochs]
    BY <2>1, <2>2, <2>3
  <2> HIDE DEF q, n
  <2> QED
    BY <1>1, <2>4 DEF PoolState
<1>5. q.committeeRotation = p.committeeRotation
  <2> HIDE DEF q, n
  <2> QED
    BY <1>1, <1>4 DEF PoolState
<1> HIDE DEF q, n, old
<1>6. /\ q \in PoolState /\ q.currentEpoch = n /\ q.epochs = p.epochs
      /\ q.totalPoolBalance = p.totalPoolBalance
  BY <1>1, <1>4 DEF PoolState
<1>7. EpochBooks(q, c, n)
  BY <1>1, <1>3, <1>6 DEF EpochBooks, old
<1>8. PoolBooks(q, c)
  <2>1. /\ p.epochs[n].totalReward \in Nat /\ SumFunction(c[n]) \in Nat
    BY <1>1, EpochSums DEF EpochReward
  <2>2. n \in Nat /\ n >= p.currentEpoch
    BY <1>2 DEF n
  <2>3. \A e \in Epoch \ {n} : q.epochs[e] = p.epochs[e] /\ c[e] = c[e]
    BY <1>6
  <2>4. q.currentEpoch >= p.currentEpoch
    BY <1>6, <2>2
  <2> DEFINE paid == SumFunction(c[n])
             reward == p.epochs[n].totalReward
  <2>5. q.epochs[n].totalReward - paid = reward - paid + 0
    <3>1. paid \in Nat /\ reward \in Nat /\ q.epochs[n].totalReward = reward
      BY <1>6, <2>1
    <3> HIDE DEF paid, reward
    <3> QED
      BY <3>1
  <2>6. q.totalPoolBalance = p.totalPoolBalance + 0 /\ 0 \in Int
    BY <1>1, <1>6
  <2>7. q \in PoolState /\ n \in Epoch /\ c \in [Epoch -> [User -> Nat]]
    BY <1>1, <1>6
  <2> QED
    BY <1>7, <2>3, <2>4, <2>5, <2>6, <2>7, OneEpochBooks, SMTT(30)
<1> QED
  BY <1>1, <1>5, <1>6, <1>8 DEF q, n

\* The integer division rounds down: N shares cost at most their part of T.
LEMMA ShareRoundsDown ==
    ASSUME NEW er \in EpochReward, er.totalTransactions > 0, NEW m \in User
    PROVE  /\ Share(er, m) \in Nat
           /\ er.totalTransactions * Share(er, m) <= er.totalReward * er.memberTransactions[m]
<1>1. /\ er.totalTransactions \in Nat /\ er.totalReward \in Nat
      /\ er.memberTransactions[m] \in Nat
  BY DEF EpochReward
<1> DEFINE x == er.totalReward * er.memberTransactions[m]
           n == er.totalTransactions
<1>2. \A a, b \in Nat : a * b \in Nat
  OBVIOUS
<1>3. x \in Nat
  BY <1>1, <1>2
<1>4. n \in Nat /\ n > 0
  BY <1>1
<1>5. Share(er, m) = x \div n
  BY DEF Share
<1> HIDE DEF x, n
<1>6. x \div n \in Nat /\ n * (x \div n) <= x
  BY <1>3, <1>4
<1> QED
  BY <1>5, <1>6 DEF x, n

\* distributeRewardsToMembers(): an epoch is distributed once, when nothing was
\* promised or paid for it, and the shares together are at most its reward,
\* whoever is on the list of members.
LEMMA DistributeBooks ==
    ASSUME NEW p, NEW c, PoolBooks(p, c), NEW n \in Epoch, NEW members, NEW sender,
           CanDistribute(p, sender, n)
    PROVE  LET q == DistributeRewardsToMembers(p, n, members)
           IN  /\ PoolBooks(q, c)
               /\ q.totalPoolBalance = p.totalPoolBalance
               /\ q.currentEpoch = p.currentEpoch
               /\ q.epochs[n].distributed
<1> DEFINE old == p.epochs[n]
           Gets(m) == m \in members /\ old.memberTransactions[m] > 0
           rewards == [m \in User |-> IF Gets(m) THEN Share(old, m) ELSE old.memberRewards[m]]
           er == [old EXCEPT !.memberRewards = rewards, !.distributed = TRUE]
           es == [p.epochs EXCEPT ![n] = er]
           q == DistributeRewardsToMembers(p, n, members)
<1>1. /\ p \in PoolState /\ c \in [Epoch -> [User -> Nat]]
      /\ p.epochs \in [Epoch -> EpochReward] /\ p.totalPoolBalance \in Nat
      /\ p.currentEpoch \in Epoch
      /\ EpochBooks(p, c, n)
  BY DEF PoolBooks, PoolState
<1>2. /\ old \in EpochReward
      /\ ~old.distributed /\ old.totalTransactions > 0
      /\ n <= p.currentEpoch
      /\ old.totalTransactions \in Nat /\ old.totalReward \in Nat
      /\ old.memberTransactions \in [User -> Nat]
  BY <1>1 DEF CanDistribute, EpochReward
<1>3. \A m \in User : old.memberRewards[m] = 0 /\ c[n][m] = 0
  BY <1>1, <1>2 DEF EpochBooks
<1>4. q = [p EXCEPT !.currentEpoch = p.currentEpoch, !.epochs = es,
                    !.totalPoolBalance = p.totalPoolBalance]
  <2>1. q = [p EXCEPT !.epochs = es]
    BY <1>1, <1>2 DEF DistributeRewardsToMembers, PoolState, EpochReward
  <2> HIDE DEF q, es
  <2> QED
    BY <1>1, <2>1 DEF PoolState
<1>5. /\ rewards \in [User -> Nat]
      /\ \A m \in User : old.totalTransactions * rewards[m]
                            <= old.totalReward * old.memberTransactions[m]
  <2> SUFFICES ASSUME NEW m \in User
               PROVE  /\ rewards[m] \in Nat
                      /\ old.totalTransactions * rewards[m]
                            <= old.totalReward * old.memberTransactions[m]
    OBVIOUS
  <2>1. /\ Share(old, m) \in Nat
        /\ old.totalTransactions * Share(old, m) <= old.totalReward * old.memberTransactions[m]
    BY <1>2, ShareRoundsDown
  <2>2. CASE Gets(m)
    BY <2>1, <2>2
  <2>3. CASE ~Gets(m)
    <3>1. rewards[m] = 0
      BY <1>3, <2>3
    <3>2. \A a, b \in Nat : a * b \in Nat /\ a * 0 = 0
      OBVIOUS
    <3>3. old.totalReward * old.memberTransactions[m] \in Nat /\ old.totalTransactions * 0 = 0
      BY <1>2, <3>2
    <3> HIDE DEF rewards, old
    <3> QED
      BY <3>1, <3>3
  <2> QED
    BY <2>2, <2>3
<1> HIDE DEF rewards, old
<1>6. /\ er \in EpochReward
      /\ er.totalReward = old.totalReward
      /\ er.totalTransactions = old.totalTransactions
      /\ er.distributed = TRUE
      /\ er.memberTransactions = old.memberTransactions
      /\ er.memberRewards = rewards
  BY <1>2, <1>5 DEF EpochReward
<1> HIDE DEF er
<1>7. /\ es \in [Epoch -> EpochReward]
      /\ es[n] = er
      /\ \A e \in Epoch \ {n} : es[e] = p.epochs[e]
  BY <1>1, <1>6
<1> HIDE DEF q, es
<1>8. /\ q \in PoolState /\ q.currentEpoch = p.currentEpoch /\ q.epochs = es
      /\ q.totalPoolBalance = p.totalPoolBalance
  BY <1>1, <1>4, <1>7 DEF PoolState
<1>9. /\ SumFunction(rewards) \in Nat
      /\ SumFunction(rewards) <= old.totalReward
  <2>1. rewards \in [User -> Int] /\ old.memberTransactions \in [User -> Int]
    BY <1>2, <1>5
  <2>2. old.totalTransactions * SumFunction(rewards)
           <= old.totalReward * SumFunction(old.memberTransactions)
    BY <2>1, <1>2, <1>5, RewardPoolAssumption, SumScaledBound
  <2>3. SumFunction(old.memberTransactions) = old.totalTransactions
    BY <1>1 DEF EpochBooks, old
  <2>4. SumFunction(rewards) \in Nat
    BY <1>5, RewardPoolAssumption, SumNat
  <2>5. \A t, a, b \in Nat : t > 0 /\ t * a <= b * t => a <= b
    OBVIOUS
  <2> QED
    BY <1>2, <2>2, <2>3, <2>4, <2>5
<1>10. SumFunction(c[n]) = 0
  <2>1. c[n] \in [User -> Int]
    BY <1>1
  <2> QED
    BY <2>1, <1>3, RewardPoolAssumption, SumZero
<1>11. EpochBooks(q, c, n)
  <2>1. n \in Nat /\ p.currentEpoch \in Nat
    BY <1>1, EpochFacts
  <2>2. ~(n > p.currentEpoch)
    BY <1>2, <2>1
  <2>3. SumFunction(old.memberTransactions) = old.totalTransactions
    BY <1>1 DEF EpochBooks, old
  <2> QED
    BY <1>3, <1>6, <1>7, <1>8, <1>9, <1>10, <2>2, <2>3 DEF EpochBooks
<1>12. PoolBooks(q, c)
  <2>1. p.currentEpoch \in Nat
    BY <1>1, EpochFacts
  <2> QED
    <3>1. q.currentEpoch >= p.currentEpoch
      BY <1>8, <2>1
    <3>2. /\ q.epochs[n].totalReward - SumFunction(c[n])
                = p.epochs[n].totalReward - SumFunction(c[n]) + 0
          /\ q.totalPoolBalance = p.totalPoolBalance + 0
      BY <1>1, <1>2, <1>6, <1>7, <1>8, <1>10 DEF old
    <3>3. \A e \in Epoch \ {n} : q.epochs[e] = p.epochs[e] /\ c[e] = c[e]
      BY <1>7, <1>8
    <3> QED
      BY <1>1, <1>8, <1>11, <3>1, <3>2, <3>3, OneEpochBooks
<1> QED
  BY <1>6, <1>7, <1>8, <1>12 DEF q

\* The claims c after member m was paid r for epoch n.
Paid(c, n, m, r) == [c EXCEPT ![n][m] = c[n][m] + r]

\* claimReward(): what was promised to the member becomes what it was paid.
LEMMA ClaimRewardBooks ==
    ASSUME NEW p, NEW c, PoolBooks(p, c), NEW n \in Epoch, NEW m \in User,
           CanClaim(p, n, m), NEW d,
           d = Paid(c, n, m, p.epochs[n].memberRewards[m])
    PROVE  /\ PoolBooks(ClaimReward(p, n, m), d)
           /\ ClaimReward(p, n, m).totalPoolBalance
                 = p.totalPoolBalance - p.epochs[n].memberRewards[m]
           /\ p.epochs[n].memberRewards[m] \in Nat
           /\ p.epochs[n].memberRewards[m] <= p.totalPoolBalance
<1> DEFINE old == p.epochs[n]
           r == old.memberRewards[m]
           rewards == [old.memberRewards EXCEPT ![m] = 0]
           paid == [c[n] EXCEPT ![m] = c[n][m] + r]
           er == [old EXCEPT !.memberRewards = rewards]
           es == [p.epochs EXCEPT ![n] = er]
           q == ClaimReward(p, n, m)
<1>1. /\ p \in PoolState /\ c \in [Epoch -> [User -> Nat]]
      /\ p.epochs \in [Epoch -> EpochReward] /\ p.totalPoolBalance \in Nat
      /\ p.currentEpoch \in Epoch
      /\ \A e \in Epoch : EpochBooks(p, c, e)
  BY DEF PoolBooks, PoolState
<1>2. /\ old \in EpochReward
      /\ old.distributed /\ r > 0
      /\ n < p.currentEpoch
  BY <1>1 DEF CanClaim
<1>3. /\ old.memberRewards \in [User -> Nat] /\ c[n] \in [User -> Nat]
      /\ old.totalReward \in Nat
      /\ r \in Nat /\ c[n][m] \in Nat
  BY <1>1, <1>2 DEF EpochReward
<1>4. q = [p EXCEPT !.currentEpoch = p.currentEpoch, !.epochs = es,
                    !.totalPoolBalance = p.totalPoolBalance - r]
  <2>1. q = [p EXCEPT !.epochs = es, !.totalPoolBalance = p.totalPoolBalance - r]
    BY <1>1, <1>2 DEF ClaimReward, PoolState, EpochReward
  <2> HIDE DEF q, es
  <2> QED
    BY <1>1, <2>1 DEF PoolState
<1>5. d = [c EXCEPT ![n] = paid]
  BY DEF Paid
<1> HIDE DEF r
<1>6. /\ rewards \in [User -> Nat] /\ rewards[m] = 0
      /\ \A u \in User \ {m} : rewards[u] = old.memberRewards[u]
      /\ paid \in [User -> Nat] /\ paid[m] = c[n][m] + r
      /\ \A u \in User \ {m} : paid[u] = c[n][u]
  BY <1>3
<1> HIDE DEF rewards, old, paid
<1>7. /\ er \in EpochReward
      /\ er.totalReward = old.totalReward
      /\ er.totalTransactions = old.totalTransactions
      /\ er.distributed = old.distributed
      /\ er.memberTransactions = old.memberTransactions
      /\ er.memberRewards = rewards
  BY <1>2, <1>6 DEF EpochReward
<1> HIDE DEF er
<1>8. /\ es \in [Epoch -> EpochReward] /\ es[n] = er
      /\ \A e \in Epoch \ {n} : es[e] = p.epochs[e]
      /\ d \in [Epoch -> [User -> Nat]] /\ d[n] = paid
      /\ \A e \in Epoch \ {n} : d[e] = c[e]
  BY <1>1, <1>5, <1>6, <1>7
<1> HIDE DEF q, es
<1>9. /\ SumFunction(rewards) = SumFunction(old.memberRewards) - r
      /\ SumFunction(paid) = SumFunction(c[n]) + r
      /\ SumFunction(old.memberRewards) \in Nat /\ SumFunction(c[n]) \in Nat
      /\ r <= SumFunction(old.memberRewards)
  <2>1. /\ old.memberRewards \in [User -> Int] /\ rewards \in [User -> Int]
        /\ c[n] \in [User -> Int] /\ paid \in [User -> Int]
    BY <1>3, <1>6
  <2>2. SumFunction(rewards) = SumFunction(old.memberRewards) - old.memberRewards[m] + rewards[m]
    BY <2>1, <1>6, RewardPoolAssumption, SumUpdate
  <2>3. SumFunction(paid) = SumFunction(c[n]) - c[n][m] + paid[m]
    BY <2>1, <1>6, RewardPoolAssumption, SumUpdate
  <2>4. /\ SumFunction(old.memberRewards) \in Nat
        /\ old.memberRewards[m] <= SumFunction(old.memberRewards)
    BY <1>3, RewardPoolAssumption, SumNat
  <2>5. SumFunction(c[n]) \in Nat
    BY <1>3, RewardPoolAssumption, SumNat
  <2>6. old.memberRewards[m] = r
    BY DEF r, old
  <2> QED
    BY <1>3, <1>6, <2>2, <2>3, <2>4, <2>5, <2>6
<1>10. r <= p.totalPoolBalance
  <2> DEFINE f == Unclaimed(p, c)
  <2>1. f \in [Epoch -> Nat] /\ f[n] = old.totalReward - SumFunction(c[n])
    <3>1. \A e \in Epoch : p.epochs[e].totalReward - SumFunction(c[e]) \in Nat
      <4> TAKE e \in Epoch
      <4>1. EpochBooks(p, c, e)
        BY <1>1
      <4>2. /\ SumFunction(p.epochs[e].memberRewards) \in Nat /\ SumFunction(c[e]) \in Nat
            /\ p.epochs[e].totalReward \in Nat
        BY EpochSums DEF EpochReward
      <4>3. SumFunction(p.epochs[e].memberRewards) + SumFunction(c[e])
               <= p.epochs[e].totalReward
        BY <4>1 DEF EpochBooks
      <4> QED
        BY <4>2, <4>3
    <3> QED
      BY <3>1 DEF Unclaimed, old
  <2>2. SumFunction(f) = p.totalPoolBalance
    BY DEF PoolBooks
  <2> HIDE DEF f
  <2>3. f[n] <= SumFunction(f)
    BY <2>1, EpochFacts, SumNat
  <2>4. SumFunction(old.memberRewards) + SumFunction(c[n]) <= old.totalReward
    BY <1>1 DEF EpochBooks, old
  <2> QED
    BY <1>1, <1>3, <1>9, <2>1, <2>2, <2>3, <2>4
<1>11. /\ q \in PoolState /\ q.currentEpoch = p.currentEpoch /\ q.epochs = es
       /\ q.totalPoolBalance = p.totalPoolBalance - r
  <2>1. p.totalPoolBalance - r \in Nat
    BY <1>1, <1>3, <1>10
  <2> QED
    BY <1>1, <1>4, <1>8, <2>1 DEF PoolState
<1>12. EpochBooks(q, d, n)
  <2>1. n \in Nat /\ p.currentEpoch \in Nat
    BY <1>1, EpochFacts
  <2>2. ~(n > p.currentEpoch)
    BY <1>2, <2>1
  <2>3. /\ SumFunction(old.memberTransactions) = old.totalTransactions
        /\ SumFunction(old.memberRewards) + SumFunction(c[n]) <= old.totalReward
        /\ \A u \in User : c[n][u] > 0 => old.memberRewards[u] = 0
    BY <1>1 DEF EpochBooks, old
  <2>4. \A u \in User : paid[u] > 0 => rewards[u] = 0
    BY <1>6, <2>3
  <2>5. SumFunction(rewards) + SumFunction(paid) <= old.totalReward
    BY <1>3, <1>9, <2>3
  <2> QED
    BY <1>2, <1>7, <1>8, <1>11, <2>2, <2>3, <2>4, <2>5 DEF EpochBooks
<1>13. PoolBooks(q, d)
  <2> DEFINE delta == 0 - r
  <2>0. r \in Nat
    BY <1>3
  <2>1. delta \in Int
    BY <2>0
  <2>2. q.currentEpoch >= p.currentEpoch
    <3>1. p.currentEpoch \in Nat
      BY <1>1, EpochFacts
    <3> QED
      BY <1>11, <3>1
  <2>3. p.epochs[n] = old /\ q.epochs[n] = er /\ d[n] = paid
    BY <1>8, <1>11 DEF old
  <2>4. /\ q.epochs[n].totalReward - SumFunction(d[n])
              = p.epochs[n].totalReward - SumFunction(c[n]) + delta
        /\ q.totalPoolBalance = p.totalPoolBalance + delta
    <3>1. q.epochs[n].totalReward = old.totalReward /\ p.epochs[n].totalReward = old.totalReward
      BY <1>7, <2>3
    <3>2. /\ SumFunction(d[n]) = SumFunction(c[n]) + r /\ SumFunction(c[n]) \in Nat
          /\ old.totalReward \in Nat
      BY <1>3, <1>9, <2>3
    <3>3. p.totalPoolBalance \in Nat /\ q.totalPoolBalance = p.totalPoolBalance - r
      BY <1>1, <1>11
    <3> QED
      BY <2>0, <3>1, <3>2, <3>3
  <2>5. \A e \in Epoch \ {n} : q.epochs[e] = p.epochs[e] /\ d[e] = c[e]
    BY <1>8, <1>11
  <2>6. d \in [Epoch -> [User -> Nat]] /\ q \in PoolState
    BY <1>8, <1>11
  <2> HIDE DEF delta
  <2> QED
    BY <1>12, <2>1, <2>2, <2>4, <2>5, <2>6, OneEpochBooks
<1> QED
  BY <1>3, <1>10, <1>11, <1>13 DEF q, r, old

\* setCommitteeRotation and setSignatureEscrow leave the books alone.
LEMMA ReferenceBooks ==
    ASSUME NEW p, NEW c, PoolBooks(p, c), NEW a \in Address
    PROVE  LET r == [p EXCEPT !.committeeRotation = a]
               s == [p EXCEPT !.signatureEscrow = a]
           IN  /\ PoolBooks(r, c) /\ r.totalPoolBalance = p.totalPoolBalance
               /\ PoolBooks(s, c) /\ s.totalPoolBalance = p.totalPoolBalance
<1> DEFINE r == [p EXCEPT !.committeeRotation = a]
           s == [p EXCEPT !.signatureEscrow = a]
<1>1. p \in PoolState
  BY DEF PoolBooks
<1>2. /\ r \in PoolState /\ r.epochs = p.epochs /\ r.currentEpoch = p.currentEpoch
      /\ r.totalPoolBalance = p.totalPoolBalance
  BY <1>1 DEF PoolState
<1>3. /\ s \in PoolState /\ s.epochs = p.epochs /\ s.currentEpoch = p.currentEpoch
      /\ s.totalPoolBalance = p.totalPoolBalance
  BY <1>1 DEF PoolState
<1> HIDE DEF r, s
<1>4. PoolBooks(r, c)
  <2>1. \A e \in Epoch : EpochBooks(r, c, e)
    BY <1>2 DEF PoolBooks, EpochBooks
  <2>2. Unclaimed(r, c) = Unclaimed(p, c)
    BY <1>2 DEF Unclaimed
  <2> QED
    BY <1>2, <2>1, <2>2 DEF PoolBooks
<1>5. PoolBooks(s, c)
  <2>1. \A e \in Epoch : EpochBooks(s, c, e)
    BY <1>3 DEF PoolBooks, EpochBooks
  <2>2. Unclaimed(s, c) = Unclaimed(p, c)
    BY <1>3 DEF Unclaimed
  <2> QED
    BY <1>3, <2>1, <2>2 DEF PoolBooks
<1> QED
  BY <1>2, <1>3, <1>4, <1>5 DEF r, s

-----------------------------------------------------------------------------
(* The transactions.                                                       *)

\* The pool's own account is nobody's wallet.
LEMMA PoolAccount ==
    /\ RewardPoolAddr \in Address /\ RewardPoolAddr \notin User
    /\ User \subseteq Address /\ Owner \in User
    /\ RotationAddr \in Address /\ OtherEscrowAddr \in Address
BY AccountsAssumption DEF Address, Contract

\* A call that writes the pool's storage and moves no ether.
LEMMA StorageOnly ==
    ASSUME PoolIInv, PoolBooks(pool', claimed), UNCHANGED <<claimed, chainVars>>,
           pool'.totalPoolBalance = pool.totalPoolBalance
    PROVE  PoolIInv'
BY DEF PoolIInv, PoolBacked, AccountsTypeOK, chainVars

\* Every transaction that an account sends to the pool keeps the invariant.
LEMMA PoolUserInv ==
    ASSUME PoolIInv, PoolUserNext
    PROVE  PoolIInv'
<1>0. PoolBooks(pool, claimed)
  BY DEF PoolIInv
<1>1. CASE \E m \in User : RecordTransactionTx(Owner, m)
  <2>1. PICK m \in User : RecordTransactionTx(Owner, m)
    BY <1>1
  <2> QED
    BY <1>0, <2>1, RecordTransactionBooks, StorageOnly DEF RecordTransactionTx
<1>2. CASE EndEpochTx(Owner)
  BY <1>0, <1>2, EndEpochBooks, StorageOnly DEF EndEpochTx, CanEndEpoch
<1>3. CASE \E e \in Epoch, ms \in SUBSET User : DistributeTx(Owner, e, ms)
  <2>1. PICK e \in Epoch, ms \in SUBSET User : DistributeTx(Owner, e, ms)
    BY <1>3
  <2>2. PoolBooks(pool', claimed) /\ pool'.totalPoolBalance = pool.totalPoolBalance
    BY <1>0, <2>1, DistributeBooks DEF DistributeTx
  <2> QED
    BY <2>1, <2>2, StorageOnly DEF DistributeTx
<1>4. CASE \E e \in Epoch, m \in User : ClaimRewardTx(e, m)
  <2>1. PICK e \in Epoch, m \in User : ClaimRewardTx(e, m)
    BY <1>4
  <2> DEFINE reward == pool.epochs[e].memberRewards[m]
  <2>2. /\ CanClaim(pool, e, m)
        /\ balance[RewardPoolAddr] >= reward
        /\ pool' = ClaimReward(pool, e, m)
        /\ balance' = Moved(balance, RewardPoolAddr, m, reward)
        /\ claimed' = Paid(claimed, e, m, reward)
        /\ now' = now
    BY <2>1 DEF ClaimRewardTx, Paid
  <2>3. /\ PoolBooks(pool', claimed')
        /\ pool'.totalPoolBalance = pool.totalPoolBalance - reward
        /\ reward \in Nat
    BY <1>0, <2>2, ClaimRewardBooks
  <2> HIDE DEF reward
  <2>4. balance \in [Address -> Nat] /\ now \in 0 .. MaxTime /\ PoolBacked
    BY DEF PoolIInv, AccountsTypeOK
  <2>5. /\ balance' \in [Address -> Nat]
        /\ balance'[RewardPoolAddr] = balance[RewardPoolAddr] - reward
    <3>1. RewardPoolAddr \in Address /\ m \in Address /\ m # RewardPoolAddr
      BY PoolAccount
    <3> QED
      BY <2>2, <2>3, <2>4, <3>1, MovedBalance
  <2> QED
    BY <2>2, <2>3, <2>4, <2>5 DEF PoolIInv, PoolBacked, AccountsTypeOK
<1> QED
  BY <1>1, <1>2, <1>3, <1>4 DEF PoolUserNext

\* The invariant implies the properties that the run checks: the rewards still
\* to be claimed are at most what the epochs have left, which is the balance.
LEMMA PoolIInvImplies == PoolIInv => PoolInv
<1> SUFFICES ASSUME PoolIInv PROVE PoolInv
  OBVIOUS
<1>1. PoolBooks(pool, claimed) /\ AccountsTypeOK /\ PoolBacked
  BY DEF PoolIInv
<1>2. PoolTypeOK
  BY <1>1 DEF PoolTypeOK, PoolBooks
<1>3. EpochNotOverspent
  BY <1>1 DEF EpochNotOverspent, PoolBooks, EpochBooks
<1>4. AllClaimsPayable
  <2> DEFINE f == [e \in Epoch |-> SumFunction(pool.epochs[e].memberRewards)]
             h == Unclaimed(pool, claimed)
  <2>1. ASSUME NEW e \in Epoch
        PROVE  /\ f[e] \in Int /\ h[e] \in Int
               /\ f[e] <= h[e]
    <3>1. /\ SumFunction(pool.epochs[e].memberRewards) \in Nat
          /\ SumFunction(claimed[e]) \in Nat
          /\ pool.epochs[e].totalReward \in Nat
      BY <1>1, EpochSums DEF EpochReward
    <3>2. SumFunction(pool.epochs[e].memberRewards) + SumFunction(claimed[e])
             <= pool.epochs[e].totalReward
      BY <1>3 DEF EpochNotOverspent
    <3> QED
      BY <3>1, <3>2 DEF Unclaimed
  <2>2. f \in [Epoch -> Int] /\ h \in [Epoch -> Int]
    BY <2>1 DEF Unclaimed
  <2>3. SumFunction(h) = balance[RewardPoolAddr]
    BY <1>1 DEF PoolBooks, PoolBacked
  <2> HIDE DEF f, h
  <2>4. SumFunction(f) <= SumFunction(h)
    BY <2>1, <2>2, EpochFacts, SumMonotonic
  <2> QED
    BY <2>3, <2>4 DEF AllClaimsPayable, f
<1> QED
  BY <1>1, <1>2, <1>3, <1>4 DEF PoolInv

-----------------------------------------------------------------------------
(* StakingManager: the stakes are accounted for and backed by ether.       *)

\* The coins of user u with ranks above lo and up to hi.
Coins(u, lo, hi) == {u} \X (lo + 1 .. hi)

\* Coins counts: the number of coins between two ranks is their difference.
LEMMA CoinsCount ==
    ASSUME NEW u, NEW lo \in Nat, NEW hi \in Nat, lo <= hi
    PROVE  /\ IsFiniteSet(Coins(u, lo, hi))
           /\ Cardinality(Coins(u, lo, hi)) = hi - lo
<1>1. /\ IsFiniteSet(lo + 1 .. hi)
      /\ Cardinality(lo + 1 .. hi) = hi - lo
  <2> DEFINE a == lo + 1
  <2>1. a \in Int /\ hi \in Int
    OBVIOUS
  <2> HIDE DEF a
  <2>2. /\ IsFiniteSet(a .. hi)
        /\ Cardinality(a .. hi) = IF a > hi THEN 0 ELSE hi - a + 1
    BY <2>1, FS_Interval
  <2> QED
    BY <2>2 DEF a
<1>2. IsFiniteSet({u}) /\ Cardinality({u}) = 1
  BY FS_Singleton
<1>3. /\ IsFiniteSet({u} \X (lo + 1 .. hi))
      /\ Cardinality({u} \X (lo + 1 .. hi)) = 1 * (hi - lo)
  BY ZenonT(30), <1>1, <1>2, FS_Product
<1> QED
  BY <1>3 DEF Coins

\* The coins of a user up to a rank within the stake are coins of the model.
LEMMA CoinsWithinStake ==
    ASSUME NEW u \in User, NEW lo \in Nat, NEW hi \in 0 .. REQUIRED_STAKE
    PROVE  Coins(u, lo, hi) \subseteq User \X (1 .. REQUIRED_STAKE)
<1>1. {u} \subseteq User
  OBVIOUS
<1>2. lo + 1 .. hi \subseteq 1 .. REQUIRED_STAKE
  BY StakingAssumption
<1> QED
  BY <1>1, <1>2, Zenon DEF Coins

\* Sizes add up when a finite set is put together from two disjoint parts.
LEMMA DisjointParts ==
    ASSUME NEW S, IsFiniteSet(S), NEW T, IsFiniteSet(T), S \cap T = {}
    PROVE  Cardinality(S \cup T) = Cardinality(S) + Cardinality(T)
<1>1. Cardinality(S \cap T) = 0
  BY FS_EmptySet
<1>2. Cardinality(S \cup T) = Cardinality(S) + Cardinality(T) - Cardinality(S \cap T)
  BY FS_Union
<1>3. Cardinality(S) \in Nat /\ Cardinality(T) \in Nat
  BY FS_CardinalityType
<1> QED
  BY <1>1, <1>2, <1>3

\* Whatever the stakes are, finitely many coins are staked.
LEMMA StakedCoinsFinite == IsFiniteSet(StakedCoins)
<1>1. IsFiniteSet(1 .. REQUIRED_STAKE)
  BY StakingAssumption, FS_Interval
<1>2. IsFiniteSet(User \X (1 .. REQUIRED_STAKE))
  BY <1>1, StakingAssumption, FS_Product
<1>3. StakedCoins \in SUBSET (User \X (1 .. REQUIRED_STAKE))
  BY DEF StakedCoins
<1> QED
  BY <1>2, <1>3, FS_Subset

\* The inductive invariant: the total is the number of coins at stake, and the
\* contract's ether is the total plus the surplus.
StakingInv == StakingTypeOK /\ TotalIsSumOfStakes /\ StakesBacked /\ ActiveStakeNotEmpty
-----------------------------------------------------------------------------

\* The contract's own account is one of the accounts, and nobody's wallet.
LEMMA StakingAccount ==
    /\ User \subseteq Address
    /\ StakingAddr \in Address /\ StakingAddr \notin User
    /\ RewardPoolAddr \in Address /\ RewardPoolAddr # StakingAddr
    /\ RotationAddr \in Address
    /\ NoAddress # RewardPoolAddr
BY AccountsAssumption DEF Address, Contract

\* After deployment no coin is at stake.
LEMMA StakingInitInv == StakingManagerInit => StakingInv
<1> SUFFICES ASSUME StakingManagerInit PROVE StakingInv
  OBVIOUS
<1> USE DEF StakingManagerInit, RewardPoolInit, AccountsInit, StakingInit
<1>1. StakingTypeOK
  BY AccountsAssumption, StakingAssumption DEF StakingTypeOK, StakeInfo
<1>2. TotalIsSumOfStakes
  <2>1. StakedCoins = {}
    BY DEF StakedCoins
  <2> QED
    BY <2>1, FS_EmptySet DEF TotalIsSumOfStakes
<1>3. StakesBacked
  BY StakingAccount DEF StakesBacked
<1> QED
  BY <1>1, <1>2, <1>3 DEF StakingInv, ActiveStakeNotEmpty

\* stake(): the new coins are all those of the sender, who had none at stake.
LEMMA StakeInv ==
    ASSUME StakingInv, NEW u \in User, Stake(u)
    PROVE  StakingInv'
<1> USE DEF StakingInv, Stake, Moved
<1>1. StakingTypeOK'
  BY StakingAccount, StakingAssumption DEF StakingTypeOK, StakeInfo
<1>2. TotalIsSumOfStakes'
  <2> DEFINE new == Coins(u, 0, REQUIRED_STAKE)
  <2>1. StakedCoins' = StakedCoins \cup new
    BY StakingAssumption DEF StakedCoins, Coins, StakingTypeOK, StakeInfo
  <2>2. StakedCoins \cap new = {}
    BY DEF StakedCoins, Coins
  <2>3. IsFiniteSet(new) /\ Cardinality(new) = REQUIRED_STAKE - 0
    BY CoinsCount, StakingAssumption
  <2> HIDE DEF new
  <2>4. Cardinality(StakedCoins') = Cardinality(StakedCoins) + Cardinality(new)
    BY <2>1, <2>2, <2>3, StakedCoinsFinite, DisjointParts
  <2> QED
    BY <2>3, <2>4, StakingAssumption DEF TotalIsSumOfStakes, StakingTypeOK
<1>3. StakesBacked'
  BY StakingAccount, StakingAssumption DEF StakesBacked, StakingTypeOK
<1>4. ActiveStakeNotEmpty'
  BY StakingAssumption DEF ActiveStakeNotEmpty, StakingTypeOK
<1> QED
  BY <1>1, <1>2, <1>3, <1>4

\* unstake(): the coins that leave are the sender's, up to the amount recorded.
LEMMA UnstakeInv ==
    ASSUME StakingInv, NEW u \in User, Unstake(u)
    PROVE  StakingInv'
<1> USE DEF StakingInv, Unstake, Moved
<1> DEFINE amount == stakes[u].amount
           gone == Coins(u, 0, amount)
<1>1. amount \in 0 .. REQUIRED_STAKE /\ amount \in Nat
  BY StakingAssumption DEF StakingTypeOK, StakeInfo
<1>0. /\ stakes[u].isActive
      /\ \A v \in User : /\ stakes'[v].amount = stakes[v].amount
                         /\ stakes'[v].isActive <=> v # u /\ stakes[v].isActive
  BY DEF StakingTypeOK, StakeInfo
<1>2. TotalIsSumOfStakes' /\ totalStakePool' \in Nat
  <2>1. StakedCoins = StakedCoins' \cup gone
    <3>a. gone \subseteq User \X (1 .. REQUIRED_STAKE)
      BY <1>1, CoinsWithinStake
    <3>b. /\ StakedCoins \subseteq User \X (1 .. REQUIRED_STAKE)
          /\ StakedCoins' \subseteq User \X (1 .. REQUIRED_STAKE)
      BY DEF StakedCoins
    <3> SUFFICES ASSUME NEW c \in User \X (1 .. REQUIRED_STAKE)
                 PROVE  c \in StakedCoins <=> c \in StakedCoins' \/ c \in gone
      BY <3>a, <3>b, Zenon
    <3>1. c \in gone <=> c[1] = u /\ c[2] <= amount
      BY <1>1 DEF Coins
    <3>2. c \in StakedCoins <=> stakes[c[1]].isActive /\ c[2] <= stakes[c[1]].amount
      BY DEF StakedCoins
    <3>3. c \in StakedCoins' <=> stakes'[c[1]].isActive /\ c[2] <= stakes'[c[1]].amount
      BY DEF StakedCoins
    <3>4. c[1] \in User
      OBVIOUS
    <3> HIDE DEF gone, Unstake
    <3> QED
      BY <1>0, <3>1, <3>2, <3>3, <3>4
  <2>2. StakedCoins' \cap gone = {}
    BY <1>0 DEF StakedCoins, Coins
  <2>3. IsFiniteSet(gone) /\ Cardinality(gone) = amount - 0
    BY <1>1, CoinsCount
  <2>4. IsFiniteSet(StakedCoins')
    <3>1. StakedCoins' \in SUBSET StakedCoins
      BY <2>1
    <3> QED
      BY <3>1, StakedCoinsFinite, FS_Subset
  <2> HIDE DEF gone
  <2>5. Cardinality(StakedCoins) = Cardinality(StakedCoins') + Cardinality(gone)
    BY <2>1, <2>2, <2>3, <2>4, DisjointParts
  <2>6. Cardinality(StakedCoins') \in Nat
    BY <2>4, FS_CardinalityType
  <2> QED
    BY <1>1, <2>3, <2>5, <2>6 DEF TotalIsSumOfStakes, StakingTypeOK
<1>3. StakingTypeOK'
  <2>1. balance' \in [Address -> Nat]
    BY <1>1, StakingAccount, MovedBalance DEF StakingTypeOK
  <2>2. stakes' \in [User -> StakeInfo]
    BY DEF StakingTypeOK, StakeInfo
  <2> QED
    BY <1>2, <2>1, <2>2 DEF StakingTypeOK
<1>4. StakesBacked'
  BY <1>1, StakingAccount DEF StakesBacked, StakingTypeOK
<1>5. ActiveStakeNotEmpty'
  BY <1>0 DEF ActiveStakeNotEmpty
<1> QED
  BY <1>2, <1>3, <1>4, <1>5

\* slash(): the penalty is taken from the member's coins of highest rank.
LEMMA SlashInv ==
    ASSUME StakingInv, NEW s \in User, NEW m \in User,
           NEW p \in 1 .. REQUIRED_STAKE, Slash(s, m, p)
    PROVE  StakingInv'
<1> USE DEF StakingInv, CanSlash, AfterSlash
<1> DEFINE amount == stakes[m].amount
           rest == amount - p
           gone == Coins(m, rest, amount)
<1>1. /\ amount \in 0 .. REQUIRED_STAKE /\ amount \in Nat
      /\ rest \in 0 .. REQUIRED_STAKE /\ rest \in Nat /\ rest <= amount
      /\ p \in Nat /\ amount - rest = p
  BY StakingAssumption DEF StakingTypeOK, StakeInfo, Slash
<1>0. stakes[m].isActive /\ p <= amount /\ totalStakePool' = totalStakePool - p
  BY DEF Slash
<1>2. /\ stakes' \in [User -> StakeInfo]
      /\ stakes'[m].amount = rest
      /\ stakes'[m].isActive <=> rest # 0
      /\ \A u \in User \ {m} : stakes'[u] = stakes[u]
  <2> DEFINE new == [amount |-> rest, isActive |-> amount # p]
  <2>1. stakes' = [stakes EXCEPT ![m] = new]
    BY DEF Slash
  <2>2. new \in StakeInfo
    BY <1>1 DEF StakeInfo
  <2>3. new.amount = rest /\ (new.isActive <=> rest # 0)
    <3>1. new.amount = rest /\ (new.isActive <=> amount # p)
      BY Zenon
    <3>2. amount # p <=> rest # 0
      BY <1>1
    <3> QED
      BY <3>1, <3>2
  <2> HIDE DEF new
  <2> QED
    BY <2>1, <2>2, <2>3 DEF StakingTypeOK
<1>3. TotalIsSumOfStakes' /\ totalStakePool' \in Nat
  <2>1. StakedCoins = StakedCoins' \cup gone
    <3>a. gone \subseteq User \X (1 .. REQUIRED_STAKE)
      BY <1>1, CoinsWithinStake
    <3>b. /\ StakedCoins \subseteq User \X (1 .. REQUIRED_STAKE)
          /\ StakedCoins' \subseteq User \X (1 .. REQUIRED_STAKE)
      BY DEF StakedCoins
    <3> SUFFICES ASSUME NEW c \in User \X (1 .. REQUIRED_STAKE)
                 PROVE  c \in StakedCoins <=> c \in StakedCoins' \/ c \in gone
      BY <3>a, <3>b, Zenon
    <3>1. c \in gone <=> c[1] = m /\ c[2] > rest /\ c[2] <= amount
      BY <1>1 DEF Coins
    <3>2. c \in StakedCoins <=> stakes[c[1]].isActive /\ c[2] <= stakes[c[1]].amount
      BY DEF StakedCoins
    <3>3. c \in StakedCoins' <=> stakes'[c[1]].isActive /\ c[2] <= stakes'[c[1]].amount
      BY DEF StakedCoins
    <3>4. c[1] \in User /\ c[2] \in 1 .. REQUIRED_STAKE
      OBVIOUS
    <3> HIDE DEF gone
    <3>5. CASE c[1] = m
      BY <1>0, <1>1, <1>2, <3>1, <3>2, <3>3, <3>4, <3>5
    <3>6. CASE c[1] # m
      BY <1>2, <3>1, <3>2, <3>3, <3>4, <3>6
    <3> QED
      BY <3>5, <3>6
  <2>2. StakedCoins' \cap gone = {}
    BY <1>1, <1>2 DEF StakedCoins, Coins
  <2>3. IsFiniteSet(gone) /\ Cardinality(gone) = amount - rest
    BY <1>1, CoinsCount
  <2>4. IsFiniteSet(StakedCoins')
    <3>1. StakedCoins' \in SUBSET StakedCoins
      BY <2>1
    <3> QED
      BY <3>1, StakedCoinsFinite, FS_Subset
  <2> HIDE DEF gone
  <2>5. Cardinality(StakedCoins) = Cardinality(StakedCoins') + Cardinality(gone)
    BY <2>1, <2>2, <2>3, <2>4, DisjointParts
  <2>6. Cardinality(StakedCoins') \in Nat
    BY <2>4, FS_CardinalityType
  <2> QED
    BY <1>0, <1>1, <2>3, <2>5, <2>6 DEF TotalIsSumOfStakes, StakingTypeOK
<1>4. /\ balance' \in [Address -> Nat]
      /\ surplus' \in Nat
      /\ balance'[StakingAddr] + p + surplus = balance[StakingAddr] + surplus'
  <2>1. CASE stakingRewardPool = RewardPoolAddr
    <3>1. /\ balance[StakingAddr] >= p
          /\ balance' = Moved(balance, StakingAddr, RewardPoolAddr, p)
          /\ surplus' = surplus
      BY <2>1, StakingAccount DEF Slash
    <3> QED
      BY <1>1, <3>1, StakingAccount, MovedBalance DEF StakingTypeOK
  <2>2. CASE stakingRewardPool = NoAddress
    <3>1. balance' = balance /\ surplus' = surplus + p
      BY <2>2 DEF Slash
    <3> QED
      BY <1>1, <3>1, StakingAccount DEF StakingTypeOK
  <2> QED
    BY <2>1, <2>2 DEF StakingTypeOK
<1>5. StakingTypeOK'
  <2>1. /\ slashedAmounts' = [slashedAmounts EXCEPT ![m] = @ + p]
        /\ stakingRewardPool' = stakingRewardPool /\ stakingRotation' = stakingRotation
    BY DEF Slash
  <2> QED
    BY <1>1, <1>2, <1>3, <1>4, <2>1 DEF StakingTypeOK
<1>6. StakesBacked'
  BY <1>0, <1>1, <1>4, StakingAccount DEF StakesBacked, StakingTypeOK
<1>7. ActiveStakeNotEmpty'
  BY <1>1, <1>2 DEF ActiveStakeNotEmpty
<1> QED
  BY <1>3, <1>5, <1>6, <1>7

\* Plain transfers and the owner's settings touch no stake.
LEMMA OtherStakingInv ==
    ASSUME StakingInv,
           \/ SetStakingRewardPool
           \/ \E a \in User \cup {RotationAddr} : SetStakingRotation(a)
           \/ \E u \in User, v \in 1 .. Funds : StakingReceive(u, v)
           \/ UNCHANGED StakingManagerVars
    PROVE  StakingInv'
<1> USE DEF StakingInv, SetStakingRewardPool, SetStakingRotation, StakingReceive, Moved,
           StakingManagerVars, RewardPoolVars, stakingVars, chainVars
<1>1. StakingTypeOK'
  BY StakingAccount, AccountsAssumption DEF StakingTypeOK
<1>2. stakes' = stakes /\ totalStakePool' = totalStakePool
  OBVIOUS
<1>3. TotalIsSumOfStakes'
  BY <1>2 DEF TotalIsSumOfStakes, StakedCoins
<1>4. StakesBacked'
  BY StakingAccount, AccountsAssumption DEF StakesBacked, StakingTypeOK
<1>5. ActiveStakeNotEmpty'
  BY <1>2 DEF ActiveStakeNotEmpty
<1> QED
  BY <1>1, <1>3, <1>4, <1>5

\* Main result: in every reachable state of StakingManager, for any users and
\* any stake, totalStakePool is the sum of the active stakes, the contract
\* holds the ether to return them all, and no subtraction has wrapped around.
THEOREM StakingInvariant == StakingManagerSpec => []StakingInv
<1>1. StakingInv /\ [StakingNext]_StakingManagerVars => StakingInv'
  <2> SUFFICES ASSUME StakingInv, [StakingNext]_StakingManagerVars PROVE StakingInv'
    OBVIOUS
  <2>1. ASSUME NEW u \in User, Stake(u) PROVE StakingInv'
    BY <2>1, StakeInv
  <2>2. ASSUME NEW u \in User, Unstake(u) PROVE StakingInv'
    BY <2>2, UnstakeInv
  <2>3. ASSUME NEW s \in User, NEW m \in User, NEW p \in 1 .. REQUIRED_STAKE, Slash(s, m, p)
        PROVE  StakingInv'
    BY <2>3, SlashInv
  <2>4. CASE \/ SetStakingRewardPool
             \/ \E a \in User \cup {RotationAddr} : SetStakingRotation(a)
             \/ \E u \in User, v \in 1 .. Funds : StakingReceive(u, v)
             \/ UNCHANGED StakingManagerVars
    BY <2>4, OtherStakingInv
  <2> QED
    BY <2>1, <2>2, <2>3, <2>4 DEF StakingNext
<1> QED
  BY <1>1, StakingInitInv, PTL DEF StakingManagerSpec

\* totalStakePool is the sum of the active stakes, whatever was staked, slashed
\* and unstaked, in any order.
THEOREM TotalIsSumOfStakesAlways == StakingManagerSpec => []TotalIsSumOfStakes
BY StakingInvariant, PTL DEF StakingInv

\* The contract always holds all the ether it owes to its stakers.
THEOREM StakesBackedAlways == StakingManagerSpec => []StakesBacked
BY StakingInvariant, PTL DEF StakingInv

-----------------------------------------------------------------------------
(* The Merkle tree and FixedMixerEscrow.                                   *)

-----------------------------------------------------------------------------
(* Positions on the path of a leaf.                                        *)

\* The position, at height h, of the node above leaf n.
Above(n, h) == n \div 2 ^ h

\* How many nodes the tree has at height h.
Width(h) == 2 ^ (Levels - h)

\* The path: at each height the position is halved.
LEMMA AboveFacts ==
    ASSUME NEW n \in Nat
    PROVE  /\ Above(n, 0) = n
           /\ \A h \in Nat : Above(n, h) \in Nat /\ Above(n, h + 1) = Above(n, h) \div 2
<1>1. Above(n, 0) = n
  BY PowerOfTwo DEF Above
<1>2. ASSUME NEW h \in Nat
      PROVE  Above(n, h) \in Nat /\ Above(n, h + 1) = Above(n, h) \div 2
  <2> DEFINE d == 2 ^ h
  <2>1. d \in Nat \ {0}
    <3> DEFINE S == {k \in Nat : 2 ^ k # 0}
    <3>1. 0 \in S
      BY PowerOfTwo
    <3>2. \A k \in Nat : k \in S => k + 1 \in S
      <4> TAKE k \in Nat
      <4>1. 2 ^ k \in Nat /\ 2 ^ (k + 1) = 2 * 2 ^ k
        BY PowerOfTwo
      <4> QED
        BY <4>1
    <3>3. S = Nat
      <4>1. S \in SUBSET Nat
        OBVIOUS
      <4> HIDE DEF S
      <4> QED
        BY <3>1, <3>2, <4>1, SetInduction
    <3>4. 2 ^ h \in Nat /\ 2 ^ h # 0
      BY <3>3, PowerOfTwo
    <3> QED
      BY <3>4
  <2>2. 2 ^ (h + 1) = 2 * d
    BY PowerOfTwo
  <2> HIDE DEF d
  <2>3. n \div d \in Nat /\ (n \div d) \div 2 = n \div (2 * d)
    BY <2>1, Division, DivideTwice
  <2> QED
    BY <2>2, <2>3 DEF Above, d
<1> QED
  BY <1>1, <1>2

\* The widths of the levels: each has half as many nodes as the one below.
LEMMA WidthFacts ==
    /\ Levels \in Nat /\ Levels >= 1
    /\ Width(0) = 2 ^ Levels /\ Width(Levels) = 1
    /\ \A h \in 0 .. Levels : Width(h) \in Nat
    /\ \A h \in 0 .. Levels - 1 : Width(h) = 2 * Width(h + 1)
<1>1. Levels \in Nat /\ Levels >= 1
  BY MerkleAssumption
<1>2. Levels - 0 = Levels /\ Levels - Levels = 0
  BY <1>1
<1>3. Width(0) = 2 ^ Levels /\ Width(Levels) = 1
  BY <1>2, PowerOfTwo DEF Width
<1>4. ASSUME NEW h \in 0 .. Levels PROVE Width(h) \in Nat
  <2>1. Levels - h \in Nat
    BY <1>1
  <2> QED
    BY <2>1, PowerOfTwo DEF Width
<1>5. ASSUME NEW h \in 0 .. Levels - 1 PROVE Width(h) = 2 * Width(h + 1)
  <2> DEFINE m == Levels - (h + 1)
  <2>1. m \in Nat /\ Levels - h = m + 1
    BY <1>1
  <2> HIDE DEF m
  <2>2. 2 ^ (m + 1) = 2 * 2 ^ m
    BY <2>1, PowerOfTwo
  <2> QED
    BY <2>1, <2>2 DEF Width, m
<1> QED
  BY <1>1, <1>3, <1>4, <1>5

\* The path of a leaf of the tree stays inside it and ends at the root.
LEMMA AboveInside ==
    ASSUME NEW n \in Nat, n < 2 ^ Levels
    PROVE  /\ \A h \in 0 .. Levels : Above(n, h) \in 0 .. Width(h) - 1
           /\ Above(n, Levels) = 0
<1> DEFINE S == {h \in Nat : h <= Levels => Above(n, h) < Width(h)}
<1>1. 0 \in S
  BY AboveFacts, WidthFacts
<1>2. ASSUME NEW h \in Nat, h \in S PROVE h + 1 \in S
  <2>1. SUFFICES ASSUME h + 1 <= Levels PROVE Above(n, h + 1) < Width(h + 1)
    OBVIOUS
  <2>2. h \in 0 .. Levels - 1 /\ h + 1 \in 0 .. Levels /\ h \in 0 .. Levels
    BY <2>1, WidthFacts
  <2>3. Above(n, h) \in Nat /\ Above(n, h + 1) = Above(n, h) \div 2 /\ Above(n, h) < Width(h)
    BY <1>2, <2>2, AboveFacts
  <2>4. Width(h) = 2 * Width(h + 1) /\ Width(h + 1) \in Nat
    BY <2>2, WidthFacts
  <2> QED
    BY <2>3, <2>4
<1>3. S = Nat
  <2>1. S \in SUBSET Nat
    OBVIOUS
  <2> HIDE DEF S
  <2> QED
    BY <1>1, <1>2, <2>1, SetInduction
<1>4. \A h \in 0 .. Levels : Above(n, h) \in Nat /\ Above(n, h) < Width(h) /\ Width(h) \in Nat
  <2> TAKE h \in 0 .. Levels
  <2>1. h \in Nat /\ h <= Levels
    BY WidthFacts
  <2>2. Above(n, h) < Width(h)
    BY <1>3, <2>1
  <2> QED
    BY <2>1, <2>2, AboveFacts, WidthFacts
<1>5. \A h \in 0 .. Levels : Above(n, h) \in 0 .. Width(h) - 1
  BY <1>4
<1>6. Levels \in 0 .. Levels
  BY WidthFacts
<1>7. Above(n, Levels) = 0
  BY <1>5, <1>6, WidthFacts
<1> QED
  BY <1>5, <1>7

\* The next leaf's path is the same or one to the right, at every height.
LEMMA AboveNext ==
    ASSUME NEW n \in Nat, NEW h \in Nat
    PROVE  Above(n + 1, h) \in {Above(n, h), Above(n, h) + 1}
<1> DEFINE S == {k \in Nat : Above(n + 1, k) \in {Above(n, k), Above(n, k) + 1}}
<1>0. n + 1 \in Nat
  OBVIOUS
<1>1. 0 \in S
  BY <1>0, AboveFacts
<1>2. ASSUME NEW k \in Nat, k \in S PROVE k + 1 \in S
  <2> DEFINE a == Above(n, k)
             b == Above(n + 1, k)
  <2>1. /\ a \in Nat /\ Above(n, k + 1) = a \div 2
        /\ b \in Nat /\ Above(n + 1, k + 1) = b \div 2
    BY <1>0, AboveFacts
  <2>2. b \in {a, a + 1}
    BY <1>2
  <2> HIDE DEF a, b
  <2>3. b \div 2 \in {a \div 2, a \div 2 + 1}
    BY <2>1, <2>2
  <2> QED
    BY <2>1, <2>3
<1>3. S = Nat
  <2>1. S \in SUBSET Nat
    OBVIOUS
  <2> HIDE DEF S
  <2> QED
    BY <1>1, <1>2, <2>1, SetInduction
<1> QED
  BY <1>3

-----------------------------------------------------------------------------
(* The complete tree.                                                      *)

\* z holds the roots of the empty subtrees up to height N.
AreZeros(z, N) ==
    z = [i \in 0 .. N |-> IF i = 0 THEN ZERO_VALUE ELSE HashLeftRight(z[i - 1], z[i - 1])]

\* The recursion of zeros has a solution.
LEMMA ZerosExist ==
    ASSUME NEW N \in Nat
    PROVE  \E z : AreZeros(z, N)
<1> DEFINE D == {k \in Nat : \E z : AreZeros(z, k)}
<1>1. 0 \in D
  <2> DEFINE z == [i \in 0 .. 0 |-> ZERO_VALUE]
  <2>1. AreZeros(z, 0)
    BY DEF AreZeros
  <2> QED
    BY <2>1
<1>2. ASSUME NEW k \in Nat, k \in D PROVE k + 1 \in D
  <2>1. PICK z : AreZeros(z, k)
    BY <1>2
  <2> DEFINE t == [i \in 0 .. k + 1 |-> IF i <= k THEN z[i] ELSE HashLeftRight(z[k], z[k])]
  <2>2. ASSUME NEW i \in 0 .. k + 1
        PROVE  t[i] = IF i = 0 THEN ZERO_VALUE ELSE HashLeftRight(t[i - 1], t[i - 1])
    <3>1. CASE i = 0
      BY <2>1, <3>1 DEF AreZeros
    <3>2. CASE i \in 1 .. k
      <4>1. t[i] = z[i] /\ t[i - 1] = z[i - 1]
        BY <3>2
      <4>2. z[i] = HashLeftRight(z[i - 1], z[i - 1])
        BY <2>1, <3>2 DEF AreZeros
      <4> QED
        BY <3>2, <4>1, <4>2
    <3>3. CASE i = k + 1
      <4>1. t[i] = HashLeftRight(z[k], z[k]) /\ t[i - 1] = z[k] /\ i # 0
        BY <3>3
      <4> QED
        BY <3>3, <4>1
    <3> QED
      BY <3>1, <3>2, <3>3
  <2>3. t = [i \in 0 .. k + 1 |-> t[i]]
    OBVIOUS
  <2> HIDE DEF t
  <2>4. AreZeros(t, k + 1)
    BY <2>2, <2>3 DEF AreZeros
  <2> QED
    BY <2>4
<1>3. D = Nat
  <2>1. D \in SUBSET Nat
    OBVIOUS
  <2> HIDE DEF D
  <2> QED
    BY <1>1, <1>2, <2>1, SetInduction
<1> QED
  BY <1>3

\* What zeros(i) returns.
LEMMA ZerosFacts ==
    /\ Zeros[0] = ZERO_VALUE
    /\ \A h \in 0 .. Levels - 1 : Zeros[h + 1] = HashLeftRight(Zeros[h], Zeros[h])
<1>1. Zeros = CHOOSE z : AreZeros(z, Levels)
  BY Zenon DEF Zeros, AreZeros
<1>2. AreZeros(Zeros, Levels)
  BY <1>1, ZerosExist, WidthFacts
<1>3. \A i \in 0 .. Levels :
        Zeros[i] = IF i = 0 THEN ZERO_VALUE ELSE HashLeftRight(Zeros[i - 1], Zeros[i - 1])
  BY <1>2 DEF AreZeros
<1>4. 0 \in 0 .. Levels
      /\ \A h \in 0 .. Levels - 1 : h + 1 \in 0 .. Levels /\ h + 1 # 0 /\ (h + 1) - 1 = h
  BY WidthFacts
<1> QED
  BY <1>3, <1>4

\* The nodes of level h, from those below.
LevelOf(below, ls, h) ==
    [k \in 0 .. 2 ^ (Levels - h) - 1 |->
        IF h = 0
        THEN IF k < Len(ls) THEN ls[k + 1] ELSE ZERO_VALUE
        ELSE HashLeftRight(below[2 * k], below[2 * k + 1])]

\* t holds the complete tree over ls, up to height N.
IsTable(t, ls, N) == t = [h \in 0 .. N |-> LevelOf(t[h - 1], ls, h)]

\* The recursion of the levels has a solution.
LEMMA TableExists ==
    ASSUME NEW ls, NEW N \in Nat
    PROVE  \E t : IsTable(t, ls, N)
<1>0. \A a, b : LevelOf(a, ls, 0) = LevelOf(b, ls, 0)
  BY DEF LevelOf
<1> DEFINE D == {k \in Nat : \E t : IsTable(t, ls, k)}
<1>1. 0 \in D
  <2> DEFINE t == [i \in 0 .. 0 |-> LevelOf(<<>>, ls, 0)]
  <2>1. \A i \in 0 .. 0 : t[i] = LevelOf(t[i - 1], ls, i)
    BY <1>0
  <2>2. IsTable(t, ls, 0)
    BY <2>1 DEF IsTable
  <2> QED
    BY <2>2
<1>2. ASSUME NEW k \in Nat, k \in D PROVE k + 1 \in D
  <2>1. PICK z : IsTable(z, ls, k)
    BY <1>2
  <2> DEFINE t == [i \in 0 .. k + 1 |-> IF i <= k THEN z[i] ELSE LevelOf(z[k], ls, k + 1)]
  <2>2. ASSUME NEW i \in 0 .. k + 1
        PROVE  t[i] = LevelOf(t[i - 1], ls, i)
    <3>1. CASE i = 0
      <4>1. t[i] = LevelOf(z[i - 1], ls, i)
        BY <2>1, <3>1 DEF IsTable
      <4> QED
        BY <1>0, <3>1, <4>1
    <3>2. CASE i \in 1 .. k
      <4>1. t[i] = z[i] /\ t[i - 1] = z[i - 1]
        BY <3>2
      <4>2. z[i] = LevelOf(z[i - 1], ls, i)
        BY <2>1, <3>2 DEF IsTable
      <4> QED
        BY <4>1, <4>2
    <3>3. CASE i = k + 1
      <4>1. t[i] = LevelOf(z[k], ls, k + 1) /\ t[i - 1] = z[k]
        BY <3>3
      <4> QED
        BY <3>3, <4>1
    <3> QED
      BY <3>1, <3>2, <3>3
  <2>3. t = [i \in 0 .. k + 1 |-> t[i]]
    OBVIOUS
  <2> HIDE DEF t
  <2>4. IsTable(t, ls, k + 1)
    BY <2>2, <2>3 DEF IsTable
  <2> QED
    BY <2>4
<1>3. D = Nat
  <2>1. D \in SUBSET Nat
    OBVIOUS
  <2> HIDE DEF D
  <2> QED
    BY <1>1, <1>2, <2>1, SetInduction
<1> QED
  BY <1>3

\* Node k at height h of the complete tree over ls.
Node(ls, h, k) == (CHOOSE t : IsTable(t, ls, Levels))[h][k]

\* The nodes of the complete tree: the leaves, padded, and the hashes of pairs;
\* the reference root is the top one.
LEMMA NodeFacts ==
    ASSUME NEW ls
    PROVE  /\ TreeRoot(ls) = Node(ls, Levels, 0)
           /\ \A k \in 0 .. Width(0) - 1 :
                 Node(ls, 0, k) = IF k < Len(ls) THEN ls[k + 1] ELSE ZERO_VALUE
           /\ \A h \in 0 .. Levels - 1 : \A k \in 0 .. Width(h + 1) - 1 :
                 Node(ls, h + 1, k) = HashLeftRight(Node(ls, h, 2 * k), Node(ls, h, 2 * k + 1))
<1> DEFINE t == CHOOSE f : IsTable(f, ls, Levels)
<1>1. TreeRoot(ls) = t[Levels][0]
  BY Zenon DEF TreeRoot, IsTable, LevelOf
<1>2. IsTable(t, ls, Levels)
  BY TableExists, WidthFacts
<1>3. \A h, k : Node(ls, h, k) = t[h][k]
  BY DEF Node
<1> HIDE DEF t
<1>4. \A h \in 0 .. Levels : t[h] = LevelOf(t[h - 1], ls, h)
  BY <1>2 DEF IsTable
<1>5. ASSUME NEW k \in 0 .. Width(0) - 1
      PROVE  t[0][k] = IF k < Len(ls) THEN ls[k + 1] ELSE ZERO_VALUE
  <2>1. t[0] = LevelOf(t[0 - 1], ls, 0)
    BY <1>4, WidthFacts
  <2> QED
    BY <2>1 DEF LevelOf, Width
<1>6. ASSUME NEW h \in 0 .. Levels - 1, NEW k \in 0 .. Width(h + 1) - 1
      PROVE  t[h + 1][k] = HashLeftRight(t[h][2 * k], t[h][2 * k + 1])
  <2> DEFINE m == h + 1
  <2>1. m \in 0 .. Levels /\ m # 0 /\ m - 1 = h
    BY WidthFacts
  <2>2. k \in 0 .. 2 ^ (Levels - m) - 1
    BY DEF Width
  <2> HIDE DEF m
  <2>3. t[m] = LevelOf(t[h], ls, m)
    BY <1>4, <2>1
  <2>4. t[m][k] = HashLeftRight(t[h][2 * k], t[h][2 * k + 1])
    BY <2>1, <2>2, <2>3 DEF LevelOf
  <2> QED
    BY <2>4 DEF m
<1> QED
  BY <1>1, <1>3, <1>5, <1>6

\* To the right of the path of the next leaf the tree is empty.
LEMMA EmptyRight ==
    ASSUME NEW ls \in Seq(FieldElement), NEW h \in 0 .. Levels, NEW k \in 0 .. Width(h) - 1,
           k > Above(Len(ls), h)
    PROVE  Node(ls, h, k) = Zeros[h]
<1> DEFINE n == Len(ls)
           empty(g) == \A j \in 0 .. Width(g) - 1 : j > Above(n, g) => Node(ls, g, j) = Zeros[g]
           S == {g \in Nat : g <= Levels => empty(g)}
<1>0. n \in Nat
  OBVIOUS
<1> HIDE DEF n
<1>1. 0 \in S
  <2>1. \A j \in 0 .. Width(0) - 1 : Node(ls, 0, j) = IF j < n THEN ls[j + 1] ELSE ZERO_VALUE
    BY NodeFacts DEF n
  <2>2. Above(n, 0) = n
    BY <1>0, AboveFacts
  <2>3. \A j \in 0 .. Width(0) - 1 : j > n => ~(j < n)
    BY <1>0, WidthFacts
  <2> QED
    BY <2>1, <2>2, <2>3, ZerosFacts
<1>2. ASSUME NEW g \in Nat, g \in S PROVE g + 1 \in S
  <2>1. SUFFICES ASSUME g + 1 <= Levels, NEW j \in 0 .. Width(g + 1) - 1, j > Above(n, g + 1)
                 PROVE  Node(ls, g + 1, j) = Zeros[g + 1]
    OBVIOUS
  <2>2. g \in 0 .. Levels - 1 /\ g \in 0 .. Levels /\ g + 1 \in 0 .. Levels
    BY <2>1, WidthFacts
  <2>3. empty(g)
    BY <1>2, <2>2
  <2>4. /\ Above(n, g) \in Nat /\ Above(n, g + 1) = Above(n, g) \div 2
        /\ Width(g) = 2 * Width(g + 1) /\ Width(g + 1) \in Nat
    BY <1>0, <2>2, AboveFacts, WidthFacts
  <2>5. /\ 2 * j \in 0 .. Width(g) - 1 /\ 2 * j + 1 \in 0 .. Width(g) - 1
        /\ 2 * j > Above(n, g) /\ 2 * j + 1 > Above(n, g)
    BY <2>1, <2>4, SMTT(30)
  <2>6. Node(ls, g, 2 * j) = Zeros[g] /\ Node(ls, g, 2 * j + 1) = Zeros[g]
    BY <2>3, <2>5
  <2>7. Node(ls, g + 1, j) = HashLeftRight(Node(ls, g, 2 * j), Node(ls, g, 2 * j + 1))
    BY <2>1, <2>2, NodeFacts
  <2> QED
    BY <2>2, <2>6, <2>7, ZerosFacts
<1>3. S = Nat
  <2>1. S \in SUBSET Nat
    OBVIOUS
  <2> HIDE DEF S
  <2> QED
    BY <1>1, <1>2, <2>1, SetInduction
<1>4. h \in Nat /\ h <= Levels
  BY WidthFacts
<1>5. empty(h)
  BY <1>3, <1>4
<1> QED
  BY <1>5 DEF n

\* A new leaf changes the nodes on its path, and no others.
LEMMA PathOnly ==
    ASSUME NEW ls \in Seq(FieldElement), NEW l \in FieldElement, Len(ls) < 2 ^ Levels,
           NEW h \in 0 .. Levels, NEW k \in 0 .. Width(h) - 1, k # Above(Len(ls), h)
    PROVE  Node(Append(ls, l), h, k) = Node(ls, h, k)
<1> DEFINE n == Len(ls)
           new == Append(ls, l)
           same(g) == \A j \in 0 .. Width(g) - 1 :
                         j # Above(n, g) => Node(new, g, j) = Node(ls, g, j)
           S == {g \in Nat : g <= Levels => same(g)}
<1>0. n \in Nat /\ Len(new) = n + 1 /\ \A j \in 1 .. n : new[j] = ls[j]
  OBVIOUS
<1> HIDE DEF new
<1>1. 0 \in S
  <2>1. \A j \in 0 .. Width(0) - 1 :
           /\ Node(ls, 0, j) = IF j < n THEN ls[j + 1] ELSE ZERO_VALUE
           /\ Node(new, 0, j) = IF j < n + 1 THEN new[j + 1] ELSE ZERO_VALUE
    BY <1>0, NodeFacts
  <2>2. Above(n, 0) = n
    BY <1>0, AboveFacts
  <2>3. ASSUME NEW j \in 0 .. Width(0) - 1, j # n
        PROVE  Node(new, 0, j) = Node(ls, 0, j)
    <3>1. j \in Nat
      BY WidthFacts
    <3>2. CASE j < n
      <4>1. j + 1 \in 1 .. n /\ j < n + 1
        BY <1>0, <3>1, <3>2
      <4> QED
        BY <1>0, <2>1, <3>2, <4>1
    <3>3. CASE ~(j < n)
      <4>1. ~(j < n + 1)
        BY <1>0, <2>3, <3>1, <3>3
      <4> QED
        BY <2>1, <3>3, <4>1
    <3> QED
      BY <3>2, <3>3
  <2> QED
    BY <2>2, <2>3
<1> HIDE DEF n
<1>2. ASSUME NEW g \in Nat, g \in S PROVE g + 1 \in S
  <2>1. SUFFICES ASSUME g + 1 <= Levels, NEW j \in 0 .. Width(g + 1) - 1, j # Above(n, g + 1)
                 PROVE  Node(new, g + 1, j) = Node(ls, g + 1, j)
    OBVIOUS
  <2>2. g \in 0 .. Levels - 1 /\ g \in 0 .. Levels /\ g + 1 \in 0 .. Levels
    BY <2>1, WidthFacts
  <2>3. same(g)
    BY <1>2, <2>2
  <2>4. /\ Above(n, g) \in Nat /\ Above(n, g + 1) = Above(n, g) \div 2
        /\ Width(g) = 2 * Width(g + 1) /\ Width(g + 1) \in Nat
    BY <1>0, <2>2, AboveFacts, WidthFacts
  <2>5. /\ 2 * j \in 0 .. Width(g) - 1 /\ 2 * j + 1 \in 0 .. Width(g) - 1
        /\ 2 * j # Above(n, g) /\ 2 * j + 1 # Above(n, g)
    BY <2>1, <2>4, SMTT(30)
  <2>6. /\ Node(new, g, 2 * j) = Node(ls, g, 2 * j)
        /\ Node(new, g, 2 * j + 1) = Node(ls, g, 2 * j + 1)
    BY <2>3, <2>5
  <2>7. /\ Node(ls, g + 1, j) = HashLeftRight(Node(ls, g, 2 * j), Node(ls, g, 2 * j + 1))
        /\ Node(new, g + 1, j) = HashLeftRight(Node(new, g, 2 * j), Node(new, g, 2 * j + 1))
    BY <2>1, <2>2, NodeFacts
  <2> QED
    BY <2>6, <2>7
<1>3. S = Nat
  <2>1. S \in SUBSET Nat
    OBVIOUS
  <2> HIDE DEF S
  <2> QED
    BY <1>1, <1>2, <2>1, SetInduction
<1>4. h \in Nat /\ h <= Levels
  BY WidthFacts
<1>5. same(h)
  BY <1>3, <1>4
<1> QED
  BY <1>5 DEF n, new

-----------------------------------------------------------------------------
(* The loop of _insert.                                                    *)

\* a holds the locals of the loop at each level, up to N.
IsClimb(a, leaf, N) ==
    a = [i \in 0 .. N |->
            IF i = 0
            THEN [hash |-> leaf, index |-> nextIndex, filled |-> filledSubtrees]
            ELSE ClimbLevel(a[i - 1], i - 1)]

\* The recursion of the loop has a solution.
LEMMA ClimbExists ==
    ASSUME NEW leaf, NEW N \in Nat
    PROVE  \E a : IsClimb(a, leaf, N)
<1> DEFINE first == [hash |-> leaf, index |-> nextIndex, filled |-> filledSubtrees]
           D == {k \in Nat : \E a : IsClimb(a, leaf, k)}
<1>1. 0 \in D
  <2> DEFINE a == [i \in 0 .. 0 |-> first]
  <2>1. IsClimb(a, leaf, 0)
    BY DEF IsClimb
  <2> QED
    BY <2>1
<1>2. ASSUME NEW k \in Nat, k \in D PROVE k + 1 \in D
  <2>1. PICK z : IsClimb(z, leaf, k)
    BY <1>2
  <2> DEFINE t == [i \in 0 .. k + 1 |-> IF i <= k THEN z[i] ELSE ClimbLevel(z[k], k)]
  <2> HIDE DEF first
  <2>2. ASSUME NEW i \in 0 .. k + 1
        PROVE  t[i] = IF i = 0 THEN first ELSE ClimbLevel(t[i - 1], i - 1)
    <3>1. CASE i = 0
      BY <2>1, <3>1 DEF IsClimb, first
    <3>2. CASE i \in 1 .. k
      <4>1. t[i] = z[i] /\ t[i - 1] = z[i - 1]
        BY <3>2
      <4>2. z[i] = ClimbLevel(z[i - 1], i - 1)
        BY <2>1, <3>2 DEF IsClimb
      <4> QED
        BY <3>2, <4>1, <4>2
    <3>3. CASE i = k + 1
      <4>1. t[i] = ClimbLevel(z[k], k) /\ t[i - 1] = z[k] /\ i # 0 /\ i - 1 = k
        BY <3>3
      <4> QED
        BY <4>1
    <3> QED
      BY <3>1, <3>2, <3>3
  <2>3. t = [i \in 0 .. k + 1 |-> t[i]]
    OBVIOUS
  <2> HIDE DEF t
  <2>4. IsClimb(t, leaf, k + 1)
    BY <2>2, <2>3 DEF IsClimb, first
  <2> QED
    BY <2>4
<1>3. D = Nat
  <2>1. D \in SUBSET Nat
    OBVIOUS
  <2> HIDE DEF D
  <2> QED
    BY <1>1, <1>2, <2>1, SetInduction
<1> QED
  BY <1>3

\* A left sibling that the next leaf's path passes on its left is remembered.
SiblingsRemembered ==
    \A h \in 0 .. Levels - 1 :
        Above(nextIndex, h) % 2 # 0
            => filledSubtrees[h] = Node(leaves, h, Above(nextIndex, h) - 1)

\* The k-th root back from the current one is that of the k-th tree back, and
\* the rest of the ring is as it was at deployment.
RingOfRoots ==
    \A k \in 0 .. ROOT_HISTORY_SIZE - 1 :
        LET root == roots[(currentRootIndex - k) % ROOT_HISTORY_SIZE]
        IN  IF k < nextIndex
            THEN root = TreeRoot(SubSeq(leaves, 1, nextIndex - k))
            ELSE root \in {Unset, Zeros[Levels - 1]}

\* The inductive invariant.
MerkleIInv ==
    /\ MerkleTypeOK
    /\ leaves \in Seq(FieldElement)
    /\ DOMAIN filledSubtrees = 0 .. Levels - 1
    /\ DOMAIN roots = 0 .. ROOT_HISTORY_SIZE - 1
    /\ SiblingsRemembered
    /\ RingOfRoots

\* The locals w of the loop at level i, while leaf is inserted: the hash is the
\* node of the new tree above the leaf, and every left node is remembered.
AtLevel(w, i, leaf) ==
    /\ w.hash = Node(Append(leaves, leaf), i, Above(nextIndex, i))
    /\ w.index = Above(nextIndex, i)
    /\ DOMAIN w.filled = 0 .. Levels - 1
    /\ \A j \in 0 .. Levels - 1 :
          w.filled[j] = IF j < i /\ Above(nextIndex, j) % 2 = 0
                        THEN Node(Append(leaves, leaf), j, Above(nextIndex, j))
                        ELSE filledSubtrees[j]

\* One turn of the loop.
LEMMA ClimbLevelUp ==
    ASSUME MerkleIInv, NEW leaf \in FieldElement, nextIndex < 2 ^ Levels,
           NEW i \in 0 .. Levels - 1, NEW w, AtLevel(w, i, leaf)
    PROVE  AtLevel(ClimbLevel(w, i), i + 1, leaf)
<1> DEFINE n == nextIndex
           new == Append(leaves, leaf)
           a == Above(n, i)
           b == Above(n, i + 1)
           u == ClimbLevel(w, i)
<1>1. /\ n \in Nat /\ n = Len(leaves) /\ leaves \in Seq(FieldElement)
  BY DEF MerkleIInv, MerkleTypeOK
<1>2. i \in 0 .. Levels /\ i \in Nat /\ i + 1 \in 0 .. Levels
  BY WidthFacts
<1>3. a \in 0 .. Width(i) - 1 /\ b \in 0 .. Width(i + 1) - 1
  BY <1>1, <1>2, AboveInside
<1>4. a \in Nat /\ b = a \div 2 /\ Width(i) = 2 * Width(i + 1) /\ Width(i + 1) \in Nat
  BY <1>1, <1>2, AboveFacts, WidthFacts
<1>5. Node(new, i + 1, b) = HashLeftRight(Node(new, i, 2 * b), Node(new, i, 2 * b + 1))
  BY <1>3, NodeFacts
<1>6. 2 * b \in 0 .. Width(i) - 1 /\ 2 * b + 1 \in 0 .. Width(i) - 1
  BY <1>3, <1>4
<1>7. w.hash = Node(new, i, a) /\ w.index = a /\ DOMAIN w.filled = 0 .. Levels - 1
  BY DEF AtLevel
<1> HIDE DEF a, b, new, n
<1>8. CASE a % 2 = 0
  <2>1. a = 2 * b /\ 2 * b + 1 > a /\ 2 * b + 1 # a
    BY <1>4, <1>8
  <2>2. Node(new, i, 2 * b + 1) = Zeros[i]
    <3>1. Node(leaves, i, 2 * b + 1) = Zeros[i]
      BY <1>1, <1>2, <1>6, <2>1, EmptyRight DEF a
    <3>2. Node(new, i, 2 * b + 1) = Node(leaves, i, 2 * b + 1)
      BY <1>1, <1>2, <1>6, <2>1, PathOnly DEF a, new, n
    <3> QED
      BY <3>1, <3>2
  <2>3. u = [hash |-> HashLeftRight(w.hash, Zeros[i]), index |-> w.index \div 2,
             filled |-> [w.filled EXCEPT ![i] = w.hash]]
    BY <1>7, <1>8 DEF ClimbLevel
  <2>4. /\ u.hash = HashLeftRight(w.hash, Zeros[i]) /\ u.index = w.index \div 2
        /\ u.filled = [w.filled EXCEPT ![i] = w.hash]
    <3> HIDE DEF u
    <3> QED
      BY <2>3
  <2> HIDE DEF u
  <2>10. u.hash = Node(new, i + 1, b) /\ u.index = b
    <3>1. u.index = b
      BY <1>4, <1>7, <2>4
    <3>2. w.hash = Node(new, i, 2 * b)
      BY <1>7, <2>1
    <3> QED
      BY <1>5, <2>2, <2>4, <3>1, <3>2
  <2>5. DOMAIN u.filled = 0 .. Levels - 1
    BY <1>7, <2>4
  <2>6. ASSUME NEW j \in 0 .. Levels - 1
        PROVE  u.filled[j] = IF j < i + 1 /\ Above(n, j) % 2 = 0
                             THEN Node(new, j, Above(n, j)) ELSE filledSubtrees[j]
    <3>1. CASE j = i
      <4>1. u.filled[j] = w.hash
        BY <1>7, <2>4, <3>1
      <4>2. j < i + 1 /\ Above(n, j) % 2 = 0
        BY <1>2, <1>8, <3>1 DEF a
      <4> QED
        BY <1>7, <3>1, <4>1, <4>2 DEF a
    <3>2. CASE j # i
      <4>1. u.filled[j] = w.filled[j]
        BY <1>7, <2>4, <3>2
      <4>2. j < i + 1 <=> j < i
        BY <1>2, <3>2, WidthFacts
      <4> QED
        BY <4>1, <4>2 DEF AtLevel, new, n
    <3> QED
      BY <3>1, <3>2
  <2> QED
    BY <2>10, <2>5, <2>6 DEF AtLevel, b, new, n, u
<1>9. CASE a % 2 # 0
  <2>1. a = 2 * b + 1 /\ 2 * b = a - 1 /\ 2 * b # a
    BY <1>4, <1>9
  <2>2. w.filled[i] = Node(new, i, 2 * b)
    <3>1. w.filled[i] = filledSubtrees[i]
      BY <1>2 DEF AtLevel
    <3>2. filledSubtrees[i] = Node(leaves, i, a - 1)
      BY <1>9 DEF MerkleIInv, SiblingsRemembered, a, n
    <3>3. Node(new, i, 2 * b) = Node(leaves, i, 2 * b)
      BY <1>1, <1>2, <1>6, <2>1, PathOnly DEF a, new, n
    <3> QED
      BY <2>1, <3>1, <3>2, <3>3
  <2>3. u = [hash |-> HashLeftRight(w.filled[i], w.hash), index |-> w.index \div 2,
             filled |-> w.filled]
    BY <1>7, <1>9 DEF ClimbLevel
  <2>5. /\ u.hash = HashLeftRight(w.filled[i], w.hash) /\ u.index = w.index \div 2
        /\ u.filled = w.filled
    <3> HIDE DEF u
    <3> QED
      BY <2>3
  <2> HIDE DEF u
  <2>4. u.hash = Node(new, i + 1, b) /\ u.index = b
    <3>1. u.index = b
      BY <1>4, <1>7, <2>5
    <3>2. w.hash = Node(new, i, 2 * b + 1)
      BY <1>7, <2>1
    <3> QED
      BY <1>5, <2>2, <2>5, <3>1, <3>2
  <2>6. ASSUME NEW j \in 0 .. Levels - 1
        PROVE  u.filled[j] = IF j < i + 1 /\ Above(n, j) % 2 = 0
                             THEN Node(new, j, Above(n, j)) ELSE filledSubtrees[j]
    <3>1. j = i => ~(Above(n, j) % 2 = 0)
      BY <1>9 DEF a
    <3>2. j # i => (j < i + 1 <=> j < i)
      BY <1>2, WidthFacts
    <3>3. ~(i < i)
      BY <1>2
    <3> QED
      BY <2>5, <3>1, <3>2, <3>3 DEF AtLevel, new, n
  <2> QED
    BY <1>7, <2>4, <2>5, <2>6 DEF AtLevel, b, new, n, u
<1> QED
  BY <1>8, <1>9

\* The whole loop: it ends with the root of the new complete tree.
LEMMA ClimbToTop ==
    ASSUME MerkleIInv, NEW leaf \in FieldElement, nextIndex < 2 ^ Levels
    PROVE  AtLevel(Climb(leaf), Levels, leaf)
<1> DEFINE a == CHOOSE f : IsClimb(f, leaf, Levels)
           S == {i \in Nat : i <= Levels => AtLevel(a[i], i, leaf)}
<1>1. Climb(leaf) = a[Levels]
  BY Zenon DEF Climb, IsClimb
<1>2. IsClimb(a, leaf, Levels)
  BY ClimbExists, WidthFacts
<1> HIDE DEF a
<1>3. 0 \in S
  <2>1. a[0] = [hash |-> leaf, index |-> nextIndex, filled |-> filledSubtrees]
    BY <1>2, WidthFacts DEF IsClimb
  <2>2. /\ nextIndex \in Nat /\ nextIndex = Len(leaves) /\ leaves \in Seq(FieldElement)
        /\ DOMAIN filledSubtrees = 0 .. Levels - 1
    BY DEF MerkleIInv, MerkleTypeOK
  <2>3. Above(nextIndex, 0) = nextIndex
    BY <2>2, AboveFacts
  <2>4. Node(Append(leaves, leaf), 0, nextIndex) = leaf
    <3>1. nextIndex \in 0 .. Width(0) - 1
      BY <2>2, WidthFacts
    <3>2. /\ Len(Append(leaves, leaf)) = nextIndex + 1
          /\ Append(leaves, leaf)[nextIndex + 1] = leaf
          /\ nextIndex < nextIndex + 1
      BY <2>2
    <3> QED
      BY <3>1, <3>2, NodeFacts
  <2>5. \A j \in 0 .. Levels - 1 : ~(j < 0)
    BY WidthFacts
  <2>6. a[0].hash = leaf /\ a[0].index = nextIndex /\ a[0].filled = filledSubtrees
    BY <2>1
  <2>7. AtLevel(a[0], 0, leaf)
    BY <2>2, <2>3, <2>4, <2>5, <2>6 DEF AtLevel
  <2> QED
    BY <2>7
<1>4. ASSUME NEW i \in Nat, i \in S PROVE i + 1 \in S
  <2>1. SUFFICES ASSUME i + 1 <= Levels PROVE AtLevel(a[i + 1], i + 1, leaf)
    OBVIOUS
  <2>2. i \in 0 .. Levels - 1 /\ i + 1 \in 0 .. Levels /\ i + 1 # 0 /\ (i + 1) - 1 = i
    BY <2>1, WidthFacts
  <2>3. a[i + 1] = ClimbLevel(a[i], i)
    BY <1>2, <2>2 DEF IsClimb
  <2>4. AtLevel(a[i], i, leaf)
    <3>1. i <= Levels
      BY <2>1, WidthFacts
    <3> QED
      BY <1>4, <3>1
  <2> QED
    BY <2>2, <2>3, <2>4, ClimbLevelUp
<1>5. S = Nat
  <2>1. S \in SUBSET Nat
    OBVIOUS
  <2> HIDE DEF S
  <2> QED
    BY <1>3, <1>4, <2>1, SetInduction
<1> QED
  BY <1>1, <1>5, WidthFacts

-----------------------------------------------------------------------------
(* The ring of roots.                                                      *)

\* A step of the ring's index, forwards and backwards.
LEMMA RingIndex ==
    ASSUME NEW R \in Nat \ {0}, NEW c \in 0 .. R - 1
    PROVE  /\ (c + 1) % R \in 0 .. R - 1
           /\ \A k \in 0 .. R - 1 : (c - k) % R \in 0 .. R - 1
           /\ c % R = c
           /\ \A k \in 1 .. R - 1 :
                 /\ (((c + 1) % R) - k) % R = (c - (k - 1)) % R
                 /\ (((c + 1) % R) - k) % R # (c + 1) % R
<1>1. \A d \in 0 .. R - 1 : \A k \in 0 .. R - 1 :
        (d - k) % R = IF d >= k THEN d - k ELSE d - k + R
  OBVIOUS
<1>2. (c + 1) % R = IF c + 1 = R THEN 0 ELSE c + 1
  OBVIOUS
<1>3. (c + 1) % R \in 0 .. R - 1
  BY <1>2
<1>4. \A k \in 0 .. R - 1 : (c - k) % R \in 0 .. R - 1
  BY <1>1
<1>5. c % R = c
  OBVIOUS
<1>6. ASSUME NEW k \in 1 .. R - 1
      PROVE  /\ (((c + 1) % R) - k) % R = (c - (k - 1)) % R
             /\ (((c + 1) % R) - k) % R # (c + 1) % R
  <2>1. k \in 0 .. R - 1 /\ k - 1 \in 0 .. R - 1
    OBVIOUS
  <2>2. (c - (k - 1)) % R = IF c >= k - 1 THEN c - (k - 1) ELSE c - (k - 1) + R
    BY <1>1, <2>1
  <2> DEFINE d == (c + 1) % R
  <2>3. d \in 0 .. R - 1 /\ d = IF c + 1 = R THEN 0 ELSE c + 1
    BY <1>2, <1>3
  <2> HIDE DEF d
  <2>4. (d - k) % R = IF d >= k THEN d - k ELSE d - k + R
    BY <1>1, <2>1, <2>3
  <2>5. (d - k) % R = (c - (k - 1)) % R /\ (d - k) % R # d
    BY <2>2, <2>3, <2>4
  <2> QED
    BY <2>5 DEF d
<1> QED
  BY <1>3, <1>4, <1>5, <1>6

\* The first elements of a sequence.
LEMMA Prefixes ==
    ASSUME NEW E, NEW s \in Seq(E), NEW m \in 0 .. Len(s)
    PROVE  /\ SubSeq(s, 1, m) \in Seq(E) /\ SubSeq(s, 1, m) \in [1 .. m -> E]
           /\ Len(SubSeq(s, 1, m)) = m
           /\ \A j \in 1 .. m : SubSeq(s, 1, m)[j] = s[j]
           /\ m = Len(s) => SubSeq(s, 1, m) = s
<1>1. SubSeq(s, 1, m) = [j \in 1 .. m |-> s[j]]
  OBVIOUS
<1>2. SubSeq(s, 1, m) \in Seq(E) /\ Len(SubSeq(s, 1, m)) = m
  OBVIOUS
<1>3. \A j \in 1 .. m : s[j] \in E
  OBVIOUS
<1>4. SubSeq(s, 1, m) \in [1 .. m -> E] /\ \A j \in 1 .. m : SubSeq(s, 1, m)[j] = s[j]
  BY <1>1, <1>3
<1>5. m = Len(s) => SubSeq(s, 1, m) = s
  OBVIOUS
<1> QED
  BY <1>2, <1>4, <1>5

\* Appending an element changes no earlier prefix, and neither does cutting.
LEMMA PrefixesKept ==
    ASSUME NEW E, NEW s \in Seq(E), NEW m \in 0 .. Len(s)
    PROVE  /\ \A e \in E : SubSeq(Append(s, e), 1, m) = SubSeq(s, 1, m)
           /\ \A k \in 0 .. m : SubSeq(SubSeq(s, 1, m), 1, k) = SubSeq(s, 1, k)
<1>1. ASSUME NEW t \in Seq(E), Len(t) >= m, \A j \in 1 .. m : t[j] = s[j], NEW k \in 0 .. m
      PROVE  SubSeq(t, 1, k) = SubSeq(s, 1, k)
  <2>1. k \in 0 .. Len(t) /\ k \in 0 .. Len(s) /\ \A j \in 1 .. k : j \in 1 .. m
    BY <1>1
  <2>2. SubSeq(t, 1, k) = [j \in 1 .. k |-> t[j]] /\ SubSeq(s, 1, k) = [j \in 1 .. k |-> s[j]]
    BY <2>1
  <2> QED
    BY <1>1, <2>1, <2>2
<1>2. ASSUME NEW e \in E PROVE SubSeq(Append(s, e), 1, m) = SubSeq(s, 1, m)
  <2>1. /\ Append(s, e) \in Seq(E) /\ Len(Append(s, e)) >= m
        /\ \A j \in 1 .. m : Append(s, e)[j] = s[j]
    OBVIOUS
  <2>2. m \in 0 .. m
    OBVIOUS
  <2> QED
    BY <1>1, <2>1, <2>2
<1>3. ASSUME NEW k \in 0 .. m PROVE SubSeq(SubSeq(s, 1, m), 1, k) = SubSeq(s, 1, k)
  BY <1>1, Prefixes
<1> QED
  BY <1>2, <1>3

-----------------------------------------------------------------------------
(* The inductive invariant.                                                *)

\* Nothing is above nothing.
LEMMA AboveZero ==
    ASSUME NEW h \in Nat
    PROVE  Above(0, h) = 0
<1> DEFINE S == {k \in Nat : Above(0, k) = 0}
<1>1. 0 \in S
  BY AboveFacts
<1>2. ASSUME NEW k \in Nat, k \in S PROVE k + 1 \in S
  <2>1. Above(0, k + 1) = Above(0, k) \div 2
    BY AboveFacts
  <2> QED
    BY <1>2, <2>1
<1>3. S = Nat
  <2>1. S \in SUBSET Nat
    OBVIOUS
  <2> HIDE DEF S
  <2> QED
    BY <1>1, <1>2, <2>1, SetInduction
<1> QED
  BY <1>3

\* Deployment: no leaf yet, the empty root alone in the ring.
LEMMA MerkleInitially == MerkleInit => MerkleIInv
<1> SUFFICES ASSUME MerkleInit PROVE MerkleIInv
  OBVIOUS
<1> USE DEF MerkleInit
<1>1. ROOT_HISTORY_SIZE \in Nat \ {0} /\ 2 ^ Levels \in Nat
  BY MerkleAssumption, WidthFacts, PowerOfTwo
<1>2. MerkleTypeOK /\ leaves \in Seq(FieldElement)
  BY <1>1 DEF MerkleTypeOK
<1>3. SiblingsRemembered
  <2>1. ASSUME NEW h \in 0 .. Levels - 1 PROVE Above(0, h) % 2 = 0
    <3>1. h \in Nat /\ h \in 0 .. Levels
      BY WidthFacts
    <3> QED
      BY <3>1, AboveZero
  <2> QED
    BY <2>1 DEF SiblingsRemembered
<1>4. RingOfRoots
  <2>1. ASSUME NEW k \in 0 .. ROOT_HISTORY_SIZE - 1
        PROVE  roots[(currentRootIndex - k) % ROOT_HISTORY_SIZE] \in {Unset, Zeros[Levels - 1]}
    <3>1. 0 \in 0 .. ROOT_HISTORY_SIZE - 1
      BY <1>1
    <3>2. (0 - k) % ROOT_HISTORY_SIZE \in 0 .. ROOT_HISTORY_SIZE - 1
      BY <1>1, <3>1, RingIndex
    <3> QED
      BY <3>2
  <2>2. \A k \in 0 .. ROOT_HISTORY_SIZE - 1 : ~(k < nextIndex)
    BY <1>1
  <2> QED
    BY <2>1, <2>2 DEF RingOfRoots
<1> QED
  BY <1>2, <1>3, <1>4 DEF MerkleIInv

\* An insertion: what the loop leaves in filledSubtrees and returns as root.
LEMMA InsertEffect ==
    ASSUME MerkleIInv, NEW leaf \in FieldElement, Insert(leaf)
    PROVE  /\ nextIndex < 2 ^ Levels
           /\ DOMAIN filledSubtrees' = 0 .. Levels - 1
           /\ \A h \in 0 .. Levels - 1 :
                 filledSubtrees'[h] = IF Above(nextIndex, h) % 2 = 0
                                      THEN Node(Append(leaves, leaf), h, Above(nextIndex, h))
                                      ELSE filledSubtrees[h]
           /\ roots' = [roots EXCEPT ![(currentRootIndex + 1) % ROOT_HISTORY_SIZE] =
                                        TreeRoot(Append(leaves, leaf))]
<1> DEFINE top == Climb(leaf)
           new == Append(leaves, leaf)
<1>1. nextIndex \in Nat /\ nextIndex < 2 ^ Levels
  <2>1. nextIndex \in 0 .. 2 ^ Levels /\ nextIndex # 2 ^ Levels /\ 2 ^ Levels \in Nat
    BY WidthFacts, PowerOfTwo DEF MerkleIInv, MerkleTypeOK, Insert, CanInsert
  <2> QED
    BY <2>1
<1>2. AtLevel(top, Levels, leaf)
  BY <1>1, ClimbToTop
<1>3. /\ filledSubtrees' = top.filled
      /\ roots' = [roots EXCEPT ![(currentRootIndex + 1) % ROOT_HISTORY_SIZE] = top.hash]
  BY DEF Insert
<1> HIDE DEF top
<1>4. top.hash = TreeRoot(new)
  <2>1. top.hash = Node(new, Levels, Above(nextIndex, Levels))
    BY <1>2 DEF AtLevel
  <2>2. Above(nextIndex, Levels) = 0
    BY <1>1, AboveInside
  <2>3. TreeRoot(new) = Node(new, Levels, 0)
    BY NodeFacts
  <2> QED
    BY <2>1, <2>2, <2>3
<1>5. \A h \in 0 .. Levels - 1 : h < Levels
  BY WidthFacts
<1>6. /\ DOMAIN top.filled = 0 .. Levels - 1
      /\ \A h \in 0 .. Levels - 1 :
            top.filled[h] = IF Above(nextIndex, h) % 2 = 0
                            THEN Node(new, h, Above(nextIndex, h)) ELSE filledSubtrees[h]
  BY <1>2, <1>5 DEF AtLevel
<1> HIDE DEF new
<1>7. roots' = [roots EXCEPT ![(currentRootIndex + 1) % ROOT_HISTORY_SIZE] = TreeRoot(new)]
  BY <1>3, <1>4
<1> QED
  BY <1>1, <1>3, <1>6, <1>7 DEF new

\* An insertion keeps what the next one needs of filledSubtrees.
LEMMA InsertRemembersSiblings ==
    ASSUME MerkleIInv, NEW leaf \in FieldElement, Insert(leaf)
    PROVE  SiblingsRemembered'
<1> DEFINE n == nextIndex
           new == Append(leaves, leaf)
<1>1. /\ n \in Nat /\ n = Len(leaves) /\ leaves \in Seq(FieldElement)
  BY DEF MerkleIInv, MerkleTypeOK
<1>2. n < 2 ^ Levels
  BY InsertEffect
<1>3. nextIndex' = n + 1 /\ leaves' = new
  BY DEF Insert
<1> HIDE DEF n, new
<1>4. ASSUME NEW h \in 0 .. Levels - 1, Above(n + 1, h) % 2 # 0
      PROVE  filledSubtrees'[h] = Node(new, h, Above(n + 1, h) - 1)
  <2> DEFINE a == Above(n, h)
             b == Above(n + 1, h)
  <2>1. h \in Nat /\ h \in 0 .. Levels
    BY WidthFacts
  <2>2. a \in 0 .. Width(h) - 1 /\ Width(h) \in Nat
    BY <1>1, <1>2, <2>1, AboveInside, WidthFacts
  <2>3. b = a \/ b = a + 1
    BY <1>1, <2>1, AboveNext
  <2>4. filledSubtrees'[h] = IF a % 2 = 0 THEN Node(new, h, a) ELSE filledSubtrees[h]
    BY InsertEffect DEF n, new
  <2>5. CASE b = a
    <3>1. a % 2 # 0
      BY <1>4, <2>5
    <3>2. filledSubtrees[h] = Node(leaves, h, a - 1)
      BY <3>1 DEF MerkleIInv, SiblingsRemembered, n
    <3>3. a - 1 \in 0 .. Width(h) - 1 /\ a - 1 # a
      <4> HIDE DEF a
      <4> QED
        BY <2>2, <3>1
    <3>4. Node(new, h, a - 1) = Node(leaves, h, a - 1)
      BY <1>1, <1>2, <2>1, <3>3, PathOnly DEF n, new
    <3>5. filledSubtrees'[h] = Node(new, h, a - 1)
      BY <2>4, <3>1, <3>2, <3>4
    <3> QED
      BY <2>5, <3>5
  <2>6. CASE b = a + 1
    <3>1. b % 2 # 0
      BY <1>4
    <3> HIDE DEF a, b
    <3>2. a % 2 = 0 /\ b - 1 = a
      BY <2>2, <2>6, <3>1
    <3>3. filledSubtrees'[h] = Node(new, h, b - 1)
      BY <2>4, <3>2
    <3> QED
      BY <3>3 DEF b
  <2> QED
    BY <2>3, <2>5, <2>6
<1>5. \A h \in 0 .. Levels - 1 :
        Above(n + 1, h) % 2 # 0 => filledSubtrees'[h] = Node(new, h, Above(n + 1, h) - 1)
  BY <1>4
<1> QED
  BY <1>3, <1>5 DEF SiblingsRemembered

\* An insertion writes the new root and pushes the others one place back.
LEMMA InsertTurnsRing ==
    ASSUME MerkleIInv, NEW leaf \in FieldElement, Insert(leaf)
    PROVE  RingOfRoots'
<1> DEFINE n == nextIndex
           new == Append(leaves, leaf)
           R == ROOT_HISTORY_SIZE
           c == currentRootIndex
           d == (c + 1) % R
           T(m) == TreeRoot(SubSeq(new, 1, m))
<1>1. /\ n \in Nat /\ n = Len(leaves) /\ leaves \in Seq(FieldElement)
      /\ R \in Nat \ {0} /\ c \in 0 .. R - 1 /\ DOMAIN roots = 0 .. R - 1
  BY MerkleAssumption DEF MerkleIInv, MerkleTypeOK
<1>2. nextIndex' = n + 1 /\ leaves' = new /\ currentRootIndex' = d
  BY DEF Insert
<1>3. roots' = [roots EXCEPT ![d] = TreeRoot(new)]
  BY InsertEffect
<1>4. new \in Seq(FieldElement) /\ Len(new) = n + 1
  BY <1>1
<1>5. d \in 0 .. R - 1 /\ d % R = d
  <2>1. d \in 0 .. R - 1
    BY <1>1, RingIndex
  <2> HIDE DEF d
  <2> QED
    BY <1>1, <2>1, RingIndex
<1>6. ASSUME NEW k \in 0 .. R - 1
      PROVE  IF k < n + 1 THEN roots'[(d - k) % R] = T(n + 1 - k)
                          ELSE roots'[(d - k) % R] \in {Unset, Zeros[Levels - 1]}
  <2>1. CASE k = 0
    <3>1. SubSeq(new, 1, n + 1) = new
      <4>1. n + 1 \in 0 .. Len(new)
        BY <1>1, <1>4
      <4> HIDE DEF new
      <4> QED
        BY <1>4, <4>1, Prefixes
    <3> HIDE DEF d, new
    <3>2. roots'[d] = TreeRoot(new)
      BY <1>1, <1>3, <1>5
    <3>3. d - k = d /\ n + 1 - k = n + 1 /\ k < n + 1
      BY <1>1, <1>5, <2>1
    <3> QED
      BY <1>5, <3>1, <3>2, <3>3
  <2>2. CASE k # 0
    <3>1. k \in 1 .. R - 1 /\ k - 1 \in 0 .. R - 1 /\ (k < n + 1 <=> k - 1 < n)
          /\ n + 1 - k = n - (k - 1)
      BY <1>1, <2>2
    <3>2. /\ (d - k) % R = (c - (k - 1)) % R /\ (d - k) % R # d
          /\ (c - (k - 1)) % R \in 0 .. R - 1
      BY ZenonT(30), <1>1, <3>1, RingIndex
    <3> DEFINE e == (d - k) % R
    <3>3. roots'[e] = roots[e]
      <4> HIDE DEF d, e
      <4>1. e # d /\ e \in 0 .. R - 1
        BY <3>2 DEF e
      <4> QED
        BY <1>1, <1>3, <4>1
    <3>4. IF k - 1 < n THEN roots[e] = TreeRoot(SubSeq(leaves, 1, n - (k - 1)))
                       ELSE roots[e] \in {Unset, Zeros[Levels - 1]}
      BY <3>1, <3>2 DEF MerkleIInv, RingOfRoots
    <3>5. k - 1 < n => SubSeq(new, 1, n - (k - 1)) = SubSeq(leaves, 1, n - (k - 1))
      <4>1. k - 1 < n => n - (k - 1) \in 0 .. Len(leaves)
        BY <1>1, <3>1
      <4> QED
        BY <1>1, <4>1, PrefixesKept
    <3> HIDE DEF new, d, e
    <3> QED
      BY <3>1, <3>3, <3>4, <3>5 DEF e
  <2> QED
    BY <2>1, <2>2
<1> HIDE DEF new, d
<1>7. ASSUME NEW k \in 0 .. R - 1
      PROVE  IF k < nextIndex'
             THEN roots'[(currentRootIndex' - k) % R] = TreeRoot(SubSeq(leaves', 1, nextIndex' - k))
             ELSE roots'[(currentRootIndex' - k) % R] \in {Unset, Zeros[Levels - 1]}
  <2>1. (currentRootIndex' - k) % R = (d - k) % R
    BY <1>2
  <2>2. TreeRoot(SubSeq(leaves', 1, nextIndex' - k)) = T(n + 1 - k)
    <3>0. leaves' = new /\ nextIndex' = n + 1
      BY <1>2
    <3> HIDE DEF n
    <3>1. nextIndex' - k = n + 1 - k
      BY <1>1, <3>0
    <3>2. SubSeq(leaves', 1, nextIndex' - k) = SubSeq(new, 1, n + 1 - k)
      BY <3>0, <3>1
    <3> QED
      BY <3>2, Zenon
  <2>3. k < nextIndex' <=> k < n + 1
    BY <1>2
  <2> HIDE DEF T
  <2> QED
    BY <1>6, <2>1, <2>2, <2>3
<1> QED
  BY <1>7 DEF RingOfRoots

\* Every insertion, and every other step, preserves the inductive invariant.
LEMMA MerkleStep ==
    MerkleIInv /\ [MerkleNext]_merkleVars => MerkleIInv'
<1> SUFFICES ASSUME MerkleIInv, [MerkleNext]_merkleVars PROVE MerkleIInv'
  OBVIOUS
<1>1. ASSUME NEW leaf \in Leaf, Insert(leaf) PROVE MerkleIInv'
  <2>1. leaf \in FieldElement
    BY <1>1 DEF Insert, CanInsert
  <2>2. SiblingsRemembered' /\ RingOfRoots' /\ DOMAIN filledSubtrees' = 0 .. Levels - 1
    BY <1>1, <2>1, InsertEffect, InsertRemembersSiblings, InsertTurnsRing
  <2>3. /\ nextIndex \in Nat /\ nextIndex = Len(leaves) /\ leaves \in Seq(FieldElement)
        /\ nextIndex < 2 ^ Levels /\ 2 ^ Levels \in Nat
        /\ ROOT_HISTORY_SIZE \in Nat \ {0} /\ currentRootIndex \in 0 .. ROOT_HISTORY_SIZE - 1
        /\ DOMAIN roots = 0 .. ROOT_HISTORY_SIZE - 1
    BY <1>1, <2>1, InsertEffect, MerkleAssumption, WidthFacts, PowerOfTwo
       DEF MerkleIInv, MerkleTypeOK
  <2>4. /\ nextIndex' = nextIndex + 1 /\ leaves' = Append(leaves, leaf)
        /\ currentRootIndex' = (currentRootIndex + 1) % ROOT_HISTORY_SIZE
    BY <1>1 DEF Insert
  <2>5. leaves' \in Seq(FieldElement) /\ nextIndex' = Len(leaves')
    BY <2>1, <2>3, <2>4
  <2>6. nextIndex' \in 0 .. 2 ^ Levels
    BY <2>3, <2>4
  <2>7. currentRootIndex' \in 0 .. ROOT_HISTORY_SIZE - 1
    BY <2>3, <2>4, RingIndex
  <2>8. DOMAIN roots' = 0 .. ROOT_HISTORY_SIZE - 1
    BY <1>1, <2>1, <2>3, InsertEffect
  <2> QED
    BY <2>2, <2>5, <2>6, <2>7, <2>8 DEF MerkleIInv, MerkleTypeOK
<1>2. CASE UNCHANGED merkleVars
  BY <1>2 DEF merkleVars, MerkleIInv, MerkleTypeOK, SiblingsRemembered, RingOfRoots
<1> QED
  BY <1>1, <1>2 DEF MerkleNext

\* The inductive invariant holds of every state of the contract.
THEOREM MerkleInvariant == MerkleSpec => []MerkleIInv
BY MerkleInitially, MerkleStep, PTL DEF MerkleSpec

\* The last root in the ring is the root of the complete tree over the leaves.
LEMMA LastRoot == MerkleIInv => MerkleInv
<1> SUFFICES ASSUME MerkleIInv, leaves # <<>> PROVE GetLastRoot = TreeRoot(leaves)
  BY DEF MerkleIInv, MerkleInv, LastRootIsTreeRoot
<1>1. /\ nextIndex \in Nat /\ nextIndex = Len(leaves) /\ leaves \in Seq(FieldElement)
      /\ ROOT_HISTORY_SIZE \in Nat \ {0} /\ currentRootIndex \in 0 .. ROOT_HISTORY_SIZE - 1
  BY MerkleAssumption DEF MerkleIInv, MerkleTypeOK
<1>2. 0 < nextIndex /\ nextIndex - 0 = nextIndex /\ currentRootIndex - 0 = currentRootIndex
  BY <1>1
<1>3. 0 \in 0 .. ROOT_HISTORY_SIZE - 1 /\ currentRootIndex % ROOT_HISTORY_SIZE = currentRootIndex
  <2>1. 0 \in 0 .. ROOT_HISTORY_SIZE - 1
    BY <1>1
  <2>2. currentRootIndex % ROOT_HISTORY_SIZE = currentRootIndex
    BY <1>1, RingIndex
  <2> QED
    BY <2>1, <2>2
<1>4. roots[(currentRootIndex - 0) % ROOT_HISTORY_SIZE] = TreeRoot(SubSeq(leaves, 1, nextIndex - 0))
  BY <1>2, <1>3 DEF MerkleIInv, RingOfRoots
<1>5. SubSeq(leaves, 1, nextIndex) = leaves
  BY <1>1, Prefixes
<1> QED
  BY <1>2, <1>3, <1>4, <1>5 DEF GetLastRoot

\* Whatever the height, the ring's size, the hash and the leaves inserted, the
\* incremental _insert publishes the root of the complete tree over all leaves,
\* and both indices stay in range (MerkleTreeWithHistory.sol, _insert).
THEOREM MerkleInvAlways == MerkleSpec => []MerkleInv
BY MerkleInvariant, LastRoot, PTL

\* In a state of the invariant, the known roots are those of the recent trees.
LEMMA RecentRoots ==
    ASSUME CollisionFree, MerkleIInv
    PROVE  KnownRootsAreTheRecentOnes
<1> DEFINE N == nextIndex
           R == ROOT_HISTORY_SIZE
           P(m) == SubSeq(leaves, 1, m)
           T(m) == TreeRoot(P(m))
           back(k) == roots[(currentRootIndex - k) % R]
<1>1. /\ N \in Nat /\ N = Len(leaves) /\ leaves \in Seq(FieldElement) /\ N <= 2 ^ Levels
      /\ 2 ^ Levels \in Nat /\ R \in Nat \ {0}
  BY MerkleAssumption, WidthFacts, PowerOfTwo DEF MerkleIInv, MerkleTypeOK
<1>2. ASSUME NEW m \in 1 .. N
      PROVE  /\ P(m) \in UNION {[1 .. n -> FieldElement] : n \in 1 .. 2 ^ Levels}
             /\ Len(P(m)) = m /\ \A k \in 1 .. m - 1 : SubSeq(P(m), 1, k) = P(k)
  <2>1. m \in 0 .. Len(leaves) /\ m \in 1 .. 2 ^ Levels /\ \A k \in 1 .. m - 1 : k \in 0 .. m
    BY <1>1
  <2>2. P(m) \in [1 .. m -> FieldElement] /\ Len(P(m)) = m
    BY <1>1, <2>1, Prefixes
  <2>3. \A k \in 1 .. m - 1 : SubSeq(P(m), 1, k) = P(k)
    BY <1>1, <2>1, PrefixesKept
  <2> QED
    BY <2>1, <2>2, <2>3
<1>3. ASSUME NEW m \in 1 .. N
      PROVE  T(m) \notin {Unset, Zeros[Levels - 1]} /\ \A k \in 1 .. m - 1 : T(k) # T(m)
  <2> DEFINE s == P(m)
  <2>1. /\ s \in UNION {[1 .. n -> FieldElement] : n \in 1 .. 2 ^ Levels}
        /\ Len(s) = m /\ \A k \in 1 .. m - 1 : SubSeq(s, 1, k) = P(k)
    BY <1>2
  <2> HIDE DEF s
  <2>2. /\ TreeRoot(s) \notin {Unset, Zeros[Levels - 1]}
        /\ \A k \in 1 .. m - 1 : TreeRoot(SubSeq(s, 1, k)) # TreeRoot(s)
    BY <2>1 DEF CollisionFree
  <2>3. \A k \in 1 .. m - 1 : TreeRoot(P(k)) # TreeRoot(s)
    BY <2>1, <2>2
  <2> QED
    BY <2>2, <2>3 DEF s
<1>4. ASSUME NEW k \in 0 .. R - 1
      PROVE  IF k < N THEN back(k) = T(N - k) ELSE back(k) \in {Unset, Zeros[Levels - 1]}
  BY DEF MerkleIInv, RingOfRoots
<1>5. \A r : IsKnownRoot(r) <=> r # Unset /\ \E k \in 0 .. R - 1 : r = back(k)
  BY DEF IsKnownRoot
<1> HIDE DEF P, T, back
<1>6. ASSUME NEW n \in 1 .. N, IsKnownRoot(T(n)) PROVE n > N - R
  <2>1. PICK k \in 0 .. R - 1 : T(n) = back(k)
    BY <1>5, <1>6
  <2>2. k < N
    BY <1>3, <1>4, <2>1
  <2>3. N - k \in 1 .. N /\ T(n) = T(N - k)
    BY <1>1, <1>4, <2>1, <2>2
  <2>4. n = N - k
    <3>1. ~(n < N - k)
      <4>1. n < N - k => n \in 1 .. (N - k) - 1
        BY <1>1, <2>3
      <4> QED
        BY <1>3, <2>3, <4>1
    <3>2. ~(N - k < n)
      <4>1. N - k < n => N - k \in 1 .. n - 1
        BY <1>1, <2>3
      <4> QED
        BY <1>3, <2>3, <4>1
    <3> QED
      BY <1>1, <3>1, <3>2
  <2> QED
    BY <1>1, <2>4
<1>7. ASSUME NEW n \in 1 .. N, n > N - R PROVE IsKnownRoot(T(n))
  <2>1. N - n \in 0 .. R - 1 /\ N - n < N /\ N - (N - n) = n
    BY <1>1, <1>7
  <2>2. back(N - n) = T(n)
    BY <1>4, <2>1
  <2>3. T(n) # Unset
    BY <1>3
  <2> QED
    BY <1>5, <2>1, <2>2, <2>3
<1>8. \A n \in 1 .. N : IsKnownRoot(T(n)) <=> n > N - R
  BY <1>6, <1>7
<1> QED
  BY <1>1, <1>8 DEF KnownRootsAreTheRecentOnes, T, P

\* With a collision-free hash, for every height and ring size: isKnownRoot
\* accepts the roots of the last ROOT_HISTORY_SIZE insertions and no evicted
\* one (MerkleTreeWithHistory.sol, isKnownRoot and the ring of _insert).
THEOREM KnownRootsAlways ==
    ASSUME CollisionFree
    PROVE  MerkleSpec => []KnownRootsAreTheRecentOnes
<1>1. MerkleIInv => KnownRootsAreTheRecentOnes
  BY RecentRoots
<1> QED
  BY <1>1, MerkleInvariant, PTL

-----------------------------------------------------------------------------
(* The escrow contract.                                                    *)

\* How the fields of an escrow depend on each other: a record is written as a
\* whole or not at all, an unsettled one holds one denomination, and a
\* settled one was paid or refunded.
EscrowShape ==
    \A id \in EscrowId :
        /\ id \in Opened => escrows[id].party1 \in User /\ escrows[id].party2 \in User
        /\ id \notin Opened => escrows[id].party2 = NoAddress /\ escrows[id].amount = 0
        /\ id \in Unsettled => escrows[id].amount = Denomination
        /\ id \in Opened \ Unsettled => outcome[id] \in {"paid", "refunded"}

\* The inductive invariant.
EscrowInv == EscrowTypeOK /\ EscrowShape /\ EscrowSolvent
-----------------------------------------------------------------------------

\* The addresses that exchange ether with the contract are accounts other
\* than its own.
LEMMA EscrowAccount ==
    /\ User \subseteq Address /\ NoAddress \notin User
    /\ EscrowAddr \in Address /\ EscrowAddr \notin User
    /\ RewardPoolAddr \in Address /\ RewardPoolAddr # EscrowAddr
    /\ NoAddress # RewardPoolAddr
BY AccountsAssumption DEF Address, Contract

\* Deposits are counted in whole denominations.
LEMMA DepositSteps ==
    ASSUME NEW n \in Nat
    PROVE  /\ Denomination * n \in Nat
           /\ Denomination * (n + 1) = Denomination * n + Denomination
           /\ n > 0 => Denomination * (n - 1) = Denomination * n - Denomination
BY EscrowAssumption

\* Finitely many escrows are unsettled.
LEMMA UnsettledFinite == IsFiniteSet(Unsettled)
<1>1. Unsettled \in SUBSET EscrowId
  BY DEF Unsettled, Opened
<1> QED
  BY <1>1, EscrowAssumption, FS_Subset

\* The writes that settle an escrow change its amount and its flag only.
LEMMA ClosedFacts ==
    ASSUME escrows \in [EscrowId -> Escrow], NEW id \in EscrowId, escrows' = Closed(id)
    PROVE  /\ escrows' \in [EscrowId -> Escrow]
           /\ escrows'[id].released /\ escrows'[id].amount = 0
           /\ \A j \in EscrowId : /\ escrows'[j].party1 = escrows[j].party1
                                  /\ escrows'[j].party2 = escrows[j].party2
                                  /\ escrows'[j].deadline = escrows[j].deadline
                                  /\ escrows'[j].dataHash = escrows[j].dataHash
           /\ \A j \in EscrowId \ {id} : escrows'[j] = escrows[j]
           /\ Opened' = Opened
           /\ Unsettled' = Unsettled \ {id}
<1> DEFINE e == escrows[id]
           c == [e EXCEPT !.released = TRUE, !.amount = 0]
<1>1. e \in Escrow
  OBVIOUS
<1>a. c \in Escrow
  BY <1>1 DEF Escrow
<1>b. /\ c.released /\ c.amount = 0
      /\ c.party1 = e.party1 /\ c.party2 = e.party2 /\ c.deadline = e.deadline
      /\ c.dataHash = e.dataHash
  BY <1>1 DEF Escrow
<1>c. escrows' = [escrows EXCEPT ![id] = c]
  BY DEF Closed
<1> HIDE DEF c
<1>2. /\ escrows' \in [EscrowId -> Escrow]
      /\ escrows'[id].released /\ escrows'[id].amount = 0
      /\ \A j \in EscrowId : /\ escrows'[j].party1 = escrows[j].party1
                             /\ escrows'[j].party2 = escrows[j].party2
                             /\ escrows'[j].deadline = escrows[j].deadline
                             /\ escrows'[j].dataHash = escrows[j].dataHash
      /\ \A j \in EscrowId \ {id} : escrows'[j] = escrows[j]
  BY <1>a, <1>b, <1>c
<1>3. Opened' = Opened
  BY <1>2 DEF Opened
<1>4. Unsettled' = Unsettled \ {id}
  BY <1>2, <1>3 DEF Unsettled, Opened
<1> QED
  BY <1>2, <1>3, <1>4

\* _processPayment takes exactly the amount out of the contract, whether or
\* not a fee is split off.
LEMMA PaymentOut ==
    ASSUME balance \in [Address -> Nat], NEW amount \in Nat, balance[EscrowAddr] >= amount,
           NEW recipient \in User, NEW member,
           escrowRewardPool \in {NoAddress, RewardPoolAddr},
           ProcessPayment(amount, member, recipient)
    PROVE  /\ balance' \in [Address -> Nat]
           /\ balance'[EscrowAddr] = balance[EscrowAddr] - amount
<1> DEFINE fee == ServiceFee(amount)
           b == Moved(balance, EscrowAddr, RewardPoolAddr, fee)
<1>1. fee \in Nat /\ fee <= amount
  BY DEF ServiceFee
<1> HIDE DEF fee
<1>2. CASE balance' = Moved(balance, EscrowAddr, recipient, amount)
  BY <1>2, EscrowAccount, MovedBalance
<1>3. CASE balance' = Moved(b, EscrowAddr, recipient, amount - fee)
  <2>0. balance[EscrowAddr] >= fee
    BY <1>1, EscrowAccount
  <2>1. b \in [Address -> Nat] /\ b[EscrowAddr] = balance[EscrowAddr] - fee
    BY <1>1, <2>0, EscrowAccount, MovedBalance
  <2> DEFINE rest == amount - fee
  <2>2. rest \in Nat /\ b[EscrowAddr] >= rest
    BY <1>1, <2>1, EscrowAccount
  <2>a. balance' = Moved(b, EscrowAddr, recipient, rest)
    BY <1>3
  <2>b. recipient \in Address /\ EscrowAddr # recipient
    BY EscrowAccount
  <2> HIDE DEF b, rest
  <2>3. balance' \in [Address -> Nat] /\ balance'[EscrowAddr] = b[EscrowAddr] - rest
    BY <2>a, <2>b, <2>1, <2>2, EscrowAccount, MovedBalance
  <2> QED
    BY <1>1, <2>1, <2>3, EscrowAccount DEF rest
<1> QED
  BY <1>2, <1>3 DEF ProcessPayment, fee, b
-----------------------------------------------------------------------------

\* After deployment there is no escrow and no ether.
LEMMA EscrowInitInv == FixedMixerEscrowInit => EscrowInv
<1> SUFFICES ASSUME FixedMixerEscrowInit PROVE EscrowInv
  OBVIOUS
<1> USE DEF FixedMixerEscrowInit, RewardPoolInit, AccountsInit, EscrowInit
<1>1. Opened = {} /\ Unsettled = {}
  BY DEF Opened, Unsettled, NoEscrow
<1>2. EscrowTypeOK
  BY AccountsAssumption DEF EscrowTypeOK, AccountsTypeOK, Escrow, NoEscrow
<1>3. EscrowShape
  BY <1>1 DEF EscrowShape, NoEscrow
<1>4. EscrowSolvent
  <2>1. Cardinality(Unsettled) = 0
    BY <1>1, FS_EmptySet
  <2>2. balance[EscrowAddr] = 0
    BY EscrowAccount
  <2> QED
    BY <2>1, <2>2, EscrowAssumption DEF EscrowSolvent
<1> QED
  BY <1>2, <1>3, <1>4 DEF EscrowInv

\* openEscrow: what it writes, and that the id was free before.
LEMMA OpenFacts ==
    ASSUME EscrowInv, NEW s \in User, NEW id \in EscrowId, NEW p1 \in User, NEW p2 \in User,
           NEW d \in 1 .. MaxTime, NEW c \in Leaf, OpenEscrow(s, id, p1, p2, d, c)
    PROVE  /\ escrows' \in [EscrowId -> Escrow]
           /\ id \notin Opened
           /\ escrows'[id].party1 = p1 /\ escrows'[id].party2 = p2
           /\ escrows'[id].amount = Denomination /\ escrows'[id].deadline = d
           /\ ~escrows'[id].released
           /\ \A j \in EscrowId \ {id} : escrows'[j] = escrows[j]
           /\ Opened' = Opened \cup {id}
           /\ Unsettled' = Unsettled \cup {id}
           /\ balance' \in [Address -> Nat]
           /\ balance'[EscrowAddr] = balance[EscrowAddr] + Denomination
<1> DEFINE e == [party1 |-> p1, party2 |-> p2, amount |-> Denomination,
                 deadline |-> d, released |-> FALSE, dataHash |-> NoHash]
<1>1. e \in Escrow
  BY AccountsAssumption, EscrowAssumption DEF Escrow
<1>2. /\ e.party1 = p1 /\ e.party2 = p2 /\ e.amount = Denomination
      /\ e.deadline = d /\ ~e.released
  BY Zenon
<1>3. escrows' = [escrows EXCEPT ![id] = e] /\ escrows[id].party1 = NoAddress
  BY DEF OpenEscrow, MayOpen
<1> HIDE DEF e
<1>4. escrows \in [EscrowId -> Escrow] /\ balance \in [Address -> Nat]
  BY DEF EscrowInv, EscrowTypeOK, AccountsTypeOK
<1>5. /\ escrows' \in [EscrowId -> Escrow]
      /\ escrows'[id] = e
      /\ \A j \in EscrowId \ {id} : escrows'[j] = escrows[j]
  BY <1>1, <1>3, <1>4
<1>6. id \notin Opened /\ Opened' = Opened \cup {id} /\ Unsettled' = Unsettled \cup {id}
  BY <1>2, <1>3, <1>5, EscrowAccount DEF Opened, Unsettled
<1>7. balance' \in [Address -> Nat]
      /\ balance'[EscrowAddr] = balance[EscrowAddr] + Denomination
  <2>1. balance[s] >= Denomination /\ balance' = Moved(balance, s, EscrowAddr, Denomination)
    BY DEF OpenEscrow, MayOpen
  <2>2. s \in Address /\ s # EscrowAddr /\ Denomination \in Nat
    BY EscrowAccount, EscrowAssumption
  <2> QED
    BY <1>4, <2>1, <2>2, EscrowAccount, MovedBalance
<1> QED
  BY <1>2, <1>5, <1>6, <1>7

\* openEscrow adds one unsettled escrow and one denomination.
LEMMA OpenInv ==
    ASSUME EscrowInv, NEW s \in User, NEW id \in EscrowId, NEW p1 \in User, NEW p2 \in User,
           NEW d \in 1 .. MaxTime, NEW c \in Leaf, OpenEscrow(s, id, p1, p2, d, c)
    PROVE  EscrowInv'
<1>1. /\ escrows' \in [EscrowId -> Escrow]
      /\ escrows'[id].party1 = p1 /\ escrows'[id].party2 = p2
      /\ escrows'[id].amount = Denomination
      /\ \A j \in EscrowId \ {id} : escrows'[j] = escrows[j]
      /\ Opened' = Opened \cup {id}
      /\ Unsettled' = Unsettled \cup {id}
      /\ balance' \in [Address -> Nat]
      /\ balance'[EscrowAddr] = balance[EscrowAddr] + Denomination
      /\ id \notin Opened
  BY OpenFacts
<1>2. /\ commitments' = commitments \cup {c}
      /\ escrowRewardPool' = escrowRewardPool /\ signatures' = signatures
      /\ outcome' = outcome /\ now' = now
  BY DEF OpenEscrow
<1>3. EscrowTypeOK'
  BY <1>1, <1>2 DEF EscrowInv, EscrowTypeOK, AccountsTypeOK
<1>4. EscrowShape'
  BY <1>1, <1>2 DEF EscrowInv, EscrowShape
<1>5. EscrowSolvent'
  <2>1. id \notin Unsettled
    BY <1>1 DEF Unsettled
  <2>2. Cardinality(Unsettled') = Cardinality(Unsettled) + 1
    BY <1>1, <2>1, UnsettledFinite, FS_AddElement
  <2>3. Cardinality(Unsettled) \in Nat
    BY UnsettledFinite, FS_CardinalityType
  <2> QED
    BY <1>1, <2>2, <2>3, DepositSteps DEF EscrowInv, EscrowSolvent
<1> QED
  BY <1>3, <1>4, <1>5 DEF EscrowInv

\* A step that settles an unsettled escrow and sends its denomination away.
Settles(id, o) ==
    /\ id \in Unsettled
    /\ escrows' = Closed(id)
    /\ balance' \in [Address -> Nat]
    /\ balance'[EscrowAddr] = balance[EscrowAddr] - Denomination
    /\ outcome' = [outcome EXCEPT ![id] = o]
    /\ UNCHANGED <<commitments, escrowRewardPool, signatures, now>>

\* Settling takes one unsettled escrow and one denomination away.
LEMMA SettlesInv ==
    ASSUME EscrowInv, NEW id \in EscrowId, NEW o \in {"paid", "refunded"}, Settles(id, o)
    PROVE  EscrowInv'
<1>0. escrows \in [EscrowId -> Escrow] /\ escrows' = Closed(id)
  BY DEF EscrowInv, EscrowTypeOK, Settles
<1>1. /\ escrows' \in [EscrowId -> Escrow]
      /\ \A j \in EscrowId : /\ escrows'[j].party1 = escrows[j].party1
                             /\ escrows'[j].party2 = escrows[j].party2
      /\ \A j \in EscrowId \ {id} : escrows'[j] = escrows[j]
      /\ Opened' = Opened
      /\ Unsettled' = Unsettled \ {id}
  BY <1>0, ClosedFacts
<1>2. /\ id \in Unsettled /\ id \in Opened
      /\ balance' \in [Address -> Nat]
      /\ balance'[EscrowAddr] = balance[EscrowAddr] - Denomination
      /\ outcome' = [outcome EXCEPT ![id] = o]
      /\ commitments' = commitments /\ escrowRewardPool' = escrowRewardPool
      /\ signatures' = signatures /\ now' = now
  BY DEF Settles, Unsettled
<1>3. EscrowTypeOK'
  BY <1>1, <1>2 DEF EscrowInv, EscrowTypeOK, AccountsTypeOK
<1>4. EscrowShape'
  <2>1. outcome \in [EscrowId -> {"none", "paid", "refunded"}]
    BY DEF EscrowInv, EscrowTypeOK
  <2> QED
    BY <1>1, <1>2, <2>1 DEF EscrowInv, EscrowShape
<1>5. EscrowSolvent'
  <2>1. Cardinality(Unsettled') = Cardinality(Unsettled) - 1
    BY <1>1, <1>2, UnsettledFinite, FS_RemoveElement
  <2>2. Cardinality(Unsettled) \in Nat /\ Cardinality(Unsettled) > 0
    <3>1. Cardinality(Unsettled) \in Nat
      BY UnsettledFinite, FS_CardinalityType
    <3>2. Cardinality(Unsettled) # 0
      BY <1>2, UnsettledFinite, FS_EmptySet
    <3> QED
      BY <3>1, <3>2
  <2> QED
    BY <1>2, <2>1, <2>2, DepositSteps DEF EscrowInv, EscrowSolvent
<1> QED
  BY <1>3, <1>4, <1>5 DEF EscrowInv

\* confirm: only a party of an escrow may call it, so the escrow is open.
LEMMA ConfirmSettles ==
    ASSUME EscrowInv, NEW s \in User, NEW id \in EscrowId, NEW p1 \in User, NEW p2 \in User,
           Confirm(s, id, p1, p2)
    PROVE  Settles(id, "paid")
<1>1. id \in Unsettled /\ escrows[id].party2 \in User /\ escrows[id].amount = Denomination
  <2>1. s \in {escrows[id].party1, escrows[id].party2} /\ ~escrows[id].released
    BY DEF Confirm, OnlyParties
  <2>2. id \in Opened
    BY <2>1, EscrowAccount DEF EscrowInv, EscrowShape, Opened
  <2>3. id \in Unsettled
    BY <2>1, <2>2 DEF Unsettled
  <2> QED
    BY <2>2, <2>3 DEF EscrowInv, EscrowShape
<1>2. /\ balance[EscrowAddr] >= escrows[id].amount
      /\ ProcessPayment(escrows[id].amount, p2, escrows[id].party2)
      /\ escrows' = Closed(id) /\ outcome' = [outcome EXCEPT ![id] = "paid"]
      /\ UNCHANGED <<commitments, escrowRewardPool, signatures, now>>
  BY DEF Confirm
<1>3. /\ balance \in [Address -> Nat]
      /\ escrowRewardPool \in {NoAddress, RewardPoolAddr}
      /\ escrows[id].amount \in Nat
  BY <1>1, EscrowAssumption DEF EscrowInv, EscrowTypeOK, AccountsTypeOK
<1>4. /\ balance' \in [Address -> Nat]
      /\ balance'[EscrowAddr] = balance[EscrowAddr] - escrows[id].amount
  BY <1>1, <1>2, <1>3, PaymentOut
<1> QED
  BY <1>1, <1>2, <1>4 DEF Settles

\* refund of an escrow that exists: it pays the whole deposit back.
LEMMA RefundSettles ==
    ASSUME EscrowInv, NEW id \in Opened, Refund(id)
    PROVE  Settles(id, "refunded")
<1>0. id \in EscrowId
  BY DEF Opened
<1>1. id \in Unsettled /\ escrows[id].party1 \in User /\ escrows[id].amount = Denomination
  <2>1. id \in Unsettled
    BY DEF Refund, MayRefund, Unsettled
  <2> QED
    BY <1>0, <2>1 DEF EscrowInv, EscrowShape
<1>2. /\ balance[EscrowAddr] >= Denomination
      /\ balance' = Moved(balance, EscrowAddr, escrows[id].party1, Denomination)
      /\ escrows' = Closed(id) /\ outcome' = [outcome EXCEPT ![id] = "refunded"]
      /\ UNCHANGED <<commitments, escrowRewardPool, signatures, now>>
  BY <1>1, EscrowAccount DEF Refund
<1>3. balance \in [Address -> Nat] /\ Denomination \in Nat
  BY EscrowAssumption DEF EscrowInv, EscrowTypeOK, AccountsTypeOK
<1>4. escrows[id].party1 \in Address /\ escrows[id].party1 # EscrowAddr
  BY <1>1, EscrowAccount
<1>5. /\ balance' \in [Address -> Nat]
      /\ balance'[EscrowAddr] = balance[EscrowAddr] - Denomination
  BY <1>2, <1>3, <1>4, EscrowAccount, MovedBalance
<1> QED
  BY <1>1, <1>2, <1>5 DEF Settles

\* refund of an id that does not exist: no escrow and no ether is touched.
LEMMA RefundOfNothing ==
    ASSUME EscrowInv, NEW id \in EscrowId \ Opened, Refund(id)
    PROVE  /\ Opened' = Opened /\ Unsettled' = Unsettled /\ balance' = balance
           /\ \A j \in Opened : escrows'[j] = escrows[j] /\ outcome'[j] = outcome[j]
           /\ now' = now
           /\ EscrowInv'
<1>0. escrows \in [EscrowId -> Escrow] /\ escrows' = Closed(id)
  BY DEF EscrowInv, EscrowTypeOK, Refund
<1>1. /\ escrows' \in [EscrowId -> Escrow] /\ escrows'[id].amount = 0
      /\ \A j \in EscrowId : /\ escrows'[j].party1 = escrows[j].party1
                             /\ escrows'[j].party2 = escrows[j].party2
      /\ \A j \in EscrowId \ {id} : escrows'[j] = escrows[j]
      /\ Opened' = Opened
      /\ Unsettled' = Unsettled \ {id}
  BY <1>0, ClosedFacts
<1>2. Unsettled' = Unsettled
  BY <1>1 DEF Unsettled
<1>3. /\ balance' = balance /\ outcome' = [outcome EXCEPT ![id] = "refunded"]
      /\ commitments' = commitments /\ escrowRewardPool' = escrowRewardPool
      /\ signatures' = signatures /\ now' = now
  BY DEF Refund, Opened
<1>4. outcome \in [EscrowId -> {"none", "paid", "refunded"}]
  BY DEF EscrowInv, EscrowTypeOK
<1>5. Opened \subseteq EscrowId
  BY DEF Opened
<1>6. EscrowTypeOK'
  BY <1>1, <1>3, <1>4 DEF EscrowInv, EscrowTypeOK, AccountsTypeOK
<1>7. EscrowShape'
  BY <1>1, <1>2, <1>3, <1>4 DEF EscrowInv, EscrowShape
<1>8. EscrowSolvent'
  BY <1>2, <1>3 DEF EscrowInv, EscrowSolvent
<1> QED
  BY <1>1, <1>2, <1>3, <1>4, <1>5, <1>6, <1>7, <1>8 DEF EscrowInv

\* A step that opens and settles nothing and moves no ether.
Quiet ==
    /\ escrows' \in [EscrowId -> Escrow]
    /\ \A j \in EscrowId : /\ escrows'[j].party1 = escrows[j].party1
                           /\ escrows'[j].party2 = escrows[j].party2
                           /\ escrows'[j].amount = escrows[j].amount
                           /\ escrows'[j].deadline = escrows[j].deadline
                           /\ escrows'[j].released = escrows[j].released
    /\ balance' = balance /\ outcome' = outcome
    /\ now' = now \/ (now < MaxTime /\ now' = now + 1)

\* setRewardPool, signing, the environment and stuttering are quiet.
LEMMA OtherStepsQuiet ==
    ASSUME EscrowInv,
           \/ SetEscrowRewardPool
           \/ \E u \in User, id \in EscrowId : Sign(u, id)
           \/ EscrowEnvironment
           \/ UNCHANGED FixedMixerEscrowVars
    PROVE  Quiet /\ EscrowTypeOK'
<1>0. escrows \in [EscrowId -> Escrow] /\ EscrowTypeOK /\ AccountsTypeOK
  BY DEF EscrowInv, EscrowTypeOK
<1>1. CASE SetEscrowRewardPool
  BY <1>0, <1>1 DEF SetEscrowRewardPool, Quiet, EscrowTypeOK, AccountsTypeOK, chainVars
<1>2. ASSUME NEW u \in User, NEW id \in EscrowId, Sign(u, id) PROVE Quiet /\ EscrowTypeOK'
  <2>1. /\ escrows' = escrows /\ balance' = balance /\ now' = now /\ outcome' = outcome
        /\ commitments' = commitments /\ escrowRewardPool' = escrowRewardPool
        /\ escrows[id].dataHash # NoHash
        /\ signatures' = signatures \cup {<<u, id, escrows[id].dataHash>>}
    BY <1>2 DEF Sign, chainVars
  <2>2. escrows[id].dataHash \in DataHash
    BY <1>0, <2>1 DEF Escrow
  <2> QED
    BY <1>0, <2>1, <2>2 DEF Quiet, EscrowTypeOK, AccountsTypeOK
<1>3. CASE EscrowEnvironment
  <2>1. /\ escrows' = escrows /\ balance' = balance /\ outcome' = outcome
        /\ commitments' = commitments /\ escrowRewardPool' = escrowRewardPool
        /\ signatures' = signatures
        /\ now' = now \/ (now < MaxTime /\ now' = now + 1)
    BY <1>3 DEF EscrowEnvironment, escrowVars, Mine, SetFixedMixerEscrow, chainVars
  <2> QED
    BY <1>0, <2>1, AccountsAssumption DEF Quiet, EscrowTypeOK, AccountsTypeOK
<1>4. CASE UNCHANGED FixedMixerEscrowVars
  BY <1>0, <1>4 DEF FixedMixerEscrowVars, RewardPoolVars, chainVars, escrowVars, Quiet,
                    EscrowTypeOK, AccountsTypeOK
<1> QED
  BY <1>1, <1>2, <1>3, <1>4

\* setDataHash changes no other field.
LEMMA SetDataHashQuiet ==
    ASSUME EscrowInv, NEW s \in User, NEW id \in EscrowId, NEW h \in DataHash \cup {NoHash},
           SetDataHash(s, id, h)
    PROVE  Quiet /\ EscrowTypeOK'
<1>0. escrows \in [EscrowId -> Escrow] /\ EscrowTypeOK
  BY DEF EscrowInv, EscrowTypeOK
<1> DEFINE e == escrows[id]
           c == [e EXCEPT !.dataHash = h]
<1>1. e \in Escrow
  BY <1>0
<1>2. c \in Escrow
  BY <1>1 DEF Escrow
<1>3. /\ c.party1 = e.party1 /\ c.party2 = e.party2 /\ c.amount = e.amount
      /\ c.deadline = e.deadline /\ c.released = e.released
  BY <1>1 DEF Escrow
<1>4. escrows' = [escrows EXCEPT ![id] = c]
  BY DEF SetDataHash
<1>5. /\ balance' = balance /\ now' = now /\ outcome' = outcome
      /\ commitments' = commitments /\ escrowRewardPool' = escrowRewardPool
      /\ signatures' = signatures
  BY DEF SetDataHash, chainVars
<1> HIDE DEF c
<1> QED
  BY <1>0, <1>2, <1>3, <1>4, <1>5 DEF Quiet, EscrowTypeOK, AccountsTypeOK

\* Quiet steps keep the invariant and the sets it speaks of.
LEMMA QuietInv ==
    ASSUME EscrowInv, Quiet, EscrowTypeOK'
    PROVE  EscrowInv' /\ Opened' = Opened /\ Unsettled' = Unsettled
<1>1. Opened' = Opened
  BY DEF Quiet, Opened
<1>2. Unsettled' = Unsettled
  BY <1>1 DEF Quiet, Opened, Unsettled
<1>3. EscrowShape'
  BY <1>1, <1>2 DEF EscrowInv, EscrowShape, Quiet
<1>4. EscrowSolvent'
  BY <1>2 DEF EscrowInv, EscrowSolvent, Quiet
<1> QED
  BY <1>1, <1>2, <1>3, <1>4 DEF EscrowInv
-----------------------------------------------------------------------------

\* Every step of the contract and its environment is one of five kinds.
LEMMA StepKinds ==
    ASSUME EscrowInv, [FixedMixerEscrowNext]_FixedMixerEscrowVars
    PROVE  \/ \E s, p1, p2 \in User, id \in EscrowId, d \in 1 .. MaxTime, c \in Leaf :
                 OpenEscrow(s, id, p1, p2, d, c)
           \/ \E s, p1, p2 \in User, id \in EscrowId : Confirm(s, id, p1, p2)
           \/ \E id \in Opened : Refund(id)
           \/ \E id \in EscrowId \ Opened : Refund(id)
           \/ Quiet /\ EscrowTypeOK'
<1>1. CASE \/ SetEscrowRewardPool
           \/ \E u \in User, id \in EscrowId : Sign(u, id)
           \/ EscrowEnvironment
           \/ UNCHANGED FixedMixerEscrowVars
  BY <1>1, OtherStepsQuiet
<1>2. CASE \E s \in User, id \in EscrowId, h \in DataHash \cup {NoHash} : SetDataHash(s, id, h)
  BY <1>2, SetDataHashQuiet
<1>3. CASE \E id \in EscrowId : Refund(id)
  BY <1>3
<1> QED
  BY <1>1, <1>2, <1>3 DEF FixedMixerEscrowNext, EscrowNext

\* The invariant holds in every reachable state.
THEOREM EscrowInvariant == FixedMixerEscrowSpec => []EscrowInv
<1>1. EscrowInv /\ [FixedMixerEscrowNext]_FixedMixerEscrowVars => EscrowInv'
  <2> SUFFICES ASSUME EscrowInv, [FixedMixerEscrowNext]_FixedMixerEscrowVars
               PROVE  EscrowInv'
    OBVIOUS
  <2>1. CASE \E s, p1, p2 \in User, id \in EscrowId, d \in 1 .. MaxTime, c \in Leaf :
                OpenEscrow(s, id, p1, p2, d, c)
    BY <2>1, OpenInv
  <2>2. CASE \E s, p1, p2 \in User, id \in EscrowId : Confirm(s, id, p1, p2)
    BY <2>2, ConfirmSettles, SettlesInv
  <2>3. CASE \E id \in Opened : Refund(id)
    BY <2>3, RefundSettles, SettlesInv DEF Opened
  <2>4. CASE \E id \in EscrowId \ Opened : Refund(id)
    BY <2>4, RefundOfNothing
  <2>5. CASE Quiet /\ EscrowTypeOK'
    BY <2>5, QuietInv
  <2> QED
    BY <2>1, <2>2, <2>3, <2>4, <2>5, StepKinds
<1> QED
  BY <1>1, EscrowInitInv, PTL DEF FixedMixerEscrowSpec

\* Main result: whatever parties, deadlines, fees and races there are, the
\* contract holds exactly one denomination for each unsettled escrow.
THEOREM EscrowSolventAlways == FixedMixerEscrowSpec => []EscrowSolvent
BY EscrowInvariant, PTL DEF EscrowInv
-----------------------------------------------------------------------------
(* The refinement of EscrowPromise.                                        *)

\* The abstract status of one escrow.
LEMMA StatusOf ==
    /\ EscrowStatus = [id \in EscrowId |-> EscrowStatus[id]]
    /\ \A id \in EscrowId :
          /\ id \notin Opened => EscrowStatus[id] = "none"
          /\ id \in Unsettled => EscrowStatus[id] = "open"
          /\ id \in Opened \ Unsettled => EscrowStatus[id] = outcome[id]
BY DEF EscrowStatus, Unsettled, Opened

\* After deployment every abstract escrow is unopened.
LEMMA InitRefines == FixedMixerEscrowInit => Promise!PromiseInit
<1> SUFFICES ASSUME FixedMixerEscrowInit PROVE Promise!PromiseInit
  OBVIOUS
<1>1. Opened = {}
  BY DEF Opened, NoEscrow, FixedMixerEscrowInit, EscrowInit
<1>2. balance[EscrowAddr] = 0
  BY EscrowAccount DEF FixedMixerEscrowInit, RewardPoolInit, AccountsInit
<1>3. EscrowStatus = [id \in EscrowId |-> "none"] /\ Overdue = {}
  BY <1>1 DEF EscrowStatus, Overdue
<1> QED
  BY <1>2, <1>3 DEF Promise!PromiseInit

\* openEscrow opens the abstract escrow, and its deadline is not over.
LEMMA OpenRefines ==
    ASSUME EscrowInv, NEW s \in User, NEW id \in EscrowId, NEW p1 \in User, NEW p2 \in User,
           NEW d \in 1 .. MaxTime, NEW c \in Leaf, OpenEscrow(s, id, p1, p2, d, c)
    PROVE  Promise!Open(id)
<1>1. /\ id \notin Opened
      /\ escrows'[id].deadline = d /\ ~escrows'[id].released
      /\ \A j \in EscrowId \ {id} : escrows'[j] = escrows[j]
      /\ Opened' = Opened \cup {id}
      /\ balance'[EscrowAddr] = balance[EscrowAddr] + Denomination
  BY OpenFacts
<1>2. outcome' = outcome /\ now' = now /\ d > now
  BY DEF OpenEscrow, MayOpen
<1>3. now \in Nat /\ d \in Nat /\ Opened \subseteq EscrowId
  BY AccountsAssumption DEF EscrowInv, EscrowTypeOK, AccountsTypeOK, Opened
<1>4. EscrowStatus[id] = "none" /\ id \notin Overdue
  BY <1>1 DEF EscrowStatus, Overdue
<1>5. EscrowStatus' = [EscrowStatus EXCEPT ![id] = "open"]
  BY <1>1, <1>2 DEF EscrowStatus
<1>6. Overdue' = Overdue
  BY <1>1, <1>2, <1>3 DEF Overdue
<1> QED
  BY <1>1, <1>4, <1>5, <1>6 DEF Promise!Open

\* A settling step changes the abstract status and takes the deposit out.
LEMMA SettlesRefines ==
    ASSUME EscrowInv, NEW id \in EscrowId, NEW o \in {"paid", "refunded"}, Settles(id, o)
    PROVE  /\ EscrowStatus[id] = "open"
           /\ EscrowStatus' = [EscrowStatus EXCEPT ![id] = o]
           /\ Overdue' = Overdue
           /\ balance'[EscrowAddr] = balance[EscrowAddr] - Denomination
<1>0. /\ escrows \in [EscrowId -> Escrow] /\ escrows' = Closed(id)
      /\ outcome \in [EscrowId -> {"none", "paid", "refunded"}]
  BY DEF EscrowInv, EscrowTypeOK, Settles
<1>1. /\ escrows'[id].released
      /\ \A j \in EscrowId : escrows'[j].deadline = escrows[j].deadline
      /\ \A j \in EscrowId \ {id} : escrows'[j] = escrows[j]
      /\ Opened' = Opened
  BY <1>0, ClosedFacts
<1>2. /\ id \in Unsettled /\ id \in Opened
      /\ outcome' = [outcome EXCEPT ![id] = o] /\ now' = now
      /\ balance'[EscrowAddr] = balance[EscrowAddr] - Denomination
  BY DEF Settles, Unsettled
<1>3. EscrowStatus[id] = "open"
  BY <1>2, StatusOf
<1>4. EscrowStatus' = [EscrowStatus EXCEPT ![id] = o]
  BY <1>0, <1>1, <1>2 DEF EscrowStatus
<1>5. Overdue' = Overdue
  BY <1>1, <1>2 DEF Overdue, Opened
<1> QED
  BY <1>2, <1>3, <1>4, <1>5

\* A quiet step may let deadlines pass, of escrows that exist, and no more.
LEMMA QuietRefines ==
    ASSUME EscrowInv, Quiet, EscrowTypeOK'
    PROVE  \E ids \in SUBSET EscrowId : Promise!Expire(ids)
<1>1. Opened' = Opened /\ Unsettled' = Unsettled /\ Opened \subseteq EscrowId
  BY QuietInv DEF Opened
<1>2. Overdue' \in SUBSET EscrowId /\ Overdue' \subseteq Opened
  BY <1>1 DEF Overdue
<1>3. \A id \in Overdue' : EscrowStatus[id] # "none"
  BY <1>1, <1>2, StatusOf DEF EscrowInv, EscrowShape
<1>4. Overdue' = Overdue \cup Overdue'
  <2>1. now \in Nat /\ now' \in Nat /\ now' >= now
    BY AccountsAssumption DEF EscrowInv, EscrowTypeOK, AccountsTypeOK, Quiet
  <2>2. \A j \in EscrowId : escrows[j].deadline \in Nat /\ escrows'[j].deadline = escrows[j].deadline
    BY AccountsAssumption DEF EscrowInv, EscrowTypeOK, Escrow, Quiet
  <2> QED
    BY <1>1, <2>1, <2>2 DEF Overdue
<1>5. EscrowStatus' = EscrowStatus
  BY <1>1 DEF EscrowStatus, Quiet
<1>6. balance'[EscrowAddr] = balance[EscrowAddr]
  BY DEF Quiet
<1>7. Promise!Expire(Overdue')
  BY <1>3, <1>4, <1>5, <1>6 DEF Promise!Expire
<1> QED
  BY <1>2, <1>7

\* Every step is a step of the abstract escrow or a stutter.
LEMMA StepRefines ==
    ASSUME EscrowInv, [FixedMixerEscrowNext]_FixedMixerEscrowVars
    PROVE  [Promise!PromiseNext]_(Promise!promiseVars)
<1>1. CASE \E s, p1, p2 \in User, id \in EscrowId, d \in 1 .. MaxTime, c \in Leaf :
              OpenEscrow(s, id, p1, p2, d, c)
  BY <1>1, OpenRefines DEF Promise!PromiseNext
<1>2. CASE \E s, p1, p2 \in User, id \in EscrowId : Confirm(s, id, p1, p2)
  <2>1. PICK id \in EscrowId : Settles(id, "paid")
    BY <1>2, ConfirmSettles
  <2>2. Promise!Pay(id)
    BY <2>1, SettlesRefines DEF Promise!Pay
  <2> QED
    BY <2>2 DEF Promise!PromiseNext
<1>3. CASE \E id \in Opened : Refund(id)
  <2>1. PICK id \in Opened : Refund(id)
    BY <1>3
  <2>2. id \in EscrowId /\ id \in Overdue
    BY <2>1 DEF Opened, Overdue, Refund, MayRefund
  <2>3. Settles(id, "refunded")
    BY <2>1, RefundSettles
  <2>4. Promise!PayBack(id)
    BY <2>2, <2>3, SettlesRefines DEF Promise!PayBack
  <2> QED
    BY <2>2, <2>4 DEF Promise!PromiseNext
<1>4. CASE \E id \in EscrowId \ Opened : Refund(id)
  <2>1. /\ Opened' = Opened /\ balance' = balance /\ now' = now
        /\ \A j \in Opened : escrows'[j] = escrows[j] /\ outcome'[j] = outcome[j]
    BY <1>4, RefundOfNothing
  <2>2. EscrowStatus' = EscrowStatus
    BY <2>1 DEF EscrowStatus
  <2>3. Overdue' = Overdue
    BY <2>1 DEF Overdue
  <2> QED
    BY <2>1, <2>2, <2>3 DEF Promise!promiseVars
<1>5. CASE Quiet /\ EscrowTypeOK'
  BY <1>5, QuietRefines DEF Promise!PromiseNext
<1> QED
  BY <1>1, <1>2, <1>3, <1>4, <1>5, StepKinds

\* Main result: FixedMixerEscrow implements the abstract escrow.  An id is
\* opened once, and its deposit leaves once: paid, or refunded when overdue.
THEOREM EscrowRefinement == FixedMixerEscrowSpec => KeepsPromise
<1>1. EscrowInv /\ [FixedMixerEscrowNext]_FixedMixerEscrowVars
        => [Promise!PromiseNext]_(Promise!promiseVars)
  BY StepRefines
<1> QED
  BY <1>1, InitRefines, EscrowInvariant, PTL
     DEF FixedMixerEscrowSpec, KeepsPromise, Promise!PromiseSpec
-----------------------------------------------------------------------------
(* The deposits and the Merkle tree.                                       *)

\* Only openEscrow touches the tree and the commitments.
LEMMA TreeUntouched ==
    ASSUME [FixedMixerEscrowNext]_FixedMixerEscrowVars,
           ~ \E s, p1, p2 \in User, id \in EscrowId, d \in 1 .. MaxTime, c \in Leaf :
                OpenEscrow(s, id, p1, p2, d, c)
    PROVE  UNCHANGED merkleVars /\ commitments' = commitments
<1>1. CASE SetEscrowRewardPool
  BY <1>1 DEF SetEscrowRewardPool
<1>2. CASE \E s, p1, p2 \in User, id \in EscrowId : Confirm(s, id, p1, p2)
  BY <1>2 DEF Confirm
<1>3. CASE \E id \in EscrowId : Refund(id)
  BY <1>3 DEF Refund
<1>4. CASE \E s \in User, id \in EscrowId, h \in DataHash \cup {NoHash} : SetDataHash(s, id, h)
  BY <1>4 DEF SetDataHash
<1>5. CASE \E u \in User, id \in EscrowId : Sign(u, id)
  BY <1>5 DEF Sign
<1>6. CASE EscrowEnvironment
  BY <1>6 DEF EscrowEnvironment, escrowVars
<1>7. CASE UNCHANGED FixedMixerEscrowVars
  BY <1>7 DEF FixedMixerEscrowVars, escrowVars
<1> QED
  BY <1>1, <1>2, <1>3, <1>4, <1>5, <1>6, <1>7 DEF FixedMixerEscrowNext, EscrowNext

\* Every step of the contract is a step of its tree or leaves the tree alone.
LEMMA TreeSteps ==
    ASSUME [FixedMixerEscrowNext]_FixedMixerEscrowVars
    PROVE  [MerkleNext]_merkleVars
BY TreeUntouched DEF OpenEscrow, MerkleNext

\* The tree inside the contract is the tree of MerkleTreeWithHistory.
THEOREM EscrowImplementsTree == FixedMixerEscrowSpec => MerkleSpec
<1>1. FixedMixerEscrowInit => MerkleInit
  BY DEF FixedMixerEscrowInit
<1>2. [FixedMixerEscrowNext]_FixedMixerEscrowVars => [MerkleNext]_merkleVars
  BY TreeSteps
<1> QED
  BY <1>1, <1>2, PTL DEF FixedMixerEscrowSpec, MerkleSpec

\* The root that getLastRoot of the deployed contract gives is the root of the
\* complete tree over all deposits, however deposits and settlements interleave.
THEOREM EscrowRootCorrect == FixedMixerEscrowSpec => []MerkleInv
BY EscrowImplementsTree, MerkleInvAlways, PTL

\* Nothing but openEscrow opens an escrow.
LEMMA OpenedUntouched ==
    ASSUME EscrowInv, [FixedMixerEscrowNext]_FixedMixerEscrowVars,
           ~ \E s, p1, p2 \in User, id \in EscrowId, d \in 1 .. MaxTime, c \in Leaf :
                OpenEscrow(s, id, p1, p2, d, c)
    PROVE  Opened' = Opened
<1>0. escrows \in [EscrowId -> Escrow]
  BY DEF EscrowInv, EscrowTypeOK
<1>1. ASSUME NEW id \in EscrowId, escrows' = Closed(id) PROVE Opened' = Opened
  BY <1>0, <1>1, ClosedFacts
<1>2. CASE \E s, p1, p2 \in User, id \in EscrowId : Confirm(s, id, p1, p2)
  BY <1>1, <1>2 DEF Confirm
<1>3. CASE \E id \in EscrowId : Refund(id)
  BY <1>1, <1>3 DEF Refund
<1>4. CASE Quiet /\ EscrowTypeOK'
  BY <1>4, QuietInv
<1>5. Opened \subseteq EscrowId
  BY DEF Opened
<1> QED
  BY <1>2, <1>3, <1>4, <1>5, StepKinds

\* An appended leaf is one more element of the range.
LEMMA RangeAppend ==
    ASSUME NEW E, NEW s \in Seq(E), NEW e \in E
    PROVE  Range(Append(s, e)) = Range(s) \cup {e}
<1>1. /\ DOMAIN Append(s, e) = 1 .. Len(s) + 1 /\ DOMAIN s = 1 .. Len(s) /\ Len(s) \in Nat
      /\ \A i \in 1 .. Len(s) : Append(s, e)[i] = s[i]
      /\ Append(s, e)[Len(s) + 1] = e
  OBVIOUS
<1>2. 1 .. Len(s) + 1 = (1 .. Len(s)) \cup {Len(s) + 1}
  BY <1>1
<1> QED
  BY <1>1, <1>2 DEF Range

\* The inductive part of the correspondence.
DepositsIInv == DepositsMatchTree /\ IsFiniteSet(commitments)

\* openEscrow adds one commitment, one leaf and one opened escrow.
LEMMA OpenDeposits ==
    ASSUME EscrowInv, MerkleIInv, DepositsIInv,
           NEW s \in User, NEW id \in EscrowId, NEW p1 \in User, NEW p2 \in User,
           NEW d \in 1 .. MaxTime, NEW c \in Leaf, OpenEscrow(s, id, p1, p2, d, c)
    PROVE  DepositsIInv'
<1>1. /\ c \notin commitments /\ c \in FieldElement /\ commitments' = commitments \cup {c}
      /\ leaves' = Append(leaves, c) /\ nextIndex' = nextIndex + 1
  BY DEF OpenEscrow, MayOpen, Insert, CanInsert
<1>2. leaves \in Seq(FieldElement) /\ nextIndex = Len(leaves) /\ nextIndex \in Nat
  BY DEF MerkleIInv, MerkleTypeOK
<1>3. commitments' = Range(leaves')
  BY <1>1, <1>2, RangeAppend DEF DepositsIInv, DepositsMatchTree
<1>4. Cardinality(commitments') = nextIndex' /\ IsFiniteSet(commitments')
  BY <1>1, FS_AddElement DEF DepositsIInv, DepositsMatchTree
<1>5. Cardinality(Opened') = nextIndex'
  <2>1. id \notin Opened /\ Opened' = Opened \cup {id}
    BY OpenFacts
  <2>2. IsFiniteSet(Opened)
    <3>1. Opened \in SUBSET EscrowId
      BY DEF Opened
    <3> QED
      BY <3>1, EscrowAssumption, FS_Subset
  <2> QED
    BY <1>1, <2>1, <2>2, FS_AddElement DEF DepositsIInv, DepositsMatchTree
<1> QED
  BY <1>3, <1>4, <1>5 DEF DepositsIInv, DepositsMatchTree

\* Main result: for every escrow ever opened the tree holds one leaf, its
\* commitment, and no commitment is in the tree twice.
THEOREM DepositsMatchTreeAlways == FixedMixerEscrowSpec => []DepositsMatchTree
<1>1. FixedMixerEscrowInit => DepositsIInv
  <2> SUFFICES ASSUME FixedMixerEscrowInit PROVE DepositsIInv
    OBVIOUS
  <2>1. commitments = {} /\ leaves = <<>> /\ nextIndex = 0
    BY DEF FixedMixerEscrowInit, EscrowInit, MerkleInit
  <2>2. Opened = {}
    BY DEF FixedMixerEscrowInit, EscrowInit, Opened, NoEscrow
  <2>3. Range(leaves) = {}
    BY <2>1 DEF Range
  <2> QED
    BY <2>1, <2>2, <2>3, FS_EmptySet DEF DepositsIInv, DepositsMatchTree
<1>2. EscrowInv /\ MerkleIInv /\ DepositsIInv /\ [FixedMixerEscrowNext]_FixedMixerEscrowVars
        => DepositsIInv'
  <2> SUFFICES ASSUME EscrowInv, MerkleIInv, DepositsIInv,
                      [FixedMixerEscrowNext]_FixedMixerEscrowVars
               PROVE  DepositsIInv'
    OBVIOUS
  <2>1. CASE \E s, p1, p2 \in User, id \in EscrowId, d \in 1 .. MaxTime, c \in Leaf :
                OpenEscrow(s, id, p1, p2, d, c)
    BY <2>1, OpenDeposits
  <2>2. CASE ~ \E s, p1, p2 \in User, id \in EscrowId, d \in 1 .. MaxTime, c \in Leaf :
                  OpenEscrow(s, id, p1, p2, d, c)
    <3>1. UNCHANGED merkleVars /\ commitments' = commitments /\ Opened' = Opened
      BY <2>2, TreeUntouched, OpenedUntouched
    <3> QED
      BY <3>1 DEF merkleVars, DepositsIInv, DepositsMatchTree
  <2> QED
    BY <2>1, <2>2
<1>3. FixedMixerEscrowSpec => []MerkleIInv
  BY EscrowImplementsTree, MerkleInvariant, PTL
<1>4. DepositsIInv => DepositsMatchTree
  BY DEF DepositsIInv
<1> QED
  BY <1>1, <1>2, <1>3, <1>4, EscrowInvariant, PTL DEF FixedMixerEscrowSpec

-----------------------------------------------------------------------------
(* The terms of an escrow.                                                 *)

\* What EscrowTermsFixed says of one step.
TermsKept ==
    \A id \in Opened :
        /\ \A f \in {"party1", "party2", "deadline"} : escrows'[id][f] = escrows[id][f]
        /\ escrows[id].dataHash # NoHash => escrows'[id].dataHash = escrows[id].dataHash

\* The three fields by their names.
LEMMA TermsByName ==
    ASSUME \A id \in Opened :
              /\ escrows'[id].party1 = escrows[id].party1
              /\ escrows'[id].party2 = escrows[id].party2
              /\ escrows'[id].deadline = escrows[id].deadline
              /\ escrows[id].dataHash # NoHash => escrows'[id].dataHash = escrows[id].dataHash
    PROVE  TermsKept
BY DEF TermsKept

\* No step rewrites the terms of an escrow that is open or settled.
LEMMA TermsStep ==
    ASSUME EscrowInv, [FixedMixerEscrowNext]_FixedMixerEscrowVars
    PROVE  TermsKept
<1>0. escrows \in [EscrowId -> Escrow] /\ Opened \subseteq EscrowId
  BY DEF EscrowInv, EscrowTypeOK, Opened
<1>1. ASSUME NEW s \in User, NEW id \in EscrowId, NEW p1 \in User, NEW p2 \in User,
             NEW d \in 1 .. MaxTime, NEW c \in Leaf, OpenEscrow(s, id, p1, p2, d, c)
      PROVE  TermsKept
  <2>1. id \notin Opened /\ \A j \in EscrowId \ {id} : escrows'[j] = escrows[j]
    BY <1>1, OpenFacts
  <2>2. \A j \in Opened : escrows'[j] = escrows[j]
    BY <1>0, <2>1
  <2> QED
    BY <2>2, TermsByName
<1>2. ASSUME NEW id \in EscrowId, escrows' = Closed(id) PROVE TermsKept
  <2>1. \A j \in EscrowId : /\ escrows'[j].party1 = escrows[j].party1
                            /\ escrows'[j].party2 = escrows[j].party2
                            /\ escrows'[j].deadline = escrows[j].deadline
                            /\ escrows'[j].dataHash = escrows[j].dataHash
    BY <1>0, <1>2, ClosedFacts
  <2> QED
    BY <1>0, <2>1, TermsByName
<1>3. ASSUME NEW s \in User, NEW id \in EscrowId, NEW h \in DataHash \cup {NoHash},
             SetDataHash(s, id, h)
      PROVE  TermsKept
  <2>1. \A j \in EscrowId : /\ escrows'[j].party1 = escrows[j].party1
                            /\ escrows'[j].party2 = escrows[j].party2
                            /\ escrows'[j].deadline = escrows[j].deadline
    BY <1>3, SetDataHashQuiet DEF Quiet
  <2>2. escrows[id].dataHash = NoHash /\ escrows' = [escrows EXCEPT ![id].dataHash = h]
    BY <1>3 DEF SetDataHash
  <2>3. \A j \in EscrowId \ {id} : escrows'[j] = escrows[j]
    BY <1>0, <2>2
  <2>4. \A j \in EscrowId :
          escrows[j].dataHash # NoHash => escrows'[j].dataHash = escrows[j].dataHash
    BY <2>2, <2>3
  <2> QED
    BY <1>0, <2>1, <2>4, TermsByName
<1>4. CASE escrows' = escrows
  BY <1>4 DEF TermsKept
<1>5. CASE \/ SetEscrowRewardPool
           \/ \E u \in User, id \in EscrowId : Sign(u, id)
           \/ EscrowEnvironment
           \/ UNCHANGED FixedMixerEscrowVars
  <2>1. escrows' = escrows
    BY <1>5 DEF SetEscrowRewardPool, Sign, EscrowEnvironment, FixedMixerEscrowVars, escrowVars
  <2> QED
    BY <1>4, <2>1
<1>6. CASE \E s, p1, p2 \in User, id \in EscrowId : Confirm(s, id, p1, p2)
  BY <1>2, <1>6 DEF Confirm
<1>7. CASE \E id \in EscrowId : Refund(id)
  BY <1>2, <1>7 DEF Refund
<1> QED
  BY <1>1, <1>3, <1>5, <1>6, <1>7 DEF FixedMixerEscrowNext, EscrowNext

\* Main result: the parties, the deadline and a data hash once set are never
\* rewritten, by any sequence of calls (openEscrow, confirm, refund and
\* setDataHash of FixedMixerEscrow.sol).
THEOREM EscrowTermsFixedAlways == FixedMixerEscrowSpec => EscrowTermsFixed
<1>1. EscrowInv /\ [FixedMixerEscrowNext]_FixedMixerEscrowVars => [TermsKept]_FixedMixerEscrowVars
  BY TermsStep
<1> QED
  BY <1>1, EscrowInvariant, PTL DEF FixedMixerEscrowSpec, EscrowTermsFixed, TermsKept
=============================================================================
