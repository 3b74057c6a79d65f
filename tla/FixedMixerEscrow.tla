-------------------------- MODULE FixedMixerEscrow --------------------------
(***************************************************************************)
(* FixedMixerEscrow.sol: one deployed instance, for one denomination.  A   *)
(* deposit is locked between two parties and leaves once: by confirm, to   *)
(* party2 less the 20% service fee of the reward pool, or by refund, to    *)
(* party1, once the deadline has passed.                                   *)
(*                                                                         *)
(* metaHash, the two public keys and escrowIdCopy are stored and read by   *)
(* no rule, so they are left out.  The verifier contract is the set of     *)
(* signatures that exist: accounts sign the message (escrowId, dataHash)   *)
(* of the escrows they are party to.                                       *)
(***************************************************************************)
EXTENDS RewardPool, MerkleTreeWithHistory

CONSTANTS
    EscrowId,
    DataHash,
    NoHash,                  \* bytes32(0)
    Denomination

ASSUME EscrowAssumption ==
    /\ IsFiniteSet(EscrowId)
    /\ NoHash \notin DataHash
    /\ Denomination \in Nat \ {0}

VARIABLES
    escrows,                 \* [EscrowId -> Escrow]
    commitments,             \* the commitments already used
    escrowRewardPool,        \* the rewardPool reference, or NoAddress
    signatures,              \* external: set of <<signer, escrowId, dataHash>>
    outcome                  \* history: the last of Released/Refunded emitted

escrowVars == <<escrows, commitments, escrowRewardPool, signatures, outcome>>

Escrow ==
    [party1 : User \cup {NoAddress},
     party2 : User \cup {NoAddress},
     amount : Nat,
     deadline : 0 .. MaxTime,
     released : BOOLEAN,
     dataHash : DataHash \cup {NoHash}]

\* A mapping entry never written: all fields zero.
NoEscrow ==
    [party1 |-> NoAddress, party2 |-> NoAddress, amount |-> 0, deadline |-> 0,
     released |-> FALSE, dataHash |-> NoHash]

EscrowInit ==
    /\ escrows = [id \in EscrowId |-> NoEscrow]
    /\ commitments = {}
    /\ escrowRewardPool = NoAddress
    /\ signatures = {}
    /\ outcome = [id \in EscrowId |-> "none"]

\* modifier onlyParties
OnlyParties(sender, id) == sender \in {escrows[id].party1, escrows[id].party2}

\* 20% of the amount, rounded down.
ServiceFee(amount) == (amount * 20) \div 100

-----------------------------------------------------------------------------

\* setRewardPool: any account may call it.
SetEscrowRewardPool ==
    /\ escrowRewardPool' = RewardPoolAddr
    /\ UNCHANGED <<escrows, commitments, signatures, outcome, merkleVars, poolVars, chainVars>>

\* Mutants of MayOpen: a commitment, or an id, may be used again.
MayOpenSameCommitment(sender, id, party1, party2, deadline, commitment) ==
    /\ escrows[id].party1 = NoAddress
    /\ balance[sender] >= Denomination
    /\ party1 # party2
    /\ deadline > now

MayReopen(sender, id, party1, party2, deadline, commitment) ==
    /\ commitment \notin commitments
    /\ balance[sender] >= Denomination
    /\ party1 # party2
    /\ deadline > now

\* The requires of openEscrow; those of _insert come with Insert.
MayOpen(sender, id, party1, party2, deadline, commitment) ==
    /\ commitment \notin commitments
    /\ escrows[id].party1 = NoAddress
    /\ balance[sender] >= Denomination
    /\ party1 # party2
    /\ deadline > now

OpenEscrow(sender, id, party1, party2, deadline, commitment) ==
    /\ MayOpen(sender, id, party1, party2, deadline, commitment)
    /\ Insert(commitment)
    /\ commitments' = commitments \cup {commitment}
    /\ escrows' = [escrows EXCEPT ![id] =
                     [party1 |-> party1, party2 |-> party2, amount |-> Denomination,
                      deadline |-> deadline, released |-> FALSE, dataHash |-> NoHash]]
    /\ balance' = Moved(balance, sender, EscrowAddr, Denomination)
    /\ UNCHANGED <<escrowRewardPool, signatures, outcome, poolVars, now>>

\* _processPayment.  With a reward pool the fee goes through its receive(),
\* the payment is recorded for the address given by the caller of confirm,
\* and a pool that refuses either reverts the whole confirm.
ProcessPayment(amount, party2Address, recipient) ==
    LET fee == ServiceFee(amount)
    IN  \/ /\ escrowRewardPool = NoAddress
           /\ balance' = Moved(balance, EscrowAddr, recipient, amount)
           /\ UNCHANGED pool
        \/ /\ escrowRewardPool # NoAddress
           /\ CanReceive(fee)
           /\ CanRecordTransaction(Receive(pool, fee), EscrowAddr, party2Address)
           /\ pool' = RecordTransaction(Receive(pool, fee), party2Address)
           /\ balance' = Moved(Moved(balance, EscrowAddr, escrowRewardPool, fee),
                               EscrowAddr, recipient, amount - fee)

\* Mutant of Closed: the flag is not set.
ClosedUnreleased(id) == [escrows EXCEPT ![id].amount = 0]

\* The writes shared by confirm and refund, made before any ether is sent.
Closed(id) == [escrows EXCEPT ![id].released = TRUE, ![id].amount = 0]

\* There is no deadline test: confirm and refund race once the deadline passed.
Confirm(sender, id, party1Address, party2Address) ==
    LET e == escrows[id]
    IN  /\ OnlyParties(sender, id)
        /\ ~e.released
        /\ e.dataHash # NoHash
        /\ <<party1Address, id, e.dataHash>> \in signatures
        /\ <<party2Address, id, e.dataHash>> \in signatures
        /\ balance[EscrowAddr] >= e.amount
        /\ escrows' = Closed(id)
        /\ ProcessPayment(e.amount, party2Address, e.party2)
        /\ outcome' = [outcome EXCEPT ![id] = "paid"]
        /\ UNCHANGED <<commitments, escrowRewardPool, signatures, merkleVars, claimed, now>>

\* Mutant of MayRefund: no deadline test.
MayRefundEarly(id) == ~escrows[id].released

MayRefund(id) == now >= escrows[id].deadline /\ ~escrows[id].released

\* Anyone may call refund, and for an id that was never opened it succeeds:
\* the empty record is marked released and nothing is sent to address(0).
Refund(id) ==
    LET e == escrows[id]
    IN  /\ MayRefund(id)
        /\ balance[EscrowAddr] >= e.amount
        /\ escrows' = Closed(id)
        /\ balance' = IF e.party1 = NoAddress
                      THEN balance
                      ELSE Moved(balance, EscrowAddr, e.party1, e.amount)
        /\ outcome' = [outcome EXCEPT ![id] = "refunded"]
        /\ UNCHANGED <<commitments, escrowRewardPool, signatures, merkleVars, poolVars, now>>

\* A zero newDataHash is accepted and leaves the hash unset.
SetDataHash(sender, id, newDataHash) ==
    /\ OnlyParties(sender, id)
    /\ escrows[id].party1 # NoAddress
    /\ ~escrows[id].released
    /\ escrows[id].dataHash = NoHash
    /\ escrows' = [escrows EXCEPT ![id].dataHash = newDataHash]
    /\ UNCHANGED <<commitments, escrowRewardPool, signatures, outcome, merkleVars,
                   poolVars, chainVars>>

\* External: a party signs the message of its escrow.
Sign(u, id) ==
    /\ OnlyParties(u, id)
    /\ escrows[id].dataHash # NoHash
    /\ signatures' = signatures \cup {<<u, id, escrows[id].dataHash>>}
    /\ UNCHANGED <<escrows, commitments, escrowRewardPool, outcome, merkleVars,
                   poolVars, chainVars>>

EscrowNext ==
    \/ SetEscrowRewardPool
    \/ \E s, p1, p2 \in User, id \in EscrowId, d \in 1 .. MaxTime, c \in Leaf :
          OpenEscrow(s, id, p1, p2, d, c)
    \/ \E s, p1, p2 \in User, id \in EscrowId : Confirm(s, id, p1, p2)
    \/ \E id \in EscrowId : Refund(id)
    \/ \E s \in User, id \in EscrowId, h \in DataHash \cup {NoHash} : SetDataHash(s, id, h)
    \/ \E u \in User, id \in EscrowId : Sign(u, id)

\* The rest of the chain, as far as this contract can tell: time passes and
\* the pool's owner appoints the escrow contract that may record payments.
EscrowEnvironment ==
    /\ \/ Mine /\ UNCHANGED poolVars
       \/ \E a \in {EscrowAddr, OtherEscrowAddr} : SetFixedMixerEscrow(a)
    /\ UNCHANGED <<escrowVars, merkleVars>>

FixedMixerEscrowVars == <<RewardPoolVars, merkleVars, escrowVars>>

FixedMixerEscrowInit == RewardPoolInit /\ MerkleInit /\ EscrowInit

FixedMixerEscrowNext == EscrowNext \/ EscrowEnvironment

FixedMixerEscrowSpec ==
    FixedMixerEscrowInit /\ [][FixedMixerEscrowNext]_FixedMixerEscrowVars

-----------------------------------------------------------------------------
(* Properties.                                                             *)

\* The storage has the declared types, so no subtraction wraps around.
EscrowTypeOK ==
    /\ AccountsTypeOK
    /\ escrows \in [EscrowId -> Escrow]
    /\ commitments \subseteq Leaf
    /\ escrowRewardPool \in {NoAddress, RewardPoolAddr}
    /\ signatures \subseteq User \X EscrowId \X DataHash
    /\ outcome \in [EscrowId -> {"none", "paid", "refunded"}]

Opened == {id \in EscrowId : escrows[id].party1 # NoAddress}

Unsettled == {id \in Opened : ~escrows[id].released}

\* The contract holds exactly one denomination for each unsettled escrow:
\* no confirm, refund or race of the two ever pays with another's deposit,
\* and none is left behind.
EscrowSolvent == balance[EscrowAddr] = Denomination * Cardinality(Unsettled)

\* Opened escrows and commitments are in step with the Merkle tree: one new
\* commitment, inserted once, for every escrow ever opened, also for an id
\* that was "refunded" before it existed.
DepositsMatchTree ==
    /\ commitments = Range(leaves)
    /\ Cardinality(commitments) = nextIndex
    /\ Cardinality(Opened) = nextIndex

\* The terms the parties agreed on are never rewritten: neither by opening the
\* id again after it was settled, nor by a second setDataHash.
EscrowTermsFixed ==
    [][\A id \in Opened :
          /\ \A f \in {"party1", "party2", "deadline"} : escrows'[id][f] = escrows[id][f]
          /\ escrows[id].dataHash # NoHash => escrows'[id].dataHash = escrows[id].dataHash
      ]_FixedMixerEscrowVars

EscrowStatus ==
    [id \in EscrowId |-> IF id \notin Opened THEN "none"
                        ELSE IF escrows[id].released THEN outcome[id] ELSE "open"]

Overdue == {id \in Opened : now >= escrows[id].deadline}

Promise == INSTANCE EscrowPromise WITH
    status <- EscrowStatus, overdue <- Overdue, held <- balance[EscrowAddr]

\* The contract implements the abstract escrow: an id is opened once and its
\* denomination leaves once, paid or (only when overdue) refunded, although
\* refund may run on ids that do not exist and confirm after the deadline.
KeepsPromise == Promise!PromiseSpec
=============================================================================
