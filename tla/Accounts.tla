------------------------------ MODULE Accounts ------------------------------
(***************************************************************************)
(* The chain as the contracts see it: the ether held by every account, the *)
(* timestamp of the block being mined, and the rule that a transaction     *)
(* either happens as a whole or (on a failed require) not at all.  A       *)
(* transaction is therefore one action, and a failed require is a guard    *)
(* that is not satisfied.  Gas is not modelled.                            *)
(***************************************************************************)
EXTENDS Integers

CONSTANTS
    User,              \* externally owned accounts (Alice, Bob, members, ...)
    Owner,             \* the account that deployed RewardPool and StakingManager
    RewardPoolAddr,    \* the deployed contracts
    StakingAddr,
    RotationAddr,
    EscrowAddr,        \* the FixedMixerEscrow instance under study
    OtherEscrowAddr,   \* another instance (2_deploy_fixed_pools deploys four)
    NoAddress,         \* address(0)
    Funds,             \* ether each user starts with
    MaxTime            \* bound on the block timestamp

Contract == {RewardPoolAddr, StakingAddr, RotationAddr, EscrowAddr, OtherEscrowAddr}

Address == User \cup Contract

ASSUME AccountsAssumption ==
    /\ Owner \in User
    /\ User \cap Contract = {}
    /\ NoAddress \notin Address
    /\ RewardPoolAddr \notin {StakingAddr, RotationAddr, EscrowAddr, OtherEscrowAddr}
    /\ StakingAddr \notin {RotationAddr, EscrowAddr, OtherEscrowAddr}
    /\ RotationAddr \notin {EscrowAddr, OtherEscrowAddr}
    /\ EscrowAddr # OtherEscrowAddr
    /\ Funds \in Nat
    /\ MaxTime \in Nat

VARIABLES
    balance,           \* [Address -> Nat], ether held by every account
    now                \* block.timestamp

chainVars == <<balance, now>>

AccountsTypeOK ==
    /\ balance \in [Address -> Nat]
    /\ now \in 0 .. MaxTime

AccountsInit ==
    /\ balance = [a \in Address |-> IF a \in User THEN Funds ELSE 0]
    /\ now = 0

\* The balances b after a call that carries value v.
Moved(b, from, to, v) == [b EXCEPT ![from] = @ - v, ![to] = @ + v]

\* A later block: its timestamp is strictly larger.
Mine ==
    /\ now < MaxTime
    /\ now' = now + 1
    /\ UNCHANGED balance
=============================================================================
