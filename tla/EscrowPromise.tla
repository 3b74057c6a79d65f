--------------------------- MODULE EscrowPromise ---------------------------
(***************************************************************************)
(* What a fixed-denomination escrow promises its parties, and nothing of   *)
(* how: an escrow is opened once, takes one denomination in, and lets it   *)
(* out once, either to the payee side or, when overdue, as a refund.       *)
(***************************************************************************)
EXTENDS Integers

CONSTANTS EscrowId, Denomination

VARIABLES
    status,            \* [EscrowId -> {"none", "open", "paid", "refunded"}]
    overdue,           \* the escrows whose deadline has passed
    held               \* ether held for all escrows together

promiseVars == <<status, overdue, held>>

PromiseInit ==
    /\ status = [id \in EscrowId |-> "none"]
    /\ overdue = {}
    /\ held = 0

\* An escrow is opened with a deadline that lies in the future.
Open(id) ==
    /\ status[id] = "none"
    /\ id \notin overdue
    /\ status' = [status EXCEPT ![id] = "open"]
    /\ held' = held + Denomination
    /\ UNCHANGED overdue

Pay(id) ==
    /\ status[id] = "open"
    /\ status' = [status EXCEPT ![id] = "paid"]
    /\ held' = held - Denomination
    /\ UNCHANGED overdue

PayBack(id) ==
    /\ status[id] = "open"
    /\ id \in overdue
    /\ status' = [status EXCEPT ![id] = "refunded"]
    /\ held' = held - Denomination
    /\ UNCHANGED overdue

\* Deadlines pass, of escrows that exist, and never come back.
Expire(ids) ==
    /\ \A id \in ids : status[id] # "none"
    /\ overdue' = overdue \cup ids
    /\ UNCHANGED <<status, held>>

PromiseNext ==
    \/ \E id \in EscrowId : Open(id) \/ Pay(id) \/ PayBack(id)
    \/ \E ids \in SUBSET EscrowId : Expire(ids)

PromiseSpec == PromiseInit /\ [][PromiseNext]_promiseVars
=============================================================================
