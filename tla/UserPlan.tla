------------------------------- MODULE UserPlan -------------------------------
(***************************************************************************)
(* One simulated user of Effection/Code (models/user.py), of one of the    *)
(* three kinds: a normal user, a rule-based attack user, or one that asks  *)
(* a language model for a plan (agents/llm_strategy_agent.py).  It keeps   *)
(* its payments twice (transaction_simple, and transaction, which also     *)
(* holds the history loaded from a CSV file) and, beside them, running     *)
(* statistics that are never recomputed.                                   *)
(*                                                                         *)
(* Amounts are integers.  The program subtracts floats: Drift is the set   *)
(* of rounding errors that one subtraction can leave, TOL the tolerance    *)
(* (1e-5) of the plan check.                                               *)
(***************************************************************************)
EXTENDS Integers, Sequences, FiniteSets, Functions, FiniteSetsExt

CONSTANTS
    Kinds,                   \* kinds of user explored
    ALLOWED_AMOUNTS,         \* {0.1, 1, 10, 100}
    Junk,                    \* amounts a model may propose that are not allowed
    Task,                    \* the ETH to move (10000 or 60000)
    TimeLeft,                \* 4320
    PlanLength,              \* 10 minutes
    MaxPerMinute,            \* payments proposed or drawn for one minute
    Drift, TOL,
    Histories,               \* CSV histories: payments up to minute 0, in any order
    MaxTime

ASSUME UserPlanAssumption ==
    /\ Kinds \subseteq {"normal", "rule", "llm"}
    /\ ALLOWED_AMOUNTS \subseteq Nat \ {0}
    /\ Junk \cap ALLOWED_AMOUNTS = {}
    /\ IsFiniteSet(Drift) /\ 0 \in Drift /\ \A d \in Drift : d \in Int /\ -d \in Drift
    /\ {Task, TimeLeft, PlanLength, MaxPerMinute, TOL, MaxTime} \subseteq Nat
    /\ PlanLength # 0
    /\ \A h \in Histories : h \in Seq([time : {x \in Int : x <= 0}, amount : Int])

VARIABLES
    kind, time, time_left, is_alive,
    account,                 \* the payments and what is computed from them
    action_plan,             \* [minutes covered by a plan -> payments]
    bansSeen, bansInPlan     \* history: bans observed, and bans known when planning

vars == <<kind, time, time_left, is_alive, account, action_plan, bansSeen, bansInPlan>>

NoStat == [count |-> 0]

-----------------------------------------------------------------------------
(* The running statistics.                                                 *)

Other == 0
Bucket(val) == IF val \in ALLOWED_AMOUNTS THEN val ELSE Other
Buckets == ALLOWED_AMOUNTS \cup {Other}

EmptyStat ==
    [count |-> 0, sum |-> 0, first_ts |-> 0, last_ts |-> 0, intervals |-> <<>>,
     amount_counts |-> [b \in Buckets |-> 0]]

\* Mutant of UpdateStatWithTx: the interval is measured from the first payment.
UpdateStatFromFirst(s, tx) ==
    [count |-> s.count + 1,
     sum |-> s.sum + tx.amount,
     first_ts |-> IF s.count = 0 THEN tx.time ELSE s.first_ts,
     last_ts |-> tx.time,
     intervals |-> IF s.count = 0 THEN <<>> ELSE Append(s.intervals, tx.time - s.first_ts),
     amount_counts |-> [s.amount_counts EXCEPT ![Bucket(tx.amount)] = @ + 1]]

UpdateStatWithTx(s, tx) ==
    [count |-> s.count + 1,
     sum |-> s.sum + tx.amount,
     first_ts |-> IF s.count = 0 THEN tx.time ELSE s.first_ts,
     last_ts |-> tx.time,
     intervals |-> IF s.count = 0 THEN <<>> ELSE Append(s.intervals, tx.time - s.last_ts),
     amount_counts |-> [s.amount_counts EXCEPT ![Bucket(tx.amount)] = @ + 1]]

\* A sorted list with one more payment, behind those of the same time.
Insert(s, tx) ==
    LET k == Max({0} \cup {i \in DOMAIN s : s[i].time <= tx.time})
    IN  [i \in 1 .. Len(s) + 1 |->
           IF i <= k THEN s[i] ELSE IF i = k + 1 THEN tx ELSE s[i - 1]]

\* sorted(): by time, and stable.
ByTime(txs) ==
    LET sorted[n \in 0 .. Len(txs)] ==
            IF n = 0 THEN <<>> ELSE Insert(sorted[n - 1], txs[n])
    IN  sorted[Len(txs)]

\* The statistics of a sorted list, payment by payment.
Features(s) ==
    LET stat[n \in 0 .. Len(s)] ==
            IF n = 0 THEN EmptyStat ELSE UpdateStatWithTx(stat[n - 1], s[n])
    IN  stat[Len(s)]

InitFeatures(txs) == IF txs = <<>> THEN NoStat ELSE Features(ByTime(txs))

\* Mutant of LogTransaction: the payment is appended on both branches.
LogTransactionTwice(a, t, amt) ==
    LET tx == [time |-> t, amount |-> amt, index |-> Len(a.transaction)]
    IN  [task |-> a.task,
         simple |-> Append(a.simple, [time |-> t, amount |-> amt]),
         stat |-> IF a.stat = NoStat THEN InitFeatures(Append(a.transaction, tx))
                                     ELSE UpdateStatWithTx(a.stat, tx),
         transaction |-> IF a.stat = NoStat THEN a.transaction \o <<tx, tx>>
                                            ELSE Append(a.transaction, tx)]

\* _log_transaction and update_features, for a living user.
LogTransaction(a, t, amt) ==
    LET tx == [time |-> t, amount |-> amt, index |-> Len(a.transaction)]
    IN  [task |-> a.task,
         simple |-> Append(a.simple, [time |-> t, amount |-> amt]),
         stat |-> IF a.stat = NoStat THEN InitFeatures(Append(a.transaction, tx))
                                     ELSE UpdateStatWithTx(a.stat, tx),
         transaction |-> Append(a.transaction, tx)]

-----------------------------------------------------------------------------

\* init_user_from_eth_csv: the indices follow the file's order.
Loaded(csv) == [i \in DOMAIN csv |->
                  [time |-> csv[i].time, amount |-> csv[i].amount, index |-> i - 1]]

UserInit ==
    /\ kind \in Kinds
    /\ time = 0
    /\ time_left = TimeLeft
    /\ is_alive = TRUE
    /\ \E csv \in Histories :
        /\ kind # "normal" => csv = <<>>
        /\ account = [task |-> Task, simple |-> <<>>, transaction |-> Loaded(csv),
                      stat |-> InitFeatures(Loaded(csv))]
    /\ action_plan = <<>>
    /\ bansSeen = 0
    /\ bansInPlan = 0

Tick ==
    /\ time < MaxTime
    /\ time' = time + 1
    /\ time_left' = time_left - 1

\* What a float subtraction can give: a rounded difference keeps its sign.
Subtract(task, amt) ==
    IF amt >= task THEN {task - amt} ELSE {Max({1, task - amt + d}) : d \in Drift}

\* A payment by an attack user: logged, then taken off the task.
Paid(a, t, amt) == {[LogTransaction(a, t, amt) EXCEPT !.task = r] : r \in Subtract(a.task, amt)}

\* The amount drawn, reduced to the largest allowed one, or to what is left.
RuleAmount(task, amt) ==
    LET possible == {x \in ALLOWED_AMOUNTS : x <= task}
    IN  IF amt <= task THEN amt ELSE IF possible # {} THEN Max(possible) ELSE task

\* Mutant of RulePays: the amount drawn, not the one paid, is taken off.
RulePaysDrawn(a, t, amt) ==
    IF a.task <= 0 THEN {a}
    ELSE {[LogTransaction(a, t, RuleAmount(a.task, amt)) EXCEPT !.task = r] :
            r \in Subtract(a.task, amt)}

\* One iteration of a rule-based user; the loop ends when nothing is left.
RulePays(a, t, amt) ==
    IF a.task <= 0 THEN {a} ELSE Paid(a, t, RuleAmount(a.task, amt))

\* One payment of a plan: skipped if it is above the task.
LLMPays(a, t, amt) == IF a.task >= amt THEN Paid(a, t, amt) ELSE {a}

\* One amount drawn or planned, and what it can leave of the account.  The task
\* of a normal user is not touched.
Pays(a, t, amt) ==
    CASE kind = "normal" -> {LogTransaction(a, t, amt)}
      [] kind = "rule" -> RulePays(a, t, amt)
      [] kind = "llm" -> LLMPays(a, t, amt)

\* Decide's loop over the payments of one minute.
Spend(a, t, amts) ==
    LET accounts[n \in 0 .. Len(amts)] ==
            IF n = 0 THEN {a} ELSE UNION {Pays(b, t, amts[n]) : b \in accounts[n - 1]}
    IN  accounts[Len(amts)]

\* Payments per minute, drawn or proposed.
Drawn(S) == UNION {[1 .. n -> S] : n \in 0 .. MaxPerMinute}

\* RetailUser.Decide and ExchangeUser.Decide.
NormalMinute ==
    /\ kind = "normal" /\ is_alive
    /\ Tick
    /\ \E amts \in Drawn(ALLOWED_AMOUNTS) : account' \in Spend(account, time, amts)
    /\ UNCHANGED <<kind, is_alive, action_plan, bansSeen, bansInPlan>>

RuleMinute ==
    /\ kind = "rule" /\ is_alive
    /\ Tick
    /\ IF account.task <= 0 \/ time_left <= 0
         THEN account' = account
         ELSE \E amts \in Drawn(ALLOWED_AMOUNTS) : account' \in Spend(account, time, amts)
    /\ UNCHANGED <<kind, is_alive, action_plan, bansSeen, bansInPlan>>

\* Mutant of ValidateAmount: what was used in earlier minutes is forgotten.
ValidateAmountAlone(max_task, acc, i, amt) ==
    IF amt \in ALLOWED_AMOUNTS /\ amt <= max_task + TOL
      THEN [used |-> acc.used + amt, clean |-> [acc.clean EXCEPT ![i] = Append(@, amt)]]
      ELSE acc

\* One amount of minute i in _validate_and_fix_plan.
ValidateAmount(max_task, acc, i, amt) ==
    IF amt \in ALLOWED_AMOUNTS /\ acc.used + amt <= max_task + TOL
      THEN [used |-> acc.used + amt, clean |-> [acc.clean EXCEPT ![i] = Append(@, amt)]]
      ELSE acc

\* Its inner loop: the amounts of minute i.
ValidateMinute(max_task, acc, i, amts) ==
    LET fixed[n \in 0 .. Len(amts)] ==
            IF n = 0 THEN acc ELSE ValidateAmount(max_task, fixed[n - 1], i, amts[n])
    IN  fixed[Len(amts)]

Minutes == 0 .. PlanLength - 1

\* Its outer loop.
ValidateAndFixPlan(raw, max_task) ==
    LET fixed[n \in 0 .. PlanLength] ==
            IF n = 0 THEN [used |-> 0, clean |-> [m \in Minutes |-> <<>>]]
            ELSE ValidateMinute(max_task, fixed[n - 1], n - 1, raw[n - 1])
    IN  fixed[PlanLength].clean

\* get_decision: the model's plan, fixed; a failed call or an answer that is no
\* JSON is the empty plan, which the empty proposal stands for.
Decisions(task) == {ValidateAndFixPlan(raw, task) : raw \in [Minutes -> Drawn(ALLOWED_AMOUNTS \cup Junk)]}

\* The plans that can be in force after the check at the top of Decide.
PlansInForce ==
    IF time \in DOMAIN action_plan
      THEN {action_plan}
      ELSE {[m \in DOMAIN action_plan \cup {time + i : i \in Minutes} |->
               IF m >= time THEN p[m - time] ELSE action_plan[m]] : p \in Decisions(account.task)}

LLMMinute ==
    /\ kind = "llm" /\ is_alive
    /\ Tick
    /\ IF account.task <= 0
         THEN UNCHANGED <<account, action_plan, bansInPlan>>
         ELSE \E p \in PlansInForce :
                /\ action_plan' = p
                /\ account' \in Spend(account, time, p[time])
                /\ bansInPlan' = IF time \in DOMAIN action_plan THEN bansInPlan ELSE bansSeen
    /\ UNCHANGED <<kind, is_alive, bansSeen>>

\* The committee bans this user (DetectionPipeline).
Ban ==
    /\ kind # "normal" /\ is_alive
    /\ is_alive' = FALSE
    /\ UNCHANGED <<kind, time, time_left, account, action_plan, bansSeen, bansInPlan>>

\* observe_ban: analyze_failure always returns a rule, a default one at worst.
\* At most one observation per minute is explored.
ObserveBan ==
    /\ kind = "llm"
    /\ bansSeen < time
    /\ bansSeen' = bansSeen + 1
    /\ action_plan' = <<>>
    /\ UNCHANGED <<kind, time, time_left, is_alive, account, bansInPlan>>

UserNext == NormalMinute \/ RuleMinute \/ LLMMinute \/ Ban \/ ObserveBan

UserSpec == UserInit /\ [][UserNext]_vars

-----------------------------------------------------------------------------

SumAmounts(txs) == SumFunction([i \in DOMAIN txs |-> txs[i].amount])

\* What a plan still holds from minute t on.
Planned(plan, t) == SumFunction([m \in {k \in DOMAIN plan : k >= t} |-> SumFunction(plan[m])])

\* How far rounding can have moved the task from what the payments say.
Rounding == Len(account.simple) * Max(Drift)

\* The fields have their types; a task never goes below zero.
UserTypeOK ==
    /\ kind \in Kinds
    /\ time \in 0 .. MaxTime
    /\ time_left = TimeLeft - time
    /\ account.task \in 0 .. Task + Rounding
    /\ DOMAIN action_plan \subseteq 0 .. MaxTime + PlanLength

(* The statistics that the isolation forest and the auditor see are kept   *)
(* incrementally (_update_stat_with_tx).  They are what a recomputation    *)
(* from the stored transactions would give: the same count, sum, first and *)
(* last time, intervals in time order and counts per amount, also for a    *)
(* user that starts with a CSV history in any order.                       *)
StatMatchesHistory ==
    LET txs == account.transaction
        times == {txs[i].time : i \in DOMAIN txs}
        sorted == ByTime(txs)
    IN  account.stat =
          IF txs = <<>> THEN NoStat
          ELSE [count |-> Len(txs), sum |-> SumAmounts(txs),
                first_ts |-> Min(times), last_ts |-> Max(times),
                intervals |-> [i \in 1 .. Len(txs) - 1 |-> sorted[i + 1].time - sorted[i].time],
                amount_counts |-> [b \in Buckets |->
                    Cardinality({i \in DOMAIN txs : Bucket(txs[i].amount) = b})]]

(* The two payment lists tell the same story: transaction ends with the    *)
(* payments of transaction_simple, and the Index of each entry is its      *)
(* position (convert_parsed_tx_to_generated_format, user.py:115).          *)
HistoriesAgree ==
    LET txs == account.transaction
        old == Len(txs) - Len(account.simple)
    IN  /\ old >= 0
        /\ \A i \in DOMAIN txs : txs[i].index = i - 1
        /\ \A i \in DOMAIN account.simple :
            /\ txs[old + i].time = account.simple[i].time
            /\ txs[old + i].amount = account.simple[i].amount

(* The record of a user is sound: typed, and its two payment lists agree.  *)
UserInv == UserTypeOK /\ HistoriesAgree

(* An attack user moves its task and no more: what it has paid and what is *)
(* left always add up, but for the rounding of each subtraction, whatever  *)
(* plan or draw it followed.                                               *)
TaskIsConserved ==
    kind # "normal" =>
        account.task + SumAmounts(account.simple) - Task \in -Rounding .. Rounding

(* A plan is checked against the task once, when it is made, and paid over *)
(* the next ten minutes.  What is still planned exceeds what is left by no *)
(* more than the tolerance of the check and the rounding since: Decide's   *)
(* exact guard `self.task >= amt' (user.py:451) never meets a plan that    *)
(* was not affordable.                                                     *)
PlanIsFunded ==
    kind = "llm" => Planned(action_plan, time) <= account.task + TOL + Rounding

(* After a ban is observed, no payment comes from a plan made before it    *)
(* (observe_ban clears action_plan, user.py:419).                          *)
PlansKnowTheBans ==
    (\E m \in DOMAIN action_plan : m >= time) => bansInPlan = bansSeen

(* What a plan-based user will still pay is affordable and was planned in  *)
(* knowledge of every ban it has observed.                                 *)
PlansAreSound == PlanIsFunded /\ PlansKnowTheBans
=============================================================================
