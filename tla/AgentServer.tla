------------------------------ MODULE AgentServer ------------------------------
(***************************************************************************)
(* The Flask server of src/Agent (main.py, User.py): each request runs on  *)
(* a thread of its own.  A registered user has a lock; planning requests   *)
(* and replanning after an interception hold it across the calls of the    *)
(* language model, while arrests, interceptions and failure reports change *)
(* the user without it.  A thread's step is what it does between two       *)
(* points where another thread can come in.                                *)
(*                                                                         *)
(* Money is counted in payments of 0.01 ETH.  What the model answers is a  *)
(* free choice from Plans and Batches, or a failure.                       *)
(***************************************************************************)
EXTENDS Integers, Sequences, FiniteSets, SequencesExt, FiniteSetsExt

CONSTANTS
    Id,                      \* ids that users register with
    Thread,                  \* threads of the server
    Free,                    \* "no thread"
    Plans,                   \* sequences of stage tasks, in payments
    Batches,                 \* lists that the model answers with, grouped by minute
    Reports,                 \* failure reports: [group, rank]
    Step,                    \* 10: minutes per planning request
    Stage,                   \* 60: minutes per stage
    RuleFrom,                \* users registered from this rank on follow a rule
    MaxRequests              \* bound on the requests that arrive

\* How the items of an answered list are written.  Nothing looks at what they
\* say: a minute may be 0, negative or past the ten.
Form == {"int", "float", "text"}
IsText(b) == \E k \in DOMAIN b : b[k].form = "text"
IsFloat(b) == \E k \in DOMAIN b : b[k].form = "float"

\* A list of text alone is sorted and charged; one that mixes text with numbers
\* cannot be sorted and counts as an answer that is no list.
ASSUME AgentAssumption ==
    /\ Free \notin Thread
    /\ {Step, Stage} \subseteq Nat \ {0}
    /\ Stage % Step = 0
    /\ {RuleFrom, MaxRequests} \subseteq Nat
    /\ Plans \subseteq Seq(Nat)
    /\ Batches \subseteq Seq([minute : Int, send : Nat, form : Form])
    /\ \A b \in Batches : IsText(b) => \A k \in DOMAIN b : b[k].form = "text"
    /\ IsFiniteSet(Thread)

VARIABLES
    users,                   \* badusers
    locks,                   \* lock_list: the thread that holds each lock
    regLock,                 \* lock
    illegal,                 \* how many intercepted histories were published
    req,                     \* [Thread -> the request it works on]
    arrived                  \* bound: requests so far

serverVars == <<users, locks, regLock, illegal, req, arrived>>

NoRequest == [kind |-> "none", id |-> Free, pc |-> "idle", i |-> 0, last |-> 0,
              seen |-> 0, batch |-> <<>>, report |-> <<>>, result |-> "none"]

ServerInit ==
    /\ users = <<>>
    /\ locks = <<>>
    /\ regLock = Free
    /\ illegal = 0
    /\ req = [t \in Thread |-> NoRequest]
    /\ arrived = 0

-----------------------------------------------------------------------------

\* BadUser.__init__, with the experience of the interceptions known so far.
NewUser(id, known, plan) ==
    [id |-> id, rank |-> Len(users), time_past |-> 0, time_record |-> 0, plan |-> plan,
     money |-> 0, stage_money |-> 0, stage_total |-> 0, list |-> <<>>, stage_list |-> <<>>,
     experience |-> known]

Sent(txs) == SumFunction([k \in DOMAIN txs |-> txs[k].send])

Go(t, pc) == req' = [req EXCEPT ![t].pc = pc]
Answer(t, result) == req' = [req EXCEPT ![t].pc = "replied", ![t].result = result]

\* Mutant of Leave: an exception skips the release.
LeaveUnlessError(t, result) ==
    /\ Answer(t, result)
    /\ locks' = IF result = "error" THEN locks ELSE [locks EXCEPT ![req[t].i] = Free]

\* The end of a `with lock_list[i]' block, by return or by exception.
Leave(t, result) ==
    /\ Answer(t, result)
    /\ locks' = [locks EXCEPT ![req[t].i] = Free]

FirstPc(kind) ==
    CASE kind = "register" -> "enter"
      [] kind = "plan" -> "find"
      [] kind = "intercept" -> "publish"
      [] kind = "arrest" -> "arrest"

Arrive(t, kind, id) ==
    /\ req[t].pc \in {"idle", "replied"}
    /\ arrived < MaxRequests
    /\ arrived' = arrived + 1
    /\ req' = [req EXCEPT ![t] = [NoRequest EXCEPT !.kind = kind, !.id = id, !.pc = FirstPc(kind)]]
    /\ UNCHANGED <<users, locks, regLock, illegal>>

\* A report names a payment that was sent: the rank-th of a ten-minute group.
WasSent(id, r) ==
    \E i \in DOMAIN users :
        /\ users[i].id = id
        /\ Sent(SelectSeq(users[i].list, LAMBDA x : x.time \div Step = r.group - 1)) >= r.rank

ArriveReport(t, id, r) ==
    /\ req[t].pc \in {"idle", "replied"}
    /\ arrived < MaxRequests
    /\ WasSent(id, r)
    /\ arrived' = arrived + 1
    /\ req' = [req EXCEPT ![t] = [NoRequest EXCEPT !.kind = "report", !.id = id,
                                                  !.pc = "report", !.report = r]]
    /\ UNCHANGED <<users, locks, regLock, illegal>>

-----------------------------------------------------------------------------
(* /register.                                                              *)

EnterRegister(t) ==
    /\ req[t].pc = "enter"
    /\ regLock = Free
    /\ regLock' = t
    /\ req' = [req EXCEPT ![t].pc = "build", ![t].seen = illegal]
    /\ UNCHANGED <<users, locks, illegal, arrived>>

\* The constructor calls the model twice; if that raises, the lock is released.
BuildUser(t) ==
    /\ req[t].pc = "build"
    /\ \/ /\ \E plan \in Plans : users' = Append(users, NewUser(req[t].id, req[t].seen, plan))
          /\ Go(t, "appendLock")
          /\ UNCHANGED regLock
       \/ /\ regLock' = Free
          /\ Answer(t, "error")
          /\ UNCHANGED users
    /\ UNCHANGED <<locks, illegal, arrived>>

AppendLock(t) ==
    /\ req[t].pc = "appendLock"
    /\ locks' = Append(locks, Free)
    /\ regLock' = Free
    /\ Answer(t, "ok")
    /\ UNCHANGED <<users, illegal, arrived>>

-----------------------------------------------------------------------------
(* /getAccountTransactions and request_for_plan.                           *)

Registered(id) == {i \in DOMAIN users : users[i].id = id}

\* An unknown id gets the empty message, a user without a lock yet an IndexError.
FindUser(t) ==
    /\ req[t].pc = "find"
    /\ LET found == Registered(req[t].id)
       IN  \/ found = {} /\ Answer(t, "nothing")
           \/ found # {} /\ Min(found) \notin DOMAIN locks /\ Answer(t, "error")
           \/ /\ found # {} /\ Min(found) \in DOMAIN locks
              /\ req' = [req EXCEPT ![t].pc = "lock", ![t].i = Min(found)]
    /\ UNCHANGED <<users, locks, regLock, illegal, arrived>>

\* Mutant of LockUser: a planning request does not wait for the lock.
LockUserLater(t) ==
    /\ req[t].pc = "lock"
    /\ locks[req[t].i] = Free \/ req[t].kind = "plan"
    /\ locks' = [locks EXCEPT ![req[t].i] = t]
    /\ Go(t, IF req[t].kind = "plan" THEN "stage" ELSE "learn")
    /\ UNCHANGED <<users, regLock, illegal, arrived>>

LockUser(t) ==
    /\ req[t].pc = "lock"
    /\ locks[req[t].i] = Free
    /\ locks' = [locks EXCEPT ![req[t].i] = t]
    /\ Go(t, IF req[t].kind = "plan" THEN "stage" ELSE "learn")
    /\ UNCHANGED <<users, regLock, illegal, arrived>>

StageBegins(u) == (u.time_past - u.time_record) % Stage = 0

\* The stage is set up; an empty plan raises once stage_money is cleared.
CheckStage(t) ==
    /\ req[t].pc = "stage"
    /\ LET i == req[t].i
           u == users[i]
           rank == (u.time_past - u.time_record) \div Stage
           fresh == [u EXCEPT !.stage_money = 0]
           begun == IF StageBegins(u)
                      THEN [fresh EXCEPT !.stage_total = u.plan[(rank % Len(u.plan)) + 1],
                                         !.stage_list = <<>>]
                      ELSE u
       IN  \/ /\ u.rank >= RuleFrom
              /\ Go(t, "ask") /\ UNCHANGED <<users, locks>>
           \/ /\ u.rank < RuleFrom /\ StageBegins(u) /\ u.plan = <<>>
              /\ users' = [users EXCEPT ![i] = fresh]
              /\ Leave(t, "error")
           \/ /\ u.rank < RuleFrom /\ ~(StageBegins(u) /\ u.plan = <<>>)
              /\ IF begun.stage_money >= begun.stage_total
                   THEN /\ users' = [users EXCEPT ![i] = [begun EXCEPT !.time_past = @ + Step]]
                        /\ Leave(t, "wait")
                   ELSE /\ users' = [users EXCEPT ![i] = begun]
                        /\ Go(t, "ask") /\ UNCHANGED locks
    /\ UNCHANGED <<regLock, illegal, arrived>>

IsRuleBatch(b) ==
    \A k \in DOMAIN b : b[k].form = "int" /\ b[k].minute \in 1 .. Step

\* The answer arrives, and handle_result begins: the call fails, the text is no
\* JSON, its "res" is no list, or it is a batch.  A rule user (make_decision)
\* has no payment or a list of minutes from 1 to 10.
TakeAnswer(t) ==
    /\ req[t].pc = "ask"
    /\ LET i == req[t].i
           later == [users EXCEPT ![i].time_past = @ + Step]
       IN  \/ /\ users[i].rank < RuleFrom
              /\ \/ Leave(t, "error") /\ UNCHANGED users
                 \/ Leave(t, "wait") /\ UNCHANGED users
                 \/ Leave(t, "wait") /\ users' = later
           \/ Leave(t, "nothing") /\ users' = later
           \/ \E b \in Batches :
                /\ users[i].rank >= RuleFrom => IsRuleBatch(b)
                /\ users' = later
                /\ req' = [req EXCEPT ![t].pc = "load", ![t].batch = b]
                /\ UNCHANGED locks
    /\ UNCHANGED <<regLock, illegal, arrived>>

\* money_transferred = money_transferred + n: the read ...
LoadMoney(t) ==
    /\ req[t].pc = "load"
    /\ req' = [req EXCEPT ![t].pc = "store", ![t].seen = users[req[t].i].money]
    /\ UNCHANGED <<users, locks, regLock, illegal, arrived>>

\* ... and the write, then the same for the stage.
StoreMoney(t) ==
    /\ req[t].pc = "store"
    /\ users' = [users EXCEPT ![req[t].i].money = req[t].seen + Sent(req[t].batch),
                              ![req[t].i].stage_money = @ + Sent(req[t].batch)]
    /\ Go(t, "record")
    /\ UNCHANGED <<locks, regLock, illegal, arrived>>

\* The list [0], which is sent as "-1".
OnlyZero == <<[minute |-> 0, send |-> 1, form |-> "int"]>>

\* What a charged batch is answered with.  Text raises when it is added to a
\* time and is answered "-1"; so is [0], though it is recorded.  ("lost" is that
\* "-1": the client cannot tell it from "wait".)
Reply(b) ==
    CASE IsText(b) \/ b = OnlyZero -> "lost"
      [] IsFloat(b) /\ ~IsText(b) /\ b # OnlyZero -> "floats"
      [] ~IsText(b) /\ ~IsFloat(b) /\ b # OnlyZero -> "batch"

Charged == {"batch", "floats", "lost"}

\* The records' times start from the time already advanced.
RecordBatch(t) ==
    /\ req[t].pc = "record"
    /\ LET i == req[t].i
           At(minute) == users[i].time_past + minute
           b == req[t].batch
       IN  users' = IF IsText(b) THEN users ELSE [users EXCEPT
             ![i].list = @ \o [k \in DOMAIN b |->
                [time |-> At(b[k].minute), send |-> b[k].send, failed |-> 0]],
             ![i].stage_list = @ \o [k \in DOMAIN b |->
                [time |-> At(b[k].minute) % Stage, send |-> b[k].send, failed |-> 0]]]
    /\ Leave(t, Reply(req[t].batch))
    /\ UNCHANGED <<regLock, illegal, arrived>>

-----------------------------------------------------------------------------
(* /intercepted, /arrested and /failedTransactions.                        *)

Reset(u) == [u EXCEPT !.list = <<>>, !.money = 0, !.time_past = 0]

Publish(t) ==
    /\ req[t].pc = "publish"
    /\ LET own == Registered(req[t].id)
       IN  /\ illegal' = illegal + Cardinality(own)
           /\ users' = [i \in DOMAIN users |-> IF i \in own THEN Reset(users[i]) ELSE users[i]]
    /\ req' = [req EXCEPT ![t].pc = "loop", ![t].i = 1, ![t].last = Len(users), ![t].seen = illegal']
    /\ UNCHANGED <<locks, regLock, arrived>>

\* Mutant of LoopEnds: the last user is left out.
LoopEndsEarly(r) == r.i >= r.last

LoopEnds(r) == r.i > r.last

NextOther(t) ==
    /\ req[t].pc = "loop"
    /\ LET i == req[t].i
       IN  \/ LoopEnds(req[t]) /\ Answer(t, "ok")
           \/ /\ ~LoopEnds(req[t]) /\ users[i].id = req[t].id
              /\ req' = [req EXCEPT ![t].i = i + 1]
           \/ /\ ~LoopEnds(req[t]) /\ users[i].id # req[t].id
              /\ IF i \in DOMAIN locks THEN Go(t, "lock") ELSE Answer(t, "error")
    /\ UNCHANGED <<users, locks, regLock, illegal, arrived>>

\* handle_new_interception: summarize_num_intercepted is 1, so always.
Learn(t) ==
    /\ req[t].pc = "learn"
    /\ \/ /\ users' = [users EXCEPT ![req[t].i].experience = illegal]
          /\ Go(t, "replan") /\ UNCHANGED locks
       \/ Leave(t, "error") /\ UNCHANGED users
    /\ UNCHANGED <<regLock, illegal, arrived>>

\* plan_overall: a new plan, and a stage that begins now.
PlanOverall(t) ==
    /\ req[t].pc = "replan"
    /\ \/ /\ \E plan \in Plans :
               users' = [users EXCEPT ![req[t].i].plan = plan,
                                      ![req[t].i].time_record = users[req[t].i].time_past]
          /\ req' = [req EXCEPT ![t].pc = "loop", ![t].i = @ + 1]
          /\ locks' = [locks EXCEPT ![req[t].i] = Free]
       \/ Leave(t, "error") /\ UNCHANGED users
    /\ UNCHANGED <<regLock, illegal, arrived>>

\* The first user of that id is reset; then every user summarises the arrests,
\* which touches no state kept here and may fail.
Arrest(t) ==
    /\ req[t].pc = "arrest"
    /\ LET own == Registered(req[t].id)
       IN  users' = IF own = {} THEN users ELSE [users EXCEPT ![Min(own)] = Reset(@)]
    /\ \E result \in {"ok", "error"} : Answer(t, result)
    /\ UNCHANGED <<locks, regLock, illegal, arrived>>

\* The record whose failed counter is raised: the first one at which the
\* payments counted so far, those at exactly minute 10 * group, reach the rank.
Blamed(txs, group, rank) ==
    {k \in DOMAIN txs :
        /\ Sent(SelectSeq(SubSeq(txs, 1, k), LAMBDA x : x.time = Step * group)) >= rank}

CountFailure(txs, k) == [txs EXCEPT ![k].failed = @ + 1]

FailedTransactions(t) ==
    /\ req[t].pc = "report"
    /\ users' = [i \in DOMAIN users |->
        IF users[i].id # req[t].id THEN users[i]
        ELSE LET blamed == Blamed(users[i].list, req[t].report.group - 1, req[t].report.rank)
             IN  [users[i] EXCEPT
                    !.list = IF blamed = {} THEN @
                             ELSE CountFailure(users[i].list, Min(blamed)),
                    !.money = @ - 1]]
    /\ Answer(t, "ok")
    /\ UNCHANGED <<locks, regLock, illegal, arrived>>

ThreadStep(t) ==
    \/ EnterRegister(t) \/ BuildUser(t) \/ AppendLock(t)
    \/ FindUser(t) \/ LockUser(t) \/ CheckStage(t) \/ TakeAnswer(t)
    \/ LoadMoney(t) \/ StoreMoney(t) \/ RecordBatch(t)
    \/ Publish(t) \/ NextOther(t) \/ Learn(t) \/ PlanOverall(t)
    \/ Arrest(t) \/ FailedTransactions(t)

-----------------------------------------------------------------------------

InsideUserLock == {"stage", "ask", "load", "store", "record", "learn", "replan"}

\* The globals have their types, with at most one user short of its lock.
AgentTypeOK ==
    /\ arrived \in 0 .. MaxRequests
    /\ Len(users) - Len(locks) \in 0 .. 1
    /\ \A i \in DOMAIN users :
        /\ users[i].id \in Id
        /\ users[i].rank = i - 1
        /\ users[i].time_past \in Nat /\ users[i].time_record \in Nat
        /\ users[i].money \in Int /\ users[i].stage_money \in Nat
    /\ \A i \in DOMAIN locks : locks[i] \in Thread \cup {Free}
    /\ regLock \in Thread \cup {Free}

(* Each lock is held exactly while its holder is inside the with block on  *)
(* that user (main.py:24, :49, :126), on every path out of it: answers,    *)
(* exceptions of the model and parse failures.  badusers and lock_list     *)
(* grow while other threads index them; position i of one still is         *)
(* position i of the other.                                                *)
LocksAreHeldInside ==
    /\ \A t \in Thread :
        /\ regLock = t <=> req[t].pc \in {"build", "appendLock"}
        /\ \A i \in DOMAIN locks :
            locks[i] = t <=> (req[t].pc \in InsideUserLock /\ req[t].i = i)
        /\ req[t].pc \in InsideUserLock \cup {"lock"} => req[t].i \in DOMAIN locks
    /\ regLock = Free => Len(locks) = Len(users)

(* The server's shared lists are sound: typed, and guarded by their locks.  *)
AgentInv == AgentTypeOK /\ LocksAreHeldInside

(* A batch is added to a stage only while the stage is short of its task   *)
(* (User.py:183): between that check and the write (:279) lie a model call *)
(* and the requests of other threads for the same user.                    *)
StageIsNotOverrun ==
    [][\A i \in DOMAIN users :
        users'[i].stage_money > users[i].stage_money /\ users[i].rank < RuleFrom
            => users[i].stage_money < users[i].stage_total]_serverVars

(* When /intercepted answers "complete", every other user that was         *)
(* registered when its loop began has taken that interception into its     *)
(* experience, also when several interceptions run at once.                *)
InterceptionsReachEveryone ==
    \A t \in Thread :
        req[t].kind = "intercept" /\ req[t].pc = "replied" /\ req[t].result = "ok" =>
            \A i \in 1 .. req[t].last :
                users[i].id # req[t].id => users[i].experience >= req[t].seen
=============================================================================
