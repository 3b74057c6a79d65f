---------------------------- MODULE MCAgentDriver ----------------------------
(* Three clients, on a server with a thread for each; the first two users  *)
(* are run by the model, the third by the rule.  For two interceptions to  *)
(* meet at the lock of a third user it takes eight requests, so the run    *)
(* starts from three reachable states and follows MaxRequests requests     *)
(* from each: nobody registered; one user caught, one at work and one      *)
(* about to register; two users caught while the third asks for a plan.    *)
EXTENDS AgentDriver

CONSTANTS u1, u2, u3, t1, t2, t3

MCPlans == {<<>>, <<2>>}
MCBatches ==
    {<<[minute |-> 10, send |-> 1, form |-> "int"]>>, OnlyZero,
     <<[minute |-> 5, send |-> 1, form |-> "text"]>>,
     <<[minute |-> 10, send |-> 1, form |-> "float"]>>}
MCReports == {[group |-> 3, rank |-> 1]}

\* A user that registered, asked once and was answered with one payment.
Paid(id, rank) ==
    [id |-> id, rank |-> rank, time_past |-> Step, time_record |-> 0, plan |-> <<2>>,
     money |-> 1, stage_money |-> 1, stage_total |-> IF rank < RuleFrom THEN 2 ELSE 0,
     list |-> <<[time |-> 2 * Step, send |-> 1, failed |-> 0]>>,
     stage_list |-> <<[time |-> (2 * Step) % Stage, send |-> 1, failed |-> 0]>>,
     experience |-> 0]

Client(pc, at, money) == [pc |-> pc, at |-> at, money |-> money]

\* Nobody is registered.
Cold == DriverInit

\* Two users have paid once and one of them was caught; the third is to register.
Running ==
    /\ users = <<Paid(u1, 0), Paid(u2, 1)>>
    /\ locks = <<Free, Free>>
    /\ req = [t \in Thread |-> NoRequest]
    /\ client = (u1 :> Client("intercepted", Free, 1) @@ u2 :> Client("idle", Free, 1)
                 @@ u3 :> Client("new", Free, 0))
    /\ timeouts = 0 /\ arrived = 0

\* All have paid once; two were caught and the third asks again.
Caught ==
    /\ users = <<Paid(u1, 0), Paid(u2, 1), Paid(u3, 2)>>
    /\ locks = <<Free, Free, Free>>
    /\ req = [t \in Thread |->
                IF t = t3 THEN [NoRequest EXCEPT !.kind = "plan", !.id = u3, !.pc = "find"]
                ELSE NoRequest]
    /\ client = (u1 :> Client("intercepted", Free, 1) @@ u2 :> Client("intercepted", Free, 1)
                 @@ u3 :> Client("asking", t3, 1))
    /\ timeouts = MaxTimeouts /\ arrived = 1

MCInit ==
    \/ Cold
    \/ /\ Running \/ Caught
       /\ regLock = Free /\ illegal = 0
       /\ orphans = {} /\ dropped = [c \in Id |-> 0] /\ reported = {}

MCSpec == MCInit /\ [][DriverNext]_vars /\ DriverFairness
=============================================================================
