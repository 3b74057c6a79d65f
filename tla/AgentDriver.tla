------------------------------ MODULE AgentDriver ------------------------------
(***************************************************************************)
(* The experiment driver of src/Agent (test.py): one client thread per id, *)
(* composed with AgentServer.  A client keeps its own account of what it   *)
(* paid.  It gives up on a planning request after 50 seconds and asks      *)
(* again, while the server's thread carries on; reports of interceptions   *)
(* and arrests have no timeout.  The client's clock, which only weighs the *)
(* chances of being caught, is left out: being caught is a free choice.    *)
(***************************************************************************)
EXTENDS AgentServer

CONSTANTS
    Total,                   \* total_money, in payments
    MaxTimeouts              \* bound on the requests given up

VARIABLES
    client,                  \* [Id -> MyThread]
    orphans,                 \* threads whose client gave up
    dropped,                 \* history: payments charged in answers that came too
                             \* late or that the client could not read
    reported,                \* history: ids with a failure report
    timeouts                 \* bound

driverVars == <<client, orphans, dropped, reported, timeouts>>
vars == <<serverVars, driverVars>>

DriverInit ==
    /\ ServerInit
    /\ client = [c \in Id |-> [pc |-> "new", at |-> Free, money |-> 0]]
    /\ orphans = {}
    /\ dropped = [c \in Id |-> 0]
    /\ reported = {}
    /\ timeouts = 0

-----------------------------------------------------------------------------

\* The threads that no client has a request on.
FreeThreads == {t \in Thread : t \notin orphans /\ \A d \in Id : client[d].at # t}

\* The client posts a request and waits for it; threads are alike, so one of the
\* free ones stands for all.
Post(c, from, kind, to) ==
    /\ client[c].pc = from
    /\ FreeThreads # {}
    /\ LET t == CHOOSE u \in FreeThreads : TRUE
       IN  /\ Arrive(t, kind, c)
           /\ client' = [client EXCEPT ![c].pc = to, ![c].at = t]
    /\ UNCHANGED <<orphans, dropped, reported, timeouts>>

Register(c) == Post(c, "new", "register", "registering")
Ask(c) == Post(c, "idle", "plan", "asking")
ReportInterception(c) == Post(c, "intercepted", "intercept", "reporting")
ReportArrest(c) == Post(c, "arrested", "arrest", "reporting")

Replied(c) == client[c].at # Free /\ req[client[c].at].pc = "replied"

\* Whatever /register answers, and also without an answer, the client goes on.
Registering(c) ==
    /\ client[c].pc = "registering"
    /\ Replied(c)
    /\ client' = [client EXCEPT ![c].pc = "idle", ![c].at = Free]
    /\ req' = [req EXCEPT ![client[c].at] = NoRequest]
    /\ UNCHANGED <<users, locks, regLock, illegal, arrived, orphans, dropped, reported, timeouts>>

GiveUp(c) ==
    /\ client[c].pc \in {"registering", "asking"}
    /\ timeouts < MaxTimeouts
    /\ timeouts' = timeouts + 1
    /\ orphans' = orphans \cup {client[c].at}
    /\ client' = [client EXCEPT ![c].pc = "idle", ![c].at = Free]
    /\ UNCHANGED <<serverVars, dropped, reported>>

\* Nobody pays what was charged in the answer that thread t has sent.
Lose(t) ==
    /\ dropped' = [dropped EXCEPT ![req[t].id] =
                     IF req[t].result \in Charged THEN @ + Sent(req[t].batch) ELSE @]
    /\ req' = [req EXCEPT ![t] = NoRequest]

\* "-1", "" and errors are no payment, also when "-1" stands for a charged list;
\* int() of a float raises and ends the client's thread.
NoPayment(c) ==
    /\ client[c].pc = "asking" /\ Replied(c)
    /\ req[client[c].at].result # "batch"
    /\ client' = [client EXCEPT
          ![c].pc = IF req[client[c].at].result = "floats" THEN "done" ELSE "idle",
          ![c].at = Free]
    /\ Lose(client[c].at)
    /\ UNCHANGED <<users, locks, regLock, illegal, arrived, orphans, reported, timeouts>>

\* After a batch the client may find itself intercepted or arrested; else it
\* goes on until it has moved everything.
Pay(c) ==
    /\ client[c].pc = "asking" /\ Replied(c)
    /\ req[client[c].at].result = "batch"
    /\ LET money == client[c].money + Sent(req[client[c].at].batch)
       IN  \E pc \in {"intercepted", "arrested", IF money >= Total THEN "done" ELSE "idle"} :
             client' = [client EXCEPT ![c].pc = pc, ![c].at = Free, ![c].money = money]
    /\ req' = [req EXCEPT ![client[c].at] = NoRequest]
    /\ UNCHANGED <<users, locks, regLock, illegal, arrived, orphans, dropped, reported, timeouts>>

\* An intercepted client may be arrested as well; then its thread ends.
Reported(c) ==
    /\ client[c].pc = "reporting" /\ Replied(c)
    /\ \E pc \in {"done"} \cup (IF req[client[c].at].kind = "intercept" THEN {"arrested"} ELSE {}) :
        client' = [client EXCEPT ![c].pc = pc, ![c].at = Free]
    /\ req' = [req EXCEPT ![client[c].at] = NoRequest]
    /\ UNCHANGED <<users, locks, regLock, illegal, arrived, orphans, dropped, reported, timeouts>>

\* The server writes an answer to a connection that the client has closed.
Drop(t) ==
    /\ t \in orphans
    /\ req[t].pc = "replied"
    /\ orphans' = orphans \ {t}
    /\ Lose(t)
    /\ UNCHANGED <<users, locks, regLock, illegal, arrived, client, reported, timeouts>>

\* Somebody who watches the chain reports a payment that failed.
ReportFailure(t, c, r) ==
    /\ t \in FreeThreads
    /\ ArriveReport(t, c, r)
    /\ reported' = reported \cup {c}
    /\ UNCHANGED <<client, orphans, dropped, timeouts>>

ClientStep(c) ==
    \/ Register(c) \/ Ask(c) \/ ReportInterception(c) \/ ReportArrest(c)
    \/ Registering(c) \/ NoPayment(c) \/ Pay(c) \/ Reported(c)

DriverNext ==
    \/ \E t \in Thread : (ThreadStep(t) /\ UNCHANGED driverVars) \/ Drop(t)
    \/ \E c \in Id : ClientStep(c) \/ GiveUp(c)
    \/ \E t \in Thread, c \in Id, r \in Reports : ReportFailure(t, c, r)

\* Threads on both sides are scheduled by their interpreters and a model call
\* ends (the client library has a timeout); a client need not time out, and
\* nobody need report a failure.
DriverFairness ==
    /\ \A t \in Thread : WF_vars((ThreadStep(t) /\ UNCHANGED driverVars) \/ Drop(t))
    /\ \A c \in Id : WF_vars(ClientStep(c))

DriverSpec == DriverInit /\ [][DriverNext]_vars /\ DriverFairness

-----------------------------------------------------------------------------

\* A batch that is charged and whose answer nobody has read yet.
IsUnderWay(r) == r.pc = "record" \/ (r.pc = "replied" /\ r.result \in Charged)

\* The payments on their way to a client, over all threads.
OnItsWay(c) ==
    SumFunction([t \in Thread |->
        IF req[t].id = c /\ IsUnderWay(req[t]) THEN Sent(req[t].batch) ELSE 0])

(* Until a client reports its own interception or arrest, the server's     *)
(* money_transferred is what the client paid, plus what is on its way,     *)
(* plus what was charged in answers that no client paid: they came after   *)
(* the timeout, or said "-1" for a list of text or for [0] (User.py:278    *)
(* charges before :286 and :292 can raise and :298 turns 0 into -1).       *)
(* Retries run beside the thread they replace, so an update that is lost   *)
(* between the read and the write of :278, or a batch counted twice, shows *)
(* here.                                                                   *)
(* (/failedTransactions, main.py:88, lowers the same number without the    *)
(* lock and does lose updates: ids with a report are left out.)            *)
PaymentsAreAccounted ==
    \A c \in Id \ reported : \A i \in DOMAIN users :
        i = Min(Registered(users[i].id)) /\ users[i].id = c
            /\ client[c].pc \in {"idle", "asking", "intercepted"}
        => users[i].money = client[c].money + dropped[c] + OnItsWay(c)

(* No client waits for ever: not for the registration lock, not for the    *)
(* lock of its user, and not in a report of an interception or arrest,     *)
(* which has no timeout (test.py:179, :188) and whose handler waits for    *)
(* the lock of every other user in turn.                                   *)
ClientsAreAnswered ==
    \A c \in Id : []<>(client[c].at = Free)
=============================================================================
