-------------------------- MODULE AgentDriver_proofs --------------------------
(***************************************************************************)
(* What the threads of the agent server and of its clients do to each      *)
(* other, for any number of ids, threads and requests.                     *)
(*                                                                         *)
(* The inductive invariant says what a thread may rely on at each of its   *)
(* points (ThreadOK).  A step of one thread keeps what the others rely on  *)
(* because of its frame: a registered user keeps its id, its rank and what *)
(* it has learnt, and its stage is touched only by the holder of its lock. *)
(***************************************************************************)
EXTENDS AgentDriver, DataInduction, SequenceTheorems

Payment == [time : Int, send : Nat, failed : Nat]

UserRecord ==
    [id : Id, rank : Nat, time_past : Nat, time_record : Nat, plan : Seq(Nat),
     money : Int, stage_money : Nat, stage_total : Nat, list : Seq(Payment),
     stage_list : Seq(Payment), experience : Nat]

Point == {"idle", "enter", "build", "appendLock", "find", "lock", "stage", "ask",
          "load", "store", "record", "publish", "loop", "learn", "replan", "arrest",
          "report", "replied"}

Batch == Seq([minute : Int, send : Nat, form : Form])

Request ==
    [kind : {"none", "register", "plan", "intercept", "arrest", "report"},
     id : Id \cup {Free}, pc : Point, i : Nat, last : Nat, seen : Int, batch : Batch,
     report : Reports \cup {<<>>},
     result : {"none", "ok", "error", "nothing", "wait"} \cup Charged]

\* The shared state has its type, and a user stands where its rank says.
ServerTyped ==
    /\ users \in Seq(UserRecord)
    /\ \A i \in 1 .. Len(users) : users[i].rank = i - 1 /\ users[i].experience <= illegal
    /\ locks \in Seq(Thread \cup {Free})
    /\ regLock \in Thread \cup {Free}
    /\ illegal \in Nat
    /\ req \in [Thread -> Request]
    /\ arrived \in 0 .. MaxRequests

\* The points that each kind of request passes.
Path(kind) ==
    CASE kind = "none" -> {"idle"}
      [] kind = "register" -> {"enter", "build", "appendLock", "replied"}
      [] kind = "plan" -> {"find", "lock", "stage", "ask", "load", "store", "record", "replied"}
      [] kind = "intercept" -> {"publish", "loop", "lock", "learn", "replan", "replied"}
      [] kind = "arrest" -> {"arrest", "replied"}
      [] kind = "report" -> {"report", "replied"}

\* The users before position n know of the interception that t reports.
Informed(t, n) ==
    \A j \in 1 .. Len(users) :
        j < n /\ users[j].id # req[t].id => users[j].experience >= req[t].seen

\* What a thread relies on while it goes through the users one by one.
LoopOK(t) ==
    /\ req[t].last <= Len(users)
    /\ req[t].i \in 1 .. req[t].last + 1
    /\ req[t].seen <= illegal
    /\ Informed(t, req[t].i)
    /\ req[t].pc # "loop" => req[t].i <= req[t].last /\ users[req[t].i].id # req[t].id
    /\ req[t].pc = "replan" => users[req[t].i].experience >= req[t].seen

\* A stage that is about to be extended is short of its task.
StageIsShort(u) == u.rank < RuleFrom => u.stage_money < u.stage_total

\* The locks are held where the thread is inside them.
HoldsItsLocks(t) ==
    /\ regLock = t <=> req[t].pc \in {"build", "appendLock"}
    /\ \A i \in 1 .. Len(locks) :
        locks[i] = t <=> (req[t].pc \in InsideUserLock /\ req[t].i = i)
    /\ req[t].pc \in InsideUserLock \cup {"lock"} => req[t].i \in 1 .. Len(locks)

\* What a registration relies on.
RegisterOK(t) ==
    /\ req[t].pc = "appendLock" => Len(users) = Len(locks) + 1
    /\ req[t].pc = "build" => req[t].seen \in 0 .. illegal /\ Len(users) = Len(locks)

\* What a planning request relies on.
PlanOK(t) ==
    /\ req[t].pc \in {"lock", "stage", "ask", "load", "store", "record"} =>
            users[req[t].i].id = req[t].id
    /\ req[t].pc \in {"ask", "load", "store"} => StageIsShort(users[req[t].i])

\* What an interception relies on, and what its answer promises.
InterceptOK(t) ==
    /\ req[t].pc \in {"loop", "lock", "learn", "replan"} => LoopOK(t)
    /\ req[t].pc = "replied" /\ req[t].result = "ok" =>
            req[t].last <= Len(users) /\ Informed(t, req[t].last + 1)

\* What thread t relies on.
ThreadOK(t) ==
    /\ req[t].pc \in Path(req[t].kind)
    /\ req[t].kind # "none" => req[t].id \in Id
    /\ HoldsItsLocks(t)
    /\ req[t].kind = "register" => RegisterOK(t)
    /\ req[t].kind = "plan" => PlanOK(t)
    /\ req[t].kind = "intercept" => InterceptOK(t)

\* Only a registration between its two appends leaves a user without a lock.
ListsFit ==
    /\ Len(users) - Len(locks) \in 0 .. 1
    /\ regLock = Free => Len(locks) = Len(users)

AgentIInv ==
    /\ ServerTyped
    /\ \A t \in Thread : ThreadOK(t)
    /\ ListsFit

-----------------------------------------------------------------------------

\* What a step of thread t leaves to the other threads.
Frame(t) ==
    /\ \A u \in Thread \ {t} : req'[u] = req[u]
    /\ Len(users) <= Len(users') /\ Len(locks) <= Len(locks')
    /\ illegal <= illegal'
    /\ \A i \in 1 .. Len(users) :
        /\ users'[i].id = users[i].id /\ users'[i].rank = users[i].rank
        /\ users[i].experience <= users'[i].experience
    /\ \A i \in 1 .. Len(locks) :
        /\ locks[i] # t =>
            /\ users'[i].stage_money = users[i].stage_money
            /\ users'[i].stage_total = users[i].stage_total
        /\ \A u \in Thread \ {t} : locks'[i] = u <=> locks[i] = u
    /\ \A i \in Len(locks) + 1 .. Len(locks') : locks'[i] = Free
    /\ \A u \in Thread \ {t} : regLock' = u <=> regLock = u
    /\ regLock \in Thread \ {t} => Len(users') = Len(users) /\ Len(locks') = Len(locks)

\* The lengths and elements of the two lists.
LEMMA ServerFacts ==
    ASSUME ServerTyped
    PROVE  /\ Len(users) \in Nat /\ DOMAIN users = 1 .. Len(users)
           /\ \A i \in 1 .. Len(users) : users[i] \in UserRecord
           /\ Len(locks) \in Nat /\ DOMAIN locks = 1 .. Len(locks)
           /\ \A i \in 1 .. Len(locks) : locks[i] \in Thread \cup {Free}
           /\ \A t \in Thread : req[t] \in Request
           /\ illegal \in Nat
BY LenProperties, ElementOfSeq DEF ServerTyped

\* A step of one thread keeps what another one relies on.
LEMMA OthersKeep ==
    ASSUME AgentIInv, ServerTyped', NEW t \in Thread, Frame(t),
           NEW u \in Thread, u # t
    PROVE  ThreadOK(u)'
<1>0. ServerTyped /\ ListsFit /\ ThreadOK(u)
  BY DEF AgentIInv
<1>1. /\ Len(users) \in Nat /\ Len(locks) \in Nat /\ illegal \in Nat /\ req[u] \in Request
      /\ \A i \in 1 .. Len(users) : users[i] \in UserRecord
      /\ \A i \in 1 .. Len(locks) : locks[i] \in Thread \cup {Free}
  BY <1>0, ServerFacts
<1>2. /\ Len(users') \in Nat /\ Len(locks') \in Nat /\ illegal' \in Nat
      /\ \A i \in 1 .. Len(users') : users'[i] \in UserRecord
  BY LenProperties, ElementOfSeq DEF ServerTyped
<1>3. req'[u] = req[u]
  BY DEF Frame
<1>4. Len(locks) <= Len(users)
  BY <1>0, <1>1 DEF ListsFit
<1>5. /\ Len(users) <= Len(users') /\ Len(locks) <= Len(locks') /\ illegal <= illegal'
      /\ \A i \in 1 .. Len(users) :
        /\ users'[i].id = users[i].id /\ users'[i].rank = users[i].rank
        /\ users[i].experience <= users'[i].experience
  BY DEF Frame
<1>6. /\ req'[u].pc \in Path(req'[u].kind)
      /\ req'[u].kind # "none" => req'[u].id \in Id
  BY <1>0, <1>3 DEF ThreadOK
<1>7. HoldsItsLocks(u)'
  <2>0. HoldsItsLocks(u)
    BY <1>0 DEF ThreadOK
  <2>1. regLock' = u <=> regLock = u
    BY DEF Frame
  <2>2. ASSUME NEW i \in 1 .. Len(locks')
        PROVE  locks'[i] = u <=> (req[u].pc \in InsideUserLock /\ req[u].i = i)
    <3>1. CASE i \in 1 .. Len(locks)
      BY <2>0, <3>1 DEF Frame, HoldsItsLocks
    <3>2. CASE i \notin 1 .. Len(locks)
      <4>1. locks'[i] = Free
        BY <1>1, <1>2, <3>2 DEF Frame
      <4>2. Free # u
        BY AgentAssumption
      <4>3. req[u].pc \in InsideUserLock => req[u].i # i
        BY <2>0, <3>2 DEF HoldsItsLocks
      <4> QED
        BY <4>1, <4>2, <4>3
    <3> QED
      BY <3>1, <3>2
  <2>3. req[u].pc \in InsideUserLock \cup {"lock"} => req[u].i \in 1 .. Len(locks')
    BY <1>1, <1>2, <1>5, <2>0 DEF HoldsItsLocks, Request
  <2>4. regLock' = u <=> req'[u].pc \in {"build", "appendLock"}
    BY <1>3, <2>0, <2>1 DEF HoldsItsLocks
  <2> QED
    BY <1>3, <2>2, <2>3, <2>4 DEF HoldsItsLocks, InsideUserLock
<1>8. ASSUME req[u].kind = "register"
      PROVE  RegisterOK(u)'
  <2>1. RegisterOK(u) /\ HoldsItsLocks(u)
    BY <1>0, <1>8 DEF ThreadOK
  <2>2. CASE req[u].pc \in {"build", "appendLock"}
    <3>1. regLock = u
      BY <2>1, <2>2 DEF HoldsItsLocks
    <3>2. Len(users') = Len(users) /\ Len(locks') = Len(locks)
      BY <3>1 DEF Frame
    <3> QED
      BY <1>1, <1>2, <1>3, <1>5, <2>1, <3>2 DEF RegisterOK, Request
  <2>3. CASE req[u].pc \notin {"build", "appendLock"}
    BY <1>3, <2>3 DEF RegisterOK
  <2> QED
    BY <2>2, <2>3
<1>9. ASSUME req[u].kind = "plan"
      PROVE  PlanOK(u)'
  <2>1. PlanOK(u) /\ HoldsItsLocks(u)
    BY <1>0, <1>9 DEF ThreadOK
  <2>2. ASSUME req[u].pc \in {"lock", "stage", "ask", "load", "store", "record"}
        PROVE  users'[req[u].i].id = req[u].id
    <3>1. req[u].i \in 1 .. Len(users)
      BY <1>1, <1>4, <2>1, <2>2 DEF HoldsItsLocks, InsideUserLock, Request
    <3> QED
      BY <1>5, <2>1, <2>2, <3>1 DEF PlanOK
  <2>3. ASSUME req[u].pc \in {"ask", "load", "store"}
        PROVE  StageIsShort(users'[req[u].i])
    <3>1. req[u].i \in 1 .. Len(users) /\ req[u].i \in 1 .. Len(locks)
      BY <1>1, <1>4, <2>1, <2>3 DEF HoldsItsLocks, InsideUserLock, Request
    <3>2. locks[req[u].i] = u
      BY <2>1, <2>3, <3>1 DEF HoldsItsLocks, InsideUserLock
    <3>3. /\ users'[req[u].i].stage_money = users[req[u].i].stage_money
          /\ users'[req[u].i].stage_total = users[req[u].i].stage_total
          /\ users'[req[u].i].rank = users[req[u].i].rank
      BY <1>5, <3>1, <3>2 DEF Frame
    <3>4. StageIsShort(users[req[u].i])
      BY <2>1, <2>3 DEF PlanOK
    <3> QED
      BY <3>3, <3>4 DEF StageIsShort
  <2> QED
    BY <1>3, <2>2, <2>3 DEF PlanOK, StageIsShort
<1>10. ASSUME req[u].kind = "intercept"
       PROVE  InterceptOK(u)'
  <2>1. InterceptOK(u)
    BY <1>0, <1>10 DEF ThreadOK
  <2>2. ASSUME NEW n \in Int, n <= Len(users) + 1, Informed(u, n)
        PROVE  \A j \in 1 .. Len(users') :
                  j < n /\ users'[j].id # req[u].id => users'[j].experience >= req[u].seen
    <3> TAKE j \in 1 .. Len(users')
    <3>1. CASE j < n
      <4>1. j \in 1 .. Len(users)
        BY <1>1, <1>2, <2>2, <3>1
      <4>2. /\ users'[j].id = users[j].id
            /\ users[j].experience <= users'[j].experience
            /\ users[j].id # req[u].id => users[j].experience >= req[u].seen
        BY <1>5, <2>2, <3>1, <4>1 DEF Informed
      <4>3. /\ users[j].experience \in Nat /\ users'[j].experience \in Nat
            /\ req[u].seen \in Int
        BY <1>1, <1>2, <4>1 DEF UserRecord, Request
      <4> QED
        BY <4>2, <4>3
    <3> QED
      BY <3>1
  <2>3. ASSUME req[u].pc \in {"loop", "lock", "learn", "replan"}
        PROVE  LoopOK(u)'
    <3>1. LoopOK(u)
      BY <2>1, <2>3 DEF InterceptOK
    <3>2. /\ req[u].last \in Nat /\ req[u].seen \in Int
          /\ req[u].last <= Len(users) /\ req[u].i \in 1 .. req[u].last + 1
          /\ req[u].seen <= illegal
      BY <1>1, <3>1 DEF LoopOK, Request
    <3>3. \A j \in 1 .. Len(users') :
             j < req[u].i /\ users'[j].id # req[u].id => users'[j].experience >= req[u].seen
      BY <1>1, <2>2, <3>1, <3>2, SMTT(30) DEF LoopOK
    <3>4. Informed(u, req[u].i)'
      BY <1>3, <3>3 DEF Informed
    <3>5. req[u].pc # "loop" =>
            /\ req[u].i \in 1 .. Len(users) /\ req[u].i <= req[u].last
            /\ users[req[u].i].id # req[u].id
      BY <1>1, <3>1, <3>2 DEF LoopOK
    <3>6. req[u].pc = "replan" => users'[req[u].i].experience >= req[u].seen
      <4> SUFFICES ASSUME req[u].pc = "replan"
                   PROVE  users'[req[u].i].experience >= req[u].seen
        OBVIOUS
      <4>1. req[u].i \in 1 .. Len(users)
        BY <3>5
      <4>2. /\ users[req[u].i].experience >= req[u].seen
            /\ users[req[u].i].experience <= users'[req[u].i].experience
        BY <1>5, <3>1, <4>1 DEF LoopOK
      <4>3. users[req[u].i].experience \in Nat /\ users'[req[u].i].experience \in Nat
        <5>1. req[u].i \in 1 .. Len(users')
          BY <1>1, <1>2, <1>5, <4>1
        <5> QED
          BY <1>1, <1>2, <4>1, <5>1 DEF UserRecord
      <4> QED
        BY <3>2, <4>2, <4>3, SMTT(30)
    <3>7. req[u].last <= Len(users') /\ req[u].seen <= illegal'
      BY <1>1, <1>2, <1>5, <3>2
    <3> QED
      BY <1>3, <1>5, <3>2, <3>4, <3>5, <3>6, <3>7 DEF LoopOK
  <2>4. ASSUME req[u].pc = "replied", req[u].result = "ok"
        PROVE  (req[u].last <= Len(users) /\ Informed(u, req[u].last + 1))'
    <3>1. req[u].last <= Len(users) /\ Informed(u, req[u].last + 1) /\ req[u].last \in Nat
      BY <1>1, <2>1, <2>4 DEF InterceptOK, Request
    <3>2. \A j \in 1 .. Len(users') :
             j < req[u].last + 1 /\ users'[j].id # req[u].id
                => users'[j].experience >= req[u].seen
      <4>1. req[u].last + 1 \in Int /\ req[u].last + 1 <= Len(users) + 1
        BY <1>1, <3>1
      <4> QED
        BY <2>2, <3>1, <4>1
    <3> QED
      BY <1>1, <1>2, <1>3, <1>5, <3>1, <3>2 DEF Informed
  <2> QED
    BY <1>3, <2>3, <2>4 DEF InterceptOK
<1> QED
  BY <1>3, <1>6, <1>7, <1>8, <1>9, <1>10 DEF ThreadOK

\* The kind of a request that has come to a point.
LEMMA KindOfPoint ==
    ASSUME NEW t \in Thread, ThreadOK(t), req[t] \in Request
    PROVE  /\ req[t].pc \in {"enter", "build", "appendLock"} => req[t].kind = "register"
           /\ req[t].pc \in {"find", "stage", "ask", "load", "store", "record"} =>
                 req[t].kind = "plan"
           /\ req[t].pc \in {"publish", "loop", "learn", "replan"} => req[t].kind = "intercept"
           /\ req[t].pc = "lock" => req[t].kind \in {"plan", "intercept"}
           /\ req[t].pc = "arrest" => req[t].kind = "arrest"
           /\ req[t].pc = "report" => req[t].kind = "report"
           /\ req[t].pc # "idle" => req[t].id \in Id
           /\ req[t].pc = "idle" <=> req[t].kind = "none"
BY DEF ThreadOK, Path, Request

\* What a step of thread t, if it appends none, leaves of the users.
UsersKept(t) ==
    /\ users' \in Seq(UserRecord) /\ Len(users') = Len(users)
    /\ illegal' \in Nat /\ illegal <= illegal'
    /\ \A i \in 1 .. Len(users) :
        /\ users'[i].id = users[i].id /\ users'[i].rank = users[i].rank
        /\ users[i].experience <= users'[i].experience
        /\ users'[i].experience <= illegal'
        /\ i \in 1 .. Len(locks) /\ locks[i] # t =>
            /\ users'[i].stage_money = users[i].stage_money
            /\ users'[i].stage_total = users[i].stage_total

\* A step of thread t that appends to neither list.
Steady(t, r) ==
    /\ req' = [req EXCEPT ![t] = r]
    /\ arrived' \in 0 .. MaxRequests
    /\ UsersKept(t)
    /\ \/ regLock' = regLock
       \/ regLock \in {t, Free} /\ regLock' \in {t, Free} /\ Len(users) = Len(locks)
    /\ \/ locks' = locks
       \/ \E i \in 1 .. Len(locks), v \in {t, Free} :
            locks[i] \in {t, Free} /\ locks' = [locks EXCEPT ![i] = v]

\* A step that keeps both lists as long as they were, and takes or frees no
\* lock but its own, keeps the server typed and the other requests unharmed.
LEMMA SteadyStep ==
    ASSUME AgentIInv, NEW t \in Thread, NEW r \in Request, Steady(t, r)
    PROVE  /\ ServerTyped' /\ Frame(t) /\ ListsFit'
           /\ req'[t] = r /\ Len(users') = Len(users) /\ Len(locks') = Len(locks)
<1>0. ServerTyped /\ ListsFit
  BY DEF AgentIInv
<1>1. /\ Len(users) \in Nat /\ Len(locks) \in Nat /\ illegal \in Nat
      /\ \A i \in 1 .. Len(users) : users[i] \in UserRecord
      /\ \A i \in 1 .. Len(locks) : locks[i] \in Thread \cup {Free}
  BY <1>0, ServerFacts
<1>2. /\ req' \in [Thread -> Request] /\ req'[t] = r
      /\ \A u \in Thread \ {t} : req'[u] = req[u]
  BY <1>0 DEF Steady, UsersKept, ServerTyped
<1>3. /\ locks' \in Seq(Thread \cup {Free}) /\ Len(locks') = Len(locks)
      /\ \A i \in 1 .. Len(locks), u \in Thread \ {t} : locks'[i] = u <=> locks[i] = u
  <2>1. CASE locks' = locks
    BY <1>0, <2>1 DEF ServerTyped
  <2>2. CASE \E i \in 1 .. Len(locks), v \in {t, Free} :
                locks[i] \in {t, Free} /\ locks' = [locks EXCEPT ![i] = v]
    <3>1. PICK i \in 1 .. Len(locks), v \in {t, Free} :
                locks[i] \in {t, Free} /\ locks' = [locks EXCEPT ![i] = v]
      BY <2>2
    <3>2. locks \in Seq(Thread \cup {Free}) /\ v \in Thread \cup {Free}
      BY <1>0 DEF ServerTyped
    <3>3. /\ [locks EXCEPT ![i] = v] \in Seq(Thread \cup {Free})
          /\ Len([locks EXCEPT ![i] = v]) = Len(locks)
          /\ \A j \in 1 .. Len(locks) :
                [locks EXCEPT ![i] = v][j] = IF j = i THEN v ELSE locks[j]
      BY <3>2, ExceptSeq
    <3>4. \A u \in Thread \ {t} : u \notin {t, Free}
      BY AgentAssumption
    <3> QED
      BY <3>1, <3>3, <3>4
  <2> QED
    BY <2>1, <2>2 DEF Steady, UsersKept
<1>4. /\ regLock' \in Thread \cup {Free}
      /\ \A u \in Thread \ {t} : regLock' = u <=> regLock = u
  BY <1>0, AgentAssumption DEF Steady, UsersKept, ServerTyped
<1>5. ServerTyped'
  BY <1>0, <1>2, <1>3, <1>4 DEF Steady, UsersKept, ServerTyped
<1>6. Len(locks) <= Len(users)
  BY <1>0, <1>1 DEF ListsFit
<1>7. Frame(t)
  <2>1. \A i \in 1 .. Len(locks) : i \in 1 .. Len(users)
    BY <1>1, <1>6
  <2>2. \A i \in 1 .. Len(locks) : locks[i] # t =>
            /\ users'[i].stage_money = users[i].stage_money
            /\ users'[i].stage_total = users[i].stage_total
    BY <2>1 DEF Steady, UsersKept
  <2>3. /\ Len(users') = Len(users) /\ illegal <= illegal'
        /\ \A i \in 1 .. Len(users) :
            /\ users'[i].id = users[i].id /\ users'[i].rank = users[i].rank
            /\ users[i].experience <= users'[i].experience
    BY DEF Steady, UsersKept
  <2>4. \A i \in Len(locks) + 1 .. Len(locks') : locks'[i] = Free
    BY <1>1, <1>3
  <2> QED
    BY <1>1, <1>2, <1>3, <1>4, <2>2, <2>3, <2>4 DEF Frame
<1>8. ListsFit'
  BY <1>0, <1>3 DEF Steady, UsersKept, ListsFit
<1> QED
  BY <1>2, <1>3, <1>5, <1>7, <1>8 DEF Steady, UsersKept

\* A step that changes one user, whose lock thread t holds or whose stage it
\* leaves alone.
LEMMA OneUserSteady ==
    ASSUME AgentIInv, NEW t \in Thread, NEW i \in 1 .. Len(users), NEW v \in UserRecord,
           users' = [users EXCEPT ![i] = v], illegal' = illegal,
           v.id = users[i].id, v.rank = users[i].rank,
           users[i].experience <= v.experience, v.experience <= illegal,
           \/ i \in 1 .. Len(locks) /\ locks[i] = t
           \/ v.stage_money = users[i].stage_money /\ v.stage_total = users[i].stage_total
    PROVE  /\ UsersKept(t) /\ users'[i] = v
           /\ \A j \in 1 .. Len(users) : j # i => users'[j] = users[j]
<1>1. ServerTyped /\ illegal \in Nat
  BY ServerFacts DEF AgentIInv
<1>2. users \in Seq(UserRecord) /\ \A j \in 1 .. Len(users) : users[j].experience <= illegal
  BY <1>1 DEF ServerTyped
<1>3. /\ users' \in Seq(UserRecord) /\ Len(users') = Len(users)
      /\ \A j \in 1 .. Len(users) : users'[j] = IF j = i THEN v ELSE users[j]
  BY <1>2, ExceptSeq
<1>4. \A j \in 1 .. Len(users) : users[j].experience \in Nat
  BY <1>1, ServerFacts DEF UserRecord
<1> QED
  BY <1>1, <1>2, <1>3, <1>4 DEF UsersKept

\* A step that changes no user.
LEMMA SameUsersSteady ==
    ASSUME AgentIInv, NEW t \in Thread, users' = users, illegal' = illegal
    PROVE  UsersKept(t)
<1>1. ServerTyped /\ illegal \in Nat
  BY ServerFacts DEF AgentIInv
<1>2. \A j \in 1 .. Len(users) : users[j].experience \in Nat /\ users[j].experience <= illegal
  BY <1>1, ServerFacts DEF UserRecord, ServerTyped
<1> QED
  BY <1>1, <1>2 DEF UsersKept, ServerTyped

-----------------------------------------------------------------------------
(* The request of thread t after a step.                                   *)

Result == {"none", "ok", "error", "nothing", "wait"} \cup Charged
At(q, pc) == [q EXCEPT !.pc = pc]
Answered(q, result) == [q EXCEPT !.pc = "replied", !.result = result]

\* A request that moves on keeps its fields.
LEMMA RequestAt ==
    ASSUME NEW q \in Request, NEW pc \in Point
    PROVE  /\ At(q, pc) \in Request /\ At(q, pc).pc = pc
           /\ At(q, pc).kind = q.kind /\ At(q, pc).id = q.id /\ At(q, pc).i = q.i
           /\ At(q, pc).last = q.last /\ At(q, pc).seen = q.seen /\ At(q, pc).batch = q.batch
           /\ At(q, pc).result = q.result
BY DEF At, Request

\* A request that is answered keeps its fields.
LEMMA RequestAnswered ==
    ASSUME NEW q \in Request, NEW result \in Result
    PROVE  /\ Answered(q, result) \in Request /\ Answered(q, result).pc = "replied"
           /\ Answered(q, result).result = result
           /\ Answered(q, result).kind = q.kind /\ Answered(q, result).id = q.id
           /\ Answered(q, result).i = q.i /\ Answered(q, result).last = q.last
           /\ Answered(q, result).seen = q.seen /\ Answered(q, result).batch = q.batch
BY ZenonT(60) DEF Answered, Request, Point, Result

\* Go moves the request of its thread and no other.
LEMMA GoesTo ==
    ASSUME ServerTyped, NEW t \in Thread, NEW pc \in Point, Go(t, pc)
    PROVE  req' = [req EXCEPT ![t] = At(req[t], pc)]
BY DEF Go, At, ServerTyped

\* Answer ends the request of its thread and no other.
LEMMA AnswersWith ==
    ASSUME ServerTyped, NEW t \in Thread, NEW result \in Result, Answer(t, result)
    PROVE  req' = [req EXCEPT ![t] = Answered(req[t], result)]
<1>1. req \in [Thread -> Request]
  BY DEF ServerTyped
<1>2. req' = [[req EXCEPT ![t] = [req[t] EXCEPT !.pc = "replied"]] EXCEPT ![t].result = result]
  BY DEF Answer
<1> QED
  BY <1>1, <1>2 DEF Answered

\* The locks of a thread that neither takes nor releases one.
LEMMA LocksStay ==
    ASSUME AgentIInv, NEW t \in Thread, NEW r \in Request, Steady(t, r),
           locks' = locks, regLock' = regLock,
           r.pc \in {"build", "appendLock"} <=> req[t].pc \in {"build", "appendLock"},
           r.pc \in InsideUserLock <=> req[t].pc \in InsideUserLock,
           r.pc \in InsideUserLock => r.i = req[t].i,
           r.pc = "lock" => r.i \in 1 .. Len(locks)
    PROVE  HoldsItsLocks(t)'
<1>1. HoldsItsLocks(t) /\ req'[t] = r
  BY SteadyStep DEF AgentIInv, ThreadOK
<1>2. regLock' = t <=> r.pc \in {"build", "appendLock"}
  BY <1>1 DEF HoldsItsLocks
<1>3. \A i \in 1 .. Len(locks) : locks[i] = t <=> (r.pc \in InsideUserLock /\ r.i = i)
  BY <1>1 DEF HoldsItsLocks
<1>4. r.pc \in InsideUserLock \cup {"lock"} => r.i \in 1 .. Len(locks)
  BY <1>1 DEF HoldsItsLocks
<1> QED
  BY <1>1, <1>2, <1>3, <1>4 DEF HoldsItsLocks, InsideUserLock

\* The locks of a thread that leaves a with block.
LEMMA LocksLeft ==
    ASSUME AgentIInv, NEW t \in Thread, NEW r \in Request,
           req' = [req EXCEPT ![t] = r],
           locks' = [locks EXCEPT ![req[t].i] = Free], regLock' = regLock,
           req[t].pc \in InsideUserLock, r.pc \in {"replied", "loop"}
    PROVE  /\ HoldsItsLocks(t)'
           /\ req[t].i \in 1 .. Len(locks) /\ locks[req[t].i] = t
           /\ req[t].i \in 1 .. Len(users)
           /\ \E i \in 1 .. Len(locks), v \in {t, Free} :
                locks[i] \in {t, Free} /\ locks' = [locks EXCEPT ![i] = v]
<1>0. ServerTyped /\ HoldsItsLocks(t) /\ ListsFit
  BY DEF AgentIInv, ThreadOK
<1>1. req[t].i \in 1 .. Len(locks) /\ locks[req[t].i] = t
  BY <1>0 DEF HoldsItsLocks
<1>2. locks \in Seq(Thread \cup {Free}) /\ Free \in Thread \cup {Free} /\ Len(users) \in Nat
      /\ Len(locks) \in Nat /\ Len(users) - Len(locks) \in 0 .. 1
  BY <1>0, ServerFacts DEF ServerTyped, ListsFit
<1>3. /\ Len([locks EXCEPT ![req[t].i] = Free]) = Len(locks)
      /\ \A j \in 1 .. Len(locks) :
            [locks EXCEPT ![req[t].i] = Free][j] = IF j = req[t].i THEN Free ELSE locks[j]
  BY <1>1, <1>2, ExceptSeq
<1>4. /\ Len(locks') = Len(locks)
      /\ \A j \in 1 .. Len(locks) : locks'[j] = IF j = req[t].i THEN Free ELSE locks[j]
  BY <1>3
<1>5. req'[t] = r
  BY <1>0 DEF ServerTyped
<1>6. \A j \in 1 .. Len(locks) : locks'[j] # t
  BY <1>0, <1>4, AgentAssumption DEF HoldsItsLocks
<1>7. r.pc \notin InsideUserLock \cup {"lock"} /\ r.pc \notin {"build", "appendLock"}
      /\ req[t].pc \notin {"build", "appendLock"}
  BY DEF InsideUserLock
<1>8. HoldsItsLocks(t)'
  BY <1>0, <1>4, <1>5, <1>6, <1>7 DEF HoldsItsLocks, InsideUserLock
<1>9. req[t].i \in 1 .. Len(users)
  BY <1>1, <1>2
<1>10. \E i \in 1 .. Len(locks), v \in {t, Free} :
         locks[i] \in {t, Free} /\ locks' = [locks EXCEPT ![i] = v]
  BY <1>1
<1> QED
  BY <1>1, <1>8, <1>9, <1>10

\* Nothing but its locks binds a thread that has answered, unless it was to
\* tell everyone.
LEMMA AnsweredOK ==
    ASSUME AgentIInv, NEW t \in Thread, NEW result \in Result, req[t].pc # "idle",
           req'[t] = Answered(req[t], result), HoldsItsLocks(t)',
           req[t].kind = "intercept" /\ result = "ok" =>
               (req[t].last <= Len(users) /\ Informed(t, req[t].last + 1))'
    PROVE  ThreadOK(t)'
<1>1. req[t] \in Request /\ ThreadOK(t)
  BY ServerFacts DEF AgentIInv
<1>2. /\ req'[t].pc = "replied" /\ req'[t].result = result
      /\ req'[t].kind = req[t].kind /\ req'[t].id = req[t].id
  BY <1>1, RequestAnswered
<1>3. req[t].kind \in {"register", "plan", "intercept", "arrest", "report"} /\ req[t].id \in Id
  BY <1>1, KindOfPoint DEF Request
<1>4. "replied" \in Path(req[t].kind)
  BY <1>3 DEF Path
<1>5. RegisterOK(t)' /\ PlanOK(t)'
  BY <1>2 DEF RegisterOK, PlanOK
<1>6. req[t].kind = "intercept" => InterceptOK(t)'
  BY <1>2 DEF InterceptOK
<1> QED
  BY <1>2, <1>3, <1>4, <1>5, <1>6 DEF ThreadOK

-----------------------------------------------------------------------------
(* /register.                                                              *)

\* add_user: the registration lock is taken and the count of interceptions read.
LEMMA EnterRegisterStep ==
    ASSUME AgentIInv, NEW t \in Thread, EnterRegister(t)
    PROVE  ServerTyped' /\ Frame(t) /\ ThreadOK(t)' /\ ListsFit'
<1> DEFINE r == [req[t] EXCEPT !.pc = "build", !.seen = illegal]
<1>0. ServerTyped /\ ListsFit /\ ThreadOK(t)
  BY DEF AgentIInv
<1>1. req[t] \in Request /\ illegal \in Nat /\ req[t].pc = "enter"
  BY <1>0, ServerFacts DEF EnterRegister
<1>2. /\ r \in Request /\ r.pc = "build" /\ r.seen = illegal /\ r.kind = req[t].kind
      /\ r.id = req[t].id /\ r.i = req[t].i
  <2>1. illegal \in Int /\ "build" \in Point
    BY <1>1 DEF Point
  <2> QED
    BY <1>1, <2>1 DEF Request
<1>3. req' = [req EXCEPT ![t] = r]
  BY <1>0 DEF EnterRegister, ServerTyped
<1> HIDE DEF r
<1>4. Steady(t, r)
  <2>1. /\ users' = users /\ illegal' = illegal /\ locks' = locks /\ arrived' = arrived
        /\ regLock \in {t, Free} /\ regLock' \in {t, Free} /\ Len(users) = Len(locks)
    BY <1>0 DEF EnterRegister, ListsFit
  <2> QED
    BY <1>0, <1>3, <2>1, SameUsersSteady DEF Steady, ServerTyped
<1>5. /\ ServerTyped' /\ Frame(t) /\ ListsFit'
      /\ req'[t] = r /\ Len(users') = Len(users) /\ Len(locks') = Len(locks)
  BY <1>2, <1>4, SteadyStep
<1>6. HoldsItsLocks(t)'
  <2>1. HoldsItsLocks(t)
    BY <1>0 DEF ThreadOK
  <2> QED
    BY <1>1, <1>2, <1>5, <2>1 DEF HoldsItsLocks, InsideUserLock, EnterRegister
<1>7. RegisterOK(t)'
  <2>1. Len(users) = Len(locks)
    BY <1>0 DEF ListsFit, EnterRegister
  <2>2. r.seen \in 0 .. illegal'
    BY <1>1, <1>2 DEF EnterRegister
  <2> QED
    BY <1>2, <1>5, <2>1, <2>2 DEF RegisterOK
<1>8. r.kind = "register" /\ r.id \in Id
  BY <1>0, <1>1, <1>2, KindOfPoint
<1> QED
  BY <1>2, <1>5, <1>6, <1>7, <1>8 DEF ThreadOK, Path

\* A registered user is appended; its lock follows before regLock is released.
LEMMA UserAppended ==
    ASSUME AgentIInv, NEW t \in Thread, req[t].pc = "build", NEW plan \in Plans,
           users' = Append(users, NewUser(req[t].id, req[t].seen, plan)),
           illegal' = illegal
    PROVE  /\ users' \in Seq(UserRecord) /\ Len(users') = Len(users) + 1
           /\ \A i \in 1 .. Len(users) : users'[i] = users[i]
           /\ users'[Len(users) + 1].id = req[t].id /\ users'[Len(users) + 1].money = 0
           /\ users'[Len(users) + 1].stage_money = 0
           /\ \A i \in 1 .. Len(users') : users'[i].rank = i - 1 /\ users'[i].experience <= illegal
<1> DEFINE v == NewUser(req[t].id, req[t].seen, plan)
<1>0. ServerTyped /\ ThreadOK(t)
  BY DEF AgentIInv
<1>1. req[t] \in Request /\ Len(users) \in Nat /\ illegal \in Nat
  BY <1>0, ServerFacts
<1>2. req[t].id \in Id /\ req[t].seen \in 0 .. illegal /\ req[t].seen \in Nat
  <2>1. req[t].kind = "register" /\ req[t].id \in Id
    BY <1>0, <1>1, KindOfPoint
  <2> QED
    BY <1>0, <1>1, <2>1 DEF ThreadOK, RegisterOK
<1>3. plan \in Seq(Nat)
  BY AgentAssumption
<1>4. /\ v \in UserRecord /\ v.rank = Len(users) /\ v.experience = req[t].seen
      /\ v.id = req[t].id /\ v.money = 0 /\ v.stage_money = 0
  <2>1. <<>> \in Seq(Payment)
    BY EmptySeq
  <2> QED
    BY <1>1, <1>2, <1>3, <2>1 DEF UserRecord, NewUser
<1> HIDE DEF v
<1>5. users \in Seq(UserRecord)
      /\ \A i \in 1 .. Len(users) : users[i].rank = i - 1 /\ users[i].experience <= illegal
  BY <1>0 DEF ServerTyped
<1>6. /\ Append(users, v) \in Seq(UserRecord) /\ Len(Append(users, v)) = Len(users) + 1
      /\ \A i \in 1 .. Len(users) : Append(users, v)[i] = users[i]
      /\ Append(users, v)[Len(users) + 1] = v
  BY <1>4, <1>5, AppendProperties
<1>7. users' = Append(users, v)
  BY DEF v
<1>8. ASSUME NEW i \in 1 .. Len(users')
      PROVE  users'[i].rank = i - 1 /\ users'[i].experience <= illegal
  <2>1. CASE i \in 1 .. Len(users)
    BY <1>5, <1>6, <1>7, <2>1
  <2>2. CASE i = Len(users) + 1
    BY <1>1, <1>2, <1>4, <1>6, <1>7, <2>2
  <2> QED
    BY <1>1, <1>6, <1>7, <2>1, <2>2
<1> QED
  BY <1>4, <1>6, <1>7, <1>8

\* add_user: the new user joins the list, with the interceptions so far.
LEMMA BuildUserStep ==
    ASSUME AgentIInv, NEW t \in Thread, BuildUser(t)
    PROVE  ServerTyped' /\ Frame(t) /\ ThreadOK(t)' /\ ListsFit'
<1>0. ServerTyped /\ ListsFit /\ ThreadOK(t)
  BY DEF AgentIInv
<1>1. req[t] \in Request /\ illegal \in Nat /\ req[t].pc = "build" /\ Len(users) \in Nat
      /\ Len(locks) \in Nat
  BY <1>0, ServerFacts DEF BuildUser
<1>2. req[t].kind = "register" /\ req[t].id \in Id /\ HoldsItsLocks(t) /\ regLock = t
      /\ Len(users) = Len(locks)
  <2>1. req[t].kind = "register" /\ req[t].id \in Id
    BY <1>0, <1>1, KindOfPoint
  <2>2. RegisterOK(t) /\ HoldsItsLocks(t)
    BY <1>0, <2>1 DEF ThreadOK
  <2> QED
    BY <1>1, <2>1, <2>2 DEF RegisterOK, HoldsItsLocks
<1>3. CASE /\ \E plan \in Plans : users' = Append(users, NewUser(req[t].id, req[t].seen, plan))
           /\ Go(t, "appendLock") /\ UNCHANGED regLock
  <2>0. locks' = locks /\ illegal' = illegal /\ arrived' = arrived /\ regLock' = regLock
    BY <1>3 DEF BuildUser
  <2>1. /\ users' \in Seq(UserRecord) /\ Len(users') = Len(users) + 1
        /\ \A i \in 1 .. Len(users) : users'[i] = users[i]
        /\ \A i \in 1 .. Len(users') : users'[i].rank = i - 1 /\ users'[i].experience <= illegal
    BY <1>1, <1>3, <2>0, UserAppended
  <2>2. "appendLock" \in Point
    BY DEF Point
  <2>3. req' = [req EXCEPT ![t] = At(req[t], "appendLock")]
    BY <1>0, <1>3, <2>2, GoesTo
  <2>4. /\ At(req[t], "appendLock") \in Request /\ At(req[t], "appendLock").pc = "appendLock"
        /\ At(req[t], "appendLock").kind = "register" /\ At(req[t], "appendLock").id \in Id
    BY <1>1, <1>2, <2>2, RequestAt
  <2>5. /\ req' \in [Thread -> Request] /\ \A u \in Thread \ {t} : req'[u] = req[u]
        /\ req'[t].pc = "appendLock" /\ req'[t].kind = "register" /\ req'[t].id \in Id
    BY <1>0, <2>3, <2>4 DEF ServerTyped
  <2>6. ServerTyped'
    BY <1>0, <2>0, <2>1, <2>5 DEF ServerTyped
  <2>7. Frame(t)
    <3>1. \A i \in 1 .. Len(users) : users[i].experience \in Nat
      BY <1>0, ServerFacts DEF UserRecord
    <3>2. /\ Len(users) <= Len(users') /\ Len(locks) <= Len(locks') /\ illegal <= illegal'
          /\ \A i \in Len(locks) + 1 .. Len(locks') : locks'[i] = Free
      BY <1>1, <2>0, <2>1
    <3> QED
      BY <1>2, <2>0, <2>1, <2>5, <3>1, <3>2 DEF Frame
  <2>8. ListsFit'
    BY <1>1, <1>2, <2>0, <2>1, AgentAssumption DEF ListsFit
  <2>9. HoldsItsLocks(t)'
    BY <1>1, <1>2, <2>0, <2>5 DEF HoldsItsLocks, InsideUserLock
  <2>10. RegisterOK(t)'
    BY <1>2, <2>0, <2>1, <2>5 DEF RegisterOK
  <2> QED
    BY <2>5, <2>6, <2>7, <2>8, <2>9, <2>10 DEF ThreadOK, Path
<1>4. CASE regLock' = Free /\ Answer(t, "error") /\ UNCHANGED users
  <2> DEFINE r == Answered(req[t], "error")
  <2>1. "error" \in Result
    BY DEF Result
  <2>2. req' = [req EXCEPT ![t] = r] /\ r \in Request
    BY <1>0, <1>1, <1>4, <2>1, AnswersWith, RequestAnswered
  <2> HIDE DEF r
  <2>3. Steady(t, r)
    BY <1>0, <1>2, <1>4, <2>2, SameUsersSteady DEF Steady, BuildUser, ServerTyped
  <2>4. /\ ServerTyped' /\ Frame(t) /\ ListsFit'
        /\ req'[t] = r /\ Len(users') = Len(users) /\ Len(locks') = Len(locks)
    BY <2>2, <2>3, SteadyStep
  <2>5. r.pc = "replied"
    BY <1>1, <2>1, RequestAnswered DEF r
  <2>6. HoldsItsLocks(t)'
    BY <1>1, <1>2, <1>4, <2>4, <2>5, AgentAssumption DEF HoldsItsLocks, InsideUserLock, BuildUser
  <2>7. ThreadOK(t)'
    BY <1>1, <1>2, <2>1, <2>4, <2>6, AnsweredOK DEF r
  <2> QED
    BY <2>4, <2>7
<1> QED
  BY <1>3, <1>4 DEF BuildUser

\* add_user: its lock joins the list of locks, and the two lists fit again.
LEMMA AppendLockStep ==
    ASSUME AgentIInv, NEW t \in Thread, AppendLock(t)
    PROVE  ServerTyped' /\ Frame(t) /\ ThreadOK(t)' /\ ListsFit'
<1>0. ServerTyped /\ ListsFit /\ ThreadOK(t)
  BY DEF AgentIInv
<1>1. req[t] \in Request /\ illegal \in Nat /\ req[t].pc = "appendLock" /\ Len(users) \in Nat
      /\ Len(locks) \in Nat
  BY <1>0, ServerFacts DEF AppendLock
<1>2. req[t].kind = "register" /\ HoldsItsLocks(t) /\ regLock = t /\ Len(users) = Len(locks) + 1
  <2>1. req[t].kind = "register"
    BY <1>0, <1>1, KindOfPoint
  <2>2. RegisterOK(t) /\ HoldsItsLocks(t)
    BY <1>0, <2>1 DEF ThreadOK
  <2> QED
    BY <1>1, <2>1, <2>2 DEF RegisterOK, HoldsItsLocks
<1>3. users' = users /\ illegal' = illegal /\ arrived' = arrived /\ regLock' = Free
      /\ locks' = Append(locks, Free)
  BY DEF AppendLock
<1>4. /\ locks' \in Seq(Thread \cup {Free}) /\ Len(locks') = Len(locks) + 1
      /\ \A i \in 1 .. Len(locks) : locks'[i] = locks[i]
      /\ locks'[Len(locks) + 1] = Free
  <2>1. locks \in Seq(Thread \cup {Free}) /\ Free \in Thread \cup {Free}
    BY <1>0 DEF ServerTyped
  <2> QED
    BY <1>3, <2>1, AppendProperties
<1>5. "ok" \in Result
  BY DEF Result
<1> DEFINE r == Answered(req[t], "ok")
<1>6. req' = [req EXCEPT ![t] = r] /\ r \in Request /\ r.pc = "replied"
  BY <1>0, <1>1, <1>5, AnswersWith, RequestAnswered DEF AppendLock
<1> HIDE DEF r
<1>7. req' \in [Thread -> Request] /\ req'[t] = r /\ \A u \in Thread \ {t} : req'[u] = req[u]
  BY <1>0, <1>6 DEF ServerTyped
<1>8. ServerTyped'
  BY <1>0, <1>3, <1>4, <1>7 DEF ServerTyped
<1>9. Frame(t)
  <2>1. \A i \in 1 .. Len(users) : users[i].experience \in Nat
    BY <1>0, ServerFacts DEF UserRecord
  <2>2. \A i \in Len(locks) + 1 .. Len(locks') : locks'[i] = Free
    BY <1>1, <1>4
  <2> QED
    BY <1>1, <1>2, <1>3, <1>4, <1>7, <2>1, <2>2, AgentAssumption DEF Frame
<1>10. ListsFit'
  BY <1>1, <1>2, <1>3, <1>4 DEF ListsFit
<1>11. HoldsItsLocks(t)'
  <2>1. \A i \in 1 .. Len(locks) : locks[i] # t
    BY <1>1, <1>2 DEF HoldsItsLocks, InsideUserLock
  <2>2. \A i \in 1 .. Len(locks') : i \in 1 .. Len(locks) \/ i = Len(locks) + 1
    BY <1>1, <1>4
  <2>3. \A i \in 1 .. Len(locks') : locks'[i] # t
    BY <1>4, <2>1, <2>2, AgentAssumption
  <2> QED
    BY <1>3, <1>6, <1>7, <2>3, AgentAssumption DEF HoldsItsLocks, InsideUserLock
<1>12. ThreadOK(t)'
  BY <1>1, <1>2, <1>5, <1>7, <1>11, AnsweredOK DEF r
<1> QED
  BY <1>8, <1>9, <1>10, <1>12

-----------------------------------------------------------------------------
(* /getAccountTransactions and request_for_plan.                           *)

\* A thread that leaves a with block, by an answer that tells nobody that
\* everyone has been told.
LEMMA LeaveStep ==
    ASSUME AgentIInv, NEW t \in Thread, NEW result \in Result, result # "ok",
           req[t].pc \in InsideUserLock, Leave(t, result), UsersKept(t),
           UNCHANGED <<regLock, illegal, arrived>>
    PROVE  ServerTyped' /\ Frame(t) /\ ThreadOK(t)' /\ ListsFit'
<1> DEFINE r == Answered(req[t], result)
<1>0. ServerTyped /\ req[t] \in Request
  BY ServerFacts DEF AgentIInv
<1>1. req' = [req EXCEPT ![t] = r] /\ r \in Request /\ r.pc = "replied"
  BY <1>0, AnswersWith, RequestAnswered DEF Leave
<1> HIDE DEF r
<1>2. /\ HoldsItsLocks(t)'
      /\ \E i \in 1 .. Len(locks), v \in {t, Free} :
            locks[i] \in {t, Free} /\ locks' = [locks EXCEPT ![i] = v]
  BY <1>1, LocksLeft DEF Leave
<1>3. Steady(t, r)
  BY <1>0, <1>1, <1>2 DEF Steady, ServerTyped
<1>4. ServerTyped' /\ Frame(t) /\ ListsFit' /\ req'[t] = r
  BY <1>1, <1>3, SteadyStep
<1>5. req[t].pc # "idle"
  BY DEF InsideUserLock
<1>6. ThreadOK(t)'
  BY <1>2, <1>4, <1>5, AnsweredOK DEF r
<1> QED
  BY <1>4, <1>6

\* A thread that answers from outside every lock.
LEMMA AnswerStep ==
    ASSUME AgentIInv, NEW t \in Thread, NEW result \in Result, Answer(t, result),
           req[t].pc \notin InsideUserLock \cup {"idle", "build", "appendLock"},
           UsersKept(t), UNCHANGED <<locks, regLock, arrived>>,
           req[t].kind = "intercept" /\ result = "ok" =>
               (req[t].last <= Len(users) /\ Informed(t, req[t].last + 1))'
    PROVE  ServerTyped' /\ Frame(t) /\ ThreadOK(t)' /\ ListsFit'
<1> DEFINE r == Answered(req[t], result)
<1>0. ServerTyped /\ req[t] \in Request
  BY ServerFacts DEF AgentIInv
<1>1. req' = [req EXCEPT ![t] = r] /\ r \in Request /\ r.pc = "replied"
  BY <1>0, AnswersWith, RequestAnswered
<1> HIDE DEF r
<1>2. Steady(t, r)
  BY <1>0, <1>1 DEF Steady, ServerTyped
<1>3. ServerTyped' /\ Frame(t) /\ ListsFit' /\ req'[t] = r
  BY <1>1, <1>2, SteadyStep
<1>4. r.pc \notin InsideUserLock \cup {"lock", "build", "appendLock"}
  BY <1>1 DEF InsideUserLock
<1>5. HoldsItsLocks(t)'
  BY <1>1, <1>2, <1>4, LocksStay
<1>6. ThreadOK(t)'
  BY <1>3, <1>5, AnsweredOK DEF r
<1> QED
  BY <1>3, <1>6

\* The least element of a nonempty set of positions.
LEMMA MinPosition ==
    ASSUME NEW n \in Nat, NEW S \in SUBSET (1 .. n), S # {}
    PROVE  /\ Min(S) \in S /\ Min(S) \in 1 .. n
           /\ \A x \in S : Min(S) <= x
<1>1. S \in SUBSET Nat
  OBVIOUS
<1>2. \E x \in S : \A y \in S : x <= y
  BY <1>1, LeastNat
<1> QED
  BY <1>2 DEF Min

\* The positions registered under an id.
LEMMA RegisteredFacts ==
    ASSUME ServerTyped, NEW id
    PROVE  /\ Registered(id) \in SUBSET (1 .. Len(users))
           /\ \A i \in 1 .. Len(users) : i \in Registered(id) <=> users[i].id = id
           /\ Registered(id) # {} =>
                Min(Registered(id)) \in 1 .. Len(users) /\ users[Min(Registered(id))].id = id
<1>1. Registered(id) = {i \in 1 .. Len(users) : users[i].id = id} /\ Len(users) \in Nat
  BY ServerFacts DEF Registered
<1> QED
  BY <1>1, MinPosition

\* The plan handler looks its user up before it holds any lock.
LEMMA FindUserStep ==
    ASSUME AgentIInv, NEW t \in Thread, FindUser(t)
    PROVE  ServerTyped' /\ Frame(t) /\ ThreadOK(t)' /\ ListsFit'
<1>0. ServerTyped /\ ThreadOK(t) /\ req[t] \in Request /\ req[t].pc = "find"
  BY ServerFacts DEF AgentIInv, FindUser
<1>1. req[t].kind = "plan" /\ req[t].id \in Id /\ req[t].pc \notin InsideUserLock
  BY <1>0, KindOfPoint DEF InsideUserLock
<1>2. UNCHANGED <<users, locks, regLock, illegal, arrived>>
  BY DEF FindUser
<1>3. UsersKept(t)
  BY <1>2, SameUsersSteady
<1> DEFINE found == Registered(req[t].id)
<1>4. CASE Answer(t, "nothing") \/ Answer(t, "error")
  BY <1>0, <1>1, <1>2, <1>3, <1>4, AnswerStep DEF Result
<1>5. CASE /\ found # {} /\ Min(found) \in DOMAIN locks
           /\ req' = [req EXCEPT ![t].pc = "lock", ![t].i = Min(found)]
  <2> DEFINE r == [req[t] EXCEPT !.pc = "lock", !.i = Min(found)]
  <2>1. Min(found) \in 1 .. Len(locks) /\ users[Min(found)].id = req[t].id
    BY <1>0, <1>5, RegisteredFacts, ServerFacts
  <2>2. Min(found) \in Nat /\ "lock" \in Point
    BY <2>1 DEF Point
  <2> HIDE DEF found
  <2>3. /\ r \in Request /\ r.pc = "lock" /\ r.kind = "plan" /\ r.i = Min(found)
        /\ r.id = req[t].id
    BY <1>0, <1>1, <2>2 DEF Request
  <2>4. req' = [req EXCEPT ![t] = r]
    BY <1>0, <1>5 DEF ServerTyped
  <2> HIDE DEF r
  <2>5. Steady(t, r)
    BY <1>0, <1>2, <1>3, <2>4 DEF Steady, ServerTyped
  <2>6. ServerTyped' /\ Frame(t) /\ ListsFit' /\ req'[t] = r
    BY <2>3, <2>5, SteadyStep
  <2>7. HoldsItsLocks(t)'
    BY <1>0, <1>1, <1>2, <2>1, <2>3, <2>5, LocksStay DEF InsideUserLock
  <2>8. PlanOK(t)'
    BY <1>2, <2>1, <2>3, <2>6 DEF PlanOK
  <2> QED
    BY <1>1, <2>3, <2>6, <2>7, <2>8 DEF ThreadOK, Path
<1> QED
  BY <1>4, <1>5 DEF FindUser

\* A handler takes the lock of the user it works on.
LEMMA LockUserStep ==
    ASSUME AgentIInv, NEW t \in Thread, LockUser(t)
    PROVE  ServerTyped' /\ Frame(t) /\ ThreadOK(t)' /\ ListsFit'
<1> DEFINE i == req[t].i
           pc == IF req[t].kind = "plan" THEN "stage" ELSE "learn"
           r == At(req[t], pc)
<1>0. /\ ServerTyped /\ ThreadOK(t) /\ HoldsItsLocks(t) /\ req[t] \in Request
      /\ req[t].pc = "lock"
  BY ServerFacts DEF AgentIInv, LockUser, ThreadOK
<1>1. /\ req[t].kind \in {"plan", "intercept"} /\ req[t].id \in Id
      /\ i \in 1 .. Len(locks) /\ locks[i] = Free
  BY <1>0, KindOfPoint DEF HoldsItsLocks, LockUser
<1>2. /\ UNCHANGED <<users, regLock, illegal, arrived>>
      /\ locks' = [locks EXCEPT ![i] = t]
  BY DEF LockUser
<1>3. pc \in Point /\ pc \in InsideUserLock /\ pc \in {"stage", "learn"}
  BY DEF Point, InsideUserLock
<1>4. req' = [req EXCEPT ![t] = r]
  BY <1>0, <1>3, GoesTo DEF LockUser
<1>5. /\ r \in Request /\ r.pc = pc /\ r.i = i /\ r.kind = req[t].kind /\ r.id = req[t].id
      /\ r.last = req[t].last /\ r.seen = req[t].seen
  BY <1>0, <1>3, RequestAt
<1>6. pc = "stage" <=> req[t].kind = "plan"
  OBVIOUS
<1> HIDE DEF r, pc
<1>7. Steady(t, r)
  <2>1. UsersKept(t)
    BY <1>2, SameUsersSteady
  <2>2. \E k \in 1 .. Len(locks), v \in {t, Free} :
            locks[k] \in {t, Free} /\ locks' = [locks EXCEPT ![k] = v]
    BY <1>1, <1>2
  <2> QED
    BY <1>0, <1>2, <1>4, <2>1, <2>2 DEF Steady, ServerTyped
<1>8. /\ ServerTyped' /\ Frame(t) /\ ListsFit' /\ req'[t] = r
      /\ Len(locks') = Len(locks) /\ Len(users') = Len(users)
  BY <1>5, <1>7, SteadyStep
<1>9. HoldsItsLocks(t)'
  <2>1. locks \in Seq(Thread \cup {Free})
    BY <1>0 DEF ServerTyped
  <2>2. \A j \in 1 .. Len(locks) : locks'[j] = IF j = i THEN t ELSE locks[j]
    BY <1>1, <1>2, <2>1, ExceptSeq
  <2>3. \A j \in 1 .. Len(locks) : locks[j] # t
    BY <1>0 DEF HoldsItsLocks, InsideUserLock
  <2>4. regLock # t
    BY <1>0 DEF HoldsItsLocks
  <2>5. r.pc \in InsideUserLock /\ r.pc \notin {"build", "appendLock"}
    BY <1>3, <1>5
  <2> QED
    BY <1>1, <1>2, <1>5, <1>8, <2>2, <2>3, <2>4, <2>5 DEF HoldsItsLocks, InsideUserLock
<1>10. r.kind = "plan" => PlanOK(t)'
  <2>1. req[t].kind = "plan" => users[i].id = req[t].id
    BY <1>0 DEF ThreadOK, PlanOK
  <2> QED
    BY <1>2, <1>3, <1>5, <1>8, <2>1 DEF PlanOK
<1>11. r.kind = "intercept" => InterceptOK(t)'
  <2> SUFFICES ASSUME req[t].kind = "intercept" PROVE InterceptOK(t)'
    BY <1>5
  <2>1. LoopOK(t) /\ pc = "learn"
    BY <1>0, <1>3, <1>6 DEF ThreadOK, InterceptOK
  <2>2. LoopOK(t)'
    BY <1>0, <1>2, <1>5, <1>8, <2>1 DEF LoopOK, Informed
  <2> QED
    BY <1>5, <1>8, <2>1, <2>2 DEF InterceptOK
<1>12. r.pc \in Path(r.kind) /\ r.kind # "register"
  BY <1>1, <1>3, <1>5, <1>6 DEF Path
<1> QED
  BY <1>1, <1>5, <1>8, <1>9, <1>10, <1>11, <1>12 DEF ThreadOK

\* What a thread knows of the user whose lock it holds.
LEMMA InsideFacts ==
    ASSUME AgentIInv, NEW t \in Thread, req[t].pc \in InsideUserLock
    PROVE  /\ req[t].i \in 1 .. Len(locks) /\ locks[req[t].i] = t
           /\ req[t].i \in 1 .. Len(users) /\ users[req[t].i] \in UserRecord
           /\ users[req[t].i].experience \in Nat /\ users[req[t].i].experience <= illegal
           /\ illegal \in Nat /\ Len(users) \in Nat
<1>0. ServerTyped /\ HoldsItsLocks(t) /\ ListsFit
  BY DEF AgentIInv, ThreadOK
<1>1. req[t].i \in 1 .. Len(locks) /\ locks[req[t].i] = t
  BY <1>0 DEF HoldsItsLocks
<1>2. Len(locks) \in Nat /\ Len(users) \in Nat /\ Len(users) - Len(locks) \in 0 .. 1
      /\ illegal \in Nat
  BY <1>0, ServerFacts, ZenonT(60) DEF ListsFit
<1>3. req[t].i \in 1 .. Len(users)
  BY <1>1, <1>2
<1>4. users[req[t].i] \in UserRecord /\ users[req[t].i].experience <= illegal
  BY <1>0, <1>3, ServerFacts DEF ServerTyped
<1> QED
  BY <1>1, <1>2, <1>3, <1>4 DEF UserRecord

\* A planning request that goes on inside the lock of its user.
LEMMA InsidePlanStep ==
    ASSUME AgentIInv, NEW t \in Thread, NEW r \in Request,
           req[t].pc \in {"stage", "ask", "load", "store"},
           r.pc \in {"ask", "load", "store", "record"},
           r.kind = req[t].kind, r.i = req[t].i, r.id = req[t].id,
           req' = [req EXCEPT ![t] = r], UsersKept(t),
           UNCHANGED <<locks, regLock, illegal, arrived>>,
           r.pc # "record" => StageIsShort(users'[r.i])
    PROVE  ServerTyped' /\ Frame(t) /\ ThreadOK(t)' /\ ListsFit'
<1>0. ServerTyped /\ ThreadOK(t) /\ req[t] \in Request
  BY ServerFacts DEF AgentIInv
<1>1. Steady(t, r)
  BY <1>0 DEF Steady, ServerTyped
<1>2. ServerTyped' /\ Frame(t) /\ ListsFit' /\ req'[t] = r
  BY <1>1, SteadyStep
<1>3. /\ req[t].pc \in InsideUserLock /\ r.pc \in InsideUserLock /\ r.pc # "lock"
      /\ r.pc \notin {"build", "appendLock"} /\ req[t].pc \notin {"build", "appendLock"}
  BY DEF InsideUserLock
<1>4. HoldsItsLocks(t)'
  BY <1>1, <1>3, LocksStay
<1>5. r.kind = "plan" /\ r.id \in Id
  BY <1>0, KindOfPoint
<1>6. PlanOK(t)'
  <2>1. users[req[t].i].id = req[t].id
    BY <1>0, <1>5 DEF ThreadOK, PlanOK
  <2>2. users'[req[t].i].id = req[t].id
    BY <1>3, <2>1, InsideFacts DEF UsersKept
  <2> QED
    BY <1>2, <2>2 DEF PlanOK, StageIsShort
<1> QED
  BY <1>2, <1>4, <1>5, <1>6 DEF ThreadOK, Path

\* The money is read while the user's lock is held.
LEMMA LoadMoneyStep ==
    ASSUME AgentIInv, NEW t \in Thread, LoadMoney(t)
    PROVE  ServerTyped' /\ Frame(t) /\ ThreadOK(t)' /\ ListsFit'
<1> DEFINE r == [req[t] EXCEPT !.pc = "store", !.seen = users[req[t].i].money]
<1>0. ServerTyped /\ ThreadOK(t) /\ req[t] \in Request /\ req[t].pc = "load"
      /\ req[t].pc \in InsideUserLock
  BY ServerFacts DEF AgentIInv, LoadMoney, InsideUserLock
<1>1. users[req[t].i].money \in Int /\ "store" \in Point
  BY <1>0, InsideFacts DEF UserRecord, Point
<1>2. /\ r \in Request /\ r.pc = "store" /\ r.kind = req[t].kind /\ r.i = req[t].i
      /\ r.id = req[t].id
  BY <1>0, <1>1 DEF Request
<1>3. req' = [req EXCEPT ![t] = r]
  BY <1>0 DEF LoadMoney, ServerTyped
<1> HIDE DEF r
<1>4. UNCHANGED <<users, locks, regLock, illegal, arrived>>
  BY DEF LoadMoney
<1>5. UsersKept(t)
  BY <1>4, SameUsersSteady
<1>6. StageIsShort(users[req[t].i])
  BY <1>0, KindOfPoint DEF ThreadOK, PlanOK
<1>7. StageIsShort(users'[r.i])
  BY <1>2, <1>4, <1>6
<1> QED
  BY <1>0, <1>2, <1>3, <1>4, <1>5, <1>7, InsidePlanStep

\* What a batch sends is a number of payments.
LEMMA SentNat ==
    ASSUME NEW b \in Batch
    PROVE  Sent(b) \in Nat
<1> DEFINE f == [k \in DOMAIN b |-> b[k].send]
<1>1. DOMAIN b = 1 .. Len(b) /\ Len(b) \in Nat
  BY LenProperties DEF Batch
<1>2. IsFiniteSet(DOMAIN b)
  BY <1>1, FS_Interval
<1>3. f \in [DOMAIN b -> Nat]
  <2>1. \A k \in DOMAIN b : b[k] \in [minute : Int, send : Nat, form : Form]
    BY <1>1, ElementOfSeq DEF Batch
  <2> QED
    BY <2>1
<1> HIDE DEF f
<1>4. SumFunction(f) \in Nat
  BY <1>2, <1>3, SumNat
<1> QED
  BY <1>4 DEF Sent, f

\* The money is written back while the user's lock is held: nothing came between.
LEMMA StoreMoneyStep ==
    ASSUME AgentIInv, NEW t \in Thread, StoreMoney(t)
    PROVE  /\ ServerTyped' /\ Frame(t) /\ ThreadOK(t)' /\ ListsFit'
           /\ users'[req[t].i].money = req[t].seen + Sent(req[t].batch)
           /\ \A j \in 1 .. Len(users) : j # req[t].i => users'[j] = users[j]
<1> DEFINE i == req[t].i
           u == users[i]
           n == Sent(req[t].batch)
           v == [u EXCEPT !.money = req[t].seen + n, !.stage_money = u.stage_money + n]
           r == At(req[t], "record")
<1>0. ServerTyped /\ ThreadOK(t) /\ req[t] \in Request /\ req[t].pc = "store"
      /\ req[t].pc \in InsideUserLock
  BY ServerFacts DEF AgentIInv, StoreMoney, InsideUserLock
<1>1. /\ i \in 1 .. Len(locks) /\ locks[i] = t /\ i \in 1 .. Len(users) /\ u \in UserRecord
      /\ u.experience \in Nat /\ u.experience <= illegal
  BY <1>0, InsideFacts
<1>2. n \in Nat /\ req[t].seen \in Int
  BY <1>0, SentNat DEF Request
<1>3. users' = [users EXCEPT ![i] = v]
  <2>1. users' = [[users EXCEPT ![i] = [u EXCEPT !.money = req[t].seen + n]]
                    EXCEPT ![i].stage_money = @ + n]
    BY DEF StoreMoney
  <2>2. i \in DOMAIN users
    BY <1>0, <1>1, ServerFacts
  <2>3. u.stage_money = [u EXCEPT !.money = req[t].seen + n].stage_money
    BY <1>1 DEF UserRecord
  <2> HIDE DEF u, n
  <2> QED
    BY <2>1, <2>2, <2>3
<1> HIDE DEF n
<1>4. /\ v \in UserRecord /\ v.id = u.id /\ v.rank = u.rank /\ v.experience = u.experience
      /\ v.money = req[t].seen + n
  <2>1. u.stage_money \in Nat
    BY <1>1 DEF UserRecord
  <2>2. u.stage_money + n \in Nat /\ req[t].seen + n \in Int
    BY <1>2, <2>1
  <2> HIDE DEF u
  <2> QED
    BY <1>1, <2>2 DEF UserRecord
<1> HIDE DEF v
<1>5. UNCHANGED <<locks, regLock, illegal, arrived>>
  BY DEF StoreMoney
<1>6. UsersKept(t) /\ users'[i] = v /\ \A j \in 1 .. Len(users) : j # i => users'[j] = users[j]
  <2>1. /\ illegal' = illegal /\ v.id = users[i].id /\ v.rank = users[i].rank
        /\ users[i].experience <= v.experience /\ v.experience <= illegal
    BY <1>1, <1>4, <1>5
  <2> HIDE DEF i
  <2> QED
    BY <1>1, <1>3, <1>4, <2>1, OneUserSteady
<1>7. "record" \in Point
  BY DEF Point
<1>8. /\ r \in Request /\ r.pc = "record" /\ r.kind = req[t].kind /\ r.i = req[t].i
      /\ r.id = req[t].id
  BY <1>0, <1>7, RequestAt
<1>9. req' = [req EXCEPT ![t] = r]
  BY <1>0, <1>7, GoesTo DEF StoreMoney
<1> HIDE DEF r
<1>10. ServerTyped' /\ Frame(t) /\ ThreadOK(t)' /\ ListsFit'
  BY <1>0, <1>5, <1>6, <1>8, <1>9, InsidePlanStep
<1> QED
  BY <1>4, <1>6, <1>10 DEF n

\* A position of a sequence, counted round and round.
LEMMA RoundRobin ==
    ASSUME NEW a \in Int, NEW n \in Nat \ {0}
    PROVE  (a % n) + 1 \in 1 .. n
OBVIOUS

\* A quotient is an integer.
LEMMA DivInt ==
    ASSUME NEW a \in Int, NEW n \in Nat \ {0}
    PROVE  a \div n \in Int
OBVIOUS

\* The stage of a user that is begun has a task.
LEMMA StageTotalNat ==
    ASSUME NEW u \in UserRecord, u.plan # <<>>
    PROVE  u.plan[(((u.time_past - u.time_record) \div Stage) % Len(u.plan)) + 1] \in Nat
<1> DEFINE a == (u.time_past - u.time_record) \div Stage
           n == Len(u.plan)
<1>1. u.plan \in Seq(Nat) /\ u.time_past - u.time_record \in Int /\ Stage \in Nat \ {0}
  BY AgentAssumption DEF UserRecord
<1>2. n \in Nat \ {0}
  BY <1>1, EmptySeq
<1>3. a \in Int
  BY <1>1, DivInt
<1> HIDE DEF a, n
<1>4. (a % n) + 1 \in 1 .. n
  BY <1>2, <1>3, RoundRobin
<1>5. u.plan[(a % n) + 1] \in Nat
  BY <1>1, <1>4, ElementOfSeq DEF n
<1> QED
  BY <1>5 DEF a, n

\* Clearing stage_money changes nothing else and never raises it.
LEMMA FreshStage ==
    ASSUME NEW u \in UserRecord
    PROVE  LET fresh == [u EXCEPT !.stage_money = 0]
           IN  /\ fresh \in UserRecord /\ fresh.id = u.id /\ fresh.rank = u.rank
               /\ fresh.experience = u.experience /\ fresh.money = u.money
               /\ fresh.stage_money <= u.stage_money
<1> DEFINE fresh == [u EXCEPT !.stage_money = 0]
<1>1. /\ fresh \in UserRecord /\ fresh.id = u.id /\ fresh.rank = u.rank
      /\ fresh.experience = u.experience /\ fresh.money = u.money /\ fresh.stage_money = 0
  BY ZenonT(60) DEF UserRecord
<1>2. 0 <= u.stage_money
  BY DEF UserRecord
<1> QED
  BY <1>1, <1>2

\* A plan that begins or ends a stage keeps the money of every user, and
\* raises nobody's stage money.
LEMMA CheckStageStep ==
    ASSUME AgentIInv, NEW t \in Thread, CheckStage(t)
    PROVE  /\ ServerTyped' /\ Frame(t) /\ ThreadOK(t)' /\ ListsFit'
           /\ \A j \in 1 .. Len(users) :
                /\ users'[j].money = users[j].money
                /\ users'[j].stage_money <= users[j].stage_money
<1> DEFINE i == req[t].i
           u == users[i]
           rank == (u.time_past - u.time_record) \div Stage
           fresh == [u EXCEPT !.stage_money = 0]
           total == u.plan[(rank % Len(u.plan)) + 1]
           begun == IF StageBegins(u)
                      THEN [fresh EXCEPT !.stage_total = total, !.stage_list = <<>>]
                      ELSE u
           waits == [begun EXCEPT !.time_past = @ + Step]
<1>0. /\ ServerTyped /\ ThreadOK(t) /\ req[t] \in Request /\ req[t].pc = "stage"
      /\ req[t].pc \in InsideUserLock
  BY ServerFacts, ZenonT(60) DEF AgentIInv, CheckStage, InsideUserLock
<1>1. /\ i \in 1 .. Len(locks) /\ locks[i] = t /\ i \in 1 .. Len(users) /\ u \in UserRecord
      /\ u.experience \in Nat /\ u.experience <= illegal /\ u.stage_money \in Nat
      /\ u.time_past \in Nat
  BY <1>0, InsideFacts DEF UserRecord
<1>2. UNCHANGED <<regLock, illegal, arrived>>
  BY ZenonT(60) DEF CheckStage
<1>3. \A j \in 1 .. Len(users) : users[j].stage_money \in Nat
  BY <1>0, ServerFacts DEF UserRecord
<1>4. "ask" \in Point /\ "error" \in Result /\ "wait" \in Result
  BY DEF Point, Result
<1>5. /\ At(req[t], "ask") \in Request /\ At(req[t], "ask").pc = "ask"
      /\ At(req[t], "ask").kind = req[t].kind /\ At(req[t], "ask").i = i
      /\ At(req[t], "ask").id = req[t].id
  BY <1>0, <1>4, RequestAt
<1>6. ASSUME NEW v \in UserRecord, users' = [users EXCEPT ![i] = v],
             v.id = u.id, v.rank = u.rank, v.experience = u.experience, v.money = u.money,
             v.stage_money <= u.stage_money
      PROVE  /\ UsersKept(t) /\ users'[i] = v
             /\ \A j \in 1 .. Len(users) :
                  /\ users'[j].money = users[j].money
                  /\ users'[j].stage_money <= users[j].stage_money
  <2>1. /\ illegal' = illegal /\ v.id = users[i].id /\ v.rank = users[i].rank
        /\ users[i].experience <= v.experience /\ v.experience <= illegal
    BY <1>1, <1>2, <1>6
  <2> HIDE DEF i
  <2>2. UsersKept(t) /\ users'[i] = v /\ \A j \in 1 .. Len(users) : j # i => users'[j] = users[j]
    BY <1>1, <1>6, <2>1, OneUserSteady
  <2> QED
    BY <1>3, <1>6, <2>2
<1>7. CASE u.rank >= RuleFrom /\ Go(t, "ask") /\ UNCHANGED <<users, locks>>
  <2>1. UsersKept(t)
    BY <1>2, <1>7, SameUsersSteady
  <2>2. StageIsShort(users'[i])
    <3>1. u.rank \in Nat /\ RuleFrom \in Nat
      BY <1>1, AgentAssumption DEF UserRecord
    <3>2. ~(u.rank < RuleFrom)
      BY <1>7, <3>1
    <3> QED
      BY <1>7, <3>2 DEF StageIsShort
  <2>3. req' = [req EXCEPT ![t] = At(req[t], "ask")]
    BY <1>0, <1>4, <1>7, GoesTo
  <2>4. ServerTyped' /\ Frame(t) /\ ThreadOK(t)' /\ ListsFit'
    BY <1>0, <1>2, <1>5, <1>7, <2>1, <2>2, <2>3, InsidePlanStep
  <2> QED
    BY <1>3, <1>7, <2>4
<1>8. CASE /\ u.rank < RuleFrom /\ StageBegins(u) /\ u.plan = <<>>
           /\ users' = [users EXCEPT ![i] = fresh] /\ Leave(t, "error")
  <2>1. /\ fresh \in UserRecord /\ fresh.id = u.id /\ fresh.rank = u.rank
        /\ fresh.experience = u.experience /\ fresh.money = u.money
        /\ fresh.stage_money <= u.stage_money
    BY <1>1, FreshStage
  <2>2. /\ UsersKept(t)
        /\ \A j \in 1 .. Len(users) :
             /\ users'[j].money = users[j].money
             /\ users'[j].stage_money <= users[j].stage_money
    BY <1>6, <1>8, <2>1
  <2>3. ServerTyped' /\ Frame(t) /\ ThreadOK(t)' /\ ListsFit'
    BY <1>0, <1>2, <1>4, <1>8, <2>2, LeaveStep
  <2> QED
    BY <2>2, <2>3
<1>9. CASE /\ u.rank < RuleFrom /\ ~(StageBegins(u) /\ u.plan = <<>>)
           /\ IF begun.stage_money >= begun.stage_total
                THEN users' = [users EXCEPT ![i] = waits] /\ Leave(t, "wait")
                ELSE users' = [users EXCEPT ![i] = begun] /\ Go(t, "ask") /\ UNCHANGED locks
  <2>1. /\ begun \in UserRecord /\ begun.id = u.id /\ begun.rank = u.rank
        /\ begun.experience = u.experience /\ begun.money = u.money
        /\ begun.stage_money <= u.stage_money
    <3>1. CASE ~StageBegins(u)
      BY <1>1, <3>1
    <3>2. CASE StageBegins(u)
      <4>1. total \in Nat /\ <<>> \in Seq(Payment)
        BY <1>1, <1>9, <3>2, StageTotalNat, EmptySeq
      <4>2. begun = [fresh EXCEPT !.stage_total = total, !.stage_list = <<>>]
        BY <3>2
      <4>3. /\ fresh \in UserRecord /\ fresh.id = u.id /\ fresh.rank = u.rank
            /\ fresh.experience = u.experience /\ fresh.money = u.money
            /\ fresh.stage_money <= u.stage_money
        BY <1>1, FreshStage
      <4> HIDE DEF total, begun, u, fresh
      <4> QED
        BY <4>1, <4>2, <4>3 DEF UserRecord
    <3> QED
      BY <3>1, <3>2
  <2> HIDE DEF begun
  <2>2. CASE begun.stage_money >= begun.stage_total
    <3>1. /\ waits \in UserRecord /\ waits.id = u.id /\ waits.rank = u.rank
          /\ waits.experience = u.experience /\ waits.money = u.money
          /\ waits.stage_money <= u.stage_money
      <4>1. begun.time_past \in Nat /\ Step \in Nat /\ begun.time_past + Step \in Nat
        BY <2>1, AgentAssumption DEF UserRecord
      <4> HIDE DEF u
      <4> QED
        BY <2>1, <4>1 DEF UserRecord
    <3> HIDE DEF waits
    <3>2. /\ UsersKept(t)
          /\ \A j \in 1 .. Len(users) :
               /\ users'[j].money = users[j].money
               /\ users'[j].stage_money <= users[j].stage_money
      BY <1>6, <1>9, <2>2, <3>1
    <3>3. ServerTyped' /\ Frame(t) /\ ThreadOK(t)' /\ ListsFit'
      BY <1>0, <1>2, <1>4, <1>9, <2>2, <3>2, LeaveStep
    <3> QED
      BY <3>2, <3>3
  <2>3. CASE ~(begun.stage_money >= begun.stage_total)
    <3>1. users' = [users EXCEPT ![i] = begun] /\ Go(t, "ask") /\ UNCHANGED locks
      BY <1>9, <2>3
    <3>2. /\ UsersKept(t) /\ users'[i] = begun
          /\ \A j \in 1 .. Len(users) :
               /\ users'[j].money = users[j].money
               /\ users'[j].stage_money <= users[j].stage_money
      BY <1>6, <2>1, <3>1
    <3>3. StageIsShort(users'[i])
      BY <2>1, <2>3, <3>2 DEF StageIsShort, UserRecord
    <3>4. req' = [req EXCEPT ![t] = At(req[t], "ask")]
      BY <1>0, <1>4, <3>1, GoesTo
    <3>5. ServerTyped' /\ Frame(t) /\ ThreadOK(t)' /\ ListsFit'
      BY <1>0, <1>2, <1>5, <3>1, <3>2, <3>3, <3>4, InsidePlanStep
    <3> QED
      BY <3>2, <3>5
  <2> QED
    BY <2>2, <2>3
<1> QED
  BY <1>7, <1>8, <1>9, ZenonT(60) DEF CheckStage

\* The language model's answer is taken: no user's money changes.
LEMMA TakeAnswerStep ==
    ASSUME AgentIInv, NEW t \in Thread, TakeAnswer(t)
    PROVE  /\ ServerTyped' /\ Frame(t) /\ ThreadOK(t)' /\ ListsFit'
           /\ \A j \in 1 .. Len(users) :
                /\ users'[j].money = users[j].money
                /\ users'[j].stage_money = users[j].stage_money
<1> DEFINE i == req[t].i
           u == users[i]
           v == [u EXCEPT !.time_past = u.time_past + Step]
<1>0. /\ ServerTyped /\ ThreadOK(t) /\ req[t] \in Request /\ req[t].pc = "ask"
      /\ req[t].pc \in InsideUserLock
  BY ServerFacts DEF AgentIInv, TakeAnswer, InsideUserLock
<1>1. /\ i \in 1 .. Len(locks) /\ locks[i] = t /\ i \in 1 .. Len(users) /\ u \in UserRecord
      /\ u.experience \in Nat /\ u.experience <= illegal /\ u.time_past \in Nat
  BY <1>0, InsideFacts DEF UserRecord
<1>2. UNCHANGED <<regLock, illegal, arrived>>
  BY DEF TakeAnswer
<1>3. StageIsShort(u)
  BY <1>0, KindOfPoint DEF ThreadOK, PlanOK
<1>4. /\ v \in UserRecord /\ v.id = u.id /\ v.rank = u.rank /\ v.experience = u.experience
      /\ v.money = u.money /\ v.stage_money = u.stage_money /\ v.stage_total = u.stage_total
  <2>1. u.time_past + Step \in Nat
    BY <1>1, AgentAssumption
  <2> HIDE DEF u
  <2> QED
    BY <1>1, <2>1 DEF UserRecord
<1>5. [users EXCEPT ![i].time_past = @ + Step] = [users EXCEPT ![i] = v]
  OBVIOUS
<1>6. StageIsShort(v)
  BY <1>3, <1>4 DEF StageIsShort
<1> HIDE DEF v
<1>7. ASSUME users' = [users EXCEPT ![i] = v]
      PROVE  /\ UsersKept(t) /\ users'[i] = v
             /\ \A j \in 1 .. Len(users) :
                  /\ users'[j].money = users[j].money
                  /\ users'[j].stage_money = users[j].stage_money
  <2>1. /\ illegal' = illegal /\ v.id = users[i].id /\ v.rank = users[i].rank
        /\ users[i].experience <= v.experience /\ v.experience <= illegal
    BY <1>1, <1>2, <1>4
  <2>2. v.money = users[i].money /\ v.stage_money = users[i].stage_money
    BY <1>4
  <2> HIDE DEF i
  <2>3. UsersKept(t) /\ users'[i] = v /\ \A j \in 1 .. Len(users) : j # i => users'[j] = users[j]
    BY <1>1, <1>4, <1>7, <2>1, OneUserSteady
  <2> QED
    BY <2>2, <2>3
<1>8. ASSUME NEW result \in {"error", "wait", "nothing"}, Leave(t, result),
             users' = users \/ users' = [users EXCEPT ![i] = v]
      PROVE  /\ ServerTyped' /\ Frame(t) /\ ThreadOK(t)' /\ ListsFit'
             /\ \A j \in 1 .. Len(users) :
                  /\ users'[j].money = users[j].money
                  /\ users'[j].stage_money = users[j].stage_money
  <2>1. /\ UsersKept(t)
        /\ \A j \in 1 .. Len(users) :
             /\ users'[j].money = users[j].money
             /\ users'[j].stage_money = users[j].stage_money
    BY <1>2, <1>7, <1>8, SameUsersSteady
  <2>2. result \in Result /\ result # "ok"
    BY DEF Result
  <2> QED
    BY <1>0, <1>2, <1>8, <2>1, <2>2, LeaveStep
<1>9. ASSUME NEW b \in Batches, users' = [users EXCEPT ![i] = v],
             req' = [req EXCEPT ![t].pc = "load", ![t].batch = b], UNCHANGED locks
      PROVE  /\ ServerTyped' /\ Frame(t) /\ ThreadOK(t)' /\ ListsFit'
             /\ \A j \in 1 .. Len(users) :
                  /\ users'[j].money = users[j].money
                  /\ users'[j].stage_money = users[j].stage_money
  <2> DEFINE r == [req[t] EXCEPT !.pc = "load", !.batch = b]
  <2>1. b \in Batch /\ "load" \in Point
    BY AgentAssumption DEF Batch, Point
  <2>2. /\ r \in Request /\ r.pc = "load" /\ r.kind = req[t].kind /\ r.i = req[t].i
        /\ r.id = req[t].id
    BY <1>0, <2>1 DEF Request
  <2>3. req' = [req EXCEPT ![t] = r]
    BY <1>0, <1>9 DEF ServerTyped
  <2> HIDE DEF r
  <2>4. /\ UsersKept(t) /\ users'[i] = v
        /\ \A j \in 1 .. Len(users) :
             /\ users'[j].money = users[j].money
             /\ users'[j].stage_money = users[j].stage_money
    BY <1>7, <1>9
  <2>5. StageIsShort(users'[r.i])
    BY <1>6, <2>2, <2>4
  <2> QED
    BY <1>0, <1>2, <1>9, <2>2, <2>3, <2>4, <2>5, InsidePlanStep
<1>10. \/ Leave(t, "error") /\ users' = users
       \/ Leave(t, "wait") /\ users' = users
       \/ Leave(t, "wait") /\ users' = [users EXCEPT ![i] = v]
       \/ Leave(t, "nothing") /\ users' = [users EXCEPT ![i] = v]
       \/ \E b \in Batches :
            /\ users' = [users EXCEPT ![i] = v]
            /\ req' = [req EXCEPT ![t].pc = "load", ![t].batch = b]
            /\ UNCHANGED locks
  BY <1>5 DEF TakeAnswer
<1> QED
  BY <1>8, <1>9, <1>10

\* The records made of a batch.
LEMMA BatchRecorded ==
    ASSUME NEW b \in Batch, NEW time_past \in Nat
    PROVE  /\ [k \in DOMAIN b |-> [time |-> time_past + b[k].minute, send |-> b[k].send,
                                   failed |-> 0]] \in Seq(Payment)
           /\ [k \in DOMAIN b |-> [time |-> (time_past + b[k].minute) % Stage,
                                   send |-> b[k].send, failed |-> 0]] \in Seq(Payment)
<1>1. DOMAIN b = 1 .. Len(b) /\ Len(b) \in Nat
  BY LenProperties DEF Batch
<1>2. ASSUME NEW k \in DOMAIN b
      PROVE  /\ b[k].send \in Nat /\ time_past + b[k].minute \in Int
             /\ (time_past + b[k].minute) % Stage \in Int
  <2>1. b[k] \in [minute : Int, send : Nat, form : Form]
    BY <1>1, <1>2, ElementOfSeq DEF Batch
  <2>2. b[k].send \in Nat /\ b[k].minute \in Int
    BY <2>1
  <2> DEFINE a == time_past + b[k].minute
  <2>3. a \in Int /\ Stage \in Nat \ {0}
    BY <2>2, AgentAssumption
  <2> HIDE DEF a
  <2>4. a % Stage \in Int
    BY <2>3
  <2> QED
    BY <2>2, <2>3, <2>4 DEF a
<1>3. [k \in DOMAIN b |-> [time |-> time_past + b[k].minute, send |-> b[k].send,
                           failed |-> 0]] \in [1 .. Len(b) -> Payment]
  BY <1>1, <1>2 DEF Payment
<1>4. [k \in DOMAIN b |-> [time |-> (time_past + b[k].minute) % Stage, send |-> b[k].send,
                           failed |-> 0]] \in [1 .. Len(b) -> Payment]
  BY <1>1, <1>2 DEF Payment
<1> QED
  BY <1>1, <1>3, <1>4, SeqDef

\* Only the step that stores a batch raises what a stage has moved, and only
\* that step and the requests made in the user's own name change its money.
MoneyKept(t) ==
    \A j \in 1 .. Len(users) :
        /\ users'[j].stage_money <= users[j].stage_money
        /\ \/ users'[j].money = users[j].money
           \/ req[t].pc \in {"publish", "arrest", "report"} /\ users[j].id = req[t].id

\* A step that leaves the users, or changes the one whose lock is held and
\* none of its sums.
LEMMA HeldUserKept ==
    ASSUME AgentIInv, NEW t \in Thread, req[t].pc \in InsideUserLock, illegal' = illegal,
           NEW v \in UserRecord, users' = [users EXCEPT ![req[t].i] = v],
           v.id = users[req[t].i].id, v.rank = users[req[t].i].rank,
           v.experience \in {users[req[t].i].experience, illegal},
           v.money = users[req[t].i].money, v.stage_money = users[req[t].i].stage_money
    PROVE  /\ UsersKept(t) /\ MoneyKept(t) /\ users'[req[t].i] = v
           /\ \A j \in 1 .. Len(users) : j # req[t].i => users'[j] = users[j]
<1> DEFINE i == req[t].i
<1>1. /\ i \in 1 .. Len(locks) /\ locks[i] = t /\ i \in 1 .. Len(users)
      /\ users[i].experience \in Nat /\ users[i].experience <= illegal /\ illegal \in Nat
  BY InsideFacts
<1>2. users[i].experience <= v.experience /\ v.experience <= illegal
  BY <1>1
<1>3. \A j \in 1 .. Len(users) : users[j].stage_money \in Nat
  BY ServerFacts DEF AgentIInv, UserRecord
<1>4. /\ UsersKept(t) /\ users'[i] = v
      /\ \A j \in 1 .. Len(users) : j # i => users'[j] = users[j]
  <2> HIDE DEF i
  <2> QED
    BY <1>1, <1>2, OneUserSteady DEF i
<1> QED
  BY <1>3, <1>4 DEF MoneyKept

\* A step that leaves the users alone keeps their money.
LEMMA SameUsersMoney ==
    ASSUME AgentIInv, NEW t \in Thread, users' = users
    PROVE  MoneyKept(t)
BY ServerFacts, SMTT(30) DEF AgentIInv, UserRecord, MoneyKept

\* Whatever the list, what was charged is answered as such.
LEMMA ReplyIsCharged ==
    ASSUME NEW b
    PROVE  Reply(b) \in Charged
BY DEF Reply, Charged

\* The batch is recorded in the user's list, and nothing else of it changes.
LEMMA RecordBatchStep ==
    ASSUME AgentIInv, NEW t \in Thread, RecordBatch(t)
    PROVE  ServerTyped' /\ Frame(t) /\ ThreadOK(t)' /\ ListsFit' /\ MoneyKept(t)
<1> DEFINE i == req[t].i
           u == users[i]
           b == req[t].batch
           new == [k \in DOMAIN b |-> [time |-> u.time_past + b[k].minute,
                                       send |-> b[k].send, failed |-> 0]]
           inStage == [k \in DOMAIN b |-> [time |-> (u.time_past + b[k].minute) % Stage,
                                           send |-> b[k].send, failed |-> 0]]
           v == [u EXCEPT !.list = u.list \o new, !.stage_list = u.stage_list \o inStage]
<1>0. /\ ServerTyped /\ req[t] \in Request /\ req[t].pc = "record"
      /\ req[t].pc \in InsideUserLock
  BY ServerFacts, ZenonT(60) DEF AgentIInv, RecordBatch, InsideUserLock
<1>1. /\ i \in 1 .. Len(users) /\ i \in DOMAIN users /\ u \in UserRecord
      /\ u.time_past \in Nat /\ b \in Batch
  BY <1>0, InsideFacts, ServerFacts DEF UserRecord, Request
<1>2. new \in Seq(Payment) /\ inStage \in Seq(Payment)
  BY <1>1, BatchRecorded, ZenonT(60)
<1>3. ~IsText(b) => users' = [[users EXCEPT ![i] = [u EXCEPT !.list = u.list \o new]]
                                 EXCEPT ![i].stage_list = @ \o inStage]
  BY ZenonT(60) DEF RecordBatch
<1>t. IsText(b) => users' = users
  BY ZenonT(60) DEF RecordBatch
<1> HIDE DEF new, inStage
<1>4. u.list \o new \in Seq(Payment) /\ u.stage_list \o inStage \in Seq(Payment)
  <2>1. u.list \in Seq(Payment) /\ u.stage_list \in Seq(Payment)
    BY <1>1 DEF UserRecord
  <2> QED
    BY <1>2, <2>1, ConcatProperties
<1>5. ~IsText(b) => users' = [users EXCEPT ![i] = v]
  <2>1. u.stage_list = [u EXCEPT !.list = u.list \o new].stage_list
    BY <1>1 DEF UserRecord
  <2> HIDE DEF u
  <2> QED
    BY <1>1, <1>3, <2>1
<1>6. /\ v \in UserRecord /\ v.id = u.id /\ v.rank = u.rank /\ v.experience = u.experience
      /\ v.money = u.money /\ v.stage_money = u.stage_money
  <2> HIDE DEF u
  <2> QED
    BY <1>1, <1>4, ZenonT(60) DEF UserRecord
<1> HIDE DEF v
<1>7. UNCHANGED <<regLock, illegal, arrived>> /\ Leave(t, Reply(b))
  BY ZenonT(60) DEF RecordBatch
<1>8. UsersKept(t) /\ MoneyKept(t)
  <2>1. CASE IsText(b)
    BY <1>0, <1>7, <1>t, <2>1, SameUsersSteady, SameUsersMoney
  <2>2. CASE ~IsText(b)
    BY <1>0, <1>5, <1>6, <1>7, <2>2, HeldUserKept
  <2> QED
    BY <2>1, <2>2
<1>9. Reply(b) \in Result /\ Reply(b) # "ok"
  BY ReplyIsCharged DEF Result, Charged
<1> QED
  BY <1>0, <1>7, <1>8, <1>9, LeaveStep

-----------------------------------------------------------------------------
(* /intercepted, /arrested and /failedTransactions.                        *)

\* A user that starts over keeps its name, its rank and what it has learned.
LEMMA ResetUser ==
    ASSUME NEW u \in UserRecord
    PROVE  /\ Reset(u) \in UserRecord /\ Reset(u).id = u.id /\ Reset(u).rank = u.rank
           /\ Reset(u).experience = u.experience /\ Reset(u).stage_money = u.stage_money
           /\ Reset(u).stage_total = u.stage_total
<1>1. <<>> \in Seq(Payment)
  BY EmptySeq
<1>0. PICK zero : zero = 0 /\ zero \in Int /\ zero \in Nat
  OBVIOUS
<1> DEFINE a == [u EXCEPT !.list = <<>>]
           b == [a EXCEPT !.money = zero]
<1>2. /\ a \in UserRecord /\ a.id = u.id /\ a.rank = u.rank /\ a.experience = u.experience
      /\ a.stage_money = u.stage_money /\ a.stage_total = u.stage_total
  BY <1>1 DEF UserRecord
<1> HIDE DEF a
<1>3. /\ b \in UserRecord /\ b.id = a.id /\ b.rank = a.rank /\ b.experience = a.experience
      /\ b.stage_money = a.stage_money /\ b.stage_total = a.stage_total
  BY <1>0, <1>2 DEF UserRecord
<1>4. Reset(u) = [b EXCEPT !.time_past = zero]
  BY <1>0 DEF Reset, a
<1> HIDE DEF b
<1> QED
  BY <1>0, <1>2, <1>3, <1>4 DEF UserRecord

\* A step that maps every user to one with the same stage, of which only those
\* of the request's own id may have other sums.
LEMMA MappedUsers ==
    ASSUME AgentIInv, NEW t \in Thread, illegal' \in Nat, illegal <= illegal',
           req[t].pc \in {"publish", "arrest", "report"},
           DOMAIN users' = 1 .. Len(users), users' = [i \in 1 .. Len(users) |-> users'[i]],
           \A i \in 1 .. Len(users) :
               /\ users'[i] \in UserRecord
               /\ users'[i].id = users[i].id /\ users'[i].rank = users[i].rank
               /\ users'[i].experience = users[i].experience
               /\ users'[i].stage_money = users[i].stage_money
               /\ users'[i].stage_total = users[i].stage_total
               /\ users[i].id # req[t].id => users'[i].money = users[i].money
    PROVE  UsersKept(t) /\ MoneyKept(t)
<1>1. Len(users) \in Nat /\ \A i \in 1 .. Len(users) : users[i] \in UserRecord
      /\ users[i].experience <= illegal /\ illegal \in Nat
  BY ServerFacts DEF AgentIInv, ServerTyped
<1>2. users' \in [1 .. Len(users) -> UserRecord]
  OBVIOUS
<1>3. users' \in Seq(UserRecord)
  BY <1>1, <1>2, SeqDef
<1>4. Len(users') = Len(users)
  BY <1>1, <1>3, LenProperties
<1>5. \A i \in 1 .. Len(users) :
        /\ users[i].experience \in Nat /\ users[i].experience <= illegal
        /\ users[i].stage_money \in Nat
  BY <1>1 DEF UserRecord
<1> QED
  BY <1>1, <1>3, <1>4, <1>5 DEF UsersKept, MoneyKept

\* A thread that goes on through the users from outside every lock.
LEMMA LoopStep ==
    ASSUME AgentIInv, NEW t \in Thread, NEW r \in Request,
           req[t].pc \in {"publish", "loop"}, r.pc \in {"loop", "lock"},
           r.kind = req[t].kind, r.id = req[t].id,
           req' = [req EXCEPT ![t] = r], UsersKept(t),
           UNCHANGED <<locks, regLock, arrived>>,
           r.pc = "lock" => r.i \in 1 .. Len(locks),
           LoopOK(t)'
    PROVE  ServerTyped' /\ Frame(t) /\ ThreadOK(t)' /\ ListsFit'
<1>0. ServerTyped /\ ThreadOK(t) /\ req[t] \in Request
  BY ServerFacts DEF AgentIInv
<1>1. Steady(t, r)
  BY <1>0 DEF Steady, ServerTyped
<1>2. ServerTyped' /\ Frame(t) /\ ListsFit' /\ req'[t] = r
  BY <1>1, SteadyStep
<1>3. /\ req[t].pc \notin InsideUserLock /\ r.pc \notin InsideUserLock
      /\ r.pc \notin {"build", "appendLock"} /\ req[t].pc \notin {"build", "appendLock"}
  BY DEF InsideUserLock
<1>4. HoldsItsLocks(t)'
  BY <1>1, <1>3, LocksStay
<1>5. r.kind = "intercept" /\ r.id \in Id
  BY <1>0, KindOfPoint
<1>6. InterceptOK(t)'
  BY <1>2 DEF InterceptOK
<1> QED
  BY <1>2, <1>4, <1>5, <1>6 DEF ThreadOK, Path

\* The interception is published, the user of that id starts anew, and the
\* loop over the users begins.
LEMMA PublishStep ==
    ASSUME AgentIInv, NEW t \in Thread, Publish(t)
    PROVE  ServerTyped' /\ Frame(t) /\ ThreadOK(t)' /\ ListsFit' /\ MoneyKept(t)
<1> DEFINE own == Registered(req[t].id)
           n == illegal + Cardinality(own)
           r == [req[t] EXCEPT !.pc = "loop", !.i = 1, !.last = Len(users), !.seen = n]
<1>0. ServerTyped /\ ThreadOK(t) /\ req[t] \in Request /\ req[t].pc = "publish"
  BY ServerFacts DEF AgentIInv, Publish
<1>1. /\ Len(users) \in Nat /\ illegal \in Nat /\ DOMAIN users = 1 .. Len(users)
      /\ \A i \in 1 .. Len(users) : users[i] \in UserRecord
  BY <1>0, ServerFacts
<1>2. Cardinality(own) \in Nat
  <2>1. own \in SUBSET (1 .. Len(users)) /\ IsFiniteSet(1 .. Len(users))
    BY <1>0, <1>1, RegisteredFacts, FS_Interval
  <2> HIDE DEF own
  <2> QED
    BY <2>1, FS_Subset, FS_CardinalityType
<1>3. n \in Nat /\ illegal <= n /\ illegal' = n
  BY <1>1, <1>2 DEF Publish
<1>4. \A i \in 1 .. Len(users) : i \in own <=> users[i].id = req[t].id
  BY <1>0, RegisteredFacts
<1>5. users' = [i \in 1 .. Len(users) |-> IF i \in own THEN Reset(users[i]) ELSE users[i]]
  BY <1>1 DEF Publish
<1>6. req' = [req EXCEPT ![t] = r]
  <2>1. req' = [req EXCEPT ![t].pc = "loop", ![t].i = 1, ![t].last = Len(users), ![t].seen = n]
    BY <1>3 DEF Publish
  <2> HIDE DEF n
  <2> QED
    BY <1>0, <2>1 DEF ServerTyped
<1> HIDE DEF own, n
<1>7. /\ r \in Request /\ r.pc = "loop" /\ r.i = 1 /\ r.last = Len(users) /\ r.seen = n
      /\ r.kind = req[t].kind /\ r.id = req[t].id
  <2>1. PICK one : one = 1 /\ one \in Nat
    OBVIOUS
  <2>2. "loop" \in Point /\ n \in Int
    BY <1>3 DEF Point
  <2>3. r = [req[t] EXCEPT !.pc = "loop", !.i = one, !.last = Len(users), !.seen = n]
    BY <2>1
  <2> QED
    BY <1>0, <1>1, <2>1, <2>2, <2>3 DEF Request
<1> HIDE DEF r
<1>8. UsersKept(t) /\ MoneyKept(t)
  <2>1. \A i \in 1 .. Len(users) :
               /\ users'[i] \in UserRecord
               /\ users'[i].id = users[i].id /\ users'[i].rank = users[i].rank
               /\ users'[i].experience = users[i].experience
               /\ users'[i].stage_money = users[i].stage_money
               /\ users'[i].stage_total = users[i].stage_total
               /\ users[i].id # req[t].id => users'[i].money = users[i].money
    <3> TAKE i \in 1 .. Len(users)
    <3>1. users'[i] = IF i \in own THEN Reset(users[i]) ELSE users[i]
      BY <1>5
    <3>2. CASE i \in own
      BY <1>1, <1>4, <3>1, <3>2, ResetUser
    <3>3. CASE i \notin own
      BY <1>1, <3>1, <3>3
    <3> QED
      BY <3>2, <3>3
  <2>2. DOMAIN users' = 1 .. Len(users) /\ users' = [i \in 1 .. Len(users) |-> users'[i]]
    BY <1>5
  <2> QED
    BY <1>0, <1>3, <2>1, <2>2, MappedUsers
<1>9. LoopOK(t)'
  <2>1. Len(users') = Len(users) /\ req'[t] = r
    BY <1>0, <1>6, <1>8 DEF UsersKept, ServerTyped
  <2>2. Informed(t, req[t].i)'
    BY <1>7, <2>1 DEF Informed
  <2>3. r.i \in 1 .. r.last + 1 /\ r.seen <= illegal'
    BY <1>1, <1>3, <1>7
  <2>4. r.last <= Len(users')
    BY <1>1, <1>7, <2>1
  <2> QED
    BY <1>7, <2>1, <2>2, <2>3, <2>4 DEF LoopOK
<1>10. UNCHANGED <<locks, regLock, arrived>>
  BY DEF Publish
<1> QED
  BY <1>0, <1>6, <1>7, <1>8, <1>9, <1>10, LoopStep

\* The loop ends, passes by the intercepted user itself, or turns to the next.
LEMMA NextOtherStep ==
    ASSUME AgentIInv, NEW t \in Thread, NextOther(t)
    PROVE  ServerTyped' /\ Frame(t) /\ ThreadOK(t)' /\ ListsFit'
<1> DEFINE i == req[t].i
<1>0. ServerTyped /\ ThreadOK(t) /\ req[t] \in Request /\ req[t].pc = "loop"
  BY ServerFacts DEF AgentIInv, NextOther
<1>1. req[t].kind = "intercept" /\ req[t].pc \notin InsideUserLock
  BY <1>0, KindOfPoint DEF InsideUserLock
<1>2. LoopOK(t)
  BY <1>0, <1>1 DEF ThreadOK, InterceptOK
<1>3. /\ i \in Nat /\ req[t].last \in Nat /\ req[t].seen \in Int /\ Len(users) \in Nat
      /\ req[t].last <= Len(users) /\ i \in 1 .. req[t].last + 1 /\ Informed(t, i)
      /\ illegal \in Nat /\ req[t].seen <= illegal
      /\ DOMAIN locks = 1 .. Len(locks)
  BY <1>0, <1>2, ServerFacts DEF LoopOK, Request
<1>4. UNCHANGED <<users, locks, regLock, illegal, arrived>>
  BY DEF NextOther
<1>5. UsersKept(t)
  BY <1>4, SameUsersSteady
<1>6. "ok" \in Result /\ "error" \in Result /\ "error" # "ok" /\ "lock" \in Point
      /\ "loop" \in Point
  BY DEF Result, Point
<1>7. CASE LoopEnds(req[t]) /\ Answer(t, "ok")
  <2>1. i = req[t].last + 1
    BY <1>3, <1>7 DEF LoopEnds
  <2>2. req'[t].last = req[t].last /\ req'[t].id = req[t].id /\ req'[t].seen = req[t].seen
    <3>1. req' = [req EXCEPT ![t] = Answered(req[t], "ok")]
      BY <1>0, <1>6, <1>7, AnswersWith
    <3>2. req'[t] = Answered(req[t], "ok")
      BY <1>0, <3>1 DEF ServerTyped
    <3> QED
      BY <1>0, <1>6, <3>2, RequestAnswered
  <2>3. (req[t].last <= Len(users) /\ Informed(t, req[t].last + 1))'
    BY <1>3, <1>4, <2>1, <2>2 DEF Informed
  <2> QED
    BY <1>0, <1>1, <1>4, <1>5, <1>6, <1>7, <2>3, AnswerStep
<1>8. CASE ~LoopEnds(req[t]) /\ users[i].id = req[t].id /\ req' = [req EXCEPT ![t].i = i + 1]
  <2> DEFINE r == [req[t] EXCEPT !.i = i + 1]
  <2>1. i <= req[t].last /\ i + 1 \in Nat /\ i + 1 \in 1 .. req[t].last + 1
    BY <1>3, <1>8, SMTT(30) DEF LoopEnds
  <2>2. req' = [req EXCEPT ![t] = r]
    BY <1>0, <1>8 DEF ServerTyped
  <2> HIDE DEF i
  <2>3. /\ r \in Request /\ r.pc = "loop" /\ r.i = i + 1 /\ r.last = req[t].last
        /\ r.seen = req[t].seen /\ r.kind = req[t].kind /\ r.id = req[t].id
    BY <1>0, <2>1 DEF Request
  <2> HIDE DEF r
  <2>4. req'[t] = r
    BY <1>0, <2>2 DEF ServerTyped
  <2>5. \A j \in 1 .. Len(users) :
            j < i + 1 /\ users[j].id # req[t].id => users[j].experience >= req[t].seen
    <3> TAKE j \in 1 .. Len(users)
    <3>1. j < i + 1 => j < i \/ j = i
      BY <1>3
    <3> QED
      BY <1>3, <1>8, <3>1 DEF Informed, i
  <2>6. Informed(t, req[t].i)'
    BY <1>4, <2>3, <2>4, <2>5 DEF Informed
  <2>7. LoopOK(t)'
    BY <1>3, <1>4, <2>1, <2>3, <2>4, <2>6 DEF LoopOK
  <2> QED
    BY <1>0, <1>4, <1>5, <2>2, <2>3, <2>7, LoopStep
<1>9. CASE ~LoopEnds(req[t]) /\ users[i].id # req[t].id /\ i \in DOMAIN locks /\ Go(t, "lock")
  <2> DEFINE r == At(req[t], "lock")
  <2>1. req' = [req EXCEPT ![t] = r]
    BY <1>0, <1>6, <1>9, GoesTo
  <2>2. /\ r \in Request /\ r.pc = "lock" /\ r.i = i /\ r.last = req[t].last
        /\ r.seen = req[t].seen /\ r.kind = req[t].kind /\ r.id = req[t].id
    BY <1>0, <1>6, RequestAt
  <2> HIDE DEF r
  <2>3. req'[t] = r
    BY <1>0, <2>1 DEF ServerTyped
  <2>4. i <= req[t].last
    BY <1>3, <1>9 DEF LoopEnds
  <2>5. Informed(t, req[t].i)'
    BY <1>3, <1>4, <2>2, <2>3 DEF Informed
  <2>6. LoopOK(t)'
    BY <1>3, <1>4, <1>9, <2>2, <2>3, <2>4, <2>5 DEF LoopOK
  <2>7. r.i \in 1 .. Len(locks)
    BY <1>3, <1>9, <2>2
  <2> QED
    BY <1>0, <1>4, <1>5, <2>1, <2>2, <2>6, <2>7, LoopStep
<1>10. CASE Answer(t, "error")
  BY <1>0, <1>1, <1>4, <1>5, <1>6, <1>10, AnswerStep
<1> QED
  BY <1>7, <1>8, <1>9, <1>10 DEF NextOther

\* A user learns of every interception published so far.
LEMMA LearnStep ==
    ASSUME AgentIInv, NEW t \in Thread, Learn(t)
    PROVE  ServerTyped' /\ Frame(t) /\ ThreadOK(t)' /\ ListsFit' /\ MoneyKept(t)
<1> DEFINE i == req[t].i
           u == users[i]
           v == [u EXCEPT !.experience = illegal]
           r == At(req[t], "replan")
<1>0. /\ ServerTyped /\ ThreadOK(t) /\ req[t] \in Request /\ req[t].pc = "learn"
      /\ req[t].pc \in InsideUserLock
  BY ServerFacts DEF AgentIInv, Learn, InsideUserLock
<1>1. /\ i \in 1 .. Len(users) /\ u \in UserRecord /\ illegal \in Nat /\ Len(users) \in Nat
      /\ i \in 1 .. Len(locks)
  BY <1>0, InsideFacts
<1>2. UNCHANGED <<regLock, illegal, arrived>>
  BY DEF Learn
<1>3. CASE Leave(t, "error") /\ UNCHANGED users
  <2>1. UsersKept(t) /\ MoneyKept(t)
    BY <1>2, <1>3, SameUsersSteady, SameUsersMoney
  <2>2. "error" \in Result /\ "error" # "ok"
    BY DEF Result
  <2> QED
    BY <1>0, <1>2, <1>3, <2>1, <2>2, LeaveStep
<1>4. CASE /\ users' = [users EXCEPT ![i].experience = illegal]
           /\ Go(t, "replan") /\ UNCHANGED locks
  <2>1. users' = [users EXCEPT ![i] = v]
    BY <1>4
  <2>2. /\ v \in UserRecord /\ v.id = u.id /\ v.rank = u.rank /\ v.experience = illegal
        /\ v.money = u.money /\ v.stage_money = u.stage_money
    <3> HIDE DEF u
    <3> QED
      BY <1>1 DEF UserRecord
  <2> HIDE DEF v
  <2>3. /\ UsersKept(t) /\ MoneyKept(t) /\ users'[i] = v
        /\ \A j \in 1 .. Len(users) : j # i => users'[j] = users[j]
    BY <1>0, <1>2, <2>1, <2>2, HeldUserKept
  <2>4. "replan" \in Point /\ "replan" \in InsideUserLock
    BY DEF Point, InsideUserLock
  <2>5. req' = [req EXCEPT ![t] = r]
    BY <1>0, <1>4, <2>4, GoesTo
  <2>6. /\ r \in Request /\ r.pc = "replan" /\ r.i = i /\ r.last = req[t].last
        /\ r.seen = req[t].seen /\ r.kind = req[t].kind /\ r.id = req[t].id
    BY <1>0, <2>4, RequestAt
  <2> HIDE DEF r
  <2>7. Steady(t, r)
    BY <1>0, <1>2, <1>4, <2>3, <2>5 DEF Steady, ServerTyped
  <2>8. ServerTyped' /\ Frame(t) /\ ListsFit' /\ req'[t] = r /\ Len(users') = Len(users)
    BY <2>6, <2>7, SteadyStep
  <2>9. HoldsItsLocks(t)'
    BY <1>0, <1>2, <1>4, <2>4, <2>6, <2>7, LocksStay
  <2>10. req[t].kind = "intercept" /\ req[t].id \in Id
    BY <1>0, KindOfPoint
  <2>11. LoopOK(t)
    BY <1>0, <2>10 DEF ThreadOK, InterceptOK
  <2>12. Informed(t, req[t].i)'
    <3>1. \A j \in 1 .. Len(users) :
            j < i /\ users'[j].id # req[t].id => users'[j].experience >= req[t].seen
      BY <1>1, <2>3, <2>11 DEF LoopOK, Informed
    <3> QED
      BY <2>6, <2>8, <3>1 DEF Informed
  <2>13. LoopOK(t)'
    <3>1. users'[i].id # req[t].id /\ users'[i].experience >= req[t].seen
      <4>1. users[i].id # req[t].id /\ req[t].seen <= illegal /\ req[t].seen \in Int
        BY <1>0, <2>11 DEF LoopOK, Request
      <4> QED
        BY <1>1, <2>2, <2>3, <4>1
    <3> QED
      BY <1>0, <1>2, <2>6, <2>8, <2>11, <2>12, <3>1 DEF LoopOK
  <2>14. InterceptOK(t)'
    BY <2>6, <2>8, <2>13 DEF InterceptOK
  <2> QED
    BY <2>3, <2>6, <2>8, <2>9, <2>10, <2>14 DEF ThreadOK, Path
<1> QED
  BY <1>3, <1>4 DEF Learn

\* A user that has learnt gets a new plan, and the loop goes on.
LEMMA PlanOverallStep ==
    ASSUME AgentIInv, NEW t \in Thread, PlanOverall(t)
    PROVE  ServerTyped' /\ Frame(t) /\ ThreadOK(t)' /\ ListsFit' /\ MoneyKept(t)
<1> DEFINE i == req[t].i
           u == users[i]
<1>0. /\ ServerTyped /\ ThreadOK(t) /\ req[t] \in Request /\ req[t].pc = "replan"
      /\ req[t].pc \in InsideUserLock
  BY ServerFacts DEF AgentIInv, PlanOverall, InsideUserLock
<1>1. /\ i \in 1 .. Len(users) /\ u \in UserRecord /\ illegal \in Nat /\ Len(users) \in Nat
      /\ i \in DOMAIN users
  BY <1>0, InsideFacts, ServerFacts
<1>2. UNCHANGED <<regLock, illegal, arrived>>
  BY DEF PlanOverall
<1>3. CASE Leave(t, "error") /\ UNCHANGED users
  <2>1. UsersKept(t) /\ MoneyKept(t)
    BY <1>2, <1>3, SameUsersSteady, SameUsersMoney
  <2>2. "error" \in Result /\ "error" # "ok"
    BY DEF Result
  <2> QED
    BY <1>0, <1>2, <1>3, <2>1, <2>2, LeaveStep
<1>4. ASSUME NEW plan \in Plans,
             users' = [users EXCEPT ![i].plan = plan, ![i].time_record = u.time_past],
             req' = [req EXCEPT ![t].pc = "loop", ![t].i = @ + 1],
             locks' = [locks EXCEPT ![i] = Free]
      PROVE  ServerTyped' /\ Frame(t) /\ ThreadOK(t)' /\ ListsFit' /\ MoneyKept(t)
  <2> DEFINE v == [u EXCEPT !.plan = plan, !.time_record = u.time_past]
             r == [req[t] EXCEPT !.pc = "loop", !.i = i + 1]
  <2>1. users' = [users EXCEPT ![i] = v]
    <3> HIDE DEF u
    <3>1. users' = [[users EXCEPT ![i] = [users[i] EXCEPT !.plan = plan]]
                        EXCEPT ![i].time_record = u.time_past]
      BY <1>4
    <3> QED
      BY <1>1, <3>1 DEF u
  <2>2. /\ v \in UserRecord /\ v.id = u.id /\ v.rank = u.rank /\ v.experience = u.experience
        /\ v.money = u.money /\ v.stage_money = u.stage_money
    <3>1. plan \in Seq(Nat) /\ u.time_past \in Nat
      BY <1>1, AgentAssumption DEF UserRecord
    <3> HIDE DEF u
    <3> QED
      BY <1>1, <3>1 DEF UserRecord
  <2> HIDE DEF v
  <2>3. /\ UsersKept(t) /\ MoneyKept(t) /\ users'[i] = v
        /\ \A j \in 1 .. Len(users) : j # i => users'[j] = users[j]
    BY <1>0, <1>2, <2>1, <2>2, HeldUserKept
  <2>4. req' = [req EXCEPT ![t] = r]
    <3>1. req \in [Thread -> Request]
      BY <1>0 DEF ServerTyped
    <3>2. req' = [[req EXCEPT ![t] = [req[t] EXCEPT !.pc = "loop"]] EXCEPT ![t].i = @ + 1]
      BY <1>4
    <3>3. [req[t] EXCEPT !.pc = "loop"].i = i
      BY <1>0 DEF Request
    <3> QED
      BY <3>1, <3>2, <3>3
  <2>5. req[t].kind = "intercept" /\ req[t].id \in Id
    BY <1>0, KindOfPoint
  <2>6. LoopOK(t)
    BY <1>0, <2>5 DEF ThreadOK, InterceptOK
  <2>7. /\ i \in Nat /\ i + 1 \in Nat /\ req[t].last \in Nat /\ i <= req[t].last
        /\ i + 1 \in 1 .. req[t].last + 1 /\ "loop" \in Point
    BY <1>0, <2>6 DEF LoopOK, Request, Point
  <2> HIDE DEF i
  <2>8. /\ r \in Request /\ r.pc = "loop" /\ r.i = i + 1 /\ r.last = req[t].last
        /\ r.seen = req[t].seen /\ r.kind = req[t].kind /\ r.id = req[t].id
    BY <1>0, <2>7 DEF Request
  <2> HIDE DEF r
  <2>9. /\ HoldsItsLocks(t)'
        /\ \E j \in 1 .. Len(locks), w \in {t, Free} :
              locks[j] \in {t, Free} /\ locks' = [locks EXCEPT ![j] = w]
    BY <1>0, <1>2, <1>4, <2>4, <2>8, LocksLeft DEF i
  <2>10. Steady(t, r)
    BY <1>0, <1>2, <2>3, <2>4, <2>9 DEF Steady, ServerTyped
  <2>11. ServerTyped' /\ Frame(t) /\ ListsFit' /\ req'[t] = r /\ Len(users') = Len(users)
    BY <2>8, <2>10, SteadyStep
  <2>12. Informed(t, req[t].i)'
    <3>1. \A j \in 1 .. Len(users) :
            j < i + 1 /\ users'[j].id # req[t].id => users'[j].experience >= req[t].seen
      <4> TAKE j \in 1 .. Len(users)
      <4>1. j < i + 1 => j < i \/ j = i
        BY <2>7
      <4>2. j < i /\ users[j].id # req[t].id => users[j].experience >= req[t].seen
        BY <2>6 DEF LoopOK, Informed, i
      <4>3. j = i => users'[j].experience >= req[t].seen
        BY <1>0, <2>2, <2>3, <2>6 DEF LoopOK, i, u
      <4>4. j < i => users'[j] = users[j]
        BY <2>3, <2>7, SMTT(30)
      <4> QED
        BY <4>1, <4>2, <4>3, <4>4
    <3> QED
      BY <2>8, <2>11, <3>1 DEF Informed
  <2>13. LoopOK(t)'
    BY <1>2, <2>6, <2>7, <2>8, <2>11, <2>12 DEF LoopOK
  <2>14. InterceptOK(t)'
    BY <2>8, <2>11, <2>13 DEF InterceptOK
  <2> QED
    BY <2>3, <2>5, <2>8, <2>9, <2>11, <2>14 DEF ThreadOK, Path
<1> QED
  BY <1>3, <1>4 DEF PlanOverall

\* An arrested user starts anew.
LEMMA ArrestStep ==
    ASSUME AgentIInv, NEW t \in Thread, Arrest(t)
    PROVE  ServerTyped' /\ Frame(t) /\ ThreadOK(t)' /\ ListsFit' /\ MoneyKept(t)
<1> DEFINE own == Registered(req[t].id)
           m == Min(own)
<1>0. ServerTyped /\ ThreadOK(t) /\ req[t] \in Request /\ req[t].pc = "arrest"
  BY ServerFacts DEF AgentIInv, Arrest
<1>1. UNCHANGED <<locks, regLock, illegal, arrived>>
  BY DEF Arrest
<1>2. UsersKept(t) /\ MoneyKept(t)
  <2>1. CASE own = {}
    <3>1. users' = users
      BY <2>1 DEF Arrest
    <3> QED
      BY <1>1, <3>1, SameUsersSteady, SameUsersMoney
  <2>2. CASE own # {}
    <3>1. m \in 1 .. Len(users) /\ users[m].id = req[t].id
      BY <1>0, <2>2, RegisteredFacts
    <3>2. users' = [users EXCEPT ![m] = Reset(users[m])]
      BY <2>2 DEF Arrest
    <3> HIDE DEF m, own
    <3>3. /\ users \in [1 .. Len(users) -> UserRecord] /\ illegal \in Nat
          /\ users[m] \in UserRecord
      BY <1>0, <3>1, ServerFacts DEF ServerTyped
    <3>4. /\ Reset(users[m]) \in UserRecord /\ Reset(users[m]).id = users[m].id
          /\ Reset(users[m]).rank = users[m].rank
          /\ Reset(users[m]).experience = users[m].experience
          /\ Reset(users[m]).stage_money = users[m].stage_money
          /\ Reset(users[m]).stage_total = users[m].stage_total
      BY <3>3, ResetUser
    <3>5. /\ users' \in [1 .. Len(users) -> UserRecord]
          /\ \A i \in 1 .. Len(users) :
                users'[i] = IF i = m THEN Reset(users[m]) ELSE users[i]
      BY <3>1, <3>2, <3>3, <3>4
    <3>6. \A i \in 1 .. Len(users) :
               /\ users'[i] \in UserRecord
               /\ users'[i].id = users[i].id /\ users'[i].rank = users[i].rank
               /\ users'[i].experience = users[i].experience
               /\ users'[i].stage_money = users[i].stage_money
               /\ users'[i].stage_total = users[i].stage_total
               /\ users[i].id # req[t].id => users'[i].money = users[i].money
      BY <3>1, <3>4, <3>5
    <3>7. DOMAIN users' = 1 .. Len(users) /\ users' = [i \in 1 .. Len(users) |-> users'[i]]
          /\ illegal' \in Nat /\ illegal <= illegal'
      BY <1>1, <3>3, <3>5
    <3> QED
      BY <1>0, <3>6, <3>7, MappedUsers
  <2> QED
    BY <2>1, <2>2
<1>3. PICK result \in {"ok", "error"} : Answer(t, result)
  BY DEF Arrest
<1>4. result \in Result /\ req[t].kind = "arrest"
      /\ req[t].pc \notin InsideUserLock \cup {"idle", "build", "appendLock"}
  BY <1>0, KindOfPoint DEF Result, InsideUserLock
<1> QED
  BY <1>1, <1>2, <1>3, <1>4, AnswerStep

\* A record whose failed counter is raised.
LEMMA FailedRaised ==
    ASSUME NEW s \in Seq(Payment), NEW k \in 1 .. Len(s)
    PROVE  CountFailure(s, k) \in Seq(Payment)
<1> DEFINE p == [s[k] EXCEPT !.failed = s[k].failed + 1]
<1>1. s[k] \in Payment
  BY ElementOfSeq
<1>2. s[k].failed + 1 \in Nat
  BY <1>1, SMTT(30) DEF Payment
<1>3. p \in Payment
  BY <1>1, <1>2 DEF Payment
<1>4. CountFailure(s, k) = [s EXCEPT ![k] = p]
  BY DEF CountFailure
<1> HIDE DEF p
<1> QED
  BY <1>3, <1>4, ExceptSeq

\* A failure report blames one record and takes one payment back.
LEMMA FailedTransactionsStep ==
    ASSUME AgentIInv, NEW t \in Thread, FailedTransactions(t)
    PROVE  ServerTyped' /\ Frame(t) /\ ThreadOK(t)' /\ ListsFit' /\ MoneyKept(t)
<1> DEFINE blamed(i) == Blamed(users[i].list, req[t].report.group - 1, req[t].report.rank)
           list(i) == IF blamed(i) = {} THEN users[i].list
                      ELSE CountFailure(users[i].list, Min(blamed(i)))
           v(i) == [users[i] EXCEPT !.list = list(i), !.money = @ - 1]
<1>0. ServerTyped /\ ThreadOK(t) /\ req[t] \in Request /\ req[t].pc = "report"
  BY ServerFacts DEF AgentIInv, FailedTransactions
<1>1. UNCHANGED <<locks, regLock, illegal, arrived>> /\ Answer(t, "ok")
  BY DEF FailedTransactions
<1>2. /\ DOMAIN users = 1 .. Len(users) /\ illegal \in Nat
      /\ \A i \in 1 .. Len(users) : users[i] \in UserRecord
  BY <1>0, ServerFacts
<1>3. users' = [i \in 1 .. Len(users) |-> IF users[i].id # req[t].id THEN users[i] ELSE v(i)]
  <2>1. users' = [i \in DOMAIN users |-> IF users[i].id # req[t].id THEN users[i] ELSE v(i)]
    BY Zenon DEF FailedTransactions
  <2> HIDE DEF v
  <2> QED
    BY <1>2, <2>1
<1>4. ASSUME NEW i \in 1 .. Len(users)
      PROVE  /\ v(i) \in UserRecord /\ v(i).id = users[i].id /\ v(i).rank = users[i].rank
             /\ v(i).experience = users[i].experience
             /\ v(i).stage_money = users[i].stage_money
             /\ v(i).stage_total = users[i].stage_total
  <2> DEFINE u == users[i]
             l == list(i)
             B == blamed(i)
  <2>1. u \in UserRecord /\ u.list \in Seq(Payment) /\ u.money \in Int
    BY <1>2 DEF UserRecord
  <2>2. l \in Seq(Payment)
    <3>1. Len(u.list) \in Nat /\ DOMAIN u.list = 1 .. Len(u.list)
      BY <2>1, LenProperties
    <3>2. B \in SUBSET (1 .. Len(u.list))
      BY <3>1 DEF Blamed
    <3>3. CASE B = {}
      BY <2>1, <3>3
    <3>4. CASE B # {}
      <4>1. l = CountFailure(u.list, Min(B))
        BY <3>4
      <4> HIDE DEF B, u, l
      <4>2. Min(B) \in 1 .. Len(u.list)
        BY <3>1, <3>2, <3>4, MinPosition
      <4> QED
        BY <2>1, <4>1, <4>2, FailedRaised
    <3> QED
      BY <3>3, <3>4
  <2>3. v(i) = [u EXCEPT !.list = l, !.money = u.money - 1]
    <3>1. v(i) = [[u EXCEPT !.list = l] EXCEPT !.money = @ - 1]
      OBVIOUS
    <3> HIDE DEF l, u
    <3>2. [u EXCEPT !.list = l].money = u.money
      BY <2>1 DEF UserRecord
    <3> QED
      BY <3>1, <3>2
  <2>4. u.money - 1 \in Int
    BY <2>1
  <2> HIDE DEF v, l
  <2>5. /\ v(i) \in UserRecord /\ v(i).id = u.id /\ v(i).rank = u.rank
        /\ v(i).experience = u.experience /\ v(i).stage_money = u.stage_money
        /\ v(i).stage_total = u.stage_total
    <3> HIDE DEF u
    <3> QED
      BY <2>1, <2>2, <2>3, <2>4 DEF UserRecord
  <2> QED
    BY <2>5
<1> HIDE DEF v
<1>5. \A i \in 1 .. Len(users) :
           /\ users'[i] \in UserRecord
           /\ users'[i].id = users[i].id /\ users'[i].rank = users[i].rank
           /\ users'[i].experience = users[i].experience
           /\ users'[i].stage_money = users[i].stage_money
           /\ users'[i].stage_total = users[i].stage_total
           /\ users[i].id # req[t].id => users'[i].money = users[i].money
  BY <1>2, <1>3, <1>4
<1>6. DOMAIN users' = 1 .. Len(users) /\ users' = [i \in 1 .. Len(users) |-> users'[i]]
      /\ illegal' \in Nat /\ illegal <= illegal'
  BY <1>1, <1>2, <1>3
<1>7. UsersKept(t) /\ MoneyKept(t)
  BY <1>0, <1>5, <1>6, MappedUsers
<1>8. "ok" \in Result /\ req[t].kind = "report"
      /\ req[t].pc \notin InsideUserLock \cup {"idle", "build", "appendLock"}
  BY <1>0, KindOfPoint DEF Result, InsideUserLock
<1> QED
  BY <1>1, <1>7, <1>8, AnswerStep

-----------------------------------------------------------------------------
(* Every step of a thread.                                                 *)

\* A step of a thread keeps what every thread relies on.
LEMMA ThreadStepKeeps ==
    ASSUME AgentIInv, NEW t \in Thread, ThreadStep(t)
    PROVE  AgentIInv' /\ Frame(t)
<1>1. ServerTyped' /\ Frame(t) /\ ThreadOK(t)' /\ ListsFit'
  <2>1. CASE EnterRegister(t) \/ BuildUser(t) \/ AppendLock(t)
    BY <2>1, EnterRegisterStep, BuildUserStep, AppendLockStep
  <2>2. CASE FindUser(t) \/ LockUser(t) \/ CheckStage(t) \/ TakeAnswer(t)
    BY <2>2, FindUserStep, LockUserStep, CheckStageStep, TakeAnswerStep
  <2>3. CASE LoadMoney(t) \/ StoreMoney(t) \/ RecordBatch(t)
    BY <2>3, LoadMoneyStep, StoreMoneyStep, RecordBatchStep
  <2>4. CASE Publish(t) \/ NextOther(t) \/ Learn(t) \/ PlanOverall(t)
    BY <2>4, PublishStep, NextOtherStep, LearnStep, PlanOverallStep
  <2>5. CASE Arrest(t) \/ FailedTransactions(t)
    BY <2>5, ArrestStep, FailedTransactionsStep
  <2> QED
    BY <2>1, <2>2, <2>3, <2>4, <2>5 DEF ThreadStep
<1>2. \A u \in Thread : u # t => ThreadOK(u)'
  BY <1>1, OthersKeep
<1> QED
  BY <1>1, <1>2 DEF AgentIInv

\* How a step of thread t moves its own request.
Moves(t) ==
    /\ req'[t].id = req[t].id /\ req'[t].kind = req[t].kind
    /\ req[t].pc \notin {"idle", "replied"}
    /\ req'[t].pc \notin {"idle", "enter", "report"}
    /\ req'[t].pc = "build" => req[t].pc = "enter"
    /\ req'[t].pc = "store" => req[t].pc = "load" /\ req'[t].seen = users'[req'[t].i].money
    /\ IsUnderWay(req'[t]) <=> req[t].pc \in {"store", "record"}
    /\ IsUnderWay(req'[t]) => req'[t].batch = req[t].batch

\* A thread that answers with anything but a batch, or whose batch was under way.
LEMMA AnswerMoves ==
    ASSUME ServerTyped, NEW t \in Thread, NEW result \in Result, Answer(t, result),
           req[t].pc \notin {"idle", "replied", "store"}, result \in Charged <=> req[t].pc = "record"
    PROVE  Moves(t)
<1>1. req' = [req EXCEPT ![t] = Answered(req[t], result)]
  BY AnswersWith
<1>2. req'[t] = Answered(req[t], result) /\ req[t] \in Request
  BY <1>1 DEF ServerTyped
<1>3. /\ req'[t].pc = "replied" /\ req'[t].result = result
      /\ req'[t].kind = req[t].kind /\ req'[t].id = req[t].id /\ req'[t].batch = req[t].batch
  BY <1>2, RequestAnswered
<1> QED
  BY <1>3 DEF Moves, IsUnderWay

\* A thread that only goes on.
LEMMA GoMoves ==
    ASSUME ServerTyped, NEW t \in Thread, NEW pc \in Point, Go(t, pc),
           req[t].pc \notin {"idle", "replied", "record"},
           pc \notin {"idle", "enter", "report", "build", "store", "replied"},
           pc = "record" <=> req[t].pc = "store"
    PROVE  Moves(t)
<1>1. req' = [req EXCEPT ![t] = At(req[t], pc)]
  BY GoesTo
<1>2. req'[t] = At(req[t], pc) /\ req[t] \in Request
  BY <1>1 DEF ServerTyped
<1>3. /\ req'[t].pc = pc
      /\ req'[t].kind = req[t].kind /\ req'[t].id = req[t].id /\ req'[t].batch = req[t].batch
  BY <1>2, RequestAt
<1> QED
  BY <1>3 DEF Moves, IsUnderWay

\* Every step of a thread moves its request along its path.
LEMMA ThreadMoves ==
    ASSUME ServerTyped, NEW t \in Thread, ThreadStep(t)
    PROVE  Moves(t)
<1>0. req \in [Thread -> Request] /\ req[t] \in Request
  BY DEF ServerTyped
<1>1. /\ \A s \in {"none", "ok", "error", "nothing", "wait"} : s \in Result /\ s \notin Charged
      /\ \A s \in {"appendLock", "lock", "stage", "learn", "ask", "record", "replan"} : s \in Point
  BY DEF Result, Point, Charged
<1>2. CASE EnterRegister(t)
  <2>1. req[t].pc = "enter" /\ req' = [req EXCEPT ![t].pc = "build", ![t].seen = illegal]
    BY <1>2 DEF EnterRegister
  <2>2. req'[t].pc = "build" /\ req'[t].id = req[t].id /\ req'[t].kind = req[t].kind
    BY <1>0, <2>1 DEF Request
  <2> QED
    BY <2>1, <2>2 DEF Moves, IsUnderWay
<1>3. CASE BuildUser(t)
  BY <1>1, <1>3, AnswerMoves, GoMoves DEF BuildUser
<1>4. CASE AppendLock(t)
  BY <1>1, <1>4, AnswerMoves DEF AppendLock
<1>5. CASE FindUser(t)
  <2>1. CASE Answer(t, "nothing") \/ Answer(t, "error")
    BY <1>1, <1>5, <2>1, AnswerMoves DEF FindUser
  <2>2. CASE req' = [req EXCEPT ![t].pc = "lock", ![t].i = Min(Registered(req[t].id))]
    <3>1. req'[t].pc = "lock" /\ req'[t].id = req[t].id /\ req'[t].kind = req[t].kind
      BY <1>0, <2>2 DEF Request
    <3>2. req[t].pc = "find"
      BY <1>5 DEF FindUser
    <3> QED
      BY <3>1, <3>2 DEF Moves, IsUnderWay
  <2> QED
    BY <1>5, <2>1, <2>2 DEF FindUser
<1>6. CASE LockUser(t)
  BY <1>1, <1>6, GoMoves DEF LockUser
<1>7. CASE CheckStage(t)
  BY <1>1, <1>7, GoMoves, AnswerMoves, ZenonT(60) DEF CheckStage, Leave
<1>8. CASE TakeAnswer(t)
  <2>0. req[t].pc = "ask"
    BY <1>8 DEF TakeAnswer
  <2>1. CASE Answer(t, "nothing") \/ Answer(t, "error") \/ Answer(t, "wait")
    BY <1>1, <2>0, <2>1, AnswerMoves
  <2>2. CASE \E b \in Batches : req' = [req EXCEPT ![t].pc = "load", ![t].batch = b]
    <3>1. req'[t].pc = "load" /\ req'[t].id = req[t].id /\ req'[t].kind = req[t].kind
      BY <1>0, <2>2 DEF Request
    <3> QED
      BY <2>0, <3>1 DEF Moves, IsUnderWay
  <2> QED
    BY <1>8, <2>1, <2>2 DEF TakeAnswer, Leave
<1>9. CASE LoadMoney(t)
  <2>1. /\ req[t].pc = "load" /\ users' = users
        /\ req' = [req EXCEPT ![t].pc = "store", ![t].seen = users[req[t].i].money]
    BY <1>9 DEF LoadMoney
  <2>2. /\ req'[t].pc = "store" /\ req'[t].id = req[t].id /\ req'[t].kind = req[t].kind
        /\ req'[t].i = req[t].i /\ req'[t].seen = users[req[t].i].money
    BY <1>0, <2>1 DEF Request
  <2> QED
    BY <2>1, <2>2 DEF Moves, IsUnderWay
<1>10. CASE StoreMoney(t)
  BY <1>1, <1>10, GoMoves DEF StoreMoney
<1>11. CASE RecordBatch(t)
  <2>1. Reply(req[t].batch) \in Charged /\ Reply(req[t].batch) \in Result
    BY ReplyIsCharged DEF Result
  <2>2. req[t].pc = "record" /\ Answer(t, Reply(req[t].batch))
    BY <1>11, ZenonT(60) DEF RecordBatch, Leave
  <2> QED
    BY <2>1, <2>2, AnswerMoves
<1>12. CASE Publish(t)
  <2>1. /\ req[t].pc = "publish"
        /\ req' = [req EXCEPT ![t].pc = "loop", ![t].i = 1, ![t].last = Len(users),
                              ![t].seen = illegal']
    BY <1>12 DEF Publish
  <2>2. req'[t].pc = "loop" /\ req'[t].id = req[t].id /\ req'[t].kind = req[t].kind
    BY <1>0, <2>1 DEF Request
  <2> QED
    BY <2>1, <2>2 DEF Moves, IsUnderWay
<1>13. CASE NextOther(t)
  <2>0. req[t].pc = "loop"
    BY <1>13 DEF NextOther
  <2>1. CASE Answer(t, "ok") \/ Answer(t, "error") \/ Go(t, "lock")
    BY <1>1, <2>0, <2>1, AnswerMoves, GoMoves
  <2>2. CASE req' = [req EXCEPT ![t].i = req[t].i + 1]
    <3>1. req'[t].pc = "loop" /\ req'[t].id = req[t].id /\ req'[t].kind = req[t].kind
      BY <1>0, <2>0, <2>2 DEF Request
    <3> QED
      BY <2>0, <3>1 DEF Moves, IsUnderWay
  <2> QED
    BY <1>13, <2>1, <2>2 DEF NextOther
<1>14. CASE Learn(t)
  BY <1>1, <1>14, AnswerMoves, GoMoves DEF Learn, Leave
<1>15. CASE PlanOverall(t)
  <2>0. req[t].pc = "replan"
    BY <1>15 DEF PlanOverall
  <2>1. CASE Answer(t, "error")
    BY <1>1, <2>0, <2>1, AnswerMoves
  <2>2. CASE req' = [req EXCEPT ![t].pc = "loop", ![t].i = @ + 1]
    <3>1. req'[t].pc = "loop" /\ req'[t].id = req[t].id /\ req'[t].kind = req[t].kind
      BY <1>0, <2>2 DEF Request
    <3> QED
      BY <2>0, <3>1 DEF Moves, IsUnderWay
  <2> QED
    BY <1>15, <2>1, <2>2 DEF PlanOverall, Leave
<1>16. CASE Arrest(t)
  BY <1>1, <1>16, AnswerMoves DEF Arrest
<1>17. CASE FailedTransactions(t)
  BY <1>1, <1>17, AnswerMoves DEF FailedTransactions
<1> QED
  BY <1>2, <1>3, <1>4, <1>5, <1>6, <1>7, <1>8, <1>9, <1>10, <1>11, <1>12, <1>13, <1>14,
     <1>15, <1>16, <1>17 DEF ThreadStep

\* A step of thread t appends the user it registers ...
Registers(t) ==
    /\ req[t].pc = "build" /\ req'[t].pc = "appendLock"
    /\ Len(users') = Len(users) + 1
    /\ \A i \in 1 .. Len(users) : users'[i] = users[i]
    /\ users'[Len(users) + 1].id = req[t].id
    /\ users'[Len(users) + 1].money = 0

\* ... or counts a batch ...
Counts(t) ==
    /\ req[t].pc = "store"
    /\ users'[req[t].i].money = req[t].seen + Sent(req[t].batch)
    /\ \A j \in 1 .. Len(users) : j # req[t].i => users'[j] = users[j]

\* ... or leaves the sums of all users but its own alone.
LEMMA ThreadEffect ==
    ASSUME AgentIInv, NEW t \in Thread, ThreadStep(t)
    PROVE  \/ Registers(t)
           \/ Counts(t) /\ Len(users') = Len(users)
           \/ MoneyKept(t) /\ Len(users') = Len(users)
<1>0. /\ ServerTyped /\ ServerTyped' /\ req \in [Thread -> Request]
      /\ Len(users) \in Nat /\ DOMAIN users = 1 .. Len(users)
      /\ \A i \in 1 .. Len(users) : users[i] \in UserRecord
  BY ThreadStepKeeps, ServerFacts DEF AgentIInv, ServerTyped
<1>1. ASSUME DOMAIN users' = DOMAIN users
      PROVE  Len(users') = Len(users)
  <2>1. DOMAIN users' = 1 .. Len(users') /\ Len(users') \in Nat
    BY <1>0, LenProperties DEF ServerTyped
  <2>2. PICK m \in Nat, n \in Nat : m = Len(users') /\ n = Len(users) /\ 1 .. m = 1 .. n
    BY <1>0, <1>1, <2>1
  <2>3. ~(m < n)
    <3> SUFFICES ASSUME m < n PROVE FALSE
      OBVIOUS
    <3>1. n \in 1 .. n /\ n \notin 1 .. m
      OBVIOUS
    <3> QED
      BY <3>1, <2>2
  <2>4. ~(n < m)
    <3> SUFFICES ASSUME n < m PROVE FALSE
      OBVIOUS
    <3>1. m \in 1 .. m /\ m \notin 1 .. n
      OBVIOUS
    <3> QED
      BY <3>1, <2>2
  <2>5. m = n
    BY <2>3, <2>4
  <2> QED
    BY <2>2, <2>5
<1>2. ASSUME users' = users
      PROVE  MoneyKept(t) /\ Len(users') = Len(users)
  BY <1>2, SameUsersMoney
<1>3. CASE EnterRegister(t) \/ AppendLock(t) \/ FindUser(t) \/ LockUser(t) \/ LoadMoney(t)
           \/ NextOther(t)
  BY <1>2, <1>3 DEF EnterRegister, AppendLock, FindUser, LockUser, LoadMoney, NextOther
<1>4. CASE BuildUser(t)
  <2>0. req[t].pc = "build" /\ illegal' = illegal
    BY <1>4 DEF BuildUser
  <2>1. CASE users' = users
    BY <1>2, <2>1
  <2>2. CASE /\ \E plan \in Plans : users' = Append(users, NewUser(req[t].id, req[t].seen, plan))
             /\ Go(t, "appendLock")
    <3>1. PICK plan \in Plans : users' = Append(users, NewUser(req[t].id, req[t].seen, plan))
      BY <2>2
    <3>2. req'[t].pc = "appendLock"
      BY <1>0, <2>2 DEF Go, Request
    <3> QED
      BY <2>0, <3>1, <3>2, UserAppended DEF Registers
  <2> QED
    BY <1>4, <2>1, <2>2 DEF BuildUser
<1>5. CASE StoreMoney(t)
  <2>1. DOMAIN users' = DOMAIN users /\ req[t].pc = "store"
    BY <1>5 DEF StoreMoney
  <2> QED
    BY <1>1, <1>5, <2>1, StoreMoneyStep DEF Counts
<1>6. CASE CheckStage(t)
  <2>1. DOMAIN users' = DOMAIN users
    <3>1. users' = users \/ \E v : users' = [users EXCEPT ![req[t].i] = v]
      BY <1>6, ZenonT(60) DEF CheckStage
    <3> QED
      BY <3>1
  <2> QED
    BY <1>1, <1>6, <2>1, CheckStageStep DEF MoneyKept
<1>7. CASE TakeAnswer(t)
  <2>1. DOMAIN users' = DOMAIN users
    BY <1>7 DEF TakeAnswer
  <2>2. \A j \in 1 .. Len(users) : users[j].stage_money \in Nat
    BY <1>0 DEF UserRecord
  <2>3. MoneyKept(t)
    BY <1>7, <2>2, TakeAnswerStep DEF MoneyKept
  <2> QED
    BY <1>1, <2>1, <2>3
<1>8. CASE RecordBatch(t)
  <2>1. DOMAIN users' = DOMAIN users
    BY <1>8, ZenonT(60) DEF RecordBatch
  <2> QED
    BY <1>1, <1>8, <2>1, RecordBatchStep
<1>9. CASE Publish(t)
  <2>1. DOMAIN users' = DOMAIN users
    BY <1>9 DEF Publish
  <2> QED
    BY <1>1, <1>9, <2>1, PublishStep
<1>10. CASE Learn(t)
  <2>1. DOMAIN users' = DOMAIN users
    BY <1>10 DEF Learn
  <2> QED
    BY <1>1, <1>10, <2>1, LearnStep
<1>11. CASE PlanOverall(t)
  <2>1. DOMAIN users' = DOMAIN users
    BY <1>11 DEF PlanOverall
  <2> QED
    BY <1>1, <1>11, <2>1, PlanOverallStep
<1>12. CASE Arrest(t)
  <2>1. DOMAIN users' = DOMAIN users
    BY <1>12 DEF Arrest
  <2> QED
    BY <1>1, <1>12, <2>1, ArrestStep
<1>13. CASE FailedTransactions(t)
  <2>1. DOMAIN users' = DOMAIN users
    BY <1>13 DEF FailedTransactions
  <2> QED
    BY <1>1, <1>13, <2>1, FailedTransactionsStep
<1> QED
  BY <1>3, <1>4, <1>5, <1>6, <1>7, <1>8, <1>9, <1>10, <1>11, <1>12, <1>13 DEF ThreadStep

\* A step of a thread never extends a stage that is full.
LEMMA ThreadStepExtendsShortStages ==
    ASSUME AgentIInv, NEW t \in Thread, ThreadStep(t),
           NEW i \in DOMAIN users, users'[i].stage_money > users[i].stage_money,
           users[i].rank < RuleFrom
    PROVE  users[i].stage_money < users[i].stage_total
<1>0. /\ ServerTyped /\ ThreadOK(t) /\ ServerTyped' /\ req[t] \in Request
      /\ i \in 1 .. Len(users) /\ Len(users) <= Len(users') /\ Len(users) \in Nat
  BY ThreadStepKeeps, ServerFacts DEF AgentIInv, Frame
<1>1. users[i].stage_money \in Nat /\ users'[i].stage_money \in Nat
  <2>1. Len(users') \in Nat /\ \A j \in 1 .. Len(users') : users'[j] \in UserRecord
    BY <1>0, LenProperties, ElementOfSeq DEF ServerTyped
  <2>2. i \in 1 .. Len(users')
    BY <1>0, <2>1
  <2> QED
    BY <1>0, <2>1, <2>2, ServerFacts DEF UserRecord
<1>2. users'[i] # users[i] /\ ~(users'[i].stage_money <= users[i].stage_money)
  BY <1>1
<1>3. Counts(t)
  BY <1>0, <1>2, ThreadEffect DEF Registers, MoneyKept
<1>4. i = req[t].i /\ req[t].pc = "store"
  BY <1>0, <1>2, <1>3 DEF Counts
<1>5. StageIsShort(users[i])
  BY <1>0, <1>4, KindOfPoint DEF ThreadOK, PlanOK
<1> QED
  BY <1>5 DEF StageIsShort

-----------------------------------------------------------------------------
(* The clients.                                                            *)

\* The points at which a client has not told the server that it was caught.
Trusted == {"new", "registering", "idle", "asking", "intercepted"}

Client ==
    [pc : Trusted \cup {"arrested", "reporting", "done"}, at : Thread \cup {Free},
     money : Nat]

DriverTyped ==
    /\ client \in [Id -> Client]
    /\ orphans \in SUBSET Thread
    /\ dropped \in [Id -> Nat]
    /\ reported \in SUBSET Id

\* A client waits for the answer to a request of its own.
ClientOK(c) ==
    /\ client[c].at = Free <=> client[c].pc \notin {"registering", "asking", "reporting"}
    /\ client[c].at # Free =>
        LET r == req[client[c].at]
        IN  /\ r.id = c
            /\ client[c].at \notin orphans
            /\ client[c].pc = "registering" => r.kind = "register"
            /\ client[c].pc = "asking" => r.kind = "plan"
            /\ client[c].pc = "reporting" => r.kind \in {"intercept", "arrest"}
    /\ client[c].pc = "new" => Registered(c) = {}
    /\ Registered(c) = {} => client[c].money = 0 /\ dropped[c] = 0

\* Somebody asked for what a thread does, and for the batch in its answer.
Owned(t) == t \in orphans \/ client[req[t].id].at = t

OwnedOK(t) ==
    /\ req[t].pc \notin {"idle", "replied", "report"} => Owned(t)
    /\ IsUnderWay(req[t]) =>
            req[t].kind = "plan" /\ Owned(t) /\ Registered(req[t].id) # {}
    /\ t \in orphans => req[t].kind \in {"register", "plan"}
    /\ req[t].pc = "report" => req[t].id \in reported
    /\ req[t].pc \in {"enter", "build"} =>
            Registered(req[t].id) = {} /\ client[req[t].id].pc # "new"
    /\ req[t].pc = "store" /\ req[t].id \notin reported /\ client[req[t].id].pc \in Trusted =>
            req[t].seen = users[req[t].i].money

\* An id is registered once.
IdsAreUnique ==
    /\ \A i, j \in 1 .. Len(users) : users[i].id = users[j].id => i = j
    /\ \A t, u \in Thread :
        /\ req[t].pc \in {"enter", "build"} /\ req[u].pc \in {"enter", "build"}
        /\ req[t].id = req[u].id
        => t = u

AccountOK(c) ==
    c \notin reported /\ client[c].pc \in Trusted =>
        \A i \in 1 .. Len(users) : users[i].id = c =>
            users[i].money = client[c].money + dropped[c] + OnItsWay(c)

DriverIInv ==
    /\ AgentIInv
    /\ DriverTyped
    /\ \A c \in Id : ClientOK(c)
    /\ \A t \in Thread : OwnedOK(t)
    /\ IdsAreUnique
    /\ \A c \in Id : AccountOK(c)
-----------------------------------------------------------------------------
(* What the server's threads rely on, under the steps of the clients.      *)

\* A thread that is free takes a request, or becomes free again.
LEMMA NewRequest ==
    ASSUME AgentIInv, NEW t \in Thread, NEW r \in Request,
           req[t].pc \in {"idle", "replied"}, req' = [req EXCEPT ![t] = r],
           r.pc \in {"idle", "enter", "find", "publish", "arrest", "report"},
           r.pc \in Path(r.kind), r.kind # "none" => r.id \in Id,
           UNCHANGED <<users, locks, regLock, illegal>>, arrived' \in 0 .. MaxRequests
    PROVE  AgentIInv' /\ req'[t] = r /\ \A u \in Thread \ {t} : req'[u] = req[u]
<1>1. ServerTyped /\ UsersKept(t)
  BY SameUsersSteady DEF AgentIInv
<1>2. Steady(t, r)
  BY <1>1 DEF Steady
<1>3. ServerTyped' /\ Frame(t) /\ ListsFit' /\ req'[t] = r
  BY <1>2, SteadyStep
<1>4. HoldsItsLocks(t)'
  BY <1>2, LocksStay DEF InsideUserLock
<1>5. RegisterOK(t)' /\ PlanOK(t)' /\ InterceptOK(t)'
  BY <1>3 DEF RegisterOK, PlanOK, InterceptOK
<1>6. ThreadOK(t)'
  BY <1>3, <1>4, <1>5 DEF ThreadOK
<1>7. \A u \in Thread : u # t => ThreadOK(u)'
  BY <1>3, OthersKeep
<1> QED
  BY <1>3, <1>6, <1>7 DEF AgentIInv, Frame

\* The empty request of an idle thread is a request.
LEMMA NoRequestFacts ==
    /\ NoRequest \in Request /\ NoRequest.kind = "none" /\ NoRequest.pc = "idle"
    /\ NoRequest.pc \in Path(NoRequest.kind)
<1>1. <<>> \in Batch
  BY EmptySeq DEF Batch
<1> QED
  BY <1>1 DEF NoRequest, Request, Point, Path

\* The request that arrives.
Fresh(kind, id, pc) == [NoRequest EXCEPT !.kind = kind, !.id = id, !.pc = pc]

\* A request of a client arrives.
LEMMA ArriveStep ==
    ASSUME AgentIInv, NEW t \in Thread, NEW c \in Id,
           NEW kind \in {"register", "plan", "intercept", "arrest"}, Arrive(t, kind, c)
    PROVE  /\ AgentIInv' /\ req[t].pc \in {"idle", "replied"}
           /\ UNCHANGED <<users, locks, regLock, illegal>>
           /\ \A u \in Thread \ {t} : req'[u] = req[u]
           /\ req'[t].kind = kind /\ req'[t].id = c /\ req'[t].pc = FirstPc(kind)
<1> DEFINE r == Fresh(kind, c, FirstPc(kind))
<1>1. FirstPc(kind) \in {"enter", "find", "publish", "arrest"} /\ FirstPc(kind) \in Path(kind)
  BY DEF FirstPc, Path
<1>2. r \in Request /\ r.kind = kind /\ r.id = c /\ r.pc = FirstPc(kind)
  <2>1. NoRequest \in Request
    BY NoRequestFacts
  <2>2. FirstPc(kind) \in Point
    BY <1>1 DEF Point
  <2> QED
    BY <2>1, <2>2 DEF Fresh, Request
<1>3. req' = [req EXCEPT ![t] = r] /\ req[t].pc \in {"idle", "replied"}
      /\ UNCHANGED <<users, locks, regLock, illegal>>
  BY DEF Arrive, Fresh
<1>4. arrived' \in 0 .. MaxRequests
  BY AgentAssumption DEF Arrive, AgentIInv, ServerTyped
<1> HIDE DEF r
<1> QED
  BY <1>1, <1>2, <1>3, <1>4, NewRequest, ZenonT(60)

\* A failure report arrives.
LEMMA ArriveReportStep ==
    ASSUME AgentIInv, NEW t \in Thread, NEW c \in Id, NEW p \in Reports, ArriveReport(t, c, p)
    PROVE  /\ AgentIInv' /\ req[t].pc \in {"idle", "replied"}
           /\ UNCHANGED <<users, locks, regLock, illegal>>
           /\ \A u \in Thread \ {t} : req'[u] = req[u]
           /\ req'[t].kind = "report" /\ req'[t].id = c /\ req'[t].pc = "report"
<1> DEFINE r == [NoRequest EXCEPT !.kind = "report", !.id = c, !.pc = "report", !.report = p]
<1>1. r \in Request /\ r.kind = "report" /\ r.id = c /\ r.pc = "report"
  <2>1. NoRequest \in Request /\ "report" \in Point
    BY NoRequestFacts DEF Point
  <2> QED
    BY <2>1 DEF Request
<1>2. req' = [req EXCEPT ![t] = r] /\ req[t].pc \in {"idle", "replied"}
      /\ UNCHANGED <<users, locks, regLock, illegal>>
  BY DEF ArriveReport
<1>3. arrived' \in 0 .. MaxRequests
  BY AgentAssumption DEF ArriveReport, AgentIInv, ServerTyped
<1>4. r.pc \in Path(r.kind)
  BY <1>1 DEF Path
<1> HIDE DEF r
<1> QED
  BY <1>1, <1>2, <1>3, <1>4, NewRequest

\* The answer of thread t is taken, and the thread is free.
LEMMA FreedStep ==
    ASSUME AgentIInv, NEW t \in Thread, req[t].pc = "replied",
           req' = [req EXCEPT ![t] = NoRequest],
           UNCHANGED <<users, locks, regLock, illegal, arrived>>
    PROVE  AgentIInv' /\ req'[t] = NoRequest /\ \A u \in Thread \ {t} : req'[u] = req[u]
<1>1. arrived' \in 0 .. MaxRequests
  BY DEF AgentIInv, ServerTyped
<1> QED
  BY <1>1, NoRequestFacts, NewRequest

-----------------------------------------------------------------------------
(* The payments on their way to a client.                                  *)

Part(q, c) == IF q.id = c /\ IsUnderWay(q) THEN Sent(q.batch) ELSE 0

\* What a request is about to pay is a natural number.
LEMMA PartNat ==
    ASSUME NEW q \in Request, NEW c
    PROVE  Part(q, c) \in Nat
<1>1. q.batch \in Batch
  BY DEF Request
<1> QED
  BY <1>1, SentNat DEF Part

\* One thread's request changes, and with it what is on its way.
LEMMA OnItsWayChanges ==
    ASSUME ServerTyped, ServerTyped', NEW t \in Thread, NEW c,
           \A u \in Thread \ {t} : req'[u] = req[u]
    PROVE  /\ OnItsWay(c)' = OnItsWay(c) - Part(req[t], c) + Part(req'[t], c)
           /\ OnItsWay(c) \in Nat /\ OnItsWay(c)' \in Nat
           /\ Part(req[t], c) \in Nat /\ Part(req'[t], c) \in Nat
<1> DEFINE f == [u \in Thread |-> Part(req[u], c)]
           h == [u \in Thread |-> Part(req'[u], c)]
<1>1. \A u \in Thread : Part(req[u], c) \in Nat /\ Part(req'[u], c) \in Nat
  BY PartNat DEF ServerTyped
<1>2. f \in [Thread -> Nat] /\ h \in [Thread -> Nat]
  BY <1>1
<1>3. \A u \in Thread \ {t} : h[u] = f[u]
  OBVIOUS
<1>4. f[t] = Part(req[t], c) /\ h[t] = Part(req'[t], c)
  OBVIOUS
<1>5. OnItsWay(c) = SumFunction(f) /\ OnItsWay(c)' = SumFunction(h)
  BY DEF OnItsWay, Part
<1>6. IsFiniteSet(Thread)
  BY AgentAssumption
<1> HIDE DEF f, h
<1>7. f \in [Thread -> Int] /\ h \in [Thread -> Int]
  BY <1>2
<1>8. SumFunction(h) = SumFunction(f) - f[t] + h[t]
  BY <1>3, <1>6, <1>7, SumUpdate
<1>9. SumFunction(f) \in Nat /\ SumFunction(h) \in Nat
  BY <1>2, <1>6, SumNat
<1> QED
  BY <1>1, <1>4, <1>5, <1>8, <1>9

\* Nothing is on its way to an id that nobody works for.
LEMMA NothingOnItsWay ==
    ASSUME ServerTyped, NEW c, \A u \in Thread : ~(req[u].id = c /\ IsUnderWay(req[u]))
    PROVE  OnItsWay(c) = 0
<1> DEFINE f == [u \in Thread |-> Part(req[u], c)]
<1>1. \A u \in Thread : Part(req[u], c) = 0
  BY DEF Part
<1>2. f \in [Thread -> Int] /\ \A u \in Thread : f[u] = 0
  BY <1>1
<1>3. OnItsWay(c) = SumFunction(f)
  BY DEF OnItsWay, Part
<1>4. IsFiniteSet(Thread)
  BY AgentAssumption
<1> HIDE DEF f
<1> QED
  BY <1>2, <1>3, <1>4, SumZero

\* The users stay where they are, with their ids.
LEMMA SameRegistered ==
    ASSUME ServerTyped, ServerTyped', Len(users') = Len(users),
           \A i \in 1 .. Len(users) : users'[i].id = users[i].id, NEW c
    PROVE  Registered(c)' = Registered(c)
<1>1. DOMAIN users = 1 .. Len(users) /\ DOMAIN users' = 1 .. Len(users')
  BY LenProperties DEF ServerTyped
<1> QED
  BY <1>1 DEF Registered
-----------------------------------------------------------------------------
(* The account of every client, under the steps of the threads.            *)

\* The parts of the invariant that the proofs below use.
LEMMA DriverFacts ==
    ASSUME DriverIInv
    PROVE  /\ AgentIInv /\ ServerTyped /\ DriverTyped /\ IdsAreUnique
           /\ \A t \in Thread : OwnedOK(t) /\ ThreadOK(t) /\ req[t] \in Request
           /\ \A c \in Id : ClientOK(c) /\ AccountOK(c)
           /\ DOMAIN users = 1 .. Len(users) /\ Len(users) \in Nat
           /\ \A i \in 1 .. Len(users) : users[i] \in UserRecord
           /\ Free \notin Thread
BY ServerFacts, AgentAssumption DEF DriverIInv, AgentIInv

\* A request that resets a user, made in its client's name, means that the
\* client is not trusted any more.
LEMMA ResetIsReported ==
    ASSUME DriverIInv, NEW t \in Thread, req[t].pc \in {"publish", "arrest", "report"}
    PROVE  req[t].id \in Id /\ (req[t].id \in reported \/ client[req[t].id].pc \notin Trusted)
<1>1. OwnedOK(t) /\ ThreadOK(t) /\ req[t] \in Request /\ Free \notin Thread
  BY DriverFacts
<1>2. req[t].kind \in {"intercept", "arrest", "report"} /\ req[t].id \in Id
  BY <1>1, KindOfPoint
<1>3. ClientOK(req[t].id)
  BY <1>2, DriverFacts
<1>4. CASE req[t].pc = "report"
  BY <1>1, <1>2, <1>4 DEF OwnedOK
<1>5. CASE req[t].pc \in {"publish", "arrest"}
  <2>1. req[t].kind \in {"intercept", "arrest"}
    BY <1>1, <1>5, KindOfPoint
  <2>2. client[req[t].id].at = t /\ t # Free
    BY <1>1, <1>5, <2>1 DEF OwnedOK, Owned
  <2>3. client[req[t].id].pc \in {"registering", "asking", "reporting"}
    BY <1>3, <2>2 DEF ClientOK
  <2>4. client[req[t].id].pc = "reporting"
    BY <1>3, <2>1, <2>2, <2>3 DEF ClientOK
  <2> QED
    BY <1>2, <2>4 DEF Trusted
<1> QED
  BY <1>4, <1>5

\* The money of a user whose client is trusted, under a step that counts nothing.
LEMMA TrustedMoneyKept ==
    ASSUME DriverIInv, NEW t \in Thread, MoneyKept(t), NEW i \in 1 .. Len(users),
           users[i].id \notin reported, client[users[i].id].pc \in Trusted
    PROVE  users'[i].money = users[i].money
<1>1. CASE req[t].pc \in {"publish", "arrest", "report"}
  BY <1>1, ResetIsReported DEF MoneyKept
<1>2. CASE req[t].pc \notin {"publish", "arrest", "report"}
  BY <1>2 DEF MoneyKept
<1> QED
  BY <1>1, <1>2

\* A step of a thread leaves every client waiting for a request of its own, if
\* it registers nobody.
LEMMA ClientsKept ==
    ASSUME DriverIInv, NEW t \in Thread, Moves(t), ServerTyped', UNCHANGED driverVars,
           \A u \in Thread \ {t} : req'[u] = req[u],
           NEW c \in Id, Registered(c)' = Registered(c)
    PROVE  ClientOK(c)'
<1>1. ClientOK(c) /\ DriverTyped
  BY DriverFacts
<1>2. client' = client /\ orphans' = orphans /\ dropped' = dropped
  BY DEF driverVars
<1>3. ASSUME client[c].at # Free
      PROVE  req'[client[c].at].id = req[client[c].at].id
             /\ req'[client[c].at].kind = req[client[c].at].kind
  <2>1. client[c].at \in Thread
    BY <1>1, <1>3 DEF DriverTyped, Client
  <2> QED
    BY <2>1 DEF Moves
<1> QED
  BY <1>1, <1>2, <1>3 DEF ClientOK

\* What a step of a thread leaves of its own request's record.
LEMMA OwnKept ==
    ASSUME DriverIInv, NEW t \in Thread, Moves(t), UNCHANGED driverVars, Frame(t),
           ThreadOK(t)', Registered(req[t].id) # {} => Registered(req[t].id)' # {},
           req'[t].pc \in {"enter", "build"} => Registered(req[t].id)' = Registered(req[t].id)
    PROVE  OwnedOK(t)'
<1>0. OwnedOK(t) /\ ThreadOK(t) /\ req[t] \in Request /\ ServerTyped
  BY DriverFacts
<1>1. client' = client /\ orphans' = orphans /\ reported' = reported
  BY DEF driverVars
<1>2. Owned(t)' <=> Owned(t)
  BY <1>1 DEF Owned, Moves
<1>3. req'[t].pc \notin {"idle", "replied", "report"} => Owned(t)'
  <2>1. req[t].pc = "report" => req'[t].pc = "replied"
    <3> SUFFICES ASSUME req[t].pc = "report" PROVE req'[t].pc = "replied"
      OBVIOUS
    <3>1. req'[t].kind = "report"
      BY <1>0, KindOfPoint DEF Moves
    <3>2. req'[t].pc \in {"report", "replied"}
      BY <3>1 DEF ThreadOK, Path
    <3> QED
      BY <3>2 DEF Moves
  <2> QED
    BY <1>0, <1>2, <2>1 DEF OwnedOK, Moves
<1>4. IsUnderWay(req'[t]) =>
        req'[t].kind = "plan" /\ Owned(t)' /\ Registered(req[t].id)' # {}
  <2> SUFFICES ASSUME req[t].pc \in {"store", "record"}
               PROVE  req'[t].kind = "plan" /\ Owned(t)' /\ Registered(req[t].id)' # {}
    BY DEF Moves
  <2>1. req[t].kind = "plan" /\ req[t].pc \in InsideUserLock
    BY <1>0, KindOfPoint DEF InsideUserLock
  <2>2. req[t].i \in 1 .. Len(users) /\ users[req[t].i].id = req[t].id
    BY <1>0, <2>1, InsideFacts DEF DriverIInv, ThreadOK, PlanOK
  <2>3. Registered(req[t].id) # {}
    BY <1>0, <2>2, RegisteredFacts
  <2> QED
    BY <1>0, <1>2, <2>1, <2>3 DEF OwnedOK, Moves
<1>5. t \in orphans' => req'[t].kind \in {"register", "plan"}
  BY <1>0, <1>1 DEF OwnedOK, Moves
<1>6. req'[t].pc # "report"
  BY DEF Moves
<1>7. req'[t].pc \in {"enter", "build"} =>
        Registered(req[t].id)' = {} /\ client'[req'[t].id].pc # "new"
  <2>1. req'[t].pc \in {"enter", "build"} => req[t].pc = "enter"
    BY DEF Moves
  <2>2. req'[t].id = req[t].id
    BY DEF Moves
  <2> QED
    BY <1>0, <1>1, <2>1, <2>2 DEF OwnedOK
<1>8. req'[t].pc = "store" => req'[t].seen = users'[req'[t].i].money
  BY DEF Moves
<1> QED
  BY <1>3, <1>4, <1>5, <1>6, <1>7, <1>8 DEF OwnedOK, IsUnderWay
\* What a step of thread t leaves of another thread's request.
LEMMA OtherOwnedKept ==
    ASSUME DriverIInv, UNCHANGED driverVars, NEW u \in Thread, req'[u] = req[u],
           Registered(req[u].id) # {} => Registered(req[u].id)' # {},
           req[u].pc \in {"enter", "build"} => Registered(req[u].id)' = Registered(req[u].id),
           /\ req[u].pc = "store" /\ req[u].id \notin reported
           /\ client[req[u].id].pc \in Trusted
           => users'[req[u].i].money = users[req[u].i].money
    PROVE  OwnedOK(u)'
<1>0. OwnedOK(u)
  BY DriverFacts
<1>1. client' = client /\ orphans' = orphans /\ reported' = reported
  BY DEF driverVars
<1>2. Owned(u)' <=> Owned(u)
  BY <1>1 DEF Owned
<1>3. req[u].pc \in {"enter", "build"} => Registered(req[u].id)' = {}
  BY <1>0 DEF OwnedOK
<1>4. IsUnderWay(req[u]) => Registered(req[u].id)' # {}
  BY <1>0 DEF OwnedOK
<1> QED
  BY <1>0, <1>1, <1>2, <1>3, <1>4 DEF OwnedOK, IsUnderWay

\* At most one thread counts for a user at a time, and it relies on a user of
\* the id it works for.
LEMMA StoreFacts ==
    ASSUME DriverIInv, NEW u \in Thread, req[u].pc = "store"
    PROVE  /\ req[u].i \in 1 .. Len(users) /\ users[req[u].i].id = req[u].id
           /\ req[u].id \in Id
           /\ \A t \in Thread : req[t].pc = "store" /\ req[t].i = req[u].i => t = u
<1>1. /\ AgentIInv /\ req[u].pc \in InsideUserLock /\ ThreadOK(u) /\ req[u] \in Request
      /\ req[u].kind = "plan" /\ req[u].id \in Id
  BY DriverFacts, KindOfPoint DEF InsideUserLock
<1>2. /\ req[u].i \in 1 .. Len(users) /\ users[req[u].i].id = req[u].id
      /\ req[u].i \in 1 .. Len(locks) /\ locks[req[u].i] = u
  BY <1>1, InsideFacts DEF ThreadOK, PlanOK
<1>3. \A t \in Thread : req[t].pc = "store" => locks[req[t].i] = t
  BY <1>1, InsideFacts DEF InsideUserLock
<1> QED
  BY <1>1, <1>2, <1>3

\* A step that neither registers a user nor counts a batch.
LEMMA QuietThreadStep ==
    ASSUME DriverIInv, NEW t \in Thread, Moves(t), Frame(t), UNCHANGED driverVars,
           AgentIInv', MoneyKept(t), Len(users') = Len(users), req[t].pc # "store"
    PROVE  DriverIInv'
<1>0. ServerTyped /\ ServerTyped' /\ DriverTyped /\ ThreadOK(t)'
  BY DriverFacts DEF AgentIInv
<1>1. /\ client' = client /\ orphans' = orphans /\ reported' = reported /\ dropped' = dropped
      /\ \A u \in Thread \ {t} : req'[u] = req[u]
      /\ \A i \in 1 .. Len(users) : users'[i].id = users[i].id
      /\ req'[t].id = req[t].id
  BY DEF driverVars, Frame, Moves
<1>2. \A c : Registered(c)' = Registered(c)
  BY <1>0, <1>1, SameRegistered
<1>3. \A u \in Thread : Registered(req[u].id)' = Registered(req[u].id)
  BY <1>1, <1>2 DEF Registered
<1>4. \A c \in Id : ClientOK(c)'
  BY <1>0, <1>1, <1>2, ClientsKept
<1>5. OwnedOK(t)'
  BY <1>0, <1>3, OwnKept
<1>6. ASSUME NEW u \in Thread, u # t
      PROVE  OwnedOK(u)'
  <2>1. /\ req[u].pc = "store" /\ req[u].id \notin reported
        /\ client[req[u].id].pc \in Trusted
        => users'[req[u].i].money = users[req[u].i].money
    BY StoreFacts, TrustedMoneyKept
  <2> QED
    BY <1>1, <1>3, <1>6, <2>1, OtherOwnedKept
<1>7. IdsAreUnique'
  BY <1>1, DriverFacts DEF IdsAreUnique, Moves
<1>8. ASSUME NEW c \in Id
      PROVE  AccountOK(c)'
  <2>1. AccountOK(c)
    BY DriverFacts
  <2>2. OnItsWay(c)' = OnItsWay(c)
    <3>1. Part(req'[t], c) = Part(req[t], c)
      BY DEF Part, Moves, IsUnderWay
    <3> QED
      BY <1>0, <1>1, <3>1, OnItsWayChanges
  <2>3. ASSUME c \notin reported, client[c].pc \in Trusted, NEW i \in 1 .. Len(users),
               users[i].id = c
        PROVE  users'[i].money = users[i].money
    BY <2>3, TrustedMoneyKept
  <2> QED
    BY <1>1, <2>1, <2>2, <2>3 DEF AccountOK
<1> QED
  BY <1>0, <1>1, <1>4, <1>5, <1>6, <1>7, <1>8 DEF DriverIInv, DriverTyped

\* The step that counts a batch puts it on its way.
LEMMA CountingStep ==
    ASSUME DriverIInv, NEW t \in Thread, Moves(t), Frame(t), UNCHANGED driverVars,
           AgentIInv', Counts(t), Len(users') = Len(users)
    PROVE  DriverIInv'
<1>0. ServerTyped /\ ServerTyped' /\ DriverTyped /\ ThreadOK(t)' /\ req[t] \in Request
  BY DriverFacts DEF AgentIInv
<1>1. /\ client' = client /\ orphans' = orphans /\ reported' = reported /\ dropped' = dropped
      /\ \A u \in Thread \ {t} : req'[u] = req[u]
      /\ \A i \in 1 .. Len(users) : users'[i].id = users[i].id
      /\ req'[t].id = req[t].id
  BY DEF driverVars, Frame, Moves
<1>2. \A c : Registered(c)' = Registered(c)
  BY <1>0, <1>1, SameRegistered
<1>3. \A u \in Thread : Registered(req[u].id)' = Registered(req[u].id)
  BY <1>1, <1>2 DEF Registered
<1>4. \A c \in Id : ClientOK(c)'
  BY <1>0, <1>1, <1>2, ClientsKept
<1>5. OwnedOK(t)'
  BY <1>0, <1>3, OwnKept
<1> DEFINE i == req[t].i
<1>6. /\ req[t].pc = "store" /\ i \in 1 .. Len(users) /\ users[i].id = req[t].id
      /\ \A u \in Thread : req[u].pc = "store" /\ req[u].i = i => u = t
      /\ req[t].id \in Id
      /\ users'[i].money = req[t].seen + Sent(req[t].batch)
      /\ \A j \in 1 .. Len(users) : j # i => users'[j] = users[j]
  BY StoreFacts DEF Counts
<1>7. ASSUME NEW u \in Thread, u # t
      PROVE  OwnedOK(u)'
  <2>1. req[u].pc = "store" => users'[req[u].i].money = users[req[u].i].money
    BY <1>6, <1>7, StoreFacts
  <2> QED
    BY <1>1, <1>3, <1>7, <2>1, OtherOwnedKept
<1>8. IdsAreUnique'
  BY <1>1, DriverFacts DEF IdsAreUnique, Moves
<1>9. ASSUME NEW c \in Id
      PROVE  AccountOK(c)'
  <2>1. AccountOK(c) /\ OwnedOK(t) /\ IdsAreUnique
    BY DriverFacts
  <2>2. /\ OnItsWay(c)' = OnItsWay(c) - Part(req[t], c) + Part(req'[t], c)
        /\ OnItsWay(c) \in Nat
    BY <1>0, <1>1, OnItsWayChanges
  <2>3. Part(req[t], c) = 0
    BY <1>6 DEF Part, IsUnderWay
  <2>4. CASE c # req[t].id
    <3>1. Part(req'[t], c) = 0
      BY <1>1, <2>4 DEF Part
    <3>2. OnItsWay(c)' = OnItsWay(c)
      BY <2>2, <2>3, <3>1
    <3>3. \A j \in 1 .. Len(users) : users[j].id = c => users'[j] = users[j]
      BY <1>6, <2>4
    <3> QED
      BY <1>1, <2>1, <3>2, <3>3 DEF AccountOK
  <2>5. CASE c = req[t].id
    <3>1. Part(req'[t], c) = Sent(req[t].batch)
      BY <1>1, <1>6, <2>5 DEF Part, Moves
    <3>2. Sent(req[t].batch) \in Nat
      BY <1>0, SentNat DEF Request
    <3>3. OnItsWay(c)' = OnItsWay(c) + Sent(req[t].batch)
      BY <2>2, <2>3, <3>1, <3>2
    <3>4. ASSUME c \notin reported, client[c].pc \in Trusted, NEW j \in 1 .. Len(users),
                 users[j].id = c
          PROVE  users'[j].money = client[c].money + dropped[c] + OnItsWay(c)'
      <4>1. j = i
        BY <1>6, <2>1, <2>5, <3>4 DEF IdsAreUnique
      <4>2. req[t].seen = users[i].money
        BY <1>6, <2>1, <2>5, <3>4 DEF OwnedOK
      <4>3. users[i].money = client[c].money + dropped[c] + OnItsWay(c)
        BY <1>6, <2>1, <2>5, <3>4 DEF AccountOK
      <4>4. client[c].money \in Nat /\ dropped[c] \in Nat
        BY <1>0 DEF DriverTyped, Client
      <4> QED
        BY <1>6, <2>2, <3>2, <3>3, <4>1, <4>2, <4>3, <4>4
    <3> QED
      BY <1>1, <3>4 DEF AccountOK
  <2> QED
    BY <2>4, <2>5
<1> QED
  BY <1>0, <1>1, <1>4, <1>5, <1>7, <1>8, <1>9 DEF DriverIInv, DriverTyped

\* The step that registers a user, for which nothing was paid yet.
LEMMA RegisteringStep ==
    ASSUME DriverIInv, NEW t \in Thread, Moves(t), Frame(t), UNCHANGED driverVars,
           AgentIInv', Registers(t)
    PROVE  DriverIInv'
<1> DEFINE n == Len(users) + 1
           id == req[t].id
<1>0. /\ ServerTyped /\ ServerTyped' /\ DriverTyped /\ ThreadOK(t)' /\ req[t] \in Request
      /\ OwnedOK(t) /\ IdsAreUnique /\ Len(users) \in Nat /\ DOMAIN users = 1 .. Len(users)
  BY DriverFacts DEF AgentIInv
<1>1. /\ client' = client /\ orphans' = orphans /\ reported' = reported /\ dropped' = dropped
      /\ \A u \in Thread \ {t} : req'[u] = req[u]
      /\ req'[t].id = id /\ req[t].pc = "build" /\ req'[t].pc = "appendLock"
      /\ Len(users') = n /\ \A i \in 1 .. Len(users) : users'[i] = users[i]
      /\ users'[n].id = id /\ users'[n].money = 0
  BY DEF driverVars, Frame, Moves, Registers
<1>2. Registered(id) = {} /\ client[id].pc # "new"
  BY <1>0, <1>1 DEF OwnedOK
<1>3. \A i \in 1 .. Len(users) : users[i].id # id
  BY <1>0, <1>2 DEF Registered
<1>4. /\ DOMAIN users' = 1 .. n /\ n \notin 1 .. Len(users)
      /\ \A i \in 1 .. n : i \in 1 .. Len(users) \/ i = n
      /\ \A i \in 1 .. Len(users) : i \in 1 .. n
      /\ n \in 1 .. n
  BY <1>0, <1>1, LenProperties DEF ServerTyped
<1>5. \A c : c # id => Registered(c)' = Registered(c)
  <2> SUFFICES ASSUME NEW c, c # id PROVE Registered(c)' = Registered(c)
    OBVIOUS
  <2>1. Registered(c)' = {i \in 1 .. n : users'[i].id = c}
    BY <1>4 DEF Registered
  <2>2. Registered(c) = {i \in 1 .. Len(users) : users[i].id = c}
    BY <1>0 DEF Registered
  <2>3. \A i \in 1 .. n : users'[i].id = c => i \in 1 .. Len(users) /\ users[i].id = c
    BY <1>1, <1>4
  <2>4. \A i \in 1 .. Len(users) : users[i].id = c => i \in 1 .. n /\ users'[i].id = c
    BY <1>1, <1>4
  <2> HIDE DEF n
  <2> QED
    BY <2>1, <2>2, <2>3, <2>4
<1>6. Registered(id)' # {}
  <2>1. n \in Registered(id)'
    BY <1>1, <1>4 DEF Registered
  <2> QED
    BY <2>1
<1>7. ASSUME NEW c \in Id
      PROVE  ClientOK(c)'
  <2>1. CASE c # id
    BY <1>0, <1>1, <1>5, <2>1, ClientsKept
  <2>2. CASE c = id
    <3>1. ClientOK(c)
      BY DriverFacts
    <3>2. Registered(c)' # {}
      BY <1>1, <1>6, <2>2 DEF Registered
    <3>3. ASSUME client[c].at # Free
          PROVE  req'[client[c].at].id = req[client[c].at].id
                 /\ req'[client[c].at].kind = req[client[c].at].kind
      <4>1. client[c].at \in Thread
        BY <1>0, <3>3 DEF DriverTyped, Client
      <4> QED
        BY <1>1, <4>1 DEF Moves
    <3> QED
      BY <1>1, <1>2, <2>2, <3>1, <3>2, <3>3 DEF ClientOK
  <2> QED
    BY <2>1, <2>2
<1>8. OwnedOK(t)'
  BY <1>0, <1>1, <1>6, OwnKept
<1>9. ASSUME NEW u \in Thread, u # t
      PROVE  OwnedOK(u)'
  <2>1. req[u].pc \in {"enter", "build"} => req[u].id # id
    BY <1>0, <1>1, <1>9 DEF IdsAreUnique
  <2>2. req[u].id # id => Registered(req[u].id)' = Registered(req[u].id)
    BY <1>1, <1>5, <1>9 DEF Registered
  <2>3. req[u].id = id => Registered(req[u].id)' # {}
    BY <1>1, <1>6, <1>9 DEF Registered
  <2>4. req[u].pc = "store" => users'[req[u].i].money = users[req[u].i].money
    BY <1>1, StoreFacts
  <2> QED
    BY <1>1, <1>9, <2>1, <2>2, <2>3, <2>4, OtherOwnedKept
<1>10. IdsAreUnique'
  <2>1. \A i, j \in 1 .. n : users'[i].id = users'[j].id => i = j
    BY <1>0, <1>1, <1>3, <1>4 DEF IdsAreUnique
  <2>2. \A u \in Thread : req'[u].pc \in {"enter", "build"} => u # t
    BY <1>1
  <2> QED
    BY <1>0, <1>1, <2>1, <2>2 DEF IdsAreUnique
<1>11. ASSUME NEW c \in Id
       PROVE  AccountOK(c)'
  <2>1. AccountOK(c) /\ ClientOK(c)
    BY DriverFacts
  <2>2. /\ OnItsWay(c)' = OnItsWay(c) - Part(req[t], c) + Part(req'[t], c)
        /\ OnItsWay(c) \in Nat
    BY <1>0, <1>1, OnItsWayChanges
  <2>3. Part(req[t], c) = 0 /\ Part(req'[t], c) = 0
    BY <1>1 DEF Part, IsUnderWay
  <2>4. OnItsWay(c)' = OnItsWay(c)
    BY <2>2, <2>3
  <2>5. CASE c # id
    <3>1. \A j \in 1 .. n : users'[j].id = c => j \in 1 .. Len(users) /\ users'[j] = users[j]
      BY <1>1, <1>4, <2>5
    <3> QED
      BY <1>1, <2>1, <2>4, <3>1 DEF AccountOK
  <2>6. CASE c = id
    <3>1. client[c].money = 0 /\ dropped[c] = 0
      BY <1>2, <2>1, <2>6 DEF ClientOK
    <3>2. \A u \in Thread : ~(req[u].id = c /\ IsUnderWay(req[u]))
      BY <1>2, <2>6, DriverFacts DEF OwnedOK
    <3>3. OnItsWay(c) = 0
      BY <1>0, <3>2, NothingOnItsWay
    <3>4. \A j \in 1 .. n : users'[j].id = c => j = n
      BY <1>1, <1>3, <1>4, <2>6
    <3> QED
      BY <1>1, <2>4, <3>1, <3>3, <3>4 DEF AccountOK
  <2> QED
    BY <2>5, <2>6
<1> QED
  BY <1>0, <1>1, <1>7, <1>8, <1>9, <1>10, <1>11 DEF DriverIInv, DriverTyped

\* Every step of a thread keeps the accounts.
LEMMA DriverThreadStep ==
    ASSUME DriverIInv, NEW t \in Thread, ThreadStep(t), UNCHANGED driverVars
    PROVE  DriverIInv'
<1>1. AgentIInv /\ ServerTyped
  BY DriverFacts
<1>2. AgentIInv' /\ Frame(t) /\ Moves(t)
  BY <1>1, ThreadStepKeeps, ThreadMoves
<1>3. \/ Registers(t)
      \/ Counts(t) /\ Len(users') = Len(users)
      \/ MoneyKept(t) /\ Len(users') = Len(users)
  BY <1>1, ThreadEffect
<1>4. req[t].pc = "store" => Counts(t) /\ Len(users') = Len(users)
  <2> SUFFICES ASSUME req[t].pc = "store" PROVE Counts(t) /\ Len(users') = Len(users)
    OBVIOUS
  <2>1. StoreMoney(t)
    BY DEF ThreadStep, EnterRegister, BuildUser, AppendLock, FindUser, LockUser, CheckStage,
           TakeAnswer, LoadMoney, RecordBatch, Publish, NextOther, Learn, PlanOverall, Arrest,
           FailedTransactions
  <2>2. Counts(t)
    BY <1>1, <2>1, StoreMoneyStep DEF Counts
  <2>3. ~Registers(t)
    BY DEF Registers
  <2> QED
    BY <1>3, <2>2, <2>3
<1> QED
  BY <1>2, <1>3, <1>4, QuietThreadStep, CountingStep, RegisteringStep
-----------------------------------------------------------------------------
(* The accounts, under the steps of the clients.                           *)

\* A thread that nobody waits for has no batch under way.
LEMMA NobodysThread ==
    ASSUME DriverIInv, NEW t \in Thread, t \notin orphans, \A d \in Id : client[d].at # t
    PROVE  ~IsUnderWay(req[t])
<1>1. OwnedOK(t) /\ ThreadOK(t) /\ req[t] \in Request
  BY DriverFacts
<1>2. ASSUME IsUnderWay(req[t])
      PROVE  FALSE
  <2>1. req[t].kind = "plan" /\ Owned(t)
    BY <1>1, <1>2 DEF OwnedOK
  <2>2. req[t].id \in Id
    BY <1>1, <2>1 DEF ThreadOK
  <2> QED
    BY <2>1, <2>2 DEF Owned
<1> QED
  BY <1>2

\* A free thread takes a request of client c.
LEMMA PostStep ==
    ASSUME DriverIInv, NEW c \in Id, NEW kind \in {"register", "plan", "intercept", "arrest"},
           NEW from, NEW to, Post(c, from, kind, to),
           <<from, kind, to>> \in {<<"new", "register", "registering">>, <<"idle", "plan", "asking">>,
               <<"intercepted", "intercept", "reporting">>, <<"arrested", "arrest", "reporting">>}
    PROVE  DriverIInv'
<1>0. /\ AgentIInv /\ ServerTyped /\ DriverTyped /\ IdsAreUnique /\ ClientOK(c)
      /\ Free \notin Thread
  BY DriverFacts
<1>1. PICK t \in Thread :
        /\ t \notin orphans /\ \A d \in Id : client[d].at # t
        /\ Arrive(t, kind, c)
        /\ client' = [client EXCEPT ![c].pc = to, ![c].at = t]
  <2>1. (CHOOSE u \in FreeThreads : TRUE) \in FreeThreads
    BY DEF Post
  <2> QED
    BY <2>1 DEF Post, FreeThreads
<1>2. client[c].pc = from /\ UNCHANGED <<orphans, dropped, reported, timeouts>>
  BY DEF Post
<1>3. /\ AgentIInv' /\ req[t].pc \in {"idle", "replied"}
      /\ UNCHANGED <<users, locks, regLock, illegal>>
      /\ \A u \in Thread \ {t} : req'[u] = req[u]
      /\ req'[t].kind = kind /\ req'[t].id = c /\ req'[t].pc = FirstPc(kind)
  BY <1>0, <1>1, ArriveStep
<1>4. FirstPc(kind) \in {"enter", "find", "publish", "arrest"}
      /\ (FirstPc(kind) = "enter" <=> kind = "register")
  BY DEF FirstPc
<1>5. ServerTyped'
  BY <1>3 DEF AgentIInv
<1>6. /\ client'[c].pc = to /\ client'[c].at = t /\ client'[c].money = client[c].money
      /\ client' \in [Id -> Client]
      /\ \A d \in Id : d # c => client'[d] = client[d]
  <2> DEFINE v == [client[c] EXCEPT !.pc = to, !.at = t]
  <2>1. client \in [Id -> Client] /\ client[c] \in Client
    BY <1>0 DEF DriverTyped
  <2>2. client' = [client EXCEPT ![c] = v]
    BY <1>1, <2>1
  <2>3. to \in Trusted \cup {"arrested", "reporting", "done"}
    BY DEF Trusted
  <2>4. v \in Client /\ v.pc = to /\ v.at = t /\ v.money = client[c].money
    BY <2>1, <2>3 DEF Client
  <2> HIDE DEF v
  <2> QED
    BY <2>1, <2>2, <2>4
<1>7. DriverTyped'
  BY <1>0, <1>2, <1>6 DEF DriverTyped
<1>8. client[c].at = Free
  BY <1>0, <1>2 DEF ClientOK
<1>9. to \in {"registering", "asking", "reporting"} /\ to # "new"
      /\ (to \in Trusted => from \in Trusted) /\ (kind = "register" => from = "new")
  BY DEF Trusted
<1>10. ASSUME NEW d \in Id
       PROVE  ClientOK(d)'
  <2>0. ClientOK(d)
    BY DriverFacts
  <2>1. Registered(d)' = Registered(d)
    BY <1>3 DEF Registered
  <2>2. CASE d = c
    <3>1. /\ to = "registering" => kind = "register"
          /\ to = "asking" => kind = "plan"
          /\ to = "reporting" => kind \in {"intercept", "arrest"}
      OBVIOUS
    <3>2. t # Free
      BY <1>0
    <3>3. Registered(c) = {} => client[c].money = 0 /\ dropped[c] = 0
      BY <1>0 DEF ClientOK
    <3> QED
      BY <1>1, <1>2, <1>3, <1>6, <1>9, <2>1, <2>2, <3>1, <3>2, <3>3 DEF ClientOK
  <2>3. CASE d # c
    <3>1. client[d].at # Free => client[d].at \in Thread \ {t}
      BY <1>0, <1>1 DEF DriverTyped, Client
    <3> QED
      BY <1>2, <1>3, <1>6, <2>0, <2>1, <2>3, <3>1 DEF ClientOK
  <2> QED
    BY <2>2, <2>3
<1>11. OwnedOK(t)'
  <2>1. Owned(t)'
    BY <1>3, <1>6 DEF Owned
  <2>2. FirstPc(kind) = "enter" => Registered(c) = {}
    BY <1>0, <1>2, <1>4, <1>9 DEF ClientOK
  <2>3. Registered(req[t].id)' = Registered(c)
    BY <1>3 DEF Registered
  <2> QED
    BY <1>1, <1>2, <1>3, <1>4, <1>6, <1>9, <2>1, <2>2, <2>3 DEF OwnedOK, IsUnderWay
<1>12. ASSUME NEW u \in Thread, u # t
       PROVE  OwnedOK(u)'
  <2>1. OwnedOK(u) /\ ThreadOK(u) /\ req[u] \in Request /\ req'[u] = req[u]
    BY <1>3, <1>12, DriverFacts
  <2>2. req[u].id \in Id /\ Owned(u) => Owned(u)'
    <3>1. CASE req[u].id = c
      BY <1>0, <1>2, <1>8, <2>1, <3>1 DEF Owned
    <3>2. CASE req[u].id # c
      BY <1>2, <1>6, <2>1, <3>2 DEF Owned
    <3> QED
      BY <3>1, <3>2
  <2>3. Registered(req[u].id)' = Registered(req[u].id)
    BY <1>3, <2>1 DEF Registered
  <2>4. req[u].pc # "idle" => req[u].id \in Id
    BY <2>1, KindOfPoint
  <2>5. req[u].pc \in {"enter", "build"} => client'[req[u].id].pc # "new"
    BY <1>6, <1>9, <2>1, <2>4 DEF OwnedOK
  <2>6. req[u].pc = "store" /\ client'[req[u].id].pc \in Trusted => client[req[u].id].pc \in Trusted
    BY <1>2, <1>6, <1>9, <2>4
  <2> QED
    BY <1>2, <1>3, <2>1, <2>2, <2>3, <2>4, <2>5, <2>6 DEF OwnedOK, IsUnderWay
<1>13. IdsAreUnique'
  <2>1. \A u \in Thread : u # t /\ req[u].pc \in {"enter", "build"} /\ req[u].id = c => from # "new"
    BY <1>2, DriverFacts DEF OwnedOK
  <2> QED
    BY <1>0, <1>3, <1>4, <1>9, <2>1 DEF IdsAreUnique
<1>14. ASSUME NEW d \in Id
       PROVE  AccountOK(d)'
  <2>0. AccountOK(d)
    BY DriverFacts
  <2>1. Part(req[t], d) = 0 /\ Part(req'[t], d) = 0
    BY <1>1, <1>3, <1>4, NobodysThread DEF Part, IsUnderWay
  <2>2. OnItsWay(d)' = OnItsWay(d)
    BY <1>0, <1>3, <1>5, <2>1, OnItsWayChanges
  <2>3. client'[d].money = client[d].money
        /\ (client'[d].pc \in Trusted => client[d].pc \in Trusted)
    BY <1>2, <1>6, <1>9
  <2> QED
    BY <1>2, <1>3, <2>0, <2>2, <2>3 DEF AccountOK
<1> QED
  BY <1>3, <1>7, <1>10, <1>11, <1>12, <1>13, <1>14 DEF DriverIInv

\* The thread that a waiting client waits for.
LEMMA WaitsFor ==
    ASSUME DriverIInv, NEW c \in Id, client[c].pc \in {"registering", "asking", "reporting"}
    PROVE  /\ client[c].at \in Thread /\ client[c].at \notin orphans
           /\ req[client[c].at].id = c
           /\ client[c].pc = "registering" => req[client[c].at].kind = "register"
           /\ client[c].pc = "asking" => req[client[c].at].kind = "plan"
           /\ client[c].pc = "reporting" => req[client[c].at].kind \in {"intercept", "arrest"}
           /\ IsUnderWay(req[client[c].at]) => client[c].pc = "asking"
<1>1. ClientOK(c) /\ DriverTyped
  BY DriverFacts
<1>2. client[c].at # Free /\ client[c].at \in Thread \cup {Free}
  BY <1>1 DEF ClientOK, DriverTyped, Client
<1>3. OwnedOK(client[c].at)
  BY <1>2, DriverFacts
<1> QED
  BY <1>1, <1>2, <1>3 DEF ClientOK, OwnedOK

\* Client c goes on without its answer, which comes too late.
LEMMA GiveUpStep ==
    ASSUME DriverIInv, NEW c \in Id, GiveUp(c)
    PROVE  DriverIInv'
<1> DEFINE v == [client[c] EXCEPT !.pc = "idle", !.at = Free]
<1>g. /\ client[c].pc \in {"registering", "asking"} /\ client' = [client EXCEPT ![c] = v]
      /\ UNCHANGED serverVars /\ UNCHANGED <<dropped, reported>>
      /\ orphans' = orphans \cup {client[c].at}
  <2>1. client \in [Id -> Client] /\ client[c] \in Client
    BY DriverFacts DEF DriverTyped
  <2>2. client' = [client EXCEPT ![c].pc = "idle", ![c].at = Free]
    BY DEF GiveUp
  <2>3. client' = [client EXCEPT ![c] = v]
    BY <2>1, <2>2
  <2> QED
    BY <2>3 DEF GiveUp
<1>v. v \in Client /\ v.pc = "idle" /\ v.at = Free /\ v.money = client[c].money
  <2>1. client[c] \in Client
    BY DriverFacts DEF DriverTyped
  <2> QED
    BY <2>1 DEF Client, Trusted
<1> HIDE DEF v
<1>w. /\ client[c].at \in Thread /\ req[client[c].at].kind \in {"register", "plan"}
      /\ client[c].pc \in Trusted
  BY <1>g, WaitsFor DEF Trusted
<1>0. /\ AgentIInv /\ ServerTyped /\ DriverTyped /\ IdsAreUnique /\ ClientOK(c)
      /\ Free \notin Thread
  BY DriverFacts
<1>1. /\ users' = users /\ locks' = locks /\ regLock' = regLock /\ illegal' = illegal
      /\ req' = req /\ arrived' = arrived
  BY <1>g DEF serverVars
<1>2. AgentIInv'
  BY <1>0, <1>1 DEF AgentIInv, ServerTyped, ThreadOK, HoldsItsLocks, RegisterOK, PlanOK,
     InterceptOK, LoopOK, Informed, ListsFit
<1>3. client' \in [Id -> Client] /\ client'[c] = v /\ \A d \in Id : d # c => client'[d] = client[d]
  BY <1>0, <1>g, <1>v DEF DriverTyped
<1>4. DriverTyped'
  BY <1>0, <1>3, <1>g, <1>w DEF DriverTyped
<1>5. ASSUME NEW d \in Id
      PROVE  ClientOK(d)'
  <2>0. ClientOK(d)
    BY DriverFacts
  <2>1. Registered(d)' = Registered(d)
    BY <1>1 DEF Registered
  <2>2. CASE d = c
    BY <1>1, <1>3, <1>g, <1>v, <2>0, <2>1, <2>2 DEF ClientOK
  <2>3. CASE d # c
    <3>1. client[d].at # Free => client[d].at # client[c].at
      <4>1. client[d].at # Free => req[client[d].at].id = d
        BY <2>0 DEF ClientOK
      <4>2. req[client[c].at].id = c
        BY <1>0, <1>w DEF ClientOK
      <4> QED
        BY <2>3, <4>1, <4>2
    <3>2. client[d].at # Free => client[d].at \notin orphans'
      BY <1>g, <2>0, <3>1 DEF ClientOK
    <3> QED
      BY <1>1, <1>3, <1>g, <2>0, <2>1, <2>3, <3>2 DEF ClientOK
  <2> QED
    BY <2>2, <2>3
<1>6. ASSUME NEW u \in Thread
      PROVE  OwnedOK(u)'
  <2>1. OwnedOK(u) /\ ThreadOK(u) /\ req[u] \in Request
    BY DriverFacts
  <2>2. req[u].id \in Id /\ Owned(u) => Owned(u)'
    <3>1. CASE u \in orphans'
      BY <3>1 DEF Owned
    <3>2. CASE u \notin orphans' /\ req[u].id = c
      BY <1>1, <1>3, <1>g, <3>2 DEF Owned
    <3>3. CASE u \notin orphans' /\ req[u].id # c
      BY <1>1, <1>3, <1>g, <3>3 DEF Owned
    <3> QED
      BY <3>1, <3>2, <3>3
  <2>3. u \in orphans' => req[u].kind \in {"register", "plan"}
    BY <1>g, <1>w, <2>1 DEF OwnedOK
  <2>4. Registered(req[u].id)' = Registered(req[u].id)
    BY <1>1 DEF Registered
  <2>5. req[u].pc # "idle" => req[u].id \in Id
    BY <2>1, KindOfPoint
  <2>6. req[u].pc \in {"enter", "build"} => client'[req[u].id].pc # "new"
    BY <1>3, <1>v, <2>1, <2>5 DEF OwnedOK
  <2>7. req[u].pc = "store" /\ client'[req[u].id].pc \in Trusted => client[req[u].id].pc \in Trusted
    BY <1>3, <1>w, <2>5
  <2> QED
    BY <1>1, <1>g, <2>1, <2>2, <2>3, <2>4, <2>5, <2>6, <2>7 DEF OwnedOK, IsUnderWay
<1>7. IdsAreUnique'
  BY <1>0, <1>1 DEF IdsAreUnique
<1>8. ASSUME NEW d \in Id
      PROVE  AccountOK(d)'
  <2>0. AccountOK(d)
    BY DriverFacts
  <2>1. OnItsWay(d)' = OnItsWay(d)
    BY <1>1 DEF OnItsWay
  <2>2. client'[d].money = client[d].money
        /\ (client'[d].pc \in Trusted => client[d].pc \in Trusted)
    BY <1>3, <1>v, <1>w
  <2> QED
    BY <1>1, <1>g, <2>0, <2>1, <2>2 DEF AccountOK
<1> QED
  BY <1>2, <1>4, <1>5, <1>6, <1>7, <1>8 DEF DriverIInv
\* A client reads its answer and is free of the thread: what was under way in the
\* answer is now in the client's account or counted as lost.
LEMMA AnswerRead ==
    ASSUME DriverIInv, NEW c \in Id, NEW t \in Thread, t = client[c].at,
           client[c].pc \in {"registering", "asking", "reporting"}, req[t].pc = "replied",
           NEW v \in Client, client' = [client EXCEPT ![c] = v],
           v.pc \in {"idle", "intercepted", "arrested", "done"}, v.at = Free,
           v.pc \in Trusted => client[c].pc \in Trusted,
           req' = [req EXCEPT ![t] = NoRequest],
           UNCHANGED <<users, locks, regLock, illegal, arrived, orphans, reported>>,
           dropped' \in [Id -> Nat], \A d \in Id : d # c => dropped'[d] = dropped[d],
           v.money + dropped'[c] = client[c].money + dropped[c] + Part(req[t], c)
    PROVE  DriverIInv'
<1>0. /\ AgentIInv /\ ServerTyped /\ DriverTyped /\ IdsAreUnique /\ ClientOK(c)
      /\ Free \notin Thread /\ client \in [Id -> Client] /\ client[c] \in Client
  BY DriverFacts DEF DriverTyped
<1>2. t \notin orphans /\ req[t].id = c
  BY WaitsFor
<1>3. AgentIInv' /\ req'[t] = NoRequest /\ \A u \in Thread \ {t} : req'[u] = req[u]
  BY <1>0, <1>2, FreedStep
<1>4. OwnedOK(t) /\ req[t] \in Request /\ ServerTyped'
  BY <1>3, DriverFacts DEF AgentIInv
<1>5. /\ v.money \in Nat /\ dropped'[c] \in Nat /\ client[c].money \in Nat /\ dropped[c] \in Nat
      /\ Part(req[t], c) \in Nat
      /\ Registered(c) = {} => Part(req[t], c) = 0
  <2>1. Registered(c) = {} => ~IsUnderWay(req[t])
    BY <1>2, <1>4 DEF OwnedOK
  <2> QED
    BY <1>0, <1>4, <2>1, PartNat DEF Client, DriverTyped, Part
<1>9. client' \in [Id -> Client] /\ client'[c] = v /\ \A d \in Id : d # c => client'[d] = client[d]
  BY <1>0
<1>10. DriverTyped'
  BY <1>0, <1>9 DEF DriverTyped
<1>11. ASSUME NEW d \in Id
       PROVE  ClientOK(d)'
  <2>0. ClientOK(d)
    BY DriverFacts
  <2>1. Registered(d)' = Registered(d)
    BY DEF Registered
  <2>2. CASE d = c
    <3>1. Registered(c) = {} => v.money = 0 /\ dropped'[c] = 0
      BY <1>5, <2>0, <2>2 DEF ClientOK
    <3> QED
      BY <1>9, <2>0, <2>1, <2>2, <3>1 DEF ClientOK
  <2>3. CASE d # c
    <3>1. client[d].at # Free => client[d].at \in Thread /\ req[client[d].at].id = d
      BY <1>0, <2>0 DEF ClientOK, DriverTyped, Client
    <3>2. client[d].at # Free => client[d].at \in Thread \ {t}
      BY <1>2, <2>3, <3>1
    <3> QED
      BY <1>3, <1>9, <2>0, <2>1, <2>3, <3>2 DEF ClientOK
  <2> QED
    BY <2>2, <2>3
<1>12. OwnedOK(t)'
  BY <1>2, <1>3, NoRequestFacts DEF OwnedOK, IsUnderWay
<1>13. ASSUME NEW u \in Thread, u # t
       PROVE  OwnedOK(u)'
  <2>1. OwnedOK(u) /\ ThreadOK(u) /\ req[u] \in Request /\ req'[u] = req[u]
    BY <1>3, <1>13, DriverFacts
  <2>2. req[u].id \in Id /\ Owned(u) => Owned(u)'
    BY <1>9, <1>13, <2>1 DEF Owned
  <2>3. Registered(req[u].id)' = Registered(req[u].id)
    BY <2>1 DEF Registered
  <2>4. req[u].pc # "idle" => req[u].id \in Id
    BY <2>1, KindOfPoint
  <2>5. req[u].pc \in {"enter", "build"} => client'[req[u].id].pc # "new"
    BY <1>9, <2>1, <2>4 DEF OwnedOK
  <2>6. req[u].pc = "store" /\ client'[req[u].id].pc \in Trusted => client[req[u].id].pc \in Trusted
    BY <1>9, <2>4 DEF Trusted
  <2> QED
    BY <1>3, <2>1, <2>2, <2>3, <2>4, <2>5, <2>6 DEF OwnedOK, IsUnderWay
<1>14. IdsAreUnique'
  BY <1>0, <1>3, NoRequestFacts DEF IdsAreUnique
<1>15. ASSUME NEW d \in Id
       PROVE  AccountOK(d)'
  <2>0. AccountOK(d)
    BY DriverFacts
  <2>1. /\ OnItsWay(d)' = OnItsWay(d) - Part(req[t], d) + Part(req'[t], d)
        /\ OnItsWay(d) \in Nat
    BY <1>0, <1>2, <1>3, <1>4, OnItsWayChanges
  <2>2. Part(req'[t], d) = 0
    BY <1>3, NoRequestFacts DEF Part, IsUnderWay
  <2>3. CASE d # c
    <3>1. Part(req[t], d) = 0
      BY <1>2, <2>3 DEF Part
    <3>2. OnItsWay(d)' = OnItsWay(d)
      BY <2>1, <2>2, <3>1
    <3> QED
      BY <1>9, <2>0, <2>3, <3>2 DEF AccountOK
  <2>4. CASE d = c
    <3>1. v.money + dropped'[c] + OnItsWay(c)' = client[c].money + dropped[c] + OnItsWay(c)
      BY <1>5, <2>1, <2>2, <2>4
    <3> QED
      BY <1>9, <2>0, <2>4, <3>1 DEF AccountOK
  <2> QED
    BY <2>3, <2>4
<1> QED
  BY <1>3, <1>10, <1>11, <1>12, <1>13, <1>14, <1>15 DEF DriverIInv

\* A registration is answered, or a report of an interception or arrest.
LEMMA SettleStep ==
    ASSUME DriverIInv, NEW c \in Id, Registering(c) \/ Reported(c)
    PROVE  DriverIInv'
<1>0. client \in [Id -> Client] /\ client[c] \in Client /\ dropped \in [Id -> Nat]
  BY DriverFacts DEF DriverTyped
<1>1. client[c].money \in Nat /\ dropped[c] \in Nat
  BY <1>0 DEF Client
<1>t. PICK t \in Thread : t = client[c].at
  BY WaitsFor DEF Registering, Reported
<1>2. /\ client[c].pc \in {"registering", "reporting"} /\ req[t].pc = "replied"
      /\ req' = [req EXCEPT ![t] = NoRequest]
      /\ UNCHANGED <<users, locks, regLock, illegal, arrived, orphans, dropped, reported>>
  BY <1>t DEF Registering, Reported, Replied
<1>3. Part(req[t], c) = 0
  BY <1>2, <1>t, WaitsFor DEF Part
<1>4. PICK pc \in {"idle", "arrested", "done"} :
        /\ client' = [client EXCEPT ![c].pc = pc, ![c].at = Free]
        /\ pc = "idle" => client[c].pc = "registering"
  BY DEF Registering, Reported
<1> DEFINE v == [client[c] EXCEPT !.pc = pc, !.at = Free, !.money = client[c].money]
<1>5. client' = [client EXCEPT ![c] = v]
  BY <1>0, <1>4 DEF Client
<1>6. v \in Client /\ v.pc = pc /\ v.at = Free /\ v.money = client[c].money
  <2> DEFINE u == client[c]
             w == client[c].money
  <2>1. u \in Client /\ w \in Nat /\ pc \in {"idle", "intercepted", "arrested", "done"}
    BY <1>0, <1>1
  <2>2. v = [u EXCEPT !.pc = pc, !.at = Free, !.money = w]
    OBVIOUS
  <2> HIDE DEF u, v, w
  <2>3. v \in Client /\ v.pc = pc /\ v.at = Free /\ v.money = w
    BY <2>1, <2>2 DEF Client, Trusted
  <2> QED
    BY <2>3 DEF w
<1> HIDE DEF v
<1>7. v.money + dropped'[c] = client[c].money + dropped[c] + Part(req[t], c)
  BY <1>1, <1>2, <1>3, <1>6
<1>8. v.pc \in Trusted => client[c].pc \in Trusted
  BY <1>4, <1>6 DEF Trusted
<1>9. dropped' \in [Id -> Nat] /\ \A d \in Id : d # c => dropped'[d] = dropped[d]
  BY <1>0, <1>2
<1> QED
  BY <1>2, <1>t, <1>5, <1>6, <1>7, <1>8, <1>9, AnswerRead

\* The batch of an answer that its client reads moves to the client's account.
LEMMA PayStep ==
    ASSUME DriverIInv, NEW c \in Id, Pay(c)
    PROVE  DriverIInv'
<1>0. client \in [Id -> Client] /\ client[c] \in Client /\ dropped \in [Id -> Nat]
  BY DriverFacts DEF DriverTyped
<1>1. client[c].money \in Nat /\ dropped[c] \in Nat
  BY <1>0 DEF Client
<1>t. PICK t \in Thread : t = client[c].at
  BY WaitsFor DEF Pay
<1> DEFINE n == Sent(req[t].batch)
           money == client[c].money + n
<1>2. /\ client[c].pc = "asking" /\ req[t].pc = "replied" /\ req[t].result = "batch"
      /\ req' = [req EXCEPT ![t] = NoRequest]
      /\ UNCHANGED <<users, locks, regLock, illegal, arrived, orphans, dropped, reported>>
  BY <1>t DEF Pay, Replied
<1>3. Part(req[t], c) = n /\ n \in Nat
  <2>1. req[t] \in Request /\ req[t].id = c
    BY <1>2, <1>t, WaitsFor, DriverFacts
  <2> QED
    BY <1>2, <2>1, SentNat DEF Part, IsUnderWay, Charged, Request
<1>4. PICK pc \in {"intercepted", "arrested", "done", "idle"} :
        client' = [client EXCEPT ![c].pc = pc, ![c].at = Free, ![c].money = money]
  BY <1>t DEF Pay
<1> HIDE DEF n
<1> DEFINE v == [client[c] EXCEPT !.pc = pc, !.at = Free, !.money = money]
<1>5. client' = [client EXCEPT ![c] = v]
  BY <1>0, <1>4 DEF Client
<1>6. money \in Nat
  BY <1>1, <1>3
<1> HIDE DEF money
<1>7. v \in Client /\ v.pc = pc /\ v.at = Free /\ v.money = money
  <2> DEFINE u == client[c]
             w == money
  <2>1. u \in Client /\ w \in Nat /\ pc \in {"idle", "intercepted", "arrested", "done"}
    BY <1>0, <1>6
  <2>2. v = [u EXCEPT !.pc = pc, !.at = Free, !.money = w]
    OBVIOUS
  <2> HIDE DEF u, v, w
  <2>3. v \in Client /\ v.pc = pc /\ v.at = Free /\ v.money = w
    BY <2>1, <2>2 DEF Client, Trusted
  <2> QED
    BY <2>3 DEF w
<1> HIDE DEF v
<1>8. v.money + dropped'[c] = client[c].money + dropped[c] + Part(req[t], c)
  BY <1>1, <1>2, <1>3, <1>7 DEF money
<1>9. client[c].pc \in Trusted
  BY <1>2 DEF Trusted
<1>10. dropped' \in [Id -> Nat] /\ \A d \in Id : d # c => dropped'[d] = dropped[d]
  BY <1>0, <1>2
<1> QED
  BY <1>2, <1>t, <1>5, <1>7, <1>8, <1>9, <1>10, AnswerRead

\* An answer without payment; if a list was charged for it, that is counted.
LEMMA NoPaymentStep ==
    ASSUME DriverIInv, NEW c \in Id, NoPayment(c)
    PROVE  DriverIInv'
<1>0. client \in [Id -> Client] /\ client[c] \in Client /\ dropped \in [Id -> Nat]
  BY DriverFacts DEF DriverTyped
<1>1. client[c].money \in Nat /\ dropped[c] \in Nat
  BY <1>0 DEF Client
<1>t. PICK t \in Thread : t = client[c].at
  BY WaitsFor DEF NoPayment
<1> DEFINE n == Part(req[t], c)
<1>2. /\ client[c].pc = "asking" /\ req[t].pc = "replied"
      /\ req' = [req EXCEPT ![t] = NoRequest]
      /\ UNCHANGED <<users, locks, regLock, illegal, arrived, orphans, reported>>
  BY <1>t DEF NoPayment, Replied, Lose
<1>3. req[t] \in Request /\ req[t].id = c
  BY <1>2, <1>t, WaitsFor, DriverFacts
<1>4. n \in Nat
  BY <1>3, PartNat
<1>5. dropped' = [dropped EXCEPT ![c] = dropped[c] + n]
  <2>1. dropped' = [dropped EXCEPT ![c] = IF req[t].result \in Charged
                                            THEN @ + Sent(req[t].batch) ELSE @]
    BY <1>3, <1>t DEF NoPayment, Lose
  <2>2. CASE req[t].result \in Charged
    BY <1>2, <1>3, <2>1, <2>2 DEF Part, IsUnderWay
  <2>3. CASE req[t].result \notin Charged
    <3>1. n = 0
      BY <1>2, <2>3 DEF Part, IsUnderWay
    <3>2. dropped[c] + n = dropped[c]
      BY <1>1, <3>1
    <3> QED
      BY <2>1, <2>3, <3>2
  <2> QED
    BY <2>2, <2>3
<1> HIDE DEF n
<1>6. dropped' \in [Id -> Nat] /\ dropped'[c] = dropped[c] + n
      /\ \A d \in Id : d # c => dropped'[d] = dropped[d]
  <2>1. dropped[c] + n \in Nat
    BY <1>1, <1>4
  <2> QED
    BY <1>0, <1>5, <2>1
<1>7. PICK pc \in {"done", "idle"} : client' = [client EXCEPT ![c].pc = pc, ![c].at = Free]
  BY DEF NoPayment
<1> DEFINE v == [client[c] EXCEPT !.pc = pc, !.at = Free, !.money = client[c].money]
<1>8. client' = [client EXCEPT ![c] = v]
  BY <1>0, <1>7 DEF Client
<1>9. v \in Client /\ v.pc = pc /\ v.at = Free /\ v.money = client[c].money
  <2> DEFINE u == client[c]
             w == client[c].money
  <2>1. u \in Client /\ w \in Nat /\ pc \in {"idle", "intercepted", "arrested", "done"}
    BY <1>0, <1>1
  <2>2. v = [u EXCEPT !.pc = pc, !.at = Free, !.money = w]
    OBVIOUS
  <2> HIDE DEF u, v, w
  <2>3. v \in Client /\ v.pc = pc /\ v.at = Free /\ v.money = w
    BY <2>1, <2>2 DEF Client, Trusted
  <2> QED
    BY <2>3 DEF w
<1> HIDE DEF v
<1>10. v.money + dropped'[c] = client[c].money + dropped[c] + n
  BY <1>1, <1>4, <1>6, <1>9
<1>11. client[c].pc \in Trusted
  BY <1>2 DEF Trusted
<1> QED
  BY <1>2, <1>t, <1>6, <1>8, <1>9, <1>10, <1>11, AnswerRead DEF n

\* The batch of an answer that nobody reads is lost, and counted as such.
LEMMA DropStep ==
    ASSUME DriverIInv, NEW t \in Thread, Drop(t)
    PROVE  DriverIInv'
<1> DEFINE n == IF req[t].result \in Charged THEN Sent(req[t].batch) ELSE 0
           c == req[t].id
<1>0. /\ AgentIInv /\ ServerTyped /\ DriverTyped /\ IdsAreUnique /\ OwnedOK(t) /\ ThreadOK(t)
      /\ Free \notin Thread /\ req[t] \in Request /\ dropped \in [Id -> Nat]
  BY DriverFacts DEF DriverTyped
<1>1. /\ t \in orphans /\ req[t].pc = "replied" /\ orphans' = orphans \ {t}
      /\ req' = [req EXCEPT ![t] = NoRequest]
      /\ UNCHANGED <<users, locks, regLock, illegal, arrived>>
      /\ UNCHANGED <<client, reported, timeouts>>
  BY DEF Drop, Lose
<1>2. AgentIInv' /\ req'[t] = NoRequest /\ \A u \in Thread \ {t} : req'[u] = req[u]
  BY <1>0, <1>1, FreedStep
<1>3. c \in Id /\ ServerTyped' /\ req[t].kind \in {"register", "plan"}
  BY <1>0, <1>1, <1>2 DEF OwnedOK, ThreadOK, AgentIInv
<1>4. n \in Nat /\ dropped[c] \in Nat /\ dropped[c] + n \in Nat
  <2>1. n \in Nat
    BY <1>0, SentNat DEF Request
  <2> HIDE DEF n
  <2> QED
    BY <1>0, <1>3, <2>1
<1>5. dropped' \in [Id -> Nat] /\ dropped'[c] = dropped[c] + n
      /\ \A d \in Id : d # c => dropped'[d] = dropped[d]
  <2>1. dropped' = [dropped EXCEPT ![c] = IF req[t].result \in Charged
                                            THEN @ + Sent(req[t].batch) ELSE @]
    BY DEF Drop, Lose
  <2>2. dropped' = [dropped EXCEPT ![c] = dropped[c] + n]
    <3>1. CASE req[t].result \in Charged
      BY <2>1, <3>1
    <3>2. CASE req[t].result \notin Charged
      <4>1. n = 0
        BY <3>2
      <4>2. dropped[c] + n = dropped[c]
        BY <1>4, <4>1
      <4> QED
        BY <2>1, <3>2, <4>2
    <3> QED
      BY <3>1, <3>2
  <2> HIDE DEF n, c
  <2> QED
    BY <1>0, <1>3, <1>4, <2>2
<1>6. \A d : Part(req[t], d) = IF d = c THEN n ELSE 0
  BY <1>1 DEF Part, IsUnderWay
<1>7. Registered(c) = {} => n = 0
  BY <1>0, <1>1 DEF OwnedOK, IsUnderWay
<1> HIDE DEF n
<1>8. DriverTyped'
  BY <1>0, <1>1, <1>5 DEF DriverTyped
<1>9. ASSUME NEW d \in Id
      PROVE  ClientOK(d)'
  <2>0. ClientOK(d)
    BY DriverFacts
  <2>1. Registered(d)' = Registered(d)
    BY <1>1 DEF Registered
  <2>2. client[d].at # Free => client[d].at \in Thread \ {t}
    BY <1>0, <1>1, <2>0 DEF ClientOK, DriverTyped, Client
  <2>3. Registered(d) = {} => dropped'[d] = 0
    BY <1>4, <1>5, <1>7, <2>0 DEF ClientOK
  <2> QED
    BY <1>1, <1>2, <2>0, <2>1, <2>2, <2>3 DEF ClientOK
<1>10. OwnedOK(t)'
  BY <1>1, <1>2, NoRequestFacts DEF OwnedOK, IsUnderWay
<1>11. ASSUME NEW u \in Thread, u # t
       PROVE  OwnedOK(u)'
  <2>1. OwnedOK(u) /\ req'[u] = req[u]
    BY <1>2, <1>11, DriverFacts
  <2>2. Owned(u) => Owned(u)'
    BY <1>1, <1>11, <2>1 DEF Owned
  <2>3. Registered(req[u].id)' = Registered(req[u].id)
    BY <1>1, <2>1 DEF Registered
  <2> QED
    BY <1>1, <2>1, <2>2, <2>3 DEF OwnedOK, IsUnderWay
<1>12. IdsAreUnique'
  BY <1>0, <1>1, <1>2, NoRequestFacts DEF IdsAreUnique
<1>13. ASSUME NEW d \in Id
       PROVE  AccountOK(d)'
  <2>0. AccountOK(d)
    BY DriverFacts
  <2>1. /\ OnItsWay(d)' = OnItsWay(d) - Part(req[t], d) + Part(req'[t], d)
        /\ OnItsWay(d) \in Nat
    BY <1>0, <1>2, <1>3, OnItsWayChanges
  <2>2. Part(req'[t], d) = 0
    BY <1>2, NoRequestFacts DEF Part, IsUnderWay
  <2>3. dropped[d] \in Nat /\ client[d].money \in Nat
    BY <1>0 DEF DriverTyped, Client
  <2>4. client[d].money + dropped'[d] + OnItsWay(d)' = client[d].money + dropped[d] + OnItsWay(d)
    BY <1>4, <1>5, <1>6, <2>1, <2>2, <2>3
  <2> QED
    BY <1>1, <2>0, <2>4 DEF AccountOK
<1> QED
  BY <1>2, <1>8, <1>9, <1>10, <1>11, <1>12, <1>13 DEF DriverIInv

\* A failure report arrives; from then on its id's account is not vouched for.
LEMMA ReportFailureStep ==
    ASSUME DriverIInv, NEW t \in Thread, NEW c \in Id, NEW p \in Reports, ReportFailure(t, c, p)
    PROVE  DriverIInv'
<1>0. /\ AgentIInv /\ ServerTyped /\ DriverTyped /\ IdsAreUnique /\ Free \notin Thread
  BY DriverFacts
<1>1. /\ t \notin orphans /\ \A d \in Id : client[d].at # t
      /\ ArriveReport(t, c, p) /\ reported' = reported \cup {c}
      /\ UNCHANGED <<client, orphans, dropped, timeouts>>
  BY DEF ReportFailure, FreeThreads
<1>2. /\ AgentIInv' /\ req[t].pc \in {"idle", "replied"}
      /\ UNCHANGED <<users, locks, regLock, illegal>>
      /\ \A u \in Thread \ {t} : req'[u] = req[u]
      /\ req'[t].kind = "report" /\ req'[t].id = c /\ req'[t].pc = "report"
  BY <1>0, <1>1, ArriveReportStep
<1>3. ServerTyped' /\ DriverTyped'
  BY <1>0, <1>1, <1>2 DEF AgentIInv, DriverTyped
<1>4. ASSUME NEW d \in Id
      PROVE  ClientOK(d)' /\ AccountOK(d)'
  <2>0. ClientOK(d) /\ AccountOK(d)
    BY DriverFacts
  <2>1. Registered(d)' = Registered(d)
    BY <1>2 DEF Registered
  <2>2. client[d].at # Free => client[d].at \in Thread \ {t}
    BY <1>0, <1>1 DEF DriverTyped, Client
  <2>3. Part(req[t], d) = 0 /\ Part(req'[t], d) = 0
    BY <1>1, <1>2, NobodysThread DEF Part, IsUnderWay
  <2>4. OnItsWay(d)' = OnItsWay(d)
    BY <1>0, <1>2, <1>3, <2>3, OnItsWayChanges
  <2>5. ClientOK(d)'
    BY <1>1, <1>2, <2>0, <2>1, <2>2 DEF ClientOK
  <2> QED
    BY <1>1, <1>2, <2>0, <2>4, <2>5 DEF AccountOK
<1>5. OwnedOK(t)'
  BY <1>1, <1>2 DEF OwnedOK, IsUnderWay
<1>6. ASSUME NEW u \in Thread, u # t
      PROVE  OwnedOK(u)'
  <2>1. OwnedOK(u) /\ req'[u] = req[u]
    BY <1>2, <1>6, DriverFacts
  <2>2. Owned(u) <=> Owned(u)'
    BY <1>1, <2>1 DEF Owned
  <2>3. Registered(req[u].id)' = Registered(req[u].id)
    BY <1>2, <2>1 DEF Registered
  <2> QED
    BY <1>1, <1>2, <2>1, <2>2, <2>3 DEF OwnedOK, IsUnderWay
<1>7. IdsAreUnique'
  BY <1>0, <1>2 DEF IdsAreUnique
<1> QED
  BY <1>2, <1>3, <1>4, <1>5, <1>6, <1>7 DEF DriverIInv
-----------------------------------------------------------------------------
(* The whole system.                                                       *)

\* The invariant holds when the server starts.
LEMMA InitDriver ==
    ASSUME DriverInit
    PROVE  DriverIInv
<1>1. /\ users = <<>> /\ locks = <<>> /\ regLock = Free /\ illegal = 0 /\ arrived = 0
      /\ req = [t \in Thread |-> NoRequest]
      /\ client = [c \in Id |-> [pc |-> "new", at |-> Free, money |-> 0]]
      /\ orphans = {} /\ dropped = [c \in Id |-> 0] /\ reported = {}
  BY DEF DriverInit, ServerInit
<1>2. \A t \in Thread : req[t] = NoRequest
  BY <1>1
<1>3. ServerTyped
  <2>1. users \in Seq(UserRecord) /\ locks \in Seq(Thread \cup {Free}) /\ Len(users) = 0
    BY <1>1, EmptySeq
  <2>2. req \in [Thread -> Request]
    BY <1>1, NoRequestFacts
  <2>3. arrived \in 0 .. MaxRequests
    BY <1>1, AgentAssumption
  <2> QED
    BY <1>1, <2>1, <2>2, <2>3 DEF ServerTyped
<1>4. Len(users) = 0 /\ Len(locks) = 0 /\ DOMAIN users = {}
  BY <1>1, EmptySeq
<1>5. \A t \in Thread : ThreadOK(t)
  <2> TAKE t \in Thread
  <2>1. req[t].pc = "idle" /\ req[t].kind = "none" /\ t # Free
    BY <1>2, NoRequestFacts, AgentAssumption
  <2>2. HoldsItsLocks(t)
    BY <1>1, <1>4, <2>1 DEF HoldsItsLocks, InsideUserLock
  <2> QED
    BY <2>1, <2>2 DEF ThreadOK, Path
<1>6. ListsFit
  BY <1>4 DEF ListsFit
<1>7. DriverTyped
  BY <1>1 DEF DriverTyped, Client, Trusted
<1>8. \A c \in Id : ClientOK(c)
  <2> TAKE c \in Id
  <2>1. Registered(c) = {}
    BY <1>4 DEF Registered
  <2>2. client[c].pc = "new" /\ client[c].at = Free /\ client[c].money = 0 /\ dropped[c] = 0
    BY <1>1
  <2> QED
    BY <2>1, <2>2 DEF ClientOK
<1>9. \A t \in Thread : OwnedOK(t)
  BY <1>1, <1>2, NoRequestFacts DEF OwnedOK, IsUnderWay
<1>10. IdsAreUnique
  BY <1>2, <1>4, NoRequestFacts DEF IdsAreUnique
<1>11. \A c \in Id : AccountOK(c)
  BY <1>4 DEF AccountOK
<1> QED
  BY <1>3, <1>5, <1>6, <1>7, <1>8, <1>9, <1>10, <1>11 DEF DriverIInv, AgentIInv

\* Every step keeps the invariant.
LEMMA NextDriver ==
    ASSUME DriverIInv, DriverNext
    PROVE  DriverIInv'
<1>1. CASE \E t \in Thread : (ThreadStep(t) /\ UNCHANGED driverVars) \/ Drop(t)
  BY <1>1, DriverThreadStep, DropStep
<1>2. ASSUME NEW c \in Id, ClientStep(c) \/ GiveUp(c)
      PROVE  DriverIInv'
  <2>1. CASE Register(c)
    <3>1. Post(c, "new", "register", "registering")
      BY <2>1 DEF Register
    <3> QED
      BY <3>1, PostStep
  <2>2. CASE Ask(c)
    <3>1. Post(c, "idle", "plan", "asking")
      BY <2>2 DEF Ask
    <3> QED
      BY <3>1, PostStep
  <2>3. CASE ReportInterception(c)
    <3>1. Post(c, "intercepted", "intercept", "reporting")
      BY <2>3 DEF ReportInterception
    <3> QED
      BY <3>1, PostStep
  <2>4. CASE ReportArrest(c)
    <3>1. Post(c, "arrested", "arrest", "reporting")
      BY <2>4 DEF ReportArrest
    <3> QED
      BY <3>1, PostStep
  <2>5. CASE GiveUp(c)
    BY <2>5, GiveUpStep
  <2>6. CASE Registering(c) \/ Reported(c)
    BY <2>6, SettleStep
  <2>7. CASE Pay(c)
    BY <2>7, PayStep
  <2>8. CASE NoPayment(c)
    BY <2>8, NoPaymentStep
  <2> QED
    BY <1>2, <2>1, <2>2, <2>3, <2>4, <2>5, <2>6, <2>7, <2>8 DEF ClientStep
<1>3. CASE \E t \in Thread, c \in Id, r \in Reports : ReportFailure(t, c, r)
  BY <1>3, ReportFailureStep
<1> QED
  BY <1>1, <1>2, <1>3 DEF DriverNext

\* A stuttering step keeps the invariant.
LEMMA StutterDriver ==
    ASSUME DriverIInv, UNCHANGED vars
    PROVE  DriverIInv'
<1>1. /\ users' = users /\ locks' = locks /\ regLock' = regLock /\ illegal' = illegal
      /\ req' = req /\ arrived' = arrived /\ client' = client /\ orphans' = orphans
      /\ dropped' = dropped /\ reported' = reported
  BY DEF vars, serverVars, driverVars
<1>2. AgentIInv'
  BY <1>1 DEF DriverIInv, AgentIInv, ServerTyped, ThreadOK, HoldsItsLocks, RegisterOK, PlanOK,
     InterceptOK, LoopOK, Informed, ListsFit
<1>3. DriverTyped' /\ IdsAreUnique'
  BY <1>1 DEF DriverIInv, DriverTyped, IdsAreUnique
<1>4. \A c \in Id : ClientOK(c)' /\ AccountOK(c)'
  BY <1>1 DEF DriverIInv, ClientOK, Registered, AccountOK, OnItsWay
<1>5. \A t \in Thread : OwnedOK(t)'
  BY <1>1 DEF DriverIInv, OwnedOK, Owned, Registered
<1> QED
  BY <1>2, <1>3, <1>4, <1>5 DEF DriverIInv

\* The inductive invariant of the server and its clients holds.
THEOREM DriverInvariant == DriverSpec => []DriverIInv
<1>1. DriverInit => DriverIInv
  BY InitDriver
<1>2. DriverIInv /\ [DriverNext]_vars => DriverIInv'
  BY NextDriver, StutterDriver
<1> QED
  BY <1>1, <1>2, PTL DEF DriverSpec

\* For any number of ids, threads and requests, the lists of users and locks
\* are typed and fit each other, and each lock is held exactly while its holder
\* is inside the with block on that user (main.py:24, :49, :126).
THEOREM LocksGuardUsers == DriverSpec => []AgentInv
<1>1. DriverIInv => AgentInv
  <2> SUFFICES ASSUME DriverIInv PROVE AgentInv
    OBVIOUS
  <2>1. /\ ServerTyped /\ ListsFit /\ DOMAIN users = 1 .. Len(users)
        /\ DOMAIN locks = 1 .. Len(locks)
        /\ \A i \in 1 .. Len(users) : users[i] \in UserRecord
        /\ \A i \in 1 .. Len(locks) : locks[i] \in Thread \cup {Free}
    BY DriverFacts, ServerFacts DEF AgentIInv
  <2>2. AgentTypeOK
    BY <2>1, ZenonT(60) DEF AgentTypeOK, ServerTyped, ListsFit, UserRecord
  <2>3. \A t \in Thread : HoldsItsLocks(t)
    BY DriverFacts DEF ThreadOK
  <2>4. LocksAreHeldInside
    <3>1. ASSUME NEW t \in Thread
          PROVE  /\ regLock = t <=> req[t].pc \in {"build", "appendLock"}
                 /\ \A i \in DOMAIN locks :
                      locks[i] = t <=> (req[t].pc \in InsideUserLock /\ req[t].i = i)
                 /\ req[t].pc \in InsideUserLock \cup {"lock"} => req[t].i \in DOMAIN locks
      BY <2>1, <2>3, ZenonT(60) DEF HoldsItsLocks
    <3>2. regLock = Free => Len(locks) = Len(users)
      BY <2>1 DEF ListsFit
    <3> QED
      BY <3>1, <3>2, Zenon DEF LocksAreHeldInside
  <2> QED
    BY <2>2, <2>4 DEF AgentInv
<1> QED
  BY <1>1, DriverInvariant, PTL

\* When /intercepted answers "complete", every other user that was registered
\* when its loop began has learnt of that interception (main.py:112), however
\* many interceptions run at once.
THEOREM EveryoneIsTold == DriverSpec => []InterceptionsReachEveryone
<1>1. DriverIInv => InterceptionsReachEveryone
  <2> SUFFICES ASSUME DriverIInv, NEW t \in Thread, req[t].kind = "intercept",
                      req[t].pc = "replied", req[t].result = "ok",
                      NEW i \in 1 .. req[t].last, users[i].id # req[t].id
               PROVE  users[i].experience >= req[t].seen
    BY DEF InterceptionsReachEveryone
  <2>1. ThreadOK(t) /\ Len(users) \in Nat /\ req[t] \in Request
    BY DriverFacts
  <2>2. req[t].last <= Len(users) /\ Informed(t, req[t].last + 1) /\ req[t].last \in Nat
    BY <2>1 DEF ThreadOK, InterceptOK, Request
  <2>3. i \in 1 .. Len(users) /\ i < req[t].last + 1
    BY <2>1, <2>2
  <2> QED
    BY <2>2, <2>3 DEF Informed
<1> QED
  BY <1>1, DriverInvariant, PTL

\* No step of the system adds a batch to a stage that is not short of its task
\* (User.py:183 to :279), whatever the other threads do in between.
THEOREM StagesAreNotOverrun == DriverSpec => StageIsNotOverrun
<1> DEFINE A == \A i \in DOMAIN users :
              users'[i].stage_money > users[i].stage_money /\ users[i].rank < RuleFrom
                  => users[i].stage_money < users[i].stage_total
<1>1. DriverIInv /\ [DriverNext]_vars => [A]_serverVars
  <2> SUFFICES ASSUME DriverIInv, [DriverNext]_vars
               PROVE  A \/ UNCHANGED serverVars
    OBVIOUS
  <2>1. AgentIInv
    BY DriverFacts
  <2>2. CASE users' = users
    <3>1. \A i \in DOMAIN users : users[i].stage_money \in Nat
      BY DriverFacts DEF UserRecord
    <3>2. \A i \in DOMAIN users : ~(users'[i].stage_money > users[i].stage_money)
      BY <2>2, <3>1
    <3> QED
      BY <3>2
  <2>3. CASE \E t \in Thread : ThreadStep(t)
    BY <2>1, <2>3, ThreadStepExtendsShortStages
  <2>4. users' = users \/ \E t \in Thread : ThreadStep(t)
    BY ZenonT(60) DEF DriverNext, ClientStep, GiveUp, Drop, ReportFailure, Register, Ask,
       ReportInterception, ReportArrest, Post, Arrive, ArriveReport, Registering, NoPayment,
       Pay, Reported, Lose, vars, serverVars
  <2> QED
    BY <2>2, <2>3, <2>4
<1> QED
  BY <1>1, DriverInvariant, PTL DEF DriverSpec, StageIsNotOverrun, A

\* The server's money_transferred of a client that was not caught and for which
\* no failure was reported is what the client paid, plus what is on its way, plus
\* what was charged in answers that nobody read or that said "-1" for a list
\* (User.py:278, :298), under timeouts and retries that run beside the threads
\* they replace, whatever lists the model answers with.
THEOREM EveryPaymentIsAccounted == DriverSpec => []PaymentsAreAccounted
<1>1. DriverIInv => PaymentsAreAccounted
  <2> SUFFICES ASSUME DriverIInv, NEW c \in Id \ reported, NEW i \in DOMAIN users,
                      users[i].id = c, client[c].pc \in {"idle", "asking", "intercepted"}
               PROVE  users[i].money = client[c].money + dropped[c] + OnItsWay(c)
    BY DEF PaymentsAreAccounted
  <2>1. AccountOK(c) /\ i \in 1 .. Len(users)
    BY DriverFacts
  <2> QED
    BY <2>1 DEF AccountOK, Trusted
<1> QED
  BY <1>1, DriverInvariant, PTL
=============================================================================
