--------------------------- MODULE DetectionPipeline ---------------------------
(***************************************************************************)
(* The detection simulation of Effection/Code: a main thread that runs one *)
(* step per minute and, at audit minutes, sends users through three layers *)
(* (isolation forest, auditor model, committee vote).  The committee layer *)
(* runs on thread pools: users are voted on concurrently, and the members' *)
(* votes on one user are collected as they complete.                       *)
(*                                                                         *)
(* What a language model or the forest answers is a free choice.  The fields *)
(* `user' and `time' of a vote and of a decision are history: the program  *)
(* keeps two lists of Booleans and relates them by position only.          *)
(***************************************************************************)
EXTENDS Integers, Sequences, FiniteSets, FiniteSetsExt

CONSTANTS
    NormalUser, AttackUser,
    Whitelist,               \* normal users marked by the initializer
    Candidate, IllegalCandidate,
    CommitteeSize,           \* 10: select_committee's default
    Threshold,               \* 5: a ban needs more votes than this
    NormalWorkers,           \* 3: users of the first pool voted on at once
    AttackWorkers,           \* 5: users of the second pool voted on at once
    AuditEvery,              \* 10 minutes
    ElectEvery,              \* 30 minutes
    MaxTime,                 \* 4320 minutes
    Scale                    \* the unit of rep: rep = Scale is 1.0; fine enough that
                             \* halving a rep at every election rounds none to 0,
                             \* as no float is by the 144 elections of a run

ASSUME DetectionAssumption ==
    /\ \A S \in {NormalUser, AttackUser, Candidate} : IsFiniteSet(S)
    /\ Whitelist \subseteq NormalUser
    /\ NormalUser \cap AttackUser = {}
    /\ IllegalCandidate \subseteq Candidate
    /\ CommitteeSize \in 1 .. Cardinality(Candidate)
    /\ {AuditEvery, ElectEvery, Scale, NormalWorkers, AttackWorkers} \subseteq Nat \ {0}
    /\ {Threshold, MaxTime} \subseteq Nat
    /\ 2 ^ ((MaxTime + ElectEvery - 1) \div ElectEvery) <= Scale

VARIABLES
    time,                    \* Simulator.current_time
    phase,                   \* where run_simulation_step is
    alive,                   \* attack users with is_alive
    marked,                  \* normal users with is_marked
    large,                   \* attack users with more than 8000 ETH left to move
    flagged,                 \* first_banned_users of this audit
    referred,                \* banned_users of this audit
    docket,                  \* referred users whose vote has not started
    pending,                 \* [User -> members whose vote on it is outstanding]
    count,                   \* [User -> votes to ban it so far]
    ruling,                  \* decision, answer and committee_decisions of the third layer
    decision,                \* Simulator.decision and .answer
    vote,                    \* [Candidate -> Candidate.vote]
    committee,
    rep,                     \* [Candidate -> Candidate.rep], in units of 1/Scale
    weight,                  \* [Candidate -> Candidate.weight, a fraction]
    stats                    \* StatisticsCollector

auditVars == <<flagged, referred, docket, pending, count, ruling>>
memberVars == <<vote, committee, rep, weight>>
vars == <<time, phase, alive, marked, large, auditVars, decision, memberVars, stats>>

User == NormalUser \cup AttackUser
Phase == {"users", "audit", "detect", "normals", "attackers", "settle", "elect", "stopped"}
Ballot == [user : User, time : 0 .. MaxTime, ban : BOOLEAN]
Counter == {"if_attackers", "if_total", "auditor_attackers", "auditor_total",
            "committee_attackers", "committee_total", "banned_attackers", "marked_normal"}

\* The users that the pool of the current phase works on, and its size.
Pool == IF phase = "normals" THEN NormalUser ELSE AttackUser
Workers == IF phase = "normals" THEN NormalWorkers ELSE AttackWorkers

\* Users taken by a worker whose result the main thread has not collected.
Open == {u \in (referred \cap Pool) \ docket : \A i \in DOMAIN ruling : ruling[i].user # u}
Busy == {u \in Open : pending[u] # {}}

NewWeight == [num |-> 1000, den |-> 1]

DetectionInit ==
    /\ time = 0
    /\ phase = IF AttackUser = {} \/ MaxTime = 0 THEN "stopped" ELSE "users"
    /\ alive = AttackUser
    /\ marked = Whitelist
    /\ large = AttackUser
    /\ flagged = {}
    /\ referred = {}
    /\ docket = {}
    /\ pending = [u \in User |-> {}]
    /\ count = [u \in User |-> 0]
    /\ ruling = <<>>
    /\ decision = <<>>
    /\ vote = [c \in Candidate |-> <<>>]
    /\ committee \in {S \in SUBSET Candidate : Cardinality(S) = CommitteeSize}
    /\ rep = [c \in Candidate |-> Scale]
    /\ weight = [c \in Candidate |-> NewWeight]
    /\ stats = [k \in Counter |-> 0]

-----------------------------------------------------------------------------
(* The minute's first half: every living user decides and ticks.  Here     *)
(* only the effect a voter looks at is kept: an attack user's remaining    *)
(* task can fall below 8000.                                               *)

ProcessUsers ==
    /\ phase = "users"
    /\ \E spent \in SUBSET (large \cap alive) : large' = large \ spent
    /\ phase' = IF time % AuditEvery = 0 /\ time # 0 THEN "audit" ELSE "elect"
    /\ UNCHANGED <<time, alive, marked, auditVars, decision, memberVars, stats>>

\* batch_audit: the users whose score is negative, none if the audit fails.
BatchAudit == SUBSET (NormalUser \cup alive)

FirstLayerAudit ==
    /\ phase = "audit"
    /\ flagged' \in BatchAudit
    /\ phase' = "detect"
    /\ UNCHANGED <<time, alive, marked, large, referred, docket, pending, count, ruling,
                   decision, memberVars, stats>>

\* The auditor is made at the first audit, without a forest when fewer than
\* five users have features.  Its batch_audit then returns a list of Booleans,
\* whose missing field type ends the program (detection_layers.py:52).
UntrainedAudit ==
    /\ phase = "audit"
    /\ time = AuditEvery
    /\ phase' = "stopped"
    /\ UNCHANGED <<time, alive, marked, large, auditVars, decision, memberVars, stats>>

\* Mutant of ToDetect: whitelisted users are detected again.
ToDetectAll == flagged \cap (NormalUser \cup alive)

ToDetect == {u \in flagged : u \in (NormalUser \cup alive) /\ u \notin marked}

\* What a model call can come to after its retries: a verdict, text that is
\* not the JSON asked for, or an exception.
Response == {"ban", "pass", "junk", "failed"}

\* detect, and the except of _detect_user: neither junk nor a failure bans.
Detect(r) == r = "ban"

SecondLayerDetect ==
    /\ phase = "detect"
    /\ \E banned \in {{u \in ToDetect : Detect(r[u])} : r \in [ToDetect -> Response]} :
        /\ referred' = banned
        /\ docket' = banned
    /\ phase' = "normals"
    /\ UNCHANGED <<time, alive, marked, large, flagged, pending, count, ruling,
                   decision, memberVars, stats>>

-----------------------------------------------------------------------------
(* The third layer.  A pool worker takes a user from the docket and submits *)
(* one vote per member; the votes are collected in the order they complete, *)
(* which as_completed leaves open; the main thread collects finished users  *)
(* in the order they complete.                                              *)

PoolIsFree == Cardinality(Busy) < Workers

StartVote(u) ==
    /\ phase \in {"normals", "attackers"}
    /\ u \in docket \cap Pool
    /\ PoolIsFree
    /\ docket' = docket \ {u}
    /\ pending' = [pending EXCEPT ![u] = committee]
    /\ UNCHANGED <<time, phase, alive, marked, large, flagged, referred, count, ruling,
                   decision, memberVars, stats>>

\* User.type: no class of users has the type "Legit" that Vote asks for.
UserType(u) == IF u \in NormalUser THEN "NormalUser" ELSE "LLM_Based_User"
IsTeammate(u) == UserType(u) # "Legit"

\* get_legit_vote passes a user that its model gave no verdict on,
\* get_corrupt_vote bans it; both take a missing vote_ban as a pass.
LegitVote(r) == r = "ban"
CorruptVote(u, r) == ~IsTeammate(u) \/ u \in large \/ r # "pass"

\* What Vote can return.  (All of a normal user's task, 1000, is below 8000.)
PossibleVotes(c, u) ==
    {IF c \in IllegalCandidate THEN CorruptVote(u, r) ELSE LegitVote(r) : r \in Response}

\* Mutant of CastVote: a vote is appended once per collected result of the user.
CastVoteTwice(u, c, v) ==
    /\ c \in pending[u]
    /\ v \in PossibleVotes(c, u)
    /\ pending' = [pending EXCEPT ![u] = @ \ {c}]
    /\ count' = [count EXCEPT ![u] = IF v THEN @ + 1 ELSE @]
    /\ vote' = [m \in Candidate |->
                 IF m \in committee \ pending'[u]
                   THEN Append(vote[m], [user |-> u, time |-> time, ban |-> v]) ELSE vote[m]]
    /\ UNCHANGED <<time, phase, alive, marked, large, flagged, referred, docket, ruling,
                   decision, committee, rep, weight, stats>>

CastVote(u, c, v) ==
    /\ c \in pending[u]
    /\ v \in PossibleVotes(c, u)
    /\ pending' = [pending EXCEPT ![u] = @ \ {c}]
    /\ count' = [count EXCEPT ![u] = IF v THEN @ + 1 ELSE @]
    /\ vote' = [vote EXCEPT ![c] = Append(@, [user |-> u, time |-> time, ban |-> v])]
    /\ UNCHANGED <<time, phase, alive, marked, large, flagged, referred, docket, ruling,
                   decision, committee, rep, weight, stats>>

\* The main thread takes the user's result: a normal user voted out is
\* whitelisted, an attack user is banned.
CloseVote(u) ==
    /\ phase \in {"normals", "attackers"}
    /\ u \in Open \ Busy
    /\ LET ban == count[u] > Threshold
       IN  /\ ruling' = Append(ruling, [user |-> u, time |-> time, ban |-> ban])
           /\ marked' = IF ban /\ u \in NormalUser THEN marked \cup {u} ELSE marked
           /\ alive' = IF ban THEN alive \ {u} ELSE alive
    /\ UNCHANGED <<time, phase, large, flagged, referred, docket, pending, count,
                   decision, memberVars, stats>>

\* The pool's with block ends when every future of it has been collected.
PoolDone ==
    /\ phase \in {"normals", "attackers"}
    /\ Pool \cap docket = {}
    /\ Open = {}
    /\ phase' = IF phase = "normals" THEN "attackers" ELSE "settle"
    /\ UNCHANGED <<time, alive, marked, large, auditVars, decision, memberVars, stats>>

-----------------------------------------------------------------------------

Ruled(S) == {u \in S : \E i \in DOMAIN ruling : ruling[i].user = u /\ ruling[i].ban}

\* update_cumulative_stats, then the totals kept by run_simulation_step.
AddedStats ==
    [k \in Counter |-> stats[k] +
        CASE k = "if_attackers" -> Cardinality(flagged \cap AttackUser)
          [] k = "if_total" -> Cardinality(flagged)
          [] k = "auditor_attackers" -> Cardinality(referred \cap AttackUser)
          [] k = "auditor_total" -> Cardinality(referred)
          [] k \in {"committee_attackers", "banned_attackers"} -> Cardinality(Ruled(AttackUser))
          [] k = "committee_total" -> Cardinality(Ruled(User))
          [] k = "marked_normal" -> Cardinality(Ruled(NormalUser))]

\* The sanctions are written a second time here, without effect, and the
\* living attack users drop their plans (module UserPlan).
Settle ==
    /\ phase = "settle"
    /\ stats' = AddedStats
    /\ decision' = decision \o ruling
    /\ marked' = marked \cup Ruled(NormalUser)
    /\ alive' = alive \ Ruled(AttackUser)
    /\ phase' = "elect"
    /\ UNCHANGED <<time, large, auditVars, memberVars>>

-----------------------------------------------------------------------------
(* update_committees and the end of the minute.                            *)

\* Mutant of ForgetAudit: the vote counts outlive the audit.
ForgetAuditButCounts ==
    /\ flagged' = {}
    /\ referred' = {}
    /\ docket' = {}
    /\ pending' = [u \in User |-> {}]
    /\ count' = count
    /\ ruling' = <<>>

\* The locals of run_simulation_step are gone when it returns.
ForgetAudit ==
    /\ flagged' = {}
    /\ referred' = {}
    /\ docket' = {}
    /\ pending' = [u \in User |-> {}]
    /\ count' = [u \in User |-> 0]
    /\ ruling' = <<>>

\* should_continue, and the bound of run's loop.
PhaseAfter(t) == IF t < MaxTime /\ alive # {} THEN "users" ELSE "stopped"

Agreements(c, verdicts) == Cardinality({i \in DOMAIN verdicts : verdicts[i] = vote[c][i].ban})

\* update_rep: positions are compared, from the start of the member's list.
UpdatedRep(c) ==
    LET count_c == Agreements(c, [i \in DOMAIN decision |-> decision[i].ban])
        count_a == Agreements(c, [i \in DOMAIN decision |-> decision[i].user \in AttackUser])
    IN  rep[c] \div 2 + (Scale * (count_c + 2 * count_a)) \div (4 * Len(decision))

\* Mutant of UpdatedWeight: the spread alone is the divisor.
UpdatedWeightNoBase(r, lo, hi) == [num |-> 1000 * (hi - lo + r), den |-> hi - lo]

\* 1000 + (rep - 1) * 1000 / (hi - lo + 1), with everything in units of 1/Scale.
UpdatedWeight(r, lo, hi) == [num |-> 1000 * (hi - lo + r), den |-> hi - lo + Scale]

\* Any set of the right size can come out of the weighted draw without
\* replacement, as long as its members have a positive weight.
MayBeDrawn(S, w) == Cardinality(S) = CommitteeSize /\ \A c \in S : w[c].num > 0

UpdateCommittees ==
    /\ phase = "elect"
    /\ time % ElectEvery = 0
    /\ IF decision = <<>>
         THEN UNCHANGED <<rep, weight, decision>>
         ELSE /\ rep' = [c \in Candidate |-> IF c \in committee THEN UpdatedRep(c) ELSE rep[c]]
              /\ LET reps == {rep'[c] : c \in committee}
                 IN  weight' = [c \in Candidate |->
                        IF c \in committee THEN UpdatedWeight(rep'[c], Min(reps), Max(reps))
                                           ELSE weight[c]]
              /\ decision' = <<>>
    /\ committee' \in {S \in SUBSET Candidate : MayBeDrawn(S, weight')}
    /\ time' = time + 1
    /\ phase' = PhaseAfter(time + 1)
    /\ ForgetAudit
    /\ UNCHANGED <<alive, marked, large, vote, stats>>

NextMinute ==
    /\ phase = "elect"
    /\ time % ElectEvery # 0
    /\ time' = time + 1
    /\ phase' = PhaseAfter(time + 1)
    /\ ForgetAudit
    /\ UNCHANGED <<alive, marked, large, decision, memberVars, stats>>

\* run's loop is left, by its condition or an exception, and the program ends.
\* Any other state without a step is a deadlock: a pool that waits for a worker
\* or a vote for ever.
Stopped ==
    /\ phase = "stopped"
    /\ UNCHANGED vars

DetectionNext ==
    \/ ProcessUsers
    \/ FirstLayerAudit
    \/ UntrainedAudit
    \/ SecondLayerDetect
    \/ \E u \in User : StartVote(u) \/ CloseVote(u)
    \/ \E u \in User, c \in Candidate, v \in BOOLEAN : CastVote(u, c, v)
    \/ PoolDone
    \/ Settle
    \/ UpdateCommittees
    \/ NextMinute
    \/ Stopped

DetectionSpec == DetectionInit /\ [][DetectionNext]_vars

-----------------------------------------------------------------------------

\* The fields have their types, and a committee its seats.
DetectionTypeOK ==
    /\ time \in 0 .. MaxTime
    /\ phase \in Phase
    /\ alive \subseteq AttackUser
    /\ large \subseteq AttackUser
    /\ Whitelist \subseteq marked /\ marked \subseteq NormalUser
    /\ docket \subseteq referred /\ referred \subseteq User
    /\ flagged \subseteq User
    /\ pending \in [User -> SUBSET Candidate]
    /\ count \in [User -> 0 .. CommitteeSize]
    /\ \A s \in {ruling, decision} \cup {vote[c] : c \in Candidate} :
        \A i \in DOMAIN s : s[i] \in Ballot
    /\ committee \subseteq Candidate /\ Cardinality(committee) = CommitteeSize
    /\ rep \in [Candidate -> 0 .. 2 * Scale]
    /\ stats \in [Counter -> Nat]

(* update_rep reads self.vote[i] for every decision of the term            *)
(* (models/committee.py:26-29).  A member that is sitting when the term    *)
(* ends has voted on every case decided in that term, exactly once, so the *)
(* read never runs off its list, however the pools interleaved.            *)
EveryMemberVotedOnEveryCase ==
    phase = "elect" =>
        \A c \in committee, i \in DOMAIN decision :
            Cardinality({j \in DOMAIN vote[c] :
                vote[c][j].user = decision[i].user /\ vote[c][j].time = decision[i].time}) = 1

(* The totals that simulator.py:111 and :116 report are the users' states: *)
(* every banned attack user is counted once, and every normal user marked  *)
(* after the start is counted once, over any number of audits.             *)
SanctionTotalsAreTrue ==
    phase \in {"users", "elect", "stopped"} =>
        /\ stats["banned_attackers"] = Cardinality(AttackUser \ alive)
        /\ stats["marked_normal"] = Cardinality(marked \ Whitelist)
        /\ stats["committee_attackers"] = stats["banned_attackers"]
        /\ stats["committee_total"] = stats["banned_attackers"] + stats["marked_normal"]

(* The vote on a user is decided by the members' own votes of this audit:  *)
(* count[u] > 5 (detection_layers.py:205 and :234) agrees with what the    *)
(* members' lists say, whatever was appended to them in between.           *)
RulingsFollowTheVotes ==
    \A k \in DOMAIN ruling :
        LET u == ruling[k].user
            banners == {c \in committee : \E j \in DOMAIN vote[c] :
                vote[c][j] = [user |-> u, time |-> ruling[k].time, ban |-> TRUE]}
        IN  phase \in {"normals", "attackers", "settle"} =>
                ruling[k].ban = (Cardinality(banners) > Threshold)

(* select_committee draws with random.choices, which needs a positive      *)
(* weight: no run of bad terms takes a candidate's weight to zero, and     *)
(* none lifts it past weight_upper_bound = 2000 (models/committee.py:14,   *)
(* :36).                                                                   *)
WeightsStayDrawable ==
    \A c \in Candidate : 0 < weight[c].num /\ weight[c].num <= 2000 * weight[c].den

(* The simulation's state is sound: every field typed, a ban counted by at *)
(* most the seats there are, and every candidate drawable after any run of *)
(* terms.                                                                  *)
DetectionInv == DetectionTypeOK /\ WeightsStayDrawable
=============================================================================
