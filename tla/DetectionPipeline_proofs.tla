------------------------ MODULE DetectionPipeline_proofs ------------------------
(***************************************************************************)
(* For any users, candidates, committee size, pool sizes and schedule: the *)
(* votes, rulings, sanctions and totals of the detection simulation agree, *)
(* however the workers of the third layer interleave, and no run of terms  *)
(* takes a candidate out of the draw.                                      *)
(***************************************************************************)
EXTENDS DetectionPipeline, DataInduction

-----------------------------------------------------------------------------
(* The inductive invariant.                                                *)

\* The storage, with its lists as sequences.
Stored ==
    /\ time \in 0 .. MaxTime /\ phase \in Phase /\ (phase # "stopped" => time < MaxTime)
    /\ alive \subseteq AttackUser /\ large \subseteq AttackUser
    /\ Whitelist \subseteq marked /\ marked \subseteq NormalUser
    /\ docket \subseteq referred /\ referred \subseteq User /\ flagged \subseteq User
    /\ pending \in [User -> SUBSET Candidate] /\ count \in [User -> Nat]
    /\ ruling \in Seq(Ballot) /\ decision \in Seq(Ballot) /\ vote \in [Candidate -> Seq(Ballot)]
    /\ committee \subseteq Candidate /\ Cardinality(committee) = CommitteeSize
    /\ stats \in [Counter -> Nat]

\* Elections held before minute t: those of minutes 0, ElectEvery, ...
Terms(t) == (t + ElectEvery - 1) \div ElectEvery

\* A rep is halved at most once per term, and every weight can be drawn.
Reputed ==
    /\ rep \in [Candidate -> 0 .. 2 * Scale]
    /\ \A c \in Candidate : rep[c] >= Scale \div 2 ^ Terms(time)
    /\ weight \in [Candidate -> [num : Nat, den : Nat]]
    /\ WeightsStayDrawable

\* Where c's votes on u of minute t are in its list.
Votes(c, u, t) == {j \in DOMAIN vote[c] : vote[c][j].user = u /\ vote[c][j].time = t}

\* The vote of c on u of this audit has been collected.
Collected(c, u) == c \in committee /\ u \in referred \ docket /\ c \notin pending[u]

\* A vote is in the list once when it has been collected, and not before.
VotesAreCollected ==
    /\ \A c \in Candidate, u \in User :
          IF Collected(c, u) THEN \E j : Votes(c, u, time) = {j} ELSE Votes(c, u, time) = {}
    /\ \A c \in Candidate : \A j \in DOMAIN vote[c] : vote[c][j].time <= time
    /\ \A u \in User : /\ pending[u] \subseteq committee
                       /\ pending[u] # {} => u \in referred \ docket

\* The members whose list has a vote of this audit to ban u.
Banners(u) ==
    {c \in committee : \E j \in DOMAIN vote[c] :
        vote[c][j] = [user |-> u, time |-> time, ban |-> TRUE]}

\* The running counts are the members' votes.
CountsAreVotes == \A u \in User : count[u] = Cardinality(Banners(u))

\* A user is ruled on once, after all votes on it.
RulingsAreFinal ==
    /\ \A k \in DOMAIN ruling :
          /\ ruling[k].user \in referred \ docket /\ pending[ruling[k].user] = {}
          /\ ruling[k].time = time
          /\ ruling[k].ban = (count[ruling[k].user] > Threshold)
    /\ \A k, l \in DOMAIN ruling : ruling[k].user = ruling[l].user => k = l

IsRuled(u) == \E k \in DOMAIN ruling : ruling[k].user = u

\* Who is referred but not voted out is still free, who is voted out is not.
SanctionsFollowRulings ==
    /\ \A u \in referred \ Ruled(User) : u \notin marked /\ u \in NormalUser \cup alive
    /\ Ruled(NormalUser) \subseteq marked
    /\ Ruled(AttackUser) \cap alive = {}

\* What is left to do, by phase.
PhasesInOrder ==
    /\ phase \in {"users", "audit", "detect", "stopped"} => referred = {}
    /\ phase = "attackers" => \A u \in referred \cap NormalUser : u \notin docket /\ IsRuled(u)
    /\ phase \in {"settle", "elect"} => \A u \in referred : u \notin docket /\ IsRuled(u)

\* The members have voted once on every case decided in their term.
DecisionsWereVotedOn ==
    \A i \in DOMAIN decision :
        /\ decision[i].user \in User
        /\ decision[i].time < time \/ (decision[i].time = time /\ phase = "elect")
        /\ \A c \in committee : \E j : Votes(c, decision[i].user, decision[i].time) = {j}

\* The rulings that the totals do not have yet.
Unsettled(S) == IF phase \in {"normals", "attackers", "settle"} THEN Ruled(S) ELSE {}

TotalsAreTrue ==
    /\ stats["banned_attackers"] + Cardinality(Unsettled(AttackUser))
          = Cardinality(AttackUser \ alive)
    /\ stats["marked_normal"] + Cardinality(Unsettled(NormalUser))
          = Cardinality(marked \ Whitelist)
    /\ stats["committee_attackers"] = stats["banned_attackers"]
    /\ stats["committee_total"] = stats["banned_attackers"] + stats["marked_normal"]

\* The inductive invariant.
DetectionIInv ==
    /\ Stored
    /\ Reputed
    /\ VotesAreCollected
    /\ CountsAreVotes
    /\ RulingsAreFinal
    /\ SanctionsFollowRulings
    /\ PhasesInOrder
    /\ DecisionsWereVotedOn
    /\ TotalsAreTrue

-----------------------------------------------------------------------------
(* Facts used throughout.                                                  *)

\* What is assumed of the constants, one by one.
LEMMA Constants ==
    /\ IsFiniteSet(NormalUser) /\ IsFiniteSet(AttackUser) /\ IsFiniteSet(Candidate)
    /\ IsFiniteSet(User)
    /\ NormalUser \cap AttackUser = {} /\ Whitelist \subseteq NormalUser
    /\ CommitteeSize \in Nat \ {0} /\ Threshold \in Nat /\ MaxTime \in Nat
    /\ AuditEvery \in Nat \ {0} /\ ElectEvery \in Nat \ {0} /\ Scale \in Nat \ {0}
<1>1. IsFiniteSet(NormalUser) /\ IsFiniteSet(AttackUser) /\ IsFiniteSet(Candidate)
  BY DetectionAssumption
<1>2. IsFiniteSet(User)
  BY <1>1, FS_Union DEF User
<1>3. Cardinality(Candidate) \in Nat /\ CommitteeSize \in 1 .. Cardinality(Candidate)
  BY <1>1, FS_CardinalityType, DetectionAssumption
<1>4. CommitteeSize \in Nat \ {0}
  BY <1>3
<1> QED
  BY <1>1, <1>2, <1>4, DetectionAssumption

\* What the invariant says of one variable depends on few others.
LEMMA VotesFrame ==
    ASSUME DetectionIInv, vote' = vote, committee' = committee, referred' = referred,
           docket' = docket, pending' = pending, count' = count, time' = time
    PROVE  VotesAreCollected' /\ CountsAreVotes'
BY DEF DetectionIInv, VotesAreCollected, CountsAreVotes, Votes, Collected, Banners

\* The rulings of the audit, as long as their users are not voted on again.
LEMMA RulingFrame ==
    ASSUME DetectionIInv, ruling' = ruling, referred' = referred, docket' = docket,
           pending' = pending, count' = count, time' = time
    PROVE  RulingsAreFinal'
BY DEF DetectionIInv, RulingsAreFinal

\* Reputations and weights between two elections.
LEMMA ReputeFrame ==
    ASSUME DetectionIInv, rep' = rep, weight' = weight, time' = time
    PROVE  Reputed'
BY DEF DetectionIInv, Reputed, WeightsStayDrawable, Terms

\* The term's decisions, while no vote is cast: only the minute of the last
\* ones may depend on the phase.
LEMMA DecisionFrame ==
    ASSUME DetectionIInv, decision' = decision, vote' = vote, committee' = committee,
           time' = time, phase = "elect" => phase' = "elect"
    PROVE  DecisionsWereVotedOn'
<1>1. ASSUME NEW i \in DOMAIN decision
      PROVE  /\ decision[i].user \in User
             /\ decision[i].time < time \/ (decision[i].time = time /\ phase' = "elect")
             /\ \A c \in committee : \E j : Votes(c, decision[i].user, decision[i].time) = {j}
  BY DEF DetectionIInv, DecisionsWereVotedOn
<1>2. \A c, u, t : Votes(c, u, t) = {j \in DOMAIN vote'[c] : vote'[c][j].user = u /\ vote'[c][j].time = t}
  BY DEF Votes
<1>3. ASSUME NEW i \in DOMAIN decision', NEW c \in committee'
      PROVE  \E j : Votes(c, decision[i].user, decision[i].time)' = {j}
  <2>1. PICK j : Votes(c, decision[i].user, decision[i].time) = {j}
    BY <1>1, <1>3
  <2>2. Votes(c, decision[i].user, decision[i].time)' = {j}
    BY <1>2, <2>1 DEF Votes
  <2> QED
    BY <2>2
<1> QED
  BY <1>1, <1>3 DEF DecisionsWereVotedOn

\* Before the third layer nobody is referred, voted on or ruled on.
LEMMA NobodyReferred ==
    ASSUME DetectionIInv, referred = {}
    PROVE  /\ docket = {} /\ ruling = <<>>
           /\ \A u \in User : pending[u] = {}
           /\ \A S : Ruled(S) = {}
           /\ \A c \in Candidate, u \in User : Votes(c, u, time) = {}
<1>1. docket = {}
  BY DEF DetectionIInv, Stored
<1>2. ruling = <<>>
  <2>1. DOMAIN ruling = {}
    BY DEF DetectionIInv, RulingsAreFinal
  <2>2. ruling \in Seq(Ballot)
    BY DEF DetectionIInv, Stored
  <2> QED
    BY <2>1, <2>2
<1>3. \A u \in User : pending[u] = {}
  BY DEF DetectionIInv, VotesAreCollected
<1>4. \A S : Ruled(S) = {}
  BY <1>2 DEF Ruled
<1>5. \A c \in Candidate, u \in User : Votes(c, u, time) = {}
  BY DEF DetectionIInv, VotesAreCollected, Collected
<1> QED
  BY <1>1, <1>2, <1>3, <1>4, <1>5

-----------------------------------------------------------------------------
(* The first minute, and the layers before the vote.                       *)

\* Before the first minute.
LEMMA DetectionInitially == DetectionInit => DetectionIInv
<1> SUFFICES ASSUME DetectionInit PROVE DetectionIInv
  OBVIOUS
<1> USE DEF DetectionInit
<1>1. Stored
  BY Constants DEF Stored, Phase
<1>2. Reputed
  <2>1. Terms(time) = 0 /\ 2 ^ 0 = 1
    <3>1. 0 + ElectEvery - 1 \in Nat /\ ElectEvery * 0 <= 0 + ElectEvery - 1
          /\ 0 + ElectEvery - 1 < ElectEvery * (0 + 1)
      BY Constants
    <3>2. (0 + ElectEvery - 1) \div ElectEvery = 0
      BY Constants, <3>1, Quotient
    <3> QED
      BY <3>2, PowerOfTwo DEF Terms
  <2>2. Scale \div 1 = Scale /\ Scale \in 0 .. 2 * Scale /\ Scale >= Scale
    BY Constants
  <2>3. /\ rep \in [Candidate -> 0 .. 2 * Scale]
        /\ \A c \in Candidate : rep[c] >= Scale \div 2 ^ Terms(time)
    BY <2>1, <2>2
  <2>4. /\ weight \in [Candidate -> [num : Nat, den : Nat]]
        /\ \A c \in Candidate : weight[c].num = 1000 /\ weight[c].den = 1
    BY DEF NewWeight
  <2>5. WeightsStayDrawable
    BY <2>4 DEF WeightsStayDrawable
  <2> QED
    BY <2>3, <2>4, <2>5 DEF Reputed
<1>3. \A c \in Candidate : DOMAIN vote[c] = {}
  OBVIOUS
<1>4. VotesAreCollected
  BY <1>3 DEF VotesAreCollected, Votes, Collected
<1>5. CountsAreVotes
  <2>1. \A u \in User : Banners(u) = {}
    BY <1>1, <1>3 DEF Banners, Stored
  <2> QED
    BY <2>1, FS_EmptySet DEF CountsAreVotes
<1>6. RulingsAreFinal /\ SanctionsFollowRulings /\ PhasesInOrder /\ DecisionsWereVotedOn
  BY DEF RulingsAreFinal, SanctionsFollowRulings, PhasesInOrder, DecisionsWereVotedOn, Ruled
<1>7. TotalsAreTrue
  <2>1. Unsettled(AttackUser) = {} /\ Unsettled(NormalUser) = {}
    BY DEF Unsettled
  <2>2. AttackUser \ alive = {} /\ marked \ Whitelist = {}
    OBVIOUS
  <2>3. stats["banned_attackers"] = 0 /\ stats["marked_normal"] = 0
        /\ stats["committee_attackers"] = 0 /\ stats["committee_total"] = 0
    BY DEF Counter
  <2>4. /\ Cardinality(Unsettled(AttackUser)) = 0 /\ Cardinality(Unsettled(NormalUser)) = 0
        /\ Cardinality(AttackUser \ alive) = 0 /\ Cardinality(marked \ Whitelist) = 0
    BY <2>1, <2>2, FS_EmptySet, Zenon
  <2> QED
    BY <2>3, <2>4 DEF TotalsAreTrue
<1> QED
  BY <1>1, <1>2, <1>4, <1>5, <1>6, <1>7 DEF DetectionIInv

\* The users of a minute act.
LEMMA ProcessUsersStep ==
    ASSUME DetectionIInv, ProcessUsers
    PROVE  DetectionIInv'
<1>1. /\ phase = "users" /\ phase' \in {"audit", "elect"} /\ large' \subseteq large
      /\ time' = time /\ alive' = alive /\ marked' = marked /\ decision' = decision
      /\ stats' = stats
  BY DEF ProcessUsers
<1>2. /\ flagged' = flagged /\ referred' = referred /\ docket' = docket
      /\ pending' = pending /\ count' = count /\ ruling' = ruling
      /\ vote' = vote /\ committee' = committee /\ rep' = rep /\ weight' = weight
  BY DEF ProcessUsers, auditVars, memberVars
<1>3. Stored'
  BY <1>1, <1>2 DEF DetectionIInv, Stored, Phase
<1>4. referred = {}
  BY <1>1 DEF DetectionIInv, PhasesInOrder
<1>5. SanctionsFollowRulings' /\ PhasesInOrder'
  BY <1>1, <1>2, <1>4 DEF DetectionIInv, SanctionsFollowRulings, PhasesInOrder, Ruled
<1>6. TotalsAreTrue'
  BY <1>1, <1>2 DEF DetectionIInv, TotalsAreTrue, Unsettled
<1> QED
  BY <1>1, <1>2, <1>3, <1>5, <1>6, VotesFrame, RulingFrame, ReputeFrame, DecisionFrame
     DEF DetectionIInv

\* The isolation forest flags users.
LEMMA FirstLayerStep ==
    ASSUME DetectionIInv, FirstLayerAudit
    PROVE  DetectionIInv'
<1>1. /\ phase = "audit" /\ phase' = "detect" /\ large' = large
      /\ time' = time /\ alive' = alive /\ marked' = marked /\ decision' = decision
      /\ stats' = stats /\ referred' = referred /\ docket' = docket
      /\ pending' = pending /\ count' = count /\ ruling' = ruling
      /\ vote' = vote /\ committee' = committee /\ rep' = rep /\ weight' = weight
  BY DEF FirstLayerAudit, memberVars
<1>2. flagged' \subseteq User
  BY DEF FirstLayerAudit, BatchAudit, User, DetectionIInv, Stored
<1>3. Stored'
  BY <1>1, <1>2 DEF DetectionIInv, Stored, Phase
<1>4. referred = {}
  BY <1>1 DEF DetectionIInv, PhasesInOrder
<1>5. SanctionsFollowRulings' /\ PhasesInOrder'
  BY <1>1, <1>4 DEF DetectionIInv, SanctionsFollowRulings, PhasesInOrder, Ruled
<1>6. TotalsAreTrue'
  BY <1>1 DEF DetectionIInv, TotalsAreTrue, Unsettled
<1> QED
  BY <1>1, <1>3, <1>5, <1>6, VotesFrame, RulingFrame, ReputeFrame, DecisionFrame
     DEF DetectionIInv

\* An auditor without a forest ends the program.
LEMMA UntrainedStep ==
    ASSUME DetectionIInv, UntrainedAudit
    PROVE  DetectionIInv'
<1>1. /\ phase = "audit" /\ phase' = "stopped" /\ large' = large
      /\ time' = time /\ alive' = alive /\ marked' = marked /\ decision' = decision
      /\ stats' = stats
  BY DEF UntrainedAudit
<1>2. /\ flagged' = flagged /\ referred' = referred /\ docket' = docket
      /\ pending' = pending /\ count' = count /\ ruling' = ruling
      /\ vote' = vote /\ committee' = committee /\ rep' = rep /\ weight' = weight
  BY DEF UntrainedAudit, auditVars, memberVars
<1>3. Stored'
  BY <1>1, <1>2 DEF DetectionIInv, Stored, Phase
<1>4. referred = {}
  BY <1>1 DEF DetectionIInv, PhasesInOrder
<1>5. SanctionsFollowRulings' /\ PhasesInOrder'
  BY <1>1, <1>2, <1>4 DEF DetectionIInv, SanctionsFollowRulings, PhasesInOrder, Ruled
<1>6. TotalsAreTrue'
  BY <1>1, <1>2 DEF DetectionIInv, TotalsAreTrue, Unsettled
<1> QED
  BY <1>1, <1>2, <1>3, <1>5, <1>6, VotesFrame, RulingFrame, ReputeFrame, DecisionFrame
     DEF DetectionIInv

\* The auditor model refers users that are neither banned nor whitelisted.
LEMMA SecondLayerStep ==
    ASSUME DetectionIInv, SecondLayerDetect
    PROVE  DetectionIInv'
<1>1. /\ phase = "detect" /\ phase' = "normals" /\ large' = large /\ flagged' = flagged
      /\ time' = time /\ alive' = alive /\ marked' = marked /\ decision' = decision
      /\ stats' = stats /\ pending' = pending /\ count' = count /\ ruling' = ruling
      /\ vote' = vote /\ committee' = committee /\ rep' = rep /\ weight' = weight
  BY DEF SecondLayerDetect, memberVars
<1>2. referred' \subseteq ToDetect /\ docket' = referred'
  BY DEF SecondLayerDetect
<1>3. referred = {}
  BY <1>1 DEF DetectionIInv, PhasesInOrder
<1>4. /\ docket = {} /\ ruling = <<>> /\ \A u \in User : pending[u] = {}
      /\ \A S : Ruled(S) = {}
      /\ \A c \in Candidate, u \in User : Votes(c, u, time) = {}
  BY <1>3, NobodyReferred
<1>5. Stored'
  BY <1>1, <1>2 DEF DetectionIInv, Stored, Phase, ToDetect
<1>6. VotesAreCollected'
  BY <1>1, <1>2, <1>4 DEF DetectionIInv, VotesAreCollected, Votes, Collected
<1>7. CountsAreVotes'
  BY <1>1 DEF DetectionIInv, CountsAreVotes, Banners
<1>8. RulingsAreFinal' /\ PhasesInOrder'
  BY <1>1, <1>4 DEF RulingsAreFinal, PhasesInOrder
<1>9. SanctionsFollowRulings'
  BY <1>1, <1>2, <1>4 DEF SanctionsFollowRulings, Ruled, ToDetect
<1>10. TotalsAreTrue'
  <2>1. Unsettled(AttackUser)' = {} /\ Unsettled(NormalUser)' = {}
    BY <1>1, <1>4 DEF Unsettled, Ruled
  <2>2. Unsettled(AttackUser) = {} /\ Unsettled(NormalUser) = {}
    BY <1>1 DEF Unsettled
  <2> QED
    BY <1>1, <2>1, <2>2 DEF DetectionIInv, TotalsAreTrue
<1> QED
  BY <1>1, <1>5, <1>6, <1>7, <1>8, <1>9, <1>10, ReputeFrame, DecisionFrame
     DEF DetectionIInv

-----------------------------------------------------------------------------
(* The third layer.                                                        *)

\* A worker takes a user: its votes are outstanding, none is collected.
LEMMA StartVoteStep ==
    ASSUME DetectionIInv, NEW u \in User, StartVote(u)
    PROVE  DetectionIInv'
<1>1. /\ phase' = phase /\ large' = large /\ flagged' = flagged
      /\ time' = time /\ alive' = alive /\ marked' = marked /\ decision' = decision
      /\ stats' = stats /\ referred' = referred /\ count' = count /\ ruling' = ruling
      /\ vote' = vote /\ committee' = committee /\ rep' = rep /\ weight' = weight
  BY DEF StartVote, memberVars
<1>2. /\ u \in docket /\ docket' = docket \ {u}
      /\ pending' = [pending EXCEPT ![u] = committee]
  BY DEF StartVote
<1>3. /\ pending \in [User -> SUBSET Candidate] /\ committee \subseteq Candidate
      /\ docket \subseteq referred
  BY DEF DetectionIInv, Stored
<1>4. pending'[u] = committee /\ \A w \in User \ {u} : pending'[w] = pending[w]
  BY <1>2, <1>3
<1>5. Stored'
  BY <1>1, <1>2, <1>3 DEF DetectionIInv, Stored
<1>6. VotesAreCollected'
  <2>1. ASSUME NEW c \in Candidate, NEW w \in User PROVE Collected(c, w)' <=> Collected(c, w)
    BY <1>1, <1>2, <1>4 DEF Collected
  <2>2. \A c, w : Votes(c, w, time)' = Votes(c, w, time)
    BY <1>1 DEF Votes
  <2>3. \A w \in User : /\ pending'[w] \subseteq committee
                        /\ pending'[w] # {} => w \in referred \ docket'
    BY <1>2, <1>3, <1>4 DEF DetectionIInv, VotesAreCollected
  <2>4. \A c \in Candidate, w \in User :
          IF Collected(c, w)' THEN \E j : Votes(c, w, time)' = {j} ELSE Votes(c, w, time)' = {}
    BY <2>1, <2>2 DEF DetectionIInv, VotesAreCollected
  <2> QED
    BY <1>1, <2>3, <2>4 DEF DetectionIInv, VotesAreCollected
<1>7. CountsAreVotes'
  BY <1>1 DEF DetectionIInv, CountsAreVotes, Banners
<1>8. RulingsAreFinal'
  <2>1. \A k \in DOMAIN ruling : ruling[k].user \in User /\ ruling[k].user # u
    BY <1>2 DEF DetectionIInv, RulingsAreFinal, Stored
  <2> QED
    BY <1>1, <1>2, <1>4, <2>1 DEF DetectionIInv, RulingsAreFinal
<1>9. SanctionsFollowRulings' /\ PhasesInOrder'
  BY <1>1, <1>2 DEF DetectionIInv, SanctionsFollowRulings, PhasesInOrder, Ruled, IsRuled
<1>10. TotalsAreTrue'
  BY <1>1 DEF DetectionIInv, TotalsAreTrue, Unsettled, Ruled
<1> QED
  BY <1>1, <1>5, <1>6, <1>7, <1>8, <1>9, <1>10, ReputeFrame, DecisionFrame
     DEF DetectionIInv

\* While a vote is outstanding its user is in a pool and not ruled on, and
\* nothing was decided in this minute.
LEMMA VoteOutstanding ==
    ASSUME DetectionIInv, NEW u \in User, NEW c \in pending[u]
    PROVE  /\ c \in committee /\ u \in referred \ docket /\ ~IsRuled(u)
           /\ phase \in {"normals", "attackers"}
           /\ \A i \in DOMAIN decision : decision[i].time < time
           /\ Votes(c, u, time) = {}
<1>1. c \in committee /\ u \in referred \ docket
  BY DEF DetectionIInv, VotesAreCollected
<1>2. ~IsRuled(u)
  BY DEF DetectionIInv, RulingsAreFinal, IsRuled
<1>3. phase \in {"normals", "attackers"}
  <2>1. phase \in Phase
    BY DEF DetectionIInv, Stored
  <2>2. phase \notin {"users", "audit", "detect", "stopped"}
    BY <1>1 DEF DetectionIInv, PhasesInOrder
  <2>3. phase \notin {"settle", "elect"}
    BY <1>1, <1>2 DEF DetectionIInv, PhasesInOrder
  <2> QED
    BY <2>1, <2>2, <2>3 DEF Phase
<1>4. \A i \in DOMAIN decision : decision[i].time < time
  BY <1>3 DEF DetectionIInv, DecisionsWereVotedOn
<1>5. Votes(c, u, time) = {}
  <2>1. c \in Candidate /\ ~Collected(c, u)
    BY <1>1 DEF DetectionIInv, Stored, Collected
  <2> QED
    BY <2>1 DEF DetectionIInv, VotesAreCollected
<1> QED
  BY <1>1, <1>2, <1>3, <1>4, <1>5

\* What appending the vote of c on u does to the members' lists.
LEMMA VoteAppended ==
    ASSUME DetectionIInv, NEW u \in User, NEW c \in Candidate, NEW v \in BOOLEAN, CastVote(u, c, v)
    PROVE  /\ vote' \in [Candidate -> Seq(Ballot)]
           /\ \A d \in Candidate \ {c} : vote'[d] = vote[d]
           /\ vote'[c] = Append(vote[c], [user |-> u, time |-> time, ban |-> v])
           /\ \A d \in Candidate : \A w, t : (d # c \/ w # u \/ t # time) =>
                 {j \in DOMAIN vote'[d] : vote'[d][j].user = w /\ vote'[d][j].time = t}
                     = Votes(d, w, t)
           /\ {j \in DOMAIN vote'[c] : vote'[c][j].user = u /\ vote'[c][j].time = time}
                     = {Len(vote[c]) + 1}
<1> DEFINE b == [user |-> u, time |-> time, ban |-> v]
           N == Len(vote[c])
<1>1. /\ c \in pending[u] /\ vote' = [vote EXCEPT ![c] = Append(@, b)]
  BY DEF CastVote
<1>2. /\ vote \in [Candidate -> Seq(Ballot)] /\ b \in Ballot
  BY DEF DetectionIInv, Stored, Ballot
<1>3. b.user = u /\ b.time = time
  OBVIOUS
<1> HIDE DEF b
<1>4. /\ vote' \in [Candidate -> Seq(Ballot)]
      /\ \A d \in Candidate \ {c} : vote'[d] = vote[d]
      /\ vote'[c] = Append(vote[c], b)
  BY <1>1, <1>2
<1>5. /\ N \in Nat /\ DOMAIN vote[c] = 1 .. N /\ DOMAIN vote'[c] = 1 .. N + 1
      /\ \A j \in 1 .. N : vote'[c][j] = vote[c][j]
      /\ vote'[c][N + 1] = b
  BY <1>2, <1>4
<1>6. 1 .. N + 1 = (1 .. N) \cup {N + 1} /\ N + 1 \notin 1 .. N
  BY <1>5
<1> HIDE DEF N
<1>7. ASSUME NEW d \in Candidate, NEW w, NEW t, d # c \/ w # u \/ t # time
      PROVE  {j \in DOMAIN vote'[d] : vote'[d][j].user = w /\ vote'[d][j].time = t} = Votes(d, w, t)
  <2>1. CASE d # c
    BY <1>4, <2>1 DEF Votes
  <2>2. CASE d = c
    BY <1>3, <1>5, <1>6, <1>7, <2>2 DEF Votes
  <2> QED
    BY <2>1, <2>2
<1>8. Votes(c, u, time) = {}
  BY <1>1, VoteOutstanding
<1>9. {j \in DOMAIN vote'[c] : vote'[c][j].user = u /\ vote'[c][j].time = time} = {N + 1}
  BY <1>3, <1>5, <1>6, <1>8 DEF Votes
<1> QED
  BY <1>4, <1>7, <1>9 DEF b, N

\* The count of the user follows its banners.
LEMMA CastVoteCounts ==
    ASSUME DetectionIInv, NEW u \in User, NEW c \in Candidate, NEW v \in BOOLEAN, CastVote(u, c, v)
    PROVE  CountsAreVotes'
<1> DEFINE b == [user |-> u, time |-> time, ban |-> v]
           ban(w) == [user |-> w, time |-> time, ban |-> TRUE]
<1>1. /\ c \in pending[u] /\ committee' = committee /\ time' = time
      /\ count' = [count EXCEPT ![u] = IF v THEN @ + 1 ELSE @]
  BY DEF CastVote
<1>2. /\ c \in committee /\ Votes(c, u, time) = {}
  BY <1>1, VoteOutstanding
<1>3. /\ vote \in [Candidate -> Seq(Ballot)] /\ count \in [User -> Nat] /\ committee \subseteq Candidate
      /\ \A d \in Candidate \ {c} : vote'[d] = vote[d]
      /\ vote'[c] = Append(vote[c], b)
  BY VoteAppended DEF DetectionIInv, Stored
<1>4. \A w : ban(w).user = w /\ ban(w).time = time /\ (ban(w) = b <=> w = u /\ v = TRUE)
  OBVIOUS
<1>5. b \in Ballot
  BY DEF DetectionIInv, Stored, Ballot
<1> HIDE DEF b, ban
<1>6. \A w : Banners(w) = {d \in committee : \E j \in DOMAIN vote[d] : vote[d][j] = ban(w)}
  BY DEF Banners, ban
<1>7. \A w : Banners(w)' = {d \in committee : \E j \in DOMAIN vote'[d] : vote'[d][j] = ban(w)}
  BY <1>1 DEF Banners, ban
<1>8. \A x : (\E j \in DOMAIN vote'[c] : vote'[c][j] = x) <=> (\E j \in DOMAIN vote[c] : vote[c][j] = x) \/ x = b
  <2> DEFINE N == Len(vote[c])
  <2>1. /\ N \in Nat /\ DOMAIN vote[c] = 1 .. N /\ DOMAIN vote'[c] = 1 .. N + 1
        /\ \A j \in 1 .. N : vote'[c][j] = vote[c][j]
        /\ vote'[c][N + 1] = b
    BY <1>3, <1>5
  <2>2. 1 .. N + 1 = (1 .. N) \cup {N + 1}
    BY <2>1
  <2> HIDE DEF N
  <2> QED
    BY <2>1, <2>2
<1>9. \A w : Banners(w)' = IF w = u /\ v THEN Banners(w) \cup {c} ELSE Banners(w)
  <2>1. \A w, d : d \in committee \ {c} => (d \in Banners(w)' <=> d \in Banners(w))
    BY <1>3, <1>6, <1>7
  <2>2. \A w : c \in Banners(w)' <=> c \in Banners(w) \/ (w = u /\ v)
    BY <1>2, <1>4, <1>6, <1>7, <1>8
  <2>3. \A w : Banners(w) \subseteq committee /\ Banners(w)' \subseteq committee
    BY <1>6, <1>7
  <2> QED
    BY <1>2, <2>1, <2>2, <2>3
<1>10. c \notin Banners(u)
  BY <1>2, <1>4, <1>6 DEF Votes
<1>11. \A w \in User : IsFiniteSet(Banners(w)) /\ count[w] = Cardinality(Banners(w))
  <2>1. \A w \in User : Banners(w) \in SUBSET Candidate
    BY <1>3, <1>6
  <2> QED
    BY <2>1, Constants, FS_Subset DEF DetectionIInv, CountsAreVotes
<1>12. Cardinality(Banners(u) \cup {c}) = Cardinality(Banners(u)) + 1
  BY <1>10, <1>11, FS_AddElement
<1>13. ASSUME NEW w \in User PROVE count'[w] = Cardinality(Banners(w)')
  <2>1. CASE w = u /\ v
    BY <1>1, <1>3, <1>9, <1>11, <1>12, <2>1
  <2>2. CASE ~(w = u /\ v)
    BY <1>1, <1>3, <1>9, <1>11, <2>2
  <2> QED
    BY <2>1, <2>2
<1> QED
  BY <1>13 DEF CountsAreVotes

\* A member's vote is collected.
LEMMA CastVoteStep ==
    ASSUME DetectionIInv, NEW u \in User, NEW c \in Candidate, NEW v \in BOOLEAN, CastVote(u, c, v)
    PROVE  DetectionIInv'
<1>1. /\ phase' = phase /\ large' = large /\ flagged' = flagged
      /\ time' = time /\ alive' = alive /\ marked' = marked /\ decision' = decision
      /\ stats' = stats /\ referred' = referred /\ docket' = docket /\ ruling' = ruling
      /\ committee' = committee /\ rep' = rep /\ weight' = weight
  BY DEF CastVote
<1>2. /\ c \in pending[u] /\ pending' = [pending EXCEPT ![u] = @ \ {c}]
      /\ count' = [count EXCEPT ![u] = IF v THEN @ + 1 ELSE @]
  BY DEF CastVote
<1>3. /\ pending \in [User -> SUBSET Candidate] /\ count \in [User -> Nat]
      /\ vote \in [Candidate -> Seq(Ballot)]
  BY DEF DetectionIInv, Stored
<1>4. /\ pending'[u] = pending[u] \ {c} /\ \A w \in User \ {u} : pending'[w] = pending[w]
      /\ \A w \in User \ {u} : count'[w] = count[w]
      /\ pending' \in [User -> SUBSET Candidate] /\ count' \in [User -> Nat]
  BY <1>2, <1>3
<1>5. /\ c \in committee /\ u \in referred \ docket /\ ~IsRuled(u)
      /\ \A i \in DOMAIN decision : decision[i].time < time
  BY <1>2, VoteOutstanding
<1>6. /\ vote' \in [Candidate -> Seq(Ballot)]
      /\ \A d \in Candidate \ {c} : vote'[d] = vote[d]
      /\ vote'[c] = Append(vote[c], [user |-> u, time |-> time, ban |-> v])
  BY VoteAppended
<1>7. /\ \A d \in Candidate : \A w, t : (d # c \/ w # u \/ t # time) => Votes(d, w, t)' = Votes(d, w, t)
      /\ Votes(c, u, time)' = {Len(vote[c]) + 1}
  <2>1. \A d \in Candidate : \A w, t : (d # c \/ w # u \/ t # time) =>
            {j \in DOMAIN vote'[d] : vote'[d][j].user = w /\ vote'[d][j].time = t} = Votes(d, w, t)
    BY VoteAppended
  <2>2. {j \in DOMAIN vote'[c] : vote'[c][j].user = u /\ vote'[c][j].time = time} = {Len(vote[c]) + 1}
    BY ZenonT(30), VoteAppended
  <2>3. ASSUME NEW d, NEW w, NEW t
        PROVE  Votes(d, w, t)' = {j \in DOMAIN vote'[d] : vote'[d][j].user = w /\ vote'[d][j].time = t}
    BY DEF Votes
  <2>4. ASSUME NEW d \in Candidate, NEW w, NEW t, d # c \/ w # u \/ t # time
        PROVE  Votes(d, w, t)' = Votes(d, w, t)
    BY <2>1, <2>3, <2>4
  <2>5. Votes(c, u, time)' = {Len(vote[c]) + 1}
    BY <1>1, <2>2 DEF Votes
  <2> QED
    BY <2>4, <2>5
<1>8. Stored'
  BY <1>1, <1>4, <1>6 DEF DetectionIInv, Stored
<1>9. VotesAreCollected'
  <2>1. ASSUME NEW d \in Candidate, NEW w \in User
        PROVE  IF Collected(d, w)' THEN \E j : Votes(d, w, time)' = {j} ELSE Votes(d, w, time)' = {}
    <3>1. CASE d = c /\ w = u
      <4>1. Collected(d, w)'
        BY <1>1, <1>4, <1>5, <3>1 DEF Collected
      <4> QED
        BY <1>7, <3>1, <4>1
    <3>2. CASE d # c \/ w # u
      <4>1. Collected(d, w)' <=> Collected(d, w)
        BY <1>1, <1>4, <3>2 DEF Collected
      <4>2. Votes(d, w, time)' = Votes(d, w, time)
        BY <1>1, <1>7, <3>2
      <4> QED
        BY <4>1, <4>2 DEF DetectionIInv, VotesAreCollected
    <3> QED
      BY <3>1, <3>2
  <2>2. ASSUME NEW d \in Candidate, NEW j \in DOMAIN vote'[d] PROVE vote'[d][j].time <= time
    <3>1. CASE d # c
      BY <1>6, <3>1 DEF DetectionIInv, VotesAreCollected
    <3>2. CASE d = c /\ j \in DOMAIN vote[c]
      <4>1. vote'[c][j] = vote[c][j]
        BY <1>3, <1>6, <3>2
      <4> QED
        BY <3>2, <4>1 DEF DetectionIInv, VotesAreCollected
    <3>3. CASE d = c /\ j \notin DOMAIN vote[c]
      <4>1. j = Len(vote[c]) + 1
        BY <1>3, <1>6, <3>3
      <4>2. vote'[c][j].time = time
        BY <1>3, <1>6, <4>1
      <4>3. time \in Nat
        BY Constants DEF DetectionIInv, Stored
      <4> QED
        BY <3>3, <4>2, <4>3
    <3> QED
      BY <3>1, <3>2, <3>3
  <2>3. \A w \in User : /\ pending'[w] \subseteq committee
                        /\ pending'[w] # {} => w \in referred \ docket
    BY <1>2, <1>4 DEF DetectionIInv, VotesAreCollected
  <2> QED
    BY <1>1, <2>1, <2>2, <2>3 DEF VotesAreCollected
<1>10. RulingsAreFinal'
  <2>1. \A k \in DOMAIN ruling : ruling[k].user \in User /\ ruling[k].user # u
    BY <1>5 DEF DetectionIInv, RulingsAreFinal, Stored, IsRuled
  <2> QED
    BY <1>1, <1>4, <2>1 DEF DetectionIInv, RulingsAreFinal
<1>11. SanctionsFollowRulings' /\ PhasesInOrder'
  BY <1>1 DEF DetectionIInv, SanctionsFollowRulings, PhasesInOrder, Ruled, IsRuled
<1>12. TotalsAreTrue'
  BY <1>1 DEF DetectionIInv, TotalsAreTrue, Unsettled, Ruled
<1>13. DecisionsWereVotedOn'
  <2>1. ASSUME NEW i \in DOMAIN decision, NEW d \in committee
        PROVE  \E j : Votes(d, decision[i].user, decision[i].time)' = {j}
    <3>1. d \in Candidate /\ decision[i].time # time
      BY <1>5 DEF DetectionIInv, Stored
    <3>2. PICK j : Votes(d, decision[i].user, decision[i].time) = {j}
      BY DEF DetectionIInv, DecisionsWereVotedOn
    <3>3. Votes(d, decision[i].user, decision[i].time)' = Votes(d, decision[i].user, decision[i].time)
      BY <1>1, <1>7, <3>1
    <3> QED
      BY <3>2, <3>3
  <2>2. \A i \in DOMAIN decision : decision[i].user \in User /\ decision[i].time < time
    BY <1>5 DEF DetectionIInv, DecisionsWereVotedOn
  <2> QED
    BY <1>1, <2>1, <2>2 DEF DecisionsWereVotedOn
<1> QED
  BY <1>1, <1>8, <1>9, <1>10, <1>11, <1>12, <1>13, CastVoteCounts, ReputeFrame
     DEF DetectionIInv

\* The main thread takes a result: what is ruled afterwards.
LEMMA RulingAppended ==
    ASSUME DetectionIInv, NEW u \in User, CloseVote(u)
    PROVE  /\ phase \in {"normals", "attackers"}
           /\ u \in referred \ docket /\ ~IsRuled(u) /\ pending[u] = {}
           /\ ruling' \in Seq(Ballot)
           /\ DOMAIN ruling' = DOMAIN ruling \cup {Len(ruling) + 1}
           /\ Len(ruling) + 1 \notin DOMAIN ruling
           /\ \A k \in DOMAIN ruling : ruling'[k] = ruling[k]
           /\ ruling'[Len(ruling) + 1] = [user |-> u, time |-> time, ban |-> count[u] > Threshold]
           /\ \A S : Ruled(S)' = IF u \in S /\ count[u] > Threshold THEN Ruled(S) \cup {u} ELSE Ruled(S)
           /\ \A w : IsRuled(w)' <=> IsRuled(w) \/ w = u
<1> DEFINE r == [user |-> u, time |-> time, ban |-> count[u] > Threshold]
           N == Len(ruling)
<1>1. /\ phase \in {"normals", "attackers"} /\ u \in Open \ Busy /\ ruling' = Append(ruling, r)
  BY DEF CloseVote
<1>2. u \in referred \ docket /\ ~IsRuled(u) /\ pending[u] = {}
  BY <1>1 DEF Open, Busy, IsRuled
<1>3. /\ ruling \in Seq(Ballot) /\ r \in Ballot
  BY DEF DetectionIInv, Stored, Ballot
<1>4. r.user = u /\ r.ban = (count[u] > Threshold)
  OBVIOUS
<1> HIDE DEF r
<1>5. /\ N \in Nat /\ DOMAIN ruling = 1 .. N /\ DOMAIN ruling' = 1 .. N + 1
      /\ \A k \in 1 .. N : ruling'[k] = ruling[k]
      /\ ruling'[N + 1] = r /\ ruling' \in Seq(Ballot)
  BY <1>1, <1>3
<1>6. 1 .. N + 1 = (1 .. N) \cup {N + 1} /\ N + 1 \notin 1 .. N
  BY <1>5
<1> HIDE DEF N
<1>7. \A S : Ruled(S)' = IF u \in S /\ count[u] > Threshold THEN Ruled(S) \cup {u} ELSE Ruled(S)
  <2>1. ASSUME NEW S, NEW w \in S
        PROVE  w \in Ruled(S)' <=> w \in Ruled(S) \/ (w = u /\ count[u] > Threshold)
    <3>1. w \in Ruled(S)' <=> \E k \in DOMAIN ruling' : ruling'[k].user = w /\ ruling'[k].ban
      BY DEF Ruled
    <3>2. w \in Ruled(S) <=> \E k \in DOMAIN ruling : ruling[k].user = w /\ ruling[k].ban
      BY DEF Ruled
    <3> QED
      BY <1>4, <1>5, <1>6, <3>1, <3>2
  <2>2. \A S : Ruled(S) \subseteq S /\ Ruled(S)' \subseteq S
    BY DEF Ruled
  <2> QED
    BY <2>1, <2>2
<1>8. \A w : IsRuled(w)' <=> IsRuled(w) \/ w = u
  BY <1>4, <1>5, <1>6 DEF IsRuled
<1> QED
  BY <1>1, <1>2, <1>5, <1>6, <1>7, <1>8 DEF r, N

\* A user voted out is sanctioned once, and counted when the audit is settled.
LEMMA CloseVoteSanctions ==
    ASSUME DetectionIInv, NEW u \in User, CloseVote(u)
    PROVE  SanctionsFollowRulings' /\ TotalsAreTrue'
<1> DEFINE ban == count[u] > Threshold
<1>1. /\ phase' = phase /\ stats' = stats /\ referred' = referred
      /\ marked' = IF ban /\ u \in NormalUser THEN marked \cup {u} ELSE marked
      /\ alive' = IF ban THEN alive \ {u} ELSE alive
  BY DEF CloseVote
<1>2. /\ phase \in {"normals", "attackers"} /\ u \in referred /\ ~IsRuled(u)
      /\ \A S : Ruled(S)' = IF u \in S /\ ban THEN Ruled(S) \cup {u} ELSE Ruled(S)
  BY RulingAppended
<1>3. \A S : Ruled(S) \subseteq S /\ u \notin Ruled(S)
  BY <1>2 DEF Ruled, IsRuled
<1>4. u \notin marked /\ u \in NormalUser \cup alive
  BY <1>2, <1>3 DEF DetectionIInv, SanctionsFollowRulings
<1>5. /\ alive \subseteq AttackUser /\ marked \subseteq NormalUser /\ Whitelist \subseteq marked
      /\ referred \subseteq User /\ User = NormalUser \cup AttackUser
      /\ NormalUser \cap AttackUser = {}
  BY Constants DEF DetectionIInv, Stored, User
<1>6. SanctionsFollowRulings'
  <2>1. ASSUME NEW w \in referred \ Ruled(User)'
        PROVE  w \notin marked' /\ w \in NormalUser \cup alive'
    <3>1. w \in referred \ Ruled(User)
      BY <1>2, <2>1
    <3>2. w \notin marked /\ w \in NormalUser \cup alive
      BY <3>1 DEF DetectionIInv, SanctionsFollowRulings
    <3>3. w = u => ~ban
      BY <1>2, <2>1
    <3> QED
      BY <1>1, <3>2, <3>3
  <2>2. Ruled(NormalUser)' \subseteq marked'
    BY <1>1, <1>2 DEF DetectionIInv, SanctionsFollowRulings
  <2>3. Ruled(AttackUser)' \cap alive' = {}
    BY <1>1, <1>2 DEF DetectionIInv, SanctionsFollowRulings
  <2> QED
    BY <1>1, <2>1, <2>2, <2>3 DEF SanctionsFollowRulings
<1>7. /\ Unsettled(AttackUser) = Ruled(AttackUser) /\ Unsettled(NormalUser) = Ruled(NormalUser)
      /\ Unsettled(AttackUser)' = Ruled(AttackUser)' /\ Unsettled(NormalUser)' = Ruled(NormalUser)'
  BY <1>1, <1>2 DEF Unsettled
<1>8. /\ IsFiniteSet(Ruled(AttackUser)) /\ IsFiniteSet(Ruled(NormalUser))
      /\ IsFiniteSet(AttackUser \ alive) /\ IsFiniteSet(marked \ Whitelist)
  <2>1. /\ Ruled(AttackUser) \in SUBSET AttackUser /\ Ruled(NormalUser) \in SUBSET NormalUser
        /\ AttackUser \ alive \in SUBSET AttackUser /\ marked \ Whitelist \in SUBSET NormalUser
    BY <1>3, <1>5
  <2> QED
    BY <2>1, Constants, FS_Subset
<1>9. /\ Cardinality(Ruled(AttackUser)) \in Nat /\ Cardinality(Ruled(NormalUser)) \in Nat
      /\ stats["banned_attackers"] \in Nat /\ stats["marked_normal"] \in Nat
  BY <1>8, FS_CardinalityType DEF DetectionIInv, Stored, Counter
<1>10. /\ Cardinality(AttackUser \ alive) = stats["banned_attackers"] + Cardinality(Ruled(AttackUser))
       /\ Cardinality(marked \ Whitelist) = stats["marked_normal"] + Cardinality(Ruled(NormalUser))
  BY <1>7 DEF DetectionIInv, TotalsAreTrue
<1>11. /\ Cardinality(AttackUser \ alive') = stats["banned_attackers"] + Cardinality(Ruled(AttackUser)')
       /\ Cardinality(marked' \ Whitelist) = stats["marked_normal"] + Cardinality(Ruled(NormalUser)')
  <2>1. CASE ban /\ u \in AttackUser
    <3>1. /\ AttackUser \ alive' = (AttackUser \ alive) \cup {u} /\ u \notin AttackUser \ alive
          /\ marked' = marked /\ Ruled(AttackUser)' = Ruled(AttackUser) \cup {u}
          /\ Ruled(NormalUser)' = Ruled(NormalUser)
      BY <1>1, <1>2, <1>4, <1>5, <2>1
    <3>2. /\ Cardinality((AttackUser \ alive) \cup {u}) = Cardinality(AttackUser \ alive) + 1
          /\ Cardinality(Ruled(AttackUser) \cup {u}) = Cardinality(Ruled(AttackUser)) + 1
      BY <1>3, <1>8, <3>1, FS_AddElement
    <3>3. /\ Cardinality(AttackUser \ alive') = Cardinality(AttackUser \ alive) + 1
          /\ Cardinality(Ruled(AttackUser)') = Cardinality(Ruled(AttackUser)) + 1
          /\ Cardinality(marked' \ Whitelist) = Cardinality(marked \ Whitelist)
          /\ Cardinality(Ruled(NormalUser)') = Cardinality(Ruled(NormalUser))
      BY <3>1, <3>2, Zenon
    <3> QED
      BY <1>9, <1>10, <3>3
  <2>2. CASE ban /\ u \in NormalUser
    <3>1. /\ marked' \ Whitelist = (marked \ Whitelist) \cup {u} /\ u \notin marked \ Whitelist
          /\ alive' = alive /\ Ruled(NormalUser)' = Ruled(NormalUser) \cup {u}
          /\ Ruled(AttackUser)' = Ruled(AttackUser)
      BY <1>1, <1>2, <1>4, <1>5, <2>2
    <3>2. /\ Cardinality((marked \ Whitelist) \cup {u}) = Cardinality(marked \ Whitelist) + 1
          /\ Cardinality(Ruled(NormalUser) \cup {u}) = Cardinality(Ruled(NormalUser)) + 1
      BY <1>3, <1>8, <3>1, FS_AddElement
    <3>3. /\ Cardinality(AttackUser \ alive') = Cardinality(AttackUser \ alive)
          /\ Cardinality(Ruled(AttackUser)') = Cardinality(Ruled(AttackUser))
          /\ Cardinality(marked' \ Whitelist) = Cardinality(marked \ Whitelist) + 1
          /\ Cardinality(Ruled(NormalUser)') = Cardinality(Ruled(NormalUser)) + 1
      BY <3>1, <3>2, Zenon
    <3> QED
      BY <1>9, <1>10, <3>3
  <2>3. CASE ~ban
    BY <1>1, <1>2, <1>10, <2>3
  <2> QED
    BY <1>5, <2>1, <2>2, <2>3
<1>12. TotalsAreTrue'
  BY <1>1, <1>7, <1>11 DEF DetectionIInv, TotalsAreTrue
<1> QED
  BY <1>6, <1>12

\* The main thread takes the result of a user.
LEMMA CloseVoteStep ==
    ASSUME DetectionIInv, NEW u \in User, CloseVote(u)
    PROVE  DetectionIInv'
<1>1. /\ phase' = phase /\ large' = large /\ flagged' = flagged /\ time' = time
      /\ decision' = decision /\ stats' = stats /\ referred' = referred /\ docket' = docket
      /\ pending' = pending /\ count' = count /\ vote' = vote /\ committee' = committee
      /\ rep' = rep /\ weight' = weight
      /\ marked' \in {marked, marked \cup {u}} /\ alive' \in {alive, alive \ {u}}
      /\ (marked' # marked => u \in NormalUser)
  BY DEF CloseVote, memberVars
<1>2. /\ u \in referred \ docket /\ ~IsRuled(u) /\ pending[u] = {}
      /\ ruling' \in Seq(Ballot)
      /\ DOMAIN ruling' = DOMAIN ruling \cup {Len(ruling) + 1}
      /\ \A k \in DOMAIN ruling : ruling'[k] = ruling[k]
      /\ ruling'[Len(ruling) + 1] = [user |-> u, time |-> time, ban |-> count[u] > Threshold]
      /\ \A w : IsRuled(w)' <=> IsRuled(w) \/ w = u
  BY RulingAppended
<1>3. Stored'
  BY <1>1, <1>2 DEF DetectionIInv, Stored
<1>4. RulingsAreFinal'
  <2> DEFINE n == Len(ruling) + 1
             r == [user |-> u, time |-> time, ban |-> count[u] > Threshold]
  <2>1. ruling'[n] = r /\ r.user = u /\ r.time = time /\ r.ban = (count[u] > Threshold)
    BY <1>2
  <2> HIDE DEF n, r
  <2>2. DOMAIN ruling' = DOMAIN ruling \cup {n} /\ \A k \in DOMAIN ruling : ruling'[k] = ruling[k]
    BY <1>2 DEF n
  <2>3. \A k \in DOMAIN ruling : ruling[k].user # u
    BY <1>2 DEF IsRuled
  <2>4. \A k, l \in DOMAIN ruling' : ruling'[k].user = ruling'[l].user => k = l
    BY <2>1, <2>2, <2>3 DEF DetectionIInv, RulingsAreFinal
  <2>5. \A k \in DOMAIN ruling' :
          /\ ruling'[k].user \in referred \ docket /\ pending[ruling'[k].user] = {}
          /\ ruling'[k].time = time /\ ruling'[k].ban = (count[ruling'[k].user] > Threshold)
    BY <1>2, <2>1, <2>2 DEF DetectionIInv, RulingsAreFinal
  <2> QED
    BY <1>1, <2>4, <2>5 DEF RulingsAreFinal
<1>5. PhasesInOrder'
  BY <1>1, <1>2 DEF DetectionIInv, PhasesInOrder
<1> QED
  BY <1>1, <1>3, <1>4, <1>5, CloseVoteSanctions, VotesFrame, ReputeFrame, DecisionFrame
     DEF DetectionIInv

\* A pool is done when all its users have been ruled on.
LEMMA PoolDoneStep ==
    ASSUME DetectionIInv, PoolDone
    PROVE  DetectionIInv'
<1>1. /\ time' = time /\ alive' = alive /\ marked' = marked /\ large' = large
      /\ decision' = decision /\ stats' = stats
      /\ flagged' = flagged /\ referred' = referred /\ docket' = docket
      /\ pending' = pending /\ count' = count /\ ruling' = ruling
      /\ vote' = vote /\ committee' = committee /\ rep' = rep /\ weight' = weight
  BY DEF PoolDone, auditVars, memberVars
<1>2. /\ phase \in {"normals", "attackers"}
      /\ phase' = IF phase = "normals" THEN "attackers" ELSE "settle"
      /\ Pool \cap docket = {} /\ Open = {}
  BY DEF PoolDone
<1>3. \A u \in referred \cap Pool : u \notin docket /\ IsRuled(u)
  BY <1>2 DEF Open, IsRuled
<1>4. Stored'
  BY <1>1, <1>2 DEF DetectionIInv, Stored, Phase
<1>5. PhasesInOrder'
  <2>1. CASE phase = "normals"
    <3>1. \A u \in referred \cap NormalUser : u \notin docket /\ IsRuled(u)
      BY <1>3, <2>1 DEF Pool
    <3> QED
      BY <1>1, <1>2, <2>1, <3>1 DEF PhasesInOrder, IsRuled
  <2>2. CASE phase = "attackers"
    <3>1. referred \subseteq NormalUser \cup AttackUser
      BY DEF DetectionIInv, Stored, User
    <3>2. \A u \in referred : u \notin docket /\ IsRuled(u)
      BY <1>3, <2>2, <3>1 DEF Pool, DetectionIInv, PhasesInOrder
    <3> QED
      BY <1>1, <1>2, <2>2, <3>2 DEF PhasesInOrder, IsRuled
  <2> QED
    BY <1>2, <2>1, <2>2
<1>6. SanctionsFollowRulings'
  BY <1>1 DEF DetectionIInv, SanctionsFollowRulings, Ruled
<1>7. TotalsAreTrue'
  BY <1>1, <1>2 DEF DetectionIInv, TotalsAreTrue, Unsettled, Ruled
<1> QED
  BY <1>1, <1>2, <1>4, <1>5, <1>6, <1>7, VotesFrame, RulingFrame, ReputeFrame, DecisionFrame
     DEF DetectionIInv

-----------------------------------------------------------------------------
(* Settling an audit.                                                      *)

\* The audit's totals and decisions are written down.
LEMMA SettleStep ==
    ASSUME DetectionIInv, Settle
    PROVE  DetectionIInv'
<1>1. /\ phase = "settle" /\ phase' = "elect"
      /\ time' = time /\ large' = large /\ flagged' = flagged /\ referred' = referred
      /\ docket' = docket /\ pending' = pending /\ count' = count /\ ruling' = ruling
      /\ vote' = vote /\ committee' = committee /\ rep' = rep /\ weight' = weight
  BY DEF Settle, auditVars, memberVars
<1>2. marked' = marked /\ alive' = alive
  BY DEF Settle, DetectionIInv, SanctionsFollowRulings
<1>3. stats' = AddedStats /\ decision' = decision \o ruling
  BY DEF Settle
<1> DEFINE A == Cardinality(Ruled(AttackUser))
           N == Cardinality(Ruled(NormalUser))
<1>4. A \in Nat /\ N \in Nat /\ Cardinality(Ruled(User)) = A + N
  <2>1. /\ Ruled(AttackUser) \in SUBSET AttackUser /\ Ruled(NormalUser) \in SUBSET NormalUser
        /\ Ruled(User) = Ruled(AttackUser) \cup Ruled(NormalUser)
        /\ Ruled(AttackUser) \cap Ruled(NormalUser) = {}
    BY Constants DEF Ruled, User
  <2>2. IsFiniteSet(Ruled(AttackUser)) /\ IsFiniteSet(Ruled(NormalUser))
    BY <2>1, Constants, FS_Subset
  <2>3. Cardinality(Ruled(AttackUser) \cup Ruled(NormalUser))
          = A + N - Cardinality(Ruled(AttackUser) \cap Ruled(NormalUser))
    BY <2>2, FS_Union
  <2>4. Cardinality(Ruled(AttackUser) \cap Ruled(NormalUser)) = 0
    BY <2>1, FS_EmptySet, Zenon
  <2>5. A \in Nat /\ N \in Nat
    BY <2>2, FS_CardinalityType
  <2>6. Cardinality(Ruled(User)) = Cardinality(Ruled(AttackUser) \cup Ruled(NormalUser))
    BY <2>1, Zenon
  <2> QED
    BY <2>3, <2>4, <2>5, <2>6
<1>5. /\ stats' \in [Counter -> Nat]
      /\ stats'["banned_attackers"] = stats["banned_attackers"] + A
      /\ stats'["committee_attackers"] = stats["committee_attackers"] + A
      /\ stats'["marked_normal"] = stats["marked_normal"] + N
      /\ stats'["committee_total"] = stats["committee_total"] + (A + N)
  <2>1. stats \in [Counter -> Nat] /\ flagged \subseteq User /\ referred \subseteq User
    BY DEF DetectionIInv, Stored
  <2>2. /\ Cardinality(flagged) \in Nat /\ Cardinality(flagged \cap AttackUser) \in Nat
        /\ Cardinality(referred) \in Nat /\ Cardinality(referred \cap AttackUser) \in Nat
    <3>1. /\ flagged \in SUBSET User /\ flagged \cap AttackUser \in SUBSET User
          /\ referred \in SUBSET User /\ referred \cap AttackUser \in SUBSET User
      BY <2>1
    <3> QED
      BY <3>1, Constants, FS_Subset, FS_CardinalityType
  <2>3. Cardinality(Ruled(User)) \in Nat
    BY <1>4
  <2> HIDE DEF A, N
  <2> DEFINE fa == Cardinality(flagged \cap AttackUser)
             f == Cardinality(flagged)
             ra == Cardinality(referred \cap AttackUser)
             r == Cardinality(referred)
             U == Cardinality(Ruled(User))
             added(k) == CASE k = "if_attackers" -> fa [] k = "if_total" -> f
                           [] k = "auditor_attackers" -> ra [] k = "auditor_total" -> r
                           [] k \in {"committee_attackers", "banned_attackers"} -> A
                           [] k = "committee_total" -> U [] k = "marked_normal" -> N
  <2>4. stats' = [k \in Counter |-> stats[k] + added(k)]
    BY <1>3, Zenon DEF AddedStats, A, N
  <2>5. fa \in Nat /\ f \in Nat /\ ra \in Nat /\ r \in Nat /\ U \in Nat /\ A \in Nat /\ N \in Nat
        /\ U = A + N
    BY <1>4, <2>2, <2>3
  <2> HIDE DEF fa, f, ra, r, U
  <2>6. \A k \in Counter : stats[k] + added(k) \in Nat
    BY <2>1, <2>5 DEF Counter
  <2>7. /\ added("banned_attackers") = A /\ added("committee_attackers") = A
        /\ added("marked_normal") = N /\ added("committee_total") = U
    OBVIOUS
  <2> HIDE DEF added
  <2> QED
    BY <2>4, <2>5, <2>6, <2>7 DEF Counter
<1>6. ruling \in Seq(Ballot) /\ decision \in Seq(Ballot)
  BY DEF DetectionIInv, Stored
<1>7. Stored'
  BY <1>1, <1>2, <1>3, <1>5, <1>6 DEF DetectionIInv, Stored, Phase
<1>8. SanctionsFollowRulings' /\ PhasesInOrder'
  BY <1>1, <1>2 DEF DetectionIInv, SanctionsFollowRulings, PhasesInOrder, Ruled, IsRuled
<1>9. TotalsAreTrue'
  <2>1. /\ Unsettled(AttackUser)' = {} /\ Unsettled(NormalUser)' = {}
        /\ Unsettled(AttackUser) = Ruled(AttackUser) /\ Unsettled(NormalUser) = Ruled(NormalUser)
    BY <1>1 DEF Unsettled
  <2>2. /\ stats["banned_attackers"] \in Nat /\ stats["marked_normal"] \in Nat
        /\ stats["committee_attackers"] \in Nat /\ stats["committee_total"] \in Nat
    BY DEF DetectionIInv, Stored, Counter
  <2>3. Cardinality(Unsettled(AttackUser)') = 0 /\ Cardinality(Unsettled(NormalUser)') = 0
    BY <2>1, FS_EmptySet, Zenon
  <2>4. /\ stats["banned_attackers"] + A = Cardinality(AttackUser \ alive)
        /\ stats["marked_normal"] + N = Cardinality(marked \ Whitelist)
        /\ stats["committee_attackers"] = stats["banned_attackers"]
        /\ stats["committee_total"] = stats["banned_attackers"] + stats["marked_normal"]
    BY <2>1 DEF DetectionIInv, TotalsAreTrue
  <2> HIDE DEF A, N
  <2> QED
    BY <1>2, <1>4, <1>5, <2>2, <2>3, <2>4 DEF TotalsAreTrue
<1>10. DecisionsWereVotedOn'
  <2>1. ASSUME NEW k \in DOMAIN ruling
        PROVE  /\ ruling[k].user \in User /\ ruling[k].time = time
               /\ \A c \in committee : \E j : Votes(c, ruling[k].user, ruling[k].time) = {j}
    <3>1. /\ ruling[k].user \in referred \ docket /\ pending[ruling[k].user] = {}
          /\ ruling[k].time = time
      BY DEF DetectionIInv, RulingsAreFinal
    <3>2. ruling[k].user \in User /\ committee \subseteq Candidate
      BY <3>1 DEF DetectionIInv, Stored
    <3>3. \A c \in committee : Collected(c, ruling[k].user)
      BY <3>1 DEF Collected
    <3> QED
      BY <3>1, <3>2, <3>3 DEF DetectionIInv, VotesAreCollected
  <2>2. ASSUME NEW k \in DOMAIN decision
        PROVE  /\ decision[k].user \in User /\ decision[k].time < time
               /\ \A c \in committee : \E j : Votes(c, decision[k].user, decision[k].time) = {j}
    BY <1>1 DEF DetectionIInv, DecisionsWereVotedOn
  <2>3. ASSUME NEW i \in DOMAIN decision'
        PROVE  \/ \E k \in DOMAIN ruling : decision'[i] = ruling[k]
               \/ \E k \in DOMAIN decision : decision'[i] = decision[k]
    BY <1>3, <1>6
  <2>4. ASSUME NEW i \in DOMAIN decision'
        PROVE  /\ decision'[i].user \in User
               /\ decision'[i].time < time \/ decision'[i].time = time
               /\ \A c \in committee : \E j : Votes(c, decision'[i].user, decision'[i].time) = {j}
    <3>1. CASE \E k \in DOMAIN ruling : decision'[i] = ruling[k]
      BY <2>1, <3>1
    <3>2. CASE \E k \in DOMAIN decision : decision'[i] = decision[k]
      BY <2>2, <3>2
    <3> QED
      BY <2>3, <3>1, <3>2
  <2>5. ASSUME NEW i \in DOMAIN decision', NEW c \in committee
        PROVE  \E j : Votes(c, decision[i].user, decision[i].time)' = {j}
    <3>1. PICK j : Votes(c, decision'[i].user, decision'[i].time) = {j}
      BY <2>4, <2>5
    <3>2. Votes(c, decision[i].user, decision[i].time)' = {j}
      BY <1>1, <3>1 DEF Votes
    <3> QED
      BY <3>2
  <2> QED
    BY <1>1, <2>4, <2>5 DEF DecisionsWereVotedOn
<1> QED
  BY <1>1, <1>7, <1>8, <1>9, <1>10, VotesFrame, RulingFrame, ReputeFrame DEF DetectionIInv

-----------------------------------------------------------------------------
(* The end of a minute, and the elections.                                 *)

\* An election counts one term more.
LEMMA TermStep ==
    ASSUME NEW t \in Nat
    PROVE  /\ Terms(t) \in Nat /\ Terms(t + 1) \in Nat /\ Terms(t) <= Terms(t + 1)
           /\ t % ElectEvery = 0 => Terms(t + 1) = Terms(t) + 1
<1> DEFINE E == ElectEvery
<1>1. E \in Nat \ {0}
  BY Constants
<1>2. /\ t + E - 1 \in Nat /\ (t + 1) + E - 1 \in Nat /\ t + E - 1 <= (t + 1) + E - 1
  BY <1>1
<1>3. /\ Terms(t) = (t + E - 1) \div E /\ Terms(t + 1) = ((t + 1) + E - 1) \div E
  BY DEF Terms
<1> HIDE DEF E
<1>4. Terms(t) \in Nat /\ Terms(t + 1) \in Nat /\ Terms(t) <= Terms(t + 1)
  <2>1. (t + E - 1) \div E \in Nat /\ ((t + 1) + E - 1) \div E \in Nat
    BY <1>1, <1>2, Division
  <2>2. (t + E - 1) \div E <= ((t + 1) + E - 1) \div E
    BY <1>1, <1>2, DivisionMonotonic
  <2> QED
    BY <1>3, <2>1, <2>2
<1>5. ASSUME t % E = 0 PROVE Terms(t + 1) = Terms(t) + 1
  <2> DEFINE k == t \div E
  <2>1. k \in Nat /\ t = E * k
    BY <1>1, <1>5
  <2> HIDE DEF k
  <2>2. E * k \in Nat /\ E * (k + 1) = E * k + E /\ E * ((k + 1) + 1) = E * k + E + E
    BY <1>1, <2>1
  <2>3. E * k <= t + E - 1 /\ t + E - 1 < E * (k + 1)
    BY <1>1, <2>1, <2>2
  <2>4. E * (k + 1) <= (t + 1) + E - 1 /\ (t + 1) + E - 1 < E * ((k + 1) + 1)
    BY <1>1, <2>1, <2>2
  <2>5. (t + E - 1) \div E = k
    BY <1>1, <1>2, <2>1, <2>3, Quotient
  <2>6. ((t + 1) + E - 1) \div E = k + 1
    <3>1. k + 1 \in Nat
      BY <2>1
    <3> QED
      BY <1>1, <1>2, <2>4, <3>1, Quotient
  <2> QED
    BY <1>3, <2>5, <2>6
<1> QED
  BY <1>4, <1>5 DEF E

\* A rep halved in every term of a run is still positive.
LEMMA RepStaysPositive ==
    ASSUME NEW t \in 0 .. MaxTime
    PROVE  2 ^ Terms(t) \in Nat \ {0} /\ Scale \div 2 ^ Terms(t) \in Nat \ {0}
<1> DEFINE E == ElectEvery
           P == 2 ^ Terms(t)
<1>1. E \in Nat \ {0} /\ t \in Nat /\ MaxTime \in Nat /\ t <= MaxTime /\ Scale \in Nat
  BY Constants
<1>2. t + E - 1 \in Nat /\ MaxTime + E - 1 \in Nat /\ t + E - 1 <= MaxTime + E - 1
  BY <1>1
<1>3. Terms(t) \in Nat /\ Terms(MaxTime) \in Nat
  BY <1>1, TermStep
<1>4. Terms(t) <= Terms(MaxTime)
  <2> HIDE DEF E
  <2>1. (t + E - 1) \div E <= (MaxTime + E - 1) \div E
    BY <1>1, <1>2, DivisionMonotonic
  <2> QED
    BY <2>1 DEF Terms, E
<1>5. 2 ^ Terms(t) <= 2 ^ Terms(MaxTime) /\ 2 ^ Terms(MaxTime) \in Nat
  BY <1>3, <1>4, PowerMonotonic
<1>6. P \in Nat \ {0}
  BY <1>3, PowerMonotonic
<1>7. 2 ^ Terms(MaxTime) <= Scale
  BY DetectionAssumption DEF Terms
<1>8. P <= Scale
  <2>1. P <= 2 ^ Terms(MaxTime)
    BY <1>5
  <2> HIDE DEF P
  <2> QED
    BY <1>1, <1>5, <1>6, <1>7, <2>1
<1> HIDE DEF P
<1>9. Scale \div P \in Nat /\ Scale < P * ((Scale \div P) + 1)
  BY <1>1, <1>6, Division
<1>10. Scale \div P # 0
  BY <1>1, <1>6, <1>8, <1>9
<1> QED
  BY <1>6, <1>9, <1>10 DEF P

\* What every step that ends a minute keeps, given what it does to reps and weights.
LEMMA MinuteEnds ==
    ASSUME DetectionIInv, phase = "elect", time' = time + 1, phase' = PhaseAfter(time + 1),
           ForgetAudit, alive' = alive, marked' = marked, large' = large, vote' = vote,
           stats' = stats, committee' \subseteq Candidate, Cardinality(committee') = CommitteeSize,
           decision' = <<>> \/ (decision' = decision /\ committee' = committee), Reputed'
    PROVE  DetectionIInv'
<1>1. /\ flagged' = {} /\ referred' = {} /\ docket' = {} /\ ruling' = <<>>
      /\ pending' = [u \in User |-> {}] /\ count' = [u \in User |-> 0]
  BY DEF ForgetAudit
<1>2. /\ phase' \in {"users", "stopped"} /\ (phase' # "stopped" => time + 1 < MaxTime)
  BY DEF PhaseAfter
<1>3. time \in Nat /\ time < MaxTime /\ MaxTime \in Nat
  BY Constants DEF DetectionIInv, Stored
<1>4. Stored'
  <2>1. decision' \in Seq(Ballot)
    <3>1. decision \in Seq(Ballot) /\ <<>> \in Seq(Ballot)
      BY DEF DetectionIInv, Stored
    <3> QED
      BY <3>1
  <2> QED
    BY <1>1, <1>2, <1>3, <2>1 DEF DetectionIInv, Stored, Phase
<1>5. \A c \in Candidate : \A j \in DOMAIN vote[c] : vote[c][j].time <= time /\ vote[c][j].time \in Nat
  <2>1. \A c \in Candidate : \A j \in DOMAIN vote[c] : vote[c][j].time <= time
    BY DEF DetectionIInv, VotesAreCollected
  <2>2. \A c \in Candidate : \A j \in DOMAIN vote[c] : vote[c][j] \in Ballot
    BY DEF DetectionIInv, Stored
  <2> QED
    BY <1>3, <2>1, <2>2 DEF Ballot
<1>6. VotesAreCollected'
  <2>1. ASSUME NEW c \in Candidate, NEW u \in User
        PROVE  ~Collected(c, u)' /\ Votes(c, u, time)' = {}
    BY <1>1, <1>3, <1>5 DEF Collected, Votes
  <2>2. \A c \in Candidate : \A j \in DOMAIN vote'[c] : vote'[c][j].time <= time'
    BY <1>3, <1>5
  <2>3. \A u \in User : pending'[u] = {}
    BY <1>1
  <2> QED
    BY <2>1, <2>2, <2>3 DEF VotesAreCollected
<1>7. CountsAreVotes'
  <2>1. ASSUME NEW u \in User PROVE Banners(u)' = {}
    <3>1. ASSUME NEW c \in committee', NEW j \in DOMAIN vote[c]
          PROVE  vote[c][j] # [user |-> u, time |-> time + 1, ban |-> TRUE]
      BY <1>3, <1>5, <3>1
    <3> QED
      BY <3>1 DEF Banners
  <2>2. \A u \in User : Cardinality(Banners(u)') = 0
    BY <2>1, FS_EmptySet, Zenon
  <2> QED
    BY <1>1, <2>2 DEF CountsAreVotes
<1>8. RulingsAreFinal' /\ SanctionsFollowRulings' /\ PhasesInOrder'
  BY <1>1, <1>2 DEF RulingsAreFinal, SanctionsFollowRulings, PhasesInOrder, Ruled
<1>9. DecisionsWereVotedOn'
  <2>1. CASE decision' = <<>>
    BY <2>1 DEF DecisionsWereVotedOn
  <2>2. CASE decision' = decision /\ committee' = committee
    <3>1. ASSUME NEW i \in DOMAIN decision
          PROVE  decision[i].user \in User /\ decision[i].time < time + 1
      <4>1. /\ decision[i].user \in User
            /\ decision[i].time < time \/ decision[i].time = time
        BY DEF DetectionIInv, DecisionsWereVotedOn
      <4>2. decision \in Seq(Ballot)
        BY DEF DetectionIInv, Stored
      <4>3. decision[i] \in Ballot
        BY <4>2
      <4>4. decision[i].time \in Nat
        BY <1>3, <4>3 DEF Ballot
      <4> QED
        BY <1>3, <4>1, <4>4
    <3>2. ASSUME NEW i \in DOMAIN decision, NEW c \in committee
          PROVE  \E j : Votes(c, decision[i].user, decision[i].time)' = {j}
      <4>1. PICK j : Votes(c, decision[i].user, decision[i].time) = {j}
        BY DEF DetectionIInv, DecisionsWereVotedOn
      <4>2. Votes(c, decision[i].user, decision[i].time)' = {j}
        BY <2>2, <4>1 DEF Votes
      <4> QED
        BY <4>2
    <3> QED
      BY <2>2, <3>1, <3>2 DEF DecisionsWereVotedOn
  <2> QED
    BY <2>1, <2>2
<1>10. TotalsAreTrue'
  <2>1. /\ Unsettled(AttackUser)' = {} /\ Unsettled(NormalUser)' = {}
        /\ Unsettled(AttackUser) = {} /\ Unsettled(NormalUser) = {}
    BY <1>2 DEF Unsettled
  <2> QED
    BY <2>1 DEF DetectionIInv, TotalsAreTrue
<1> QED
  BY <1>4, <1>6, <1>7, <1>8, <1>9, <1>10 DEF DetectionIInv

\* A minute without an election ends.
LEMMA NextMinuteStep ==
    ASSUME DetectionIInv, NextMinute
    PROVE  DetectionIInv'
<1>1. /\ phase = "elect" /\ time' = time + 1 /\ phase' = PhaseAfter(time + 1) /\ ForgetAudit
      /\ alive' = alive /\ marked' = marked /\ large' = large /\ stats' = stats
      /\ decision' = decision /\ vote' = vote /\ committee' = committee
      /\ rep' = rep /\ weight' = weight
  BY DEF NextMinute, memberVars
<1>2. /\ time \in 0 .. MaxTime /\ time + 1 \in 0 .. MaxTime /\ time \in Nat
  BY <1>1, Constants DEF DetectionIInv, Stored
<1>3. /\ rep \in [Candidate -> 0 .. 2 * Scale]
      /\ \A c \in Candidate : rep[c] >= Scale \div 2 ^ Terms(time)
      /\ weight \in [Candidate -> [num : Nat, den : Nat]] /\ WeightsStayDrawable
  BY DEF DetectionIInv, Reputed
<1> DEFINE p == Scale \div 2 ^ Terms(time)
           q == Scale \div 2 ^ Terms(time + 1)
<1>4. p \in Nat /\ q \in Nat /\ q <= p
  <2>1. p \in Nat /\ q \in Nat /\ 2 ^ Terms(time) \in Nat \ {0} /\ 2 ^ Terms(time + 1) \in Nat \ {0}
    BY <1>2, RepStaysPositive
  <2>2. 2 ^ Terms(time) <= 2 ^ Terms(time + 1)
    BY <1>2, TermStep, PowerMonotonic
  <2> QED
    BY <2>1, <2>2, DivisorMonotonic, Constants
<1>5. \A c \in Candidate : rep[c] >= p /\ rep[c] \in Nat
  BY <1>3, Constants
<1>6. \A c \in Candidate : rep[c] >= q
  <2> HIDE DEF p, q
  <2> QED
    BY <1>4, <1>5
<1>7. Reputed'
  BY <1>1, <1>3, <1>6 DEF Reputed, WeightsStayDrawable, Terms
<1>8. committee' \subseteq Candidate /\ Cardinality(committee') = CommitteeSize
  BY <1>1 DEF DetectionIInv, Stored
<1> QED
  BY <1>1, <1>7, <1>8, MinuteEnds

\* A member agrees at most once per decision.
LEMMA AgreementsBound ==
    ASSUME NEW c, NEW verdicts, NEW n \in Nat, DOMAIN verdicts = 1 .. n
    PROVE  Agreements(c, verdicts) \in 0 .. n
<1> DEFINE S == {i \in DOMAIN verdicts : verdicts[i] = vote[c][i].ban}
<1>1. S \in SUBSET (1 .. n)
  OBVIOUS
<1>2. IsFiniteSet(1 .. n) /\ Cardinality(1 .. n) = n
  <2>1. 1 \in Int /\ n \in Int /\ 1 <= n + 1 /\ (n - 1) + 1 = n
    OBVIOUS
  <2>2. IsFiniteSet(1 .. n)
    BY <2>1, FS_Interval
  <2>3. Cardinality(1 .. n) = (n - 1) + 1
    BY <2>1, IntervalSize
  <2> QED
    BY <2>1, <2>2, <2>3
<1> HIDE DEF S
<1>3. IsFiniteSet(S) /\ Cardinality(S) <= Cardinality(1 .. n)
  BY <1>1, <1>2, FS_Subset
<1>4. Cardinality(S) \in Nat
  BY <1>3, FS_CardinalityType
<1>5. Cardinality(S) \in 0 .. n
  BY <1>2, <1>3, <1>4
<1> QED
  BY <1>5 DEF S, Agreements

\* update_rep keeps half of the old rep and adds at most Scale.
LEMMA UpdatedRepBound ==
    ASSUME DetectionIInv, decision # <<>>, NEW c \in Candidate
    PROVE  UpdatedRep(c) \in 0 .. 2 * Scale /\ UpdatedRep(c) >= rep[c] \div 2
<1> DEFINE n == Len(decision)
           x == Agreements(c, [i \in DOMAIN decision |-> decision[i].ban])
           y == Agreements(c, [i \in DOMAIN decision |-> decision[i].user \in AttackUser])
           h == rep[c] \div 2
           a == (Scale * (x + 2 * y)) \div (4 * n)
<1>1. n \in Nat \ {0} /\ DOMAIN decision = 1 .. n
  BY DEF DetectionIInv, Stored
<1>2. x \in 0 .. n /\ y \in 0 .. n
  <2>1. /\ DOMAIN [i \in DOMAIN decision |-> decision[i].ban] = 1 .. n
        /\ DOMAIN [i \in DOMAIN decision |-> decision[i].user \in AttackUser] = 1 .. n
    BY <1>1
  <2> HIDE DEF n
  <2> QED
    BY <1>1, <2>1, AgreementsBound
<1>3. UpdatedRep(c) = h + a
  BY DEF UpdatedRep
<1>4. h \in 0 .. Scale
  <2>1. rep[c] \in 0 .. 2 * Scale
    BY DEF DetectionIInv, Reputed
  <2> QED
    BY <2>1, Constants
<1> HIDE DEF n, x, y, h
<1>5. /\ x + 2 * y \in Nat /\ x + 2 * y <= 4 * n /\ 4 * n \in Nat \ {0} /\ Scale \in Nat
  BY <1>1, <1>2, Constants
<1> DEFINE k == x + 2 * y
           m == 4 * n
<1>6. a = (Scale * k) \div m /\ k \in Nat /\ k <= m /\ m \in Nat \ {0}
  BY <1>5
<1> HIDE DEF k, m, a
<1>7. Scale * k \in Nat /\ k * Scale <= m * Scale /\ Scale * k = k * Scale /\ m * Scale \in Nat
  BY <1>5, <1>6, Products
<1>8. (Scale * k) \div m \in Nat /\ m * ((Scale * k) \div m) <= Scale * k
  BY <1>6, <1>7, Division
<1>9. a \in Nat /\ m * a <= Scale * k
  BY <1>6, <1>8
<1>10. m * a <= m * Scale
  BY <1>6, <1>7, <1>9
<1>11. a <= Scale
  BY <1>5, <1>6, <1>9, <1>10, Cancel
<1>12. h + a \in 0 .. 2 * Scale /\ h + a >= h
  BY <1>4, <1>5, <1>9, <1>11
<1> QED
  BY <1>3, <1>12 DEF h

\* The weight of a positive rep is positive and not above the bound.
LEMMA UpdatedWeightBound ==
    ASSUME NEW R \in SUBSET (1 .. 2 * Scale), NEW r \in R,
           NEW w, w = UpdatedWeight(r, Min(R), Max(R))
    PROVE  w \in [num : Nat, den : Nat] /\ 0 < w.num /\ w.num <= 2000 * w.den
<1> DEFINE lo == Min(R)
           hi == Max(R)
<1>1. Scale \in Nat /\ 2 * Scale \in Nat
  BY Constants
<1>2. lo \in R /\ \A y \in R : lo <= y
  <2>1. R \in SUBSET Nat /\ R # {}
    BY <1>1
  <2>2. \E z \in R : \A y \in R : z <= y
    BY <2>1, LeastNat
  <2> QED
    BY <2>2 DEF Min
<1>3. hi \in R /\ \A y \in R : hi >= y
  <2> DEFINE B == 2 * Scale
  <2>1. B \in Nat /\ R \in SUBSET (0 .. B) /\ R # {}
    BY <1>1
  <2> HIDE DEF B
  <2>2. PICK z \in R : \A y \in R : y <= z
    BY <2>1, GreatestNat
  <2>3. \A y \in R : z >= y
    BY <2>1, <2>2
  <2> QED
    BY <2>3 DEF Max
<1>0. w = UpdatedWeight(r, lo, hi)
  OBVIOUS
<1> HIDE DEF lo, hi
<1>4. /\ r \in Nat /\ 1 <= r /\ r <= 2 * Scale /\ lo \in Nat /\ hi \in Nat /\ lo <= hi
  BY <1>1, <1>2, <1>3
<1>5. w.num = 1000 * (hi - lo + r) /\ w.den = hi - lo + Scale
      /\ w = [num |-> 1000 * (hi - lo + r), den |-> hi - lo + Scale]
  BY <1>0 DEF UpdatedWeight
<1>6. /\ 1000 * (hi - lo + r) \in Nat /\ hi - lo + Scale \in Nat /\ 0 < 1000 * (hi - lo + r)
      /\ 1000 * (hi - lo + r) <= 2000 * (hi - lo + Scale)
  BY <1>1, <1>4
<1> QED
  BY <1>5, <1>6

\* What an election leaves of the reps and weights.
LEMMA ElectionReputes ==
    ASSUME DetectionIInv, UpdateCommittees
    PROVE  Reputed'
<1>1. /\ phase = "elect" /\ time' = time + 1 /\ time % ElectEvery = 0
  BY DEF UpdateCommittees
<1>2. /\ time \in 0 .. MaxTime /\ time + 1 \in 0 .. MaxTime /\ time \in Nat
  BY <1>1, Constants DEF DetectionIInv, Stored
<1>3. /\ rep \in [Candidate -> 0 .. 2 * Scale]
      /\ \A c \in Candidate : rep[c] >= Scale \div 2 ^ Terms(time)
      /\ weight \in [Candidate -> [num : Nat, den : Nat]] /\ WeightsStayDrawable
  BY DEF DetectionIInv, Reputed
<1> DEFINE P == 2 ^ Terms(time)
           p == Scale \div P
           q == Scale \div 2 ^ Terms(time + 1)
<1>4. p \in Nat /\ q \in Nat \ {0} /\ P \in Nat \ {0}
  BY <1>2, RepStaysPositive
<1>5. p \div 2 = q
  <2>1. Terms(time) \in Nat /\ Terms(time + 1) = Terms(time) + 1
    BY <1>1, <1>2, TermStep
  <2>2. 2 ^ Terms(time + 1) = 2 * P
    BY <2>1, PowerOfTwo
  <2> HIDE DEF P
  <2>3. (Scale \div P) \div 2 = Scale \div (2 * P)
    BY <1>4, Constants, DivideTwice
  <2> QED
    BY <2>2, <2>3
<1>6. \A c \in Candidate : rep[c] >= p /\ rep[c] \in Nat
  BY <1>3, Constants
<1>7. \A c \in Candidate : rep[c] >= q /\ rep[c] \div 2 >= q
  <2> HIDE DEF p, q
  <2> TAKE c \in Candidate
  <2>1. rep[c] \in Nat /\ rep[c] >= p
    BY <1>6
  <2> QED
    BY <1>4, <1>5, <2>1
<1>8. CASE decision = <<>>
  <2>1. rep' = rep /\ weight' = weight
    BY <1>8 DEF UpdateCommittees
  <2> QED
    BY <1>1, <1>3, <1>7, <2>1 DEF Reputed, WeightsStayDrawable, Terms
<1>9. CASE decision # <<>>
  <2> DEFINE R == {rep'[c] : c \in committee}
  <2>1. rep' = [c \in Candidate |-> IF c \in committee THEN UpdatedRep(c) ELSE rep[c]]
    BY <1>9 DEF UpdateCommittees
  <2>2. weight' = [c \in Candidate |->
                     IF c \in committee THEN UpdatedWeight(rep'[c], Min(R), Max(R)) ELSE weight[c]]
    BY <1>9 DEF UpdateCommittees
  <2>3. ASSUME NEW c \in Candidate
        PROVE  rep'[c] \in 0 .. 2 * Scale /\ rep'[c] >= q
    <3>1. UpdatedRep(c) \in 0 .. 2 * Scale /\ UpdatedRep(c) >= rep[c] \div 2
      BY <1>9, UpdatedRepBound
    <3>2. UpdatedRep(c) \in Nat /\ rep[c] \div 2 \in Nat
      BY <1>6, <3>1, Constants
    <3>3. UpdatedRep(c) >= q
      <4> HIDE DEF q
      <4>1. rep[c] \div 2 >= q
        BY <1>7
      <4> QED
        BY <1>4, <3>1, <3>2, <4>1
    <3> QED
      BY <1>3, <1>7, <2>1, <3>1, <3>3
  <2>4. rep' \in [Candidate -> 0 .. 2 * Scale]
    BY <2>1, <2>3
  <2>5. R \in SUBSET (1 .. 2 * Scale)
    <3>1. committee \subseteq Candidate
      BY DEF DetectionIInv, Stored
    <3>2. \A c \in Candidate : rep'[c] \in 1 .. 2 * Scale
      <4> HIDE DEF q
      <4> QED
        BY <1>4, <2>3, Constants
    <3> QED
      BY <3>1, <3>2
  <2>6. ASSUME NEW c \in Candidate
        PROVE  /\ weight'[c] \in [num : Nat, den : Nat]
               /\ 0 < weight'[c].num /\ weight'[c].num <= 2000 * weight'[c].den
    <3>1. CASE c \in committee
      <4>1. PICK X : X = R
        OBVIOUS
      <4>2. X \in SUBSET (1 .. 2 * Scale) /\ rep'[c] \in X
        BY <2>5, <3>1, <4>1
      <4>3. weight'[c] = UpdatedWeight(rep'[c], Min(X), Max(X))
        BY <2>2, <3>1, <4>1
      <4>4. PICK r, w : r = rep'[c] /\ w = weight'[c]
        OBVIOUS
      <4>5. w = UpdatedWeight(r, Min(X), Max(X)) /\ r \in X
        BY <4>2, <4>3, <4>4
      <4>6. w \in [num : Nat, den : Nat] /\ 0 < w.num /\ w.num <= 2000 * w.den
        BY <4>2, <4>5, UpdatedWeightBound
      <4> QED
        BY <4>4, <4>6
    <3>2. CASE c \notin committee
      <4>1. weight'[c] = weight[c]
        BY <2>2, <3>2
      <4> QED
        BY <1>3, <4>1 DEF WeightsStayDrawable
    <3> QED
      BY <3>1, <3>2
  <2>7. weight' \in [Candidate -> [num : Nat, den : Nat]]
    <3> HIDE DEF R
    <3>1. weight' = [c \in Candidate |-> weight'[c]]
      BY <2>2
    <3> QED
      BY <2>6, <3>1
  <2>8. WeightsStayDrawable'
    BY <2>6 DEF WeightsStayDrawable
  <2>9. \A c \in Candidate : rep'[c] >= (Scale \div 2 ^ Terms(time))'
    BY <1>1, <2>3 DEF Terms
  <2> QED
    BY <2>4, <2>7, <2>8, <2>9 DEF Reputed
<1> QED
  BY <1>8, <1>9

\* A minute with an election ends.
LEMMA UpdateCommitteesStep ==
    ASSUME DetectionIInv, UpdateCommittees
    PROVE  DetectionIInv'
<1>1. /\ phase = "elect" /\ time' = time + 1 /\ phase' = PhaseAfter(time + 1) /\ ForgetAudit
      /\ alive' = alive /\ marked' = marked /\ large' = large /\ stats' = stats
      /\ vote' = vote
  BY DEF UpdateCommittees
<1>2. committee' \subseteq Candidate /\ Cardinality(committee') = CommitteeSize
  BY DEF UpdateCommittees, MayBeDrawn
<1>3. decision' = <<>>
  BY DEF UpdateCommittees
<1> QED
  BY <1>1, <1>2, <1>3, ElectionReputes, MinuteEnds

-----------------------------------------------------------------------------
(* The theorems.                                                           *)

\* Every step keeps the invariant.
LEMMA DetectionStep ==
    ASSUME DetectionIInv, [DetectionNext]_vars
    PROVE  DetectionIInv'
<1>1. CASE UNCHANGED vars
  <2>1. /\ time' = time /\ phase' = phase /\ alive' = alive /\ marked' = marked
        /\ large' = large /\ decision' = decision /\ stats' = stats
        /\ flagged' = flagged /\ referred' = referred /\ docket' = docket
        /\ pending' = pending /\ count' = count /\ ruling' = ruling
        /\ vote' = vote /\ committee' = committee /\ rep' = rep /\ weight' = weight
    BY <1>1 DEF vars, auditVars, memberVars
  <2>2. Stored' /\ SanctionsFollowRulings' /\ PhasesInOrder'
    BY <2>1 DEF DetectionIInv, Stored, SanctionsFollowRulings, PhasesInOrder, Ruled, IsRuled
  <2>3. TotalsAreTrue'
    BY <2>1 DEF DetectionIInv, TotalsAreTrue, Unsettled, Ruled
  <2> QED
    BY <2>1, <2>2, <2>3, VotesFrame, RulingFrame, ReputeFrame, DecisionFrame
       DEF DetectionIInv
<1>2. CASE Stopped
  BY <1>1, <1>2 DEF Stopped
<1>3. CASE ProcessUsers
  BY <1>3, ProcessUsersStep
<1>4. CASE FirstLayerAudit
  BY <1>4, FirstLayerStep
<1>5. CASE SecondLayerDetect
  BY <1>5, SecondLayerStep
<1>6. CASE \E u \in User : StartVote(u) \/ CloseVote(u)
  BY <1>6, StartVoteStep, CloseVoteStep
<1>7. CASE \E u \in User, c \in Candidate, v \in BOOLEAN : CastVote(u, c, v)
  BY <1>7, CastVoteStep
<1>8. CASE PoolDone
  BY <1>8, PoolDoneStep
<1>9. CASE Settle
  BY <1>9, SettleStep
<1>10. CASE UpdateCommittees
  BY <1>10, UpdateCommitteesStep
<1>11. CASE NextMinute
  BY <1>11, NextMinuteStep
<1>12. CASE UntrainedAudit
  BY <1>12, UntrainedStep
<1> QED
  BY <1>1, <1>2, <1>3, <1>4, <1>5, <1>6, <1>7, <1>8, <1>9, <1>10, <1>11, <1>12
     DEF DetectionNext

\* The inductive invariant holds however audits, votes, elections and minutes
\* follow each other.
THEOREM DetectionInvariant == DetectionSpec => []DetectionIInv
<1>1. DetectionInit => DetectionIInv
  BY DetectionInitially
<1>2. DetectionIInv /\ [DetectionNext]_vars => DetectionIInv'
  BY DetectionStep
<1> QED
  BY <1>1, <1>2, PTL DEF DetectionSpec

(* The simulation's fields keep their types, no count of bans exceeds the  *)
(* seats, and after any run of elections (update_rep, update_weight of     *)
(* models/committee.py) every candidate can still be drawn.                *)
THEOREM DetectionInvAlways == DetectionSpec => []DetectionInv
<1>1. DetectionIInv => DetectionInv
  <2> SUFFICES ASSUME DetectionIInv PROVE DetectionInv
    OBVIOUS
  <2>1. count \in [User -> 0 .. CommitteeSize]
    <3>1. ASSUME NEW u \in User PROVE count[u] \in 0 .. CommitteeSize
      <4>1. committee \in SUBSET Candidate /\ Cardinality(committee) = CommitteeSize
        BY DEF DetectionIInv, Stored
      <4>2. IsFiniteSet(committee)
        BY <4>1, Constants, FS_Subset
      <4>3. Banners(u) \in SUBSET committee
        BY DEF Banners
      <4>4. IsFiniteSet(Banners(u)) /\ Cardinality(Banners(u)) <= Cardinality(committee)
        BY <4>2, <4>3, FS_Subset
      <4>5. Cardinality(Banners(u)) \in Nat
        BY <4>4, FS_CardinalityType
      <4>6. count[u] = Cardinality(Banners(u))
        BY DEF DetectionIInv, CountsAreVotes
      <4> QED
        BY <4>1, <4>4, <4>5, <4>6, Constants
    <3>2. count \in [User -> Nat]
      BY DEF DetectionIInv, Stored
    <3> QED
      BY <3>1, <3>2
  <2>2. \A s \in {ruling, decision} \cup {vote[c] : c \in Candidate} :
          \A i \in DOMAIN s : s[i] \in Ballot
    <3>1. \A s \in Seq(Ballot) : \A i \in DOMAIN s : s[i] \in Ballot
      OBVIOUS
    <3>2. \A s \in {ruling, decision} \cup {vote[c] : c \in Candidate} : s \in Seq(Ballot)
      BY DEF DetectionIInv, Stored
    <3> QED
      BY <3>1, <3>2
  <2>3. DetectionTypeOK
    BY <2>1, <2>2 DEF DetectionTypeOK, DetectionIInv, Stored, Reputed
  <2> QED
    BY <2>3 DEF DetectionInv, DetectionIInv, Reputed
<1> QED
  BY <1>1, DetectionInvariant, PTL

(* When a term ends, update_rep (models/committee.py:26-29) finds in every *)
(* sitting member's list exactly one vote on every case of the term.       *)
THEOREM EveryMemberVotedAlways == DetectionSpec => []EveryMemberVotedOnEveryCase
<1>1. DetectionIInv => EveryMemberVotedOnEveryCase
  <2> SUFFICES ASSUME DetectionIInv, NEW c \in committee, NEW i \in DOMAIN decision
               PROVE  Cardinality(Votes(c, decision[i].user, decision[i].time)) = 1
    BY DEF EveryMemberVotedOnEveryCase, Votes
  <2>1. PICK j : Votes(c, decision[i].user, decision[i].time) = {j}
    BY DEF DetectionIInv, DecisionsWereVotedOn
  <2>2. Cardinality({j}) = 1
    BY FS_Singleton
  <2> QED
    BY <2>1, <2>2, Zenon
<1> QED
  BY <1>1, DetectionInvariant, PTL

(* Outside an audit the reported totals (simulator.py:111, :116) are the   *)
(* number of banned attack users and of normal users marked since the      *)
(* start.                                                                  *)
THEOREM SanctionTotalsAlways == DetectionSpec => []SanctionTotalsAreTrue
<1>1. DetectionIInv => SanctionTotalsAreTrue
  <2> SUFFICES ASSUME DetectionIInv, phase \in {"users", "elect", "stopped"}
               PROVE  SanctionTotalsAreTrue
    BY DEF SanctionTotalsAreTrue
  <2>1. Unsettled(AttackUser) = {} /\ Unsettled(NormalUser) = {}
    BY DEF Unsettled
  <2>2. Cardinality(Unsettled(AttackUser)) = 0 /\ Cardinality(Unsettled(NormalUser)) = 0
    BY <2>1, FS_EmptySet, Zenon
  <2>3. stats["banned_attackers"] \in Nat /\ stats["marked_normal"] \in Nat
    BY DEF DetectionIInv, Stored, Counter
  <2> QED
    BY <2>2, <2>3 DEF DetectionIInv, TotalsAreTrue, SanctionTotalsAreTrue
<1> QED
  BY <1>1, DetectionInvariant, PTL

(* A ruling (detection_layers.py:205, :234) is the majority of the votes   *)
(* that the members' own lists hold, however the pools interleave.         *)
THEOREM RulingsFollowTheVotesAlways == DetectionSpec => []RulingsFollowTheVotes
<1>1. DetectionIInv => RulingsFollowTheVotes
  <2> SUFFICES ASSUME DetectionIInv, NEW k \in DOMAIN ruling
               PROVE  ruling[k].ban = (Cardinality({c \in committee : \E j \in DOMAIN vote[c] :
                         vote[c][j] = [user |-> ruling[k].user, time |-> ruling[k].time,
                                       ban |-> TRUE]}) > Threshold)
    BY DEF RulingsFollowTheVotes
  <2>1. /\ ruling[k].user \in User /\ ruling[k].time = time
        /\ ruling[k].ban = (count[ruling[k].user] > Threshold)
    BY DEF DetectionIInv, RulingsAreFinal, Stored
  <2>2. count[ruling[k].user] = Cardinality(Banners(ruling[k].user))
    BY <2>1 DEF DetectionIInv, CountsAreVotes
  <2> QED
    BY <2>1, <2>2, Zenon DEF Banners
<1> QED
  BY <1>1, DetectionInvariant, PTL
=============================================================================
