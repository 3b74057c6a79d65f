------------------------- MODULE ReputationManager -------------------------
(***************************************************************************)
(* ReputationManager.sol: Rep(t+1) = 0.95 * Rep(t) + 0.6 * consistency +   *)
(* 0.4 * participation, each product rounded down on its own.  The factors *)
(* are exact multiples of 1/100, so dividing by 100 is what the contract's *)
(* 18-digit fixed point computes.  lastUpdateTime and the decision counts, *)
(* which no rule reads, are left out.                                      *)
(***************************************************************************)
EXTENDS Accounts

CONSTANTS
    InitialMember,           \* the members passed to the constructor
    Score                    \* participation and consistency values offered

ASSUME ReputationAssumption ==
    /\ InitialMember \subseteq User
    /\ Score \subseteq Nat

VARIABLE memberReputations   \* [User -> MemberReputation]

MemberReputation ==
    [participationRate : 0 .. 100, consistency : 0 .. 100, previousReputation : Nat]

ReputationInit ==
    memberReputations =
        [u \in User |->
            [participationRate |-> IF u \in InitialMember THEN 50 ELSE 0,
             consistency |-> IF u \in InitialMember THEN 50 ELSE 0,
             previousReputation |-> 0]]

CalculateDeltaReputation(r) ==
    (r.consistency * 60) \div 100 + (r.participationRate * 40) \div 100

\* A previous reputation of 0 means "first time": there is nothing to decay.
CalculateReputation(r) ==
    IF r.previousReputation = 0
    THEN CalculateDeltaReputation(r)
    ELSE (r.previousReputation * 95) \div 100 + CalculateDeltaReputation(r)

Reputation(u) == CalculateReputation(memberReputations[u])

ValidScores(participation, consistency) == participation <= 100 /\ consistency <= 100

\* Mutant of UpdateReputation: the history value is computed after the new
\* scores are stored.
UpdateThenRemember(u, participation, consistency) ==
    LET r == [memberReputations[u] EXCEPT !.participationRate = participation,
                                          !.consistency = consistency]
    IN  /\ ValidScores(participation, consistency)
        /\ memberReputations' = [memberReputations EXCEPT ![u] =
                [r EXCEPT !.previousReputation = CalculateReputation(r)]]

\* Any account updates its own record; the history value is computed from
\* the record as it was before this update.
UpdateReputation(u, participation, consistency) ==
    /\ ValidScores(participation, consistency)
    /\ memberReputations' = [memberReputations EXCEPT ![u] =
            [participationRate |-> participation,
             consistency |-> consistency,
             previousReputation |-> Reputation(u)]]

ReputationNext ==
    /\ \E u \in User, p, c \in Score : UpdateReputation(u, p, c)
    /\ UNCHANGED chainVars

ReputationVars == <<chainVars, memberReputations>>

ReputationManagerInit == AccountsInit /\ ReputationInit

ReputationSpec == ReputationManagerInit /\ [][ReputationNext]_ReputationVars

-----------------------------------------------------------------------------
(* Properties.                                                             *)

\* The records have the declared types.
ReputationTypeOK == memberReputations \in [User -> MemberReputation]

\* The decay keeps reputations bounded for ever.  1981 is the least fixed point
\* of the rounded recurrence with full scores, so it is reached and never passed
\* (the 0-200 that the documentation gives is passed after the third update).
ReputationBounded == \A u \in User : Reputation(u) <= 1981

\* One update loses at most the 5% decay (plus one unit of rounding) and
\* gains at most 100: no update, however often repeated, jumps or resets a
\* reputation, also when it passes through the special value 0.
ReputationMovesSlowly ==
    [][\A u \in User :
          LET before == Reputation(u)
              after == CalculateReputation(memberReputations'[u])
          IN  /\ 100 * after >= 95 * before - 99
              /\ after <= before + 100]_ReputationVars
=============================================================================
