-------------------------- MODULE CommitteeManager --------------------------
(***************************************************************************)
(* CommitteeManager.sol: a front for CommitteeRotation that keeps its own  *)
(* copy of the committee and can be paused.  CommitteeRotation does not    *)
(* know it: scripts also call CommitteeRotation directly (as               *)
(* update_and_rotate_new.js does), past the copy and past the pause.       *)
(***************************************************************************)
EXTENDS CommitteeRotation

VARIABLES
    managerCommittee,        \* currentCommittee of the manager
    isInitialized,
    paused,
    lastUpdateTime,
    pastCommittees,          \* history: the committees there ever were
    initializedLate          \* history: initialize ran after a first rotation

managerVars ==
    <<managerCommittee, isInitialized, paused, lastUpdateTime, pastCommittees, initializedLate>>

\* Before initialize the copy holds zero addresses.
NoCommittee == [n \in 1 .. MAX_COMMITTEE_SIZE |-> NoAddress]

ManagerInit ==
    /\ managerCommittee = NoCommittee
    /\ isInitialized = FALSE
    /\ paused = FALSE
    /\ lastUpdateTime = now
    /\ pastCommittees = {InitialCommittee}
    /\ initializedLate = FALSE

-----------------------------------------------------------------------------

\* initialize, as the migration calls it: with the initial committee.
Initialize(committee) ==
    /\ ~isInitialized
    /\ managerCommittee' = committee
    /\ isInitialized' = TRUE
    /\ lastUpdateTime' = now
    /\ initializedLate' = (rotationCount > 0)
    /\ UNCHANGED <<paused, pastCommittees>>

\* Mutants of CopyCommittee: the loop stops after the first seat; only the
\* time is noted.
CopyFirstSeat(c) ==
    /\ isInitialized
    /\ managerCommittee' = [managerCommittee EXCEPT ![1] = c[1]]
    /\ lastUpdateTime' = IF c # managerCommittee THEN now ELSE lastUpdateTime

CopyNothing(c) ==
    /\ isInitialized
    /\ lastUpdateTime' = IF c # managerCommittee THEN now ELSE lastUpdateTime
    /\ UNCHANGED managerCommittee

\* Copies the committee c and notes the time, if it differs from the copy.
CopyCommittee(c) ==
    /\ isInitialized
    /\ managerCommittee' = c
    /\ lastUpdateTime' = IF c # managerCommittee THEN now ELSE lastUpdateTime

UpdateCommittee ==
    /\ CopyCommittee(currentCommittee)
    /\ UNCHANGED <<isInitialized, paused, pastCommittees, initializedLate>>

ManagerRotateCommittee ==
    /\ isInitialized
    /\ ~paused
    /\ RotateCommittee
    /\ CopyCommittee(currentCommittee')
    /\ pastCommittees' = pastCommittees \cup {currentCommittee'}
    /\ UNCHANGED <<isInitialized, paused, initializedLate>>

ManagerAddCandidate(candidate) ==
    /\ isInitialized
    /\ ~paused
    /\ AddCandidate(candidate)
    /\ UNCHANGED managerVars

ManagerRemoveCandidate(candidate) ==
    /\ isInitialized
    /\ ~paused
    /\ RemoveCandidate(candidate)
    /\ UNCHANGED managerVars

\* Any account may pause and resume.
EmergencyPause ==
    /\ isInitialized
    /\ ~paused
    /\ paused' = TRUE
    /\ UNCHANGED <<managerCommittee, isInitialized, lastUpdateTime, pastCommittees,
                   initializedLate>>

ResumeSystem ==
    /\ isInitialized
    /\ paused
    /\ paused' = FALSE
    /\ UNCHANGED <<managerCommittee, isInitialized, lastUpdateTime, pastCommittees,
                   initializedLate>>

ManagerOwnNext ==
    /\ \/ Initialize(InitialCommittee)
       \/ UpdateCommittee
       \/ EmergencyPause
       \/ ResumeSystem
    /\ UNCHANGED rotationVars

ManagerNext ==
    \/ /\ \/ ManagerOwnNext
          \/ \E c \in User : ManagerAddCandidate(c) \/ ManagerRemoveCandidate(c)
       /\ UNCHANGED <<poolVars, chainVars, memberReputations>>
    \/ /\ ManagerRotateCommittee
       /\ UNCHANGED <<claimed, chainVars, memberReputations>>

\* Everything that happens to CommitteeRotation without the manager.
DirectNext ==
    /\ CommitteeRotationNext
    /\ pastCommittees' = pastCommittees \cup {currentCommittee'}
    /\ UNCHANGED <<managerCommittee, isInitialized, paused, lastUpdateTime, initializedLate>>

CommitteeManagerVars == <<CommitteeRotationVars, managerVars>>

CommitteeManagerInit == CommitteeRotationInit /\ ManagerInit

CommitteeManagerNext == ManagerNext \/ DirectNext

CommitteeManagerSpec ==
    CommitteeManagerInit /\ [][CommitteeManagerNext]_CommitteeManagerVars

-----------------------------------------------------------------------------
(* Properties.                                                             *)

\* The storage has the declared types.
ManagerTypeOK ==
    /\ managerCommittee \in [1 .. MAX_COMMITTEE_SIZE -> User \cup {NoAddress}]
    /\ isInitialized \in BOOLEAN
    /\ paused \in BOOLEAN
    /\ lastUpdateTime \in 0 .. MaxTime
    /\ pastCommittees \subseteq [1 .. MAX_COMMITTEE_SIZE -> User]
    /\ initializedLate \in BOOLEAN

\* The copy may lag but is never invented: it is a committee that was really
\* drawn (or the initial one), never a mixture of two.
CopyWasACommittee == isInitialized => managerCommittee \in pastCommittees

\* The manager's storage is sound: typed, and its copy a committee of the past
\* or the present.
ManagerInv == ManagerTypeOK /\ CopyWasACommittee

\* A stale copy can be told from lastUpdateTime: if the copy differs from the
\* committee, the last rotation is not older than the last update.  (Only a
\* manager initialized after a rotation starts with a younger stale copy,
\* because initialize stores its argument and does not ask the rotation.)
StaleCopyIsDatable ==
    (isInitialized /\ ~initializedLate /\ managerCommittee # currentCommittee)
        => lastRotationTime >= lastUpdateTime
=============================================================================
