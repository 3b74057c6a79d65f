---------------------------- MODULE MCPoolEpochs ----------------------------
(* Two members, one seat: an epoch is closed by a rotation, closed or      *)
(* distributed by the owner's hand, and claimed, in every order.  The      *)
(* owner is a member too, as deployed.                                     *)
EXTENDS CommitteeRotation, TLC

CONSTANTS u1, u2

MCRandom == {<<4>>}
MCCommittee == <<u1>>
=============================================================================
