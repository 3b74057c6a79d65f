------------------------- MODULE MCCommitteeManager -------------------------
(* Two seats and two candidates, which an output puts in either order;     *)
(* rotations go through the manager or past it, in every order with        *)
(* updates, pauses and blocks.                                             *)
EXTENDS CommitteeManager, TLC

CONSTANTS u1, u2

MCRandom == {<<0, 0>>, <<4, 0>>}
MCCommittee == <<u1, u2>>
=============================================================================
