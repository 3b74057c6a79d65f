-------------------------- MODULE MCStakingManager --------------------------
(* Two stakers, one of them the owner; a stake of two coins can be slashed *)
(* in one or in two steps.                                                 *)
EXTENDS StakingManager, TLC
=============================================================================
