------------------------- MODULE MCFixedMixerEscrow -------------------------
(* Two escrows between two accounts; the deadlines fall within the bound   *)
(* on time, so that confirm races refund, before and after the deadline.   *)
EXTENDS FixedMixerEscrow, TLC

MCHash(l, r) == <<l, r>>
=============================================================================
