---------------------------- MODULE MCShareAudit ----------------------------
(* Three receivers, two shares needed, secrets of two blocks; one deal with *)
(* three faults, or two deals with one, under different message ids or      *)
(* under the same (the placeholder hash).                                   *)
EXTENDS ShareAudit, TLC

CONSTANTS m1, m2

MCMsgOfs == {<<m1>>, <<m1, m1>>, <<m1, m2>>}
MCMaxFaults == <<3, 1>>
=============================================================================
