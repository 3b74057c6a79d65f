--------------------------- MODULE MCPuzzlePayment ---------------------------
(* Two payments through one tumbler.                                       *)
EXTENDS PuzzlePayment, TLC

CONSTANTS s1, s2, p1, p2

\* The two Alices have the same escrow id or different ones, and the same
\* pool label or different ones: what is left up to the names.
MCStarts ==
    [id : {s1 :> s1 @@ s2 :> s1, s1 :> s1 @@ s2 :> s2},
     pool : {s1 :> p1 @@ s2 :> p1, s1 :> p1 @@ s2 :> p2}]
MCOneStart == {[id |-> s1 :> s1, pool |-> s1 :> p1]}
=============================================================================
