------------------------- MODULE MCSelectionRounds -------------------------
(* Up to five candidates for a top-4 of which three are drawn.  The words  *)
(* cover every residue of every total weight.                              *)
EXTENDS SelectionRounds, TLC
=============================================================================
