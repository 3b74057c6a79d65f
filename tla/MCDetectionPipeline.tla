------------------------- MODULE MCDetectionPipeline -------------------------
(* Three users, three candidates for two seats, an audit every minute and  *)
(* an election every other: the votes of two audits meet in one election.  *)
EXTENDS DetectionPipeline, TLC

CONSTANTS n1, n2, a1, c1, c2, c3

\* Normal users and honest candidates are interchangeable.
MCSymmetry == Permutations({n1, n2}) \cup Permutations({c1, c2})
=============================================================================
