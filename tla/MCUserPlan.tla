----------------------------- MODULE MCUserPlan -----------------------------
(* Amounts 10 and 30 for a task of 50, plans of two minutes.               *)
EXTENDS UserPlan

MCHistories ==
    {<<>>,
     <<[time |-> -2, amount |-> 30]>>,
     <<[time |-> -1, amount |-> 10], [time |-> -3, amount |-> 15]>>}
MCDrift == {-1, 0, 1}
=============================================================================
