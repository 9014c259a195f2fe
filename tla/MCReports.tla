----------------------------- MODULE MCReports ------------------------------
(* Reports on a small instance: the night of each change of the clocks of     *)
(* Melbourne falls into day 1, or no change comes.                            *)
EXTENDS Reports, TLC

CONSTANTS l1, l2, p1, p2, ann, bob

Spring == [before |-> 10, after |-> 11, switch |-> 24 + 2 - 10]
Autumn == [before |-> 11, after |-> 10, switch |-> 24 + 3 - 11]
Winter == [before |-> 10, after |-> 10, switch |-> 24 + 2 - 10]
Melbourne == {Spring, Autumn, Winter}

TwoProjects == (l1 :> p1 @@ l2 :> p2)
TwoAuthors == (l1 :> ann @@ l2 :> bob)

\* The hours around the midnights and the change of the clocks.
Nights == {13, 14, 37}

TwoDates == {[date |-> 1, hours |-> 2], [date |-> 2, hours |-> 3]}
=============================================================================
