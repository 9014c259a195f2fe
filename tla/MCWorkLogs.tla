----------------------------- MODULE MCWorkLogs -----------------------------
(* WorkLogs on small instances; the .cfg files choose users, logs and bounds. *)
EXTENDS WorkLogs, TLC

CONSTANTS ann, ben, t1, t2, p1, p2

Symmetry == Permutations(Texts) \cup Permutations(Requests)

\* Role sets the managers of the project may give each user.
ApproverOrMember ==
  [u \in Users |-> IF u = ann THEN {{"PROJECT_MANAGER"}} ELSE {{"MEMBER"}, {"APPROVER"}}]
=============================================================================
