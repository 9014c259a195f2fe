------------------------ MODULE MCWorkLogAttachments ------------------------
(* WorkLogAttachments on small instances. *)
EXTENDS WorkLogAttachments, TLC

CONSTANTS ann, ben

Symmetry == Permutations(Attachments)

FixedRoles == [u \in Users |-> IF u = ann THEN {{"PROJECT_MANAGER"}} ELSE {{"APPROVER"}}]
=============================================================================
