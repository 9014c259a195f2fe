-------------------------- MODULE MCProjectMembers --------------------------
(* ProjectMembers on small instances. *)
EXTENDS ProjectMembers, TLC

CONSTANTS ann, ben, cat

Symmetry == Permutations(Requests)

AnyRole == [u \in Users |-> {{}, {"PROJECT_MANAGER"}, {"MEMBER"}}]
=============================================================================
