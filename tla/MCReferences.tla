---------------------------- MODULE MCReferences ----------------------------
(* References on a small instance. *)
EXTENDS References, TLC

CONSTANTS c1, f1

Symmetry == Permutations(Requests) \cup Permutations(Projects)

EverybodyIn == [p \in Projects |-> Users]

SomeDrafts ==
  {[status |-> "DRAFT", customer |-> c, portfolio |-> f] :
     <<c, f>> \in {<<None, None>>, <<c1, None>>, <<None, f1>>}}

SomePatches == {[status |-> "ACTIVE"], [customer |-> None], [customer |-> c1]}
=============================================================================
