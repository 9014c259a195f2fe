------------------------------ MODULE MCOrders ------------------------------
(* Orders on a small instance. *)
EXTENDS Orders, TLC

CONSTANT ann

Symmetry == Permutations(Requests)

OneManager == [u \in Users |-> {{"PROJECT_MANAGER"}}]

SomeDrafts ==
  {[status |-> "DRAFT", start |-> 1, delivery |-> 2],
   [status |-> "DRAFT", start |-> NoDate, delivery |-> 1]}

\* One change of each kind: a status, one date, a date removed.
SomePatches ==
  {[status |-> s] : s \in {"ACTIVE", "COMPLETED"}}
  \cup {[start |-> 2], [delivery |-> 1], [delivery |-> NoDate]}
=============================================================================
