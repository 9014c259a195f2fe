----------------------------- MODULE MCAccounts -----------------------------
(* Accounts on a small instance: two addresses with the same local part. *)
EXTENDS Accounts, TLC

CONSTANT ann

Symmetry == Permutations(Requests) \cup Permutations(Codes) \cup Permutations(Invitations)

SameLocal == [e \in Emails |-> ann]
=============================================================================
