---------------------------- MODULE MCEditPages ----------------------------
(* EditPages with two browsers on any two pages. *)
EXTENDS EditPages, TLC

Symmetry == Permutations(Browsers)

Records == {d.record : d \in Designs}

Never(c) == FALSE
=============================================================================
