------------------------ MODULE MCAttachmentRestore ------------------------
(* AttachmentRestore on small instances. *)
EXTENDS AttachmentRestore, TLC

Symmetry == Permutations(Workers)
=============================================================================
