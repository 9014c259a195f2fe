------------------------ MODULE MCAttachmentStorage ------------------------
(* AttachmentStorage on small instances. *)
EXTENDS AttachmentStorage, TLC

Symmetry == Permutations(Workers)
=============================================================================
