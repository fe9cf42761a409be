----------------------------- MODULE MCVMFrames -----------------------------
(* Instances of VMFrames for TLC. *)
EXTENDS VMFrames, TLC

Symmetry == Permutations(Error)
=============================================================================
