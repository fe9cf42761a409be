----------------------------- MODULE MCCollector -----------------------------
(* Instances of Collector for TLC.  Addresses are interchangeable. *)
EXTENDS Collector, TLC

Symmetry == Permutations(Object)
=============================================================================
