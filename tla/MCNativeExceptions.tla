------------------------- MODULE MCNativeExceptions -------------------------
(* Instances of NativeExceptions for TLC. *)
EXTENDS NativeExceptions, TLC

Symmetry == Permutations(Error)

\* The entry function has a short name.
ShortEntry == [fn \in Function |-> IF fn = Entry THEN 1 ELSE 8]
=============================================================================
