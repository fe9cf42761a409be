---------------------------- MODULE MCAsyncTask ----------------------------
(* Instances of AsyncTask for TLC. *)
EXTENDS AsyncTask, TLC

\* Tasks whose entry is a generated runner are interchangeable.
Symmetry == Permutations(Task \ Foreign)
=============================================================================
