---------------------------- MODULE MCHashTable ----------------------------
EXTENDS HashTable, TLC

\* No action tells keys or values apart but by their hash codes, which Init
\* draws for every key from the same set.
Symmetry == Permutations(Key) \cup Permutations(Value)
=============================================================================
