----------------------------- MODULE Dictionary -----------------------------
(***************************************************************************)
(* What docs/stdlib/collections.md promises of a dict: a finite function   *)
(* from keys to values that knows its size.  With one value it is a set.   *)
(***************************************************************************)
EXTENDS FiniteSets

CONSTANTS Key, Value

VARIABLES
    map,  \* the function, whose domain is the set of keys
    size  \* what Count returns

vars == <<map, size>>

Init == map = [k \in {} |-> {}] /\ size = 0

Becomes(m) == map' = m /\ size' = Cardinality(DOMAIN m)

Set(k, v) ==
    Becomes([x \in DOMAIN map \cup {k} |-> IF x = k THEN v ELSE map[x]])

Remove(k) == Becomes([x \in DOMAIN map \ {k} |-> map[x]])

Clear == Becomes([x \in {} |-> {}])

Next == \/ \E k \in Key : Remove(k) \/ \E v \in Value : Set(k, v)
        \/ Clear

Spec == Init /\ [][Next]_vars
=============================================================================
