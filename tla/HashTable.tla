------------------------------ MODULE HashTable ------------------------------
(***************************************************************************)
(* The open-addressed table of libs/runtime/src/kn_runtime.c behind dict   *)
(* and set: linear probing, no tombstones; Remove repairs the probe chains *)
(* by rehashing the whole table, Set grows it at a load of 0.7.  The set   *)
(* has the same code without values, and Clear, which dict has not.        *)
(*                                                                         *)
(* A call runs to its end before the next one starts, but a rehash is a    *)
(* loop that moves one slot per step.                                      *)
(***************************************************************************)
EXTENDS Integers, FiniteSets

CONSTANTS Key, Value,
          HashCode, \* what rt_hash can return
          Free,     \* a slot with used = 0
          NoCall,
          Failing   \* the calls in which __kn_gc_alloc may return null

ASSUME HashConstants ==
    /\ HashCode \subseteq Nat
    /\ Free \notin [key : Key, value : Value]
    /\ NoCall \notin Key \X Value
    /\ Failing \subseteq {"set", "remove"}

MinCap == 8

VARIABLES
    hash,     \* rt_hash
    cap,      \* d->cap
    entries,  \* d->entries
    count,    \* d->count
    pc,       \* what the call under way does next
    call,     \* the key and value a Set has still to store
    fresh,    \* the table a rehash fills
    freshCap, \* its size
    next      \* the slot a rehash looks at

table == <<cap, entries, count>>
loop  == <<fresh, freshCap, next>>
vars  == <<hash, table, pc, call, loop>>

Entry == [key : Key, value : Value]

\* Tables with c slots.
Table(c) == [0 .. c - 1 -> Entry \cup {Free}]

Empty(c) == [s \in 0 .. c - 1 |-> Free]

Init ==
    /\ hash \in [Key -> HashCode]
    /\ cap = 0 /\ entries = Empty(0) /\ count = 0
    /\ pc = "idle" /\ call = NoCall
    /\ fresh = Empty(0) /\ freshCap = 0 /\ next = 0

-----------------------------------------------------------------------------
(* dict_find_slot *)

\* Mutant: the probing of a key ends at the last slot of the table.
Probe_NoWrap(k, n, c) ==
    LET i == (hash[k] % c) + n IN IF i < c THEN i ELSE c - 1

\* The slot looked at in round n: the sum is below 2c, so that the mask is one
\* subtraction.
Probe(k, n, c) ==
    LET i == (hash[k] % c) + n IN IF i < c THEN i ELSE i - c

\* Slot s holds key k.
Holds(t, s, k) == t[s] # Free /\ t[s].key = k

\* The rounds that can end the search for k.
Stops(t, c, k) ==
    {n \in 0 .. c - 1 : t[Probe(k, n, c)] = Free \/ Holds(t, Probe(k, n, c), k)}

\* The search ends at slot s: the first stop or, in a full table, slot 0.
EndsAt(t, c, k, s) ==
    \/ Stops(t, c, k) = {} /\ s = 0
    \/ \E n \in Stops(t, c, k) :
          /\ \A m \in Stops(t, c, k) : n <= m
          /\ s = Probe(k, n, c)

-----------------------------------------------------------------------------
(* dict_rehash *)

\* The zeroed table.
StartRehash(c) ==
    /\ pc' = "rehash"
    /\ fresh' = Empty(c) /\ freshCap' = c /\ next' = 0

\* One round of the loop over the old table.
Move ==
    /\ pc = "rehash" /\ next < cap
    /\ \/ entries[next] = Free /\ UNCHANGED fresh
       \/ /\ entries[next] # Free
          /\ \E s \in 0 .. freshCap - 1 :
                /\ EndsAt(fresh, freshCap, entries[next].key, s)
                /\ fresh' = [fresh EXCEPT ![s] = entries[next]]
    /\ next' = next + 1
    /\ UNCHANGED <<hash, table, pc, call, freshCap>>

\* Mutant: the capacity stays that of the old table.
Install_OldCap ==
    /\ pc = "rehash" /\ next = cap
    /\ entries' = fresh
    /\ fresh' = Empty(0) /\ freshCap' = 0 /\ next' = 0
    /\ pc' = IF call = NoCall THEN "idle" ELSE "store"
    /\ UNCHANGED <<hash, cap, count, call>>

\* d->entries = new_entries
Install ==
    /\ pc = "rehash" /\ next = cap
    /\ cap' = freshCap /\ entries' = fresh
    /\ fresh' = Empty(0) /\ freshCap' = 0 /\ next' = 0
    /\ pc' = IF call = NoCall THEN "idle" ELSE "store"
    /\ UNCHANGED <<hash, count, call>>

-----------------------------------------------------------------------------
(* The operations *)

\* The table has no slots yet or would be more than 0.7 full.
NeedsRoom == cap = 0 \/ (count + 1) * 10 >= cap * 7

\* __kn_dict_set and __kn_set_add, up to the search.  When the allocation
\* fails the search takes the table as it is, and there may be none.
Set(k, v) ==
    /\ pc = "idle"
    /\ \/ /\ NeedsRoom
          /\ StartRehash(IF cap = 0 THEN MinCap ELSE 2 * cap)
          /\ call' = <<k, v>>
       \/ /\ NeedsRoom /\ "set" \in Failing
          /\ pc' = IF cap = 0 THEN "idle" ELSE "store"
          /\ call' = IF cap = 0 THEN NoCall ELSE <<k, v>>
          /\ UNCHANGED loop
       \/ /\ ~NeedsRoom
          /\ pc' = "store"
          /\ call' = <<k, v>>
          /\ UNCHANGED loop
    /\ UNCHANGED <<hash, table>>

\* The rest of __kn_dict_set.
Store ==
    /\ pc = "store"
    /\ \E s \in 0 .. cap - 1 :
          /\ EndsAt(entries, cap, call[1], s)
          /\ entries' = [entries EXCEPT ![s] = [key |-> call[1], value |-> call[2]]]
          /\ count' = IF Holds(entries, s, call[1]) THEN count ELSE count + 1
    /\ pc' = "idle" /\ call' = NoCall
    /\ UNCHANGED <<hash, cap, loop>>

\* Mutant: the slot is freed and the table is not rehashed.
Remove_Hole(k) ==
    /\ pc = "idle"
    /\ \E s \in 0 .. cap - 1 :
          /\ EndsAt(entries, cap, k, s) /\ Holds(entries, s, k)
          /\ entries' = [entries EXCEPT ![s] = Free]
    /\ count' = count - 1
    /\ UNCHANGED <<hash, cap, pc, call, loop>>

\* __kn_dict_remove and __kn_set_remove of a key that is found.
Remove(k) ==
    /\ pc = "idle"
    /\ \E s \in 0 .. cap - 1 :
          /\ EndsAt(entries, cap, k, s) /\ Holds(entries, s, k)
          /\ entries' = [entries EXCEPT ![s] = Free]
    /\ count' = IF count > 0 THEN count - 1 ELSE count
    /\ \/ StartRehash(cap)
       \/ "remove" \in Failing /\ UNCHANGED <<pc, loop>>
    /\ UNCHANGED <<hash, cap, call>>

\* __kn_set_clear
Clear ==
    /\ pc = "idle"
    /\ entries' = Empty(cap) /\ count' = 0
    /\ UNCHANGED <<hash, cap, pc, call, loop>>

Next == \/ \E k \in Key : Remove(k) \/ \E v \in Value : Set(k, v)
        \/ Store \/ Clear \/ Move \/ Install

Spec == Init /\ [][Next]_vars

-----------------------------------------------------------------------------

\* Both tables have the size they are said to have.
TypeOK ==
    /\ hash \in [Key -> Nat]
    /\ cap \in Nat /\ entries \in Table(cap) /\ count \in Nat
    /\ freshCap \in Nat /\ fresh \in Table(freshCap) /\ next \in 0 .. cap
    /\ pc \in {"idle", "rehash", "store"}
    /\ call \in Key \X Value \cup {NoCall}

Stored == {k \in Key : \E s \in 0 .. cap - 1 : Holds(entries, s, k)}

\* Between calls a search finds every key in the table, wherever collisions
\* have put it, also after other keys of its probe chain were removed.  (A key
\* that is not stored is never found: Holds looks at the slot.)
FindsStored ==
    pc = "idle" => \A k \in Stored : \A s \in 0 .. cap - 1 :
        EndsAt(entries, cap, k, s) => Holds(entries, s, k)

\* At the load NeedsRoom allows every search ends at a key or a free slot, so that no Set
\* overwrites slot 0 of a full table.
HasRoom == pc = "idle" /\ cap > 0 => \A k \in Key : Stops(entries, cap, k) # {}

\* The value a search for a stored key returns.
Map == [k \in Stored |->
          entries[CHOOSE s \in 0 .. cap - 1 : Holds(entries, s, k)].value]

Promise == INSTANCE Dictionary WITH map <- Map, size <- count

\* The table is the finite function its calls describe: no key is in it twice
\* or lost by a rehash, a Set reaches the entry it means and Count is the
\* number of keys.
ImplementsDictionary == Promise!Spec
=============================================================================
