-------------------------- MODULE HashTableProofs --------------------------
(***************************************************************************)
(* Proofs about HashTable for all sets of keys and values and every hash   *)
(* function: when no allocation fails and, as long as the keys are fewer   *)
(* than the slots of the smallest table, also when Set cannot grow it.     *)
(***************************************************************************)
EXTENDS HashTable, FiniteSetTheorems, TLAPS

\* What the failing calls may be.  A Remove that cannot rehash leaves keys out
\* of reach, and a Set that cannot grow the table fills it up.
Fits == /\ "remove" \notin Failing
        /\ "set" \in Failing => IsFiniteSet(Key) /\ Cardinality(Key) < MinCap

\* The search for the key in slot s gets to s: the rounds before find other
\* keys.
ReachedIn(t, c, s, n) ==
    /\ s = Probe(t[s].key, n, c)
    /\ \A m \in 0 .. n - 1 : LET p == Probe(t[s].key, m, c)
                             IN t[p] # Free /\ t[p].key # t[s].key

Reached(t, c) ==
    \A s \in 0 .. c - 1 : t[s] # Free => \E n \in 0 .. c - 1 : ReachedIn(t, c, s, n)

\* No key is in two slots.
Distinct(t, c) ==
    \A s1, s2 \in 0 .. c - 1 :
        t[s1] # Free /\ t[s2] # Free /\ t[s1].key = t[s2].key => s1 = s2

Used(t, c) == {s \in 0 .. c - 1 : t[s] # Free}

\* The entries of the old table that a rehash has passed.
Passed == {s \in Used(entries, cap) : s < next}

CallInv ==
    /\ pc = "idle" => call = NoCall
    /\ pc = "store" => call # NoCall

CountInv == count = Cardinality(Used(entries, cap))

RoomInv ==
    /\ pc = "idle" => count = 0 \/ count < cap
    /\ pc = "store" => count < cap /\ ("set" \notin Failing => count + 1 < cap)
    /\ pc = "rehash" /\ call = NoCall => count < freshCap
    /\ pc = "rehash" /\ call # NoCall => count + 1 < freshCap

\* A table that exists has the smallest size at least.
SizeInv ==
    /\ cap = 0 \/ cap >= MinCap
    /\ pc = "rehash" => freshCap >= MinCap

\* Outside of a rehash every stored key can be found.
ChainInv == pc # "rehash" => Reached(entries, cap)

\* A rehash has copied what it has passed, and nothing else.
CopyInv ==
    pc = "rehash" =>
        /\ Reached(fresh, freshCap)
        /\ Cardinality(Used(fresh, freshCap)) = Cardinality(Passed)
        /\ \A s \in Passed : \E r \in Used(fresh, freshCap) : fresh[r] = entries[s]
        /\ \A r \in Used(fresh, freshCap) : \E s \in Passed : fresh[r] = entries[s]

IInv == /\ TypeOK /\ CallInv /\ CountInv /\ RoomInv /\ SizeInv /\ ChainInv
        /\ Distinct(entries, cap) /\ CopyInv

-----------------------------------------------------------------------------
(* Probing *)

\* Every round looks at a slot of the table.
LEMMA ProbeType ==
    ASSUME hash \in [Key -> Nat], NEW k \in Key, NEW c \in Nat \ {0}, NEW n \in 0 .. c - 1
    PROVE  Probe(k, n, c) \in 0 .. c - 1
<1>1. hash[k] \in Nat
  OBVIOUS
<1>2. hash[k] % c \in 0 .. c - 1
  BY <1>1
<1> QED
  BY <1>2 DEF Probe

\* The rounds together look at every slot.
LEMMA ProbeAll ==
    ASSUME hash \in [Key -> Nat], NEW k \in Key, NEW c \in Nat \ {0}, NEW s \in 0 .. c - 1
    PROVE  \E n \in 0 .. c - 1 : Probe(k, n, c) = s
<1> DEFINE h == hash[k] % c
<1>1. h \in 0 .. c - 1
  <2>1. hash[k] \in Nat
    OBVIOUS
  <2> QED
    BY <2>1
<1> HIDE DEF h
<1>2. CASE s >= h
  <2>1. s - h \in 0 .. c - 1 /\ h + (s - h) = s
    BY <1>1, <1>2
  <2>2. Probe(k, s - h, c) = s
    BY <2>1 DEF Probe, h
  <2> QED
    BY <2>1, <2>2
<1>3. CASE s < h
  <2>1. s - h + c \in 0 .. c - 1 /\ h + (s - h + c) = s + c
    BY <1>1, <1>3
  <2>2. Probe(k, s - h + c, c) = s
    BY <2>1 DEF Probe, h
  <2> QED
    BY <2>1, <2>2
<1> QED
  BY <1>1, <1>2, <1>3

\* The slots in use are finitely many, and in a table with fewer of them than
\* slots every search has a stop.
LEMMA UsedFinite ==
    ASSUME NEW t, NEW c \in Nat
    PROVE  IsFiniteSet(Used(t, c)) /\ Cardinality(Used(t, c)) \in Nat
<1>1. IsFiniteSet(0 .. c - 1)
  BY FS_Interval
<1> QED
  BY <1>1, FS_Subset, FS_CardinalityType DEF Used

LEMMA StopsExist ==
    ASSUME hash \in [Key -> Nat], NEW k \in Key, NEW c \in Nat \ {0}, NEW t \in Table(c),
           Cardinality(Used(t, c)) < c
    PROVE  Stops(t, c, k) # {}
<1>1. Cardinality(0 .. c - 1) = c
  BY FS_Interval
<1>2. Used(t, c) # 0 .. c - 1
  BY <1>1
<1>3. PICK s \in 0 .. c - 1 : t[s] = Free
  BY <1>2 DEF Used
<1>4. PICK n \in 0 .. c - 1 : Probe(k, n, c) = s
  BY ProbeAll
<1> QED
  BY <1>3, <1>4 DEF Stops

\* Where all keys are reached, none is stored twice.
LEMMA ReachedDistinct ==
    ASSUME NEW c \in Nat, NEW t \in Table(c), Reached(t, c)
    PROVE  Distinct(t, c)
<1> SUFFICES ASSUME NEW s1 \in 0 .. c - 1, NEW s2 \in 0 .. c - 1,
                    t[s1] # Free, t[s2] # Free, t[s1].key = t[s2].key
             PROVE  s1 = s2
  BY DEF Distinct
<1>1. PICK n1 \in 0 .. c - 1 : ReachedIn(t, c, s1, n1)
  BY DEF Reached
<1>2. PICK n2 \in 0 .. c - 1 : ReachedIn(t, c, s2, n2)
  BY DEF Reached
<1>3. ~(n1 < n2)
  BY <1>1, <1>2 DEF ReachedIn
<1>4. ~(n2 < n1)
  BY <1>1, <1>2 DEF ReachedIn
<1>5. n1 = n2
  BY <1>3, <1>4
<1> QED
  BY <1>1, <1>2, <1>5 DEF ReachedIn

\* Then the slots in use are no more than the keys.
LEMMA FewUsed ==
    ASSUME NEW c \in Nat, NEW t \in Table(c), Distinct(t, c), IsFiniteSet(Key)
    PROVE  Cardinality(Used(t, c)) <= Cardinality(Key)
<1> DEFINE f == [s \in Used(t, c) |-> t[s].key]
<1>1. f \in [Used(t, c) -> Key]
  BY DEF Used, Table, Entry
<1>2. \A a, b \in Used(t, c) : f[a] = f[b] => a = b
  BY DEF Used, Distinct
<1>3. f \in Injection(Used(t, c), Key)
  BY <1>1, <1>2, Zenon DEF Injection, IsInjective
<1> QED
  BY <1>3, FS_Injection

\* A search for a stored key ends at its slot.
LEMMA FindsReached ==
    ASSUME hash \in [Key -> Nat], NEW c \in Nat \ {0}, NEW t \in Table(c), Reached(t, c),
           NEW k \in Key, NEW r \in 0 .. c - 1, Holds(t, r, k),
           NEW s \in 0 .. c - 1, EndsAt(t, c, k, s)
    PROVE  s = r
<1>1. PICK q \in 0 .. c - 1 : ReachedIn(t, c, r, q)
  BY DEF Reached, Holds
<1>2. Probe(k, q, c) = r
  BY <1>1 DEF ReachedIn, Holds
<1>3. q \in Stops(t, c, k)
  BY <1>2 DEF Stops
<1>4. PICK n \in Stops(t, c, k) :
         (\A m \in Stops(t, c, k) : n <= m) /\ s = Probe(k, n, c)
  BY <1>3 DEF EndsAt
<1>5. n <= q /\ n \in 0 .. c - 1
  BY <1>3, <1>4 DEF Stops
<1>6. ~(n < q)
  <2>1. SUFFICES ASSUME n < q PROVE FALSE
    OBVIOUS
  <2>2. n \in 0 .. q - 1
    BY <1>5, <2>1
  <2>3. t[Probe(k, n, c)] # Free /\ t[Probe(k, n, c)].key # k
    BY <1>1, <2>2 DEF ReachedIn, Holds
  <2> QED
    BY <1>4, <2>3 DEF Stops, Holds
<1> QED
  BY <1>2, <1>4, <1>5, <1>6

\* A search for a key that is not stored ends at a free slot, if there is one.
LEMMA EndsFree ==
    ASSUME NEW c \in Nat \ {0}, NEW t \in Table(c), NEW k \in Key, Stops(t, c, k) # {},
           NEW s \in 0 .. c - 1, EndsAt(t, c, k, s), ~Holds(t, s, k)
    PROVE  t[s] = Free
BY DEF EndsAt, Stops

\* Writing an entry where the search for its key ends keeps all keys reached.
LEMMA InsertReached ==
    ASSUME hash \in [Key -> Nat], NEW c \in Nat \ {0}, NEW t \in Table(c), Reached(t, c),
           NEW e \in Entry, Stops(t, c, e.key) # {},
           NEW s \in 0 .. c - 1, EndsAt(t, c, e.key, s)
    PROVE  Reached([t EXCEPT ![s] = e], c)
<1> DEFINE u == [t EXCEPT ![s] = e]
           k == e.key
<1>0. k \in Key /\ e # Free
  BY HashConstants DEF Entry
<1>1. u[s] = e /\ \A r \in 0 .. c - 1 : r # s => u[r] = t[r]
  BY DEF Table
<1>2. t[s] # Free => t[s].key = k
  BY <1>0, EndsFree DEF Holds
<1> HIDE DEF u
<1>3. \A p \in 0 .. c - 1 : t[p] # Free => u[p] # Free /\ u[p].key = t[p].key
  BY <1>0, <1>1, <1>2
<1>4. ASSUME NEW r \in 0 .. c - 1, u[r] # Free, r # s
      PROVE  \E n \in 0 .. c - 1 : ReachedIn(u, c, r, n)
  <2>1. t[r] # Free /\ u[r] = t[r] /\ t[r].key \in Key
    BY <1>1, <1>4 DEF Table, Entry
  <2>2. PICK n \in 0 .. c - 1 : ReachedIn(t, c, r, n)
    BY <2>1 DEF Reached
  <2>3. \A m \in 0 .. n - 1 : Probe(t[r].key, m, c) \in 0 .. c - 1
    BY <2>1, ProbeType
  <2> QED
    BY <1>3, <2>1, <2>2, <2>3 DEF ReachedIn
<1>5. \E n \in 0 .. c - 1 : ReachedIn(u, c, s, n)
  <2>1. PICK n \in Stops(t, c, k) :
           (\A m \in Stops(t, c, k) : n <= m) /\ s = Probe(k, n, c)
    BY DEF EndsAt
  <2>2. n \in 0 .. c - 1
    BY DEF Stops
  <2>3. ASSUME NEW m \in 0 .. n - 1
        PROVE  u[Probe(k, m, c)] # Free /\ u[Probe(k, m, c)].key # k
    <3>1. m \in 0 .. c - 1 /\ m < n
      BY <2>2
    <3>2. m \notin Stops(t, c, k)
      BY <2>1, <2>2, <3>1
    <3>3. t[Probe(k, m, c)] # Free /\ t[Probe(k, m, c)].key # k
      BY <3>1, <3>2 DEF Stops, Holds
    <3> QED
      BY <1>0, <1>3, <3>1, <3>3, ProbeType
  <2> QED
    BY <1>1, <2>1, <2>2, <2>3 DEF ReachedIn
<1>6. Reached(u, c)
  BY <1>4, <1>5 DEF Reached
<1> QED
  BY <1>6 DEF u

\* What the write does to the slots in use.
LEMMA InsertUsed ==
    ASSUME NEW c \in Nat, NEW t \in Table(c), NEW e \in Entry, NEW s \in 0 .. c - 1
    PROVE  /\ [t EXCEPT ![s] = e] \in Table(c)
           /\ Used([t EXCEPT ![s] = e], c) = Used(t, c) \cup {s}
           /\ Cardinality(Used([t EXCEPT ![s] = e], c)) =
                 IF t[s] = Free THEN Cardinality(Used(t, c)) + 1
                                ELSE Cardinality(Used(t, c))
<1>1. e # Free
  BY HashConstants DEF Entry
<1>2. [t EXCEPT ![s] = e] \in Table(c)
  BY DEF Table
<1>3. Used([t EXCEPT ![s] = e], c) = Used(t, c) \cup {s}
  BY <1>1 DEF Used, Table
<1>4. s \in Used(t, c) <=> t[s] # Free
  BY DEF Used
<1>5. Cardinality(Used(t, c) \cup {s}) =
         IF s \in Used(t, c) THEN Cardinality(Used(t, c)) ELSE Cardinality(Used(t, c)) + 1
  BY UsedFinite, FS_AddElement
<1> QED
  BY <1>2, <1>3, <1>4, <1>5

\* An empty table.
LEMMA EmptyFacts ==
    ASSUME NEW c \in Nat
    PROVE  /\ Empty(c) \in Table(c) /\ Used(Empty(c), c) = {}
           /\ Cardinality(Used(Empty(c), c)) = 0
           /\ Reached(Empty(c), c) /\ Distinct(Empty(c), c)
BY FS_EmptySet DEF Empty, Table, Used, Reached, Distinct

-----------------------------------------------------------------------------
(* The invariant *)

\* The initial state satisfies the invariant.
LEMMA InitInv == Init => IInv
<1> SUFFICES ASSUME Init PROVE IInv
  OBVIOUS
<1>1. TypeOK
  <2>1. Empty(0) \in Table(0)
    BY EmptyFacts
  <2>2. hash \in [Key -> Nat]
    BY HashConstants DEF Init
  <2>3. cap = 0 /\ count = 0 /\ freshCap = 0 /\ next = 0 /\ 0 \in 0 .. 0
    BY DEF Init
  <2>4. entries \in Table(cap) /\ fresh \in Table(freshCap)
    BY <2>1, <2>3 DEF Init
  <2> QED
    BY <2>2, <2>3, <2>4 DEF Init, TypeOK
<1>2. CountInv /\ Distinct(entries, cap) /\ ChainInv
  BY EmptyFacts DEF Init, CountInv, ChainInv
<1>3. CallInv /\ RoomInv /\ SizeInv /\ CopyInv
  BY DEF Init, CallInv, RoomInv, SizeInv, CopyInv
<1> QED
  BY <1>1, <1>2, <1>3 DEF IInv

\* The start of a rehash into c slots establishes what its loop needs.
LEMMA StartCopy ==
    ASSUME TypeOK, NEW c \in Nat, StartRehash(c), UNCHANGED <<hash, table>>
    PROVE  /\ freshCap' = c /\ fresh' \in Table(c) /\ next' = 0
           /\ CopyInv'
<1>1. fresh' = Empty(c) /\ freshCap' = c /\ next' = 0
  BY DEF StartRehash
<1>2. Passed' = {}
  BY <1>1 DEF Passed, Used, table, TypeOK
<1>3. Used(fresh', freshCap') = {} /\ fresh' \in Table(c)
  BY <1>1, EmptyFacts
<1>4. Reached(fresh, freshCap)'
  BY <1>1 DEF Reached, Empty
<1> QED
  BY <1>1, <1>2, <1>3, <1>4 DEF CopyInv

\* Beginning a Set.
LEMMA SetInv ==
    ASSUME IInv, NEW k \in Key, NEW v \in Value, Set(k, v)
    PROVE  IInv'
<1> USE DEF IInv
<1>1. UNCHANGED <<hash, cap, entries, count>> /\ pc = "idle"
  BY DEF Set, table
<1>2. /\ count \in Nat /\ cap \in Nat /\ (count = 0 \/ count < cap)
      /\ cap = 0 \/ cap >= MinCap
  BY <1>1 DEF TypeOK, RoomInv, SizeInv
<1>3. CountInv' /\ Distinct(entries, cap)'
  BY <1>1 DEF CountInv, Distinct
<1>4. <<k, v>> \in Key \X Value /\ <<k, v>> # NoCall
  BY HashConstants
<1>5. CASE /\ NeedsRoom /\ call' = <<k, v>>
           /\ StartRehash(IF cap = 0 THEN MinCap ELSE 2 * cap)
  <2> DEFINE c == IF cap = 0 THEN MinCap ELSE 2 * cap
  <2>1. StartRehash(c) /\ pc' = "rehash"
    BY <1>5 DEF StartRehash
  <2>2. c \in Nat /\ count + 1 < c /\ c >= MinCap
    BY <1>2 DEF MinCap
  <2> HIDE DEF c
  <2>3. freshCap' = c /\ fresh' \in Table(c) /\ next' = 0 /\ CopyInv'
    BY <1>1, <2>1, <2>2, StartCopy DEF table
  <2>4. TypeOK'
    BY <1>1, <1>4, <1>5, <2>1, <2>2, <2>3 DEF TypeOK
  <2>5. RoomInv' /\ SizeInv' /\ CallInv' /\ ChainInv'
    BY <1>1, <1>2, <1>4, <1>5, <2>1, <2>2, <2>3 DEF RoomInv, SizeInv, CallInv, ChainInv
  <2> QED
    BY <1>3, <2>3, <2>4, <2>5
<1>6. CASE /\ pc' = "store" /\ call' = <<k, v>> /\ UNCHANGED loop
           /\ cap # 0 /\ ("set" \notin Failing => ~NeedsRoom)
  <2>1. count < cap /\ ("set" \notin Failing => count + 1 < cap)
    BY <1>2, <1>6 DEF NeedsRoom
  <2>2. TypeOK'
    BY <1>1, <1>4, <1>6 DEF TypeOK, loop
  <2>3. CallInv' /\ RoomInv' /\ SizeInv' /\ CopyInv'
    BY <1>1, <1>2, <1>4, <1>6, <2>1 DEF CallInv, RoomInv, SizeInv, CopyInv
  <2>4. ChainInv'
    BY <1>1, <1>6 DEF ChainInv, Reached, ReachedIn, Probe
  <2> QED
    BY <1>3, <2>2, <2>3, <2>4
<1>7. CASE pc' = "idle" /\ call' = NoCall /\ UNCHANGED loop
  <2>1. TypeOK' /\ CallInv' /\ RoomInv' /\ SizeInv' /\ CopyInv'
    BY <1>1, <1>2, <1>7 DEF TypeOK, CallInv, RoomInv, SizeInv, CopyInv, loop
  <2>2. ChainInv'
    BY <1>1, <1>7 DEF ChainInv, Reached, ReachedIn, Probe
  <2> QED
    BY <1>3, <2>1, <2>2
<1> QED
  BY <1>5, <1>6, <1>7 DEF Set, NeedsRoom

\* What writing the new entry does.
LEMMA StoreFacts ==
    ASSUME IInv, NEW s \in 0 .. cap - 1, pc = "store",
           EndsAt(entries, cap, call[1], s)
    PROVE  /\ [key |-> call[1], value |-> call[2]] \in Entry
           /\ Stops(entries, cap, call[1]) # {}
           /\ Holds(entries, s, call[1]) <=> entries[s] # Free
           /\ ~Holds(entries, s, call[1]) =>
                 \A r \in 0 .. cap - 1 : ~Holds(entries, r, call[1])
<1> USE DEF IInv
<1>1. call[1] \in Key /\ call[2] \in Value
  BY DEF TypeOK, CallInv
<1>2. [key |-> call[1], value |-> call[2]] \in Entry
  BY <1>1 DEF Entry
<1>3. cap \in Nat \ {0} /\ entries \in Table(cap) /\ count < cap
  BY DEF TypeOK, RoomInv
<1>4. Stops(entries, cap, call[1]) # {}
  BY <1>1, <1>3, StopsExist DEF CountInv, TypeOK
<1>5. ~Holds(entries, s, call[1]) => entries[s] = Free
  BY <1>1, <1>3, <1>4, EndsFree
<1>6. \A r \in 0 .. cap - 1 : Holds(entries, r, call[1]) => s = r
  BY <1>1, <1>3, FindsReached DEF TypeOK, ChainInv
<1> QED
  BY <1>2, <1>4, <1>5, <1>6 DEF Holds

\* The rest of a Set.
LEMMA StoreInv == ASSUME Fits, IInv, Store PROVE IInv'
<1> USE DEF IInv
<1>1. PICK s \in 0 .. cap - 1 :
        /\ EndsAt(entries, cap, call[1], s)
        /\ entries' = [entries EXCEPT ![s] = [key |-> call[1], value |-> call[2]]]
        /\ count' = IF Holds(entries, s, call[1]) THEN count ELSE count + 1
  BY DEF Store
<1>2. pc = "store" /\ pc' = "idle" /\ call' = NoCall /\ UNCHANGED <<hash, cap, loop>>
  BY DEF Store
<1> DEFINE e == [key |-> call[1], value |-> call[2]]
<1>3. e \in Entry /\ e.key = call[1]
  BY <1>1, <1>2, StoreFacts
<1>4. /\ Stops(entries, cap, call[1]) # {}
      /\ Holds(entries, s, call[1]) <=> entries[s] # Free
  BY <1>1, <1>2, StoreFacts
<1>5. /\ cap \in Nat \ {0} /\ entries \in Table(cap) /\ count \in Nat /\ count < cap
      /\ "set" \notin Failing => count + 1 < cap
      /\ hash \in [Key -> Nat] /\ cap >= MinCap
  BY <1>2 DEF TypeOK, RoomInv, SizeInv
<1> HIDE DEF e
<1>6. entries' \in Table(cap) /\ Cardinality(Used(entries', cap)) = count'
  <2>1. entries' = [entries EXCEPT ![s] = e]
    BY <1>1 DEF e
  <2>2. /\ entries' \in Table(cap)
        /\ Cardinality(Used(entries', cap)) = IF entries[s] = Free
               THEN Cardinality(Used(entries, cap)) + 1 ELSE Cardinality(Used(entries, cap))
    BY <1>3, <1>5, <2>1, InsertUsed
  <2> QED
    BY <1>1, <1>4, <2>2 DEF CountInv
<1>7. Reached(entries', cap)
  BY <1>1, <1>2, <1>3, <1>4, <1>5, InsertReached DEF e, ChainInv
<1>8. TypeOK'
  BY <1>1, <1>2, <1>5, <1>6 DEF TypeOK, loop
<1>9. ChainInv'
  <2>1. Reached(entries, cap)'
    BY <1>2, <1>7 DEF Reached, ReachedIn, Probe
  <2> QED
    BY <2>1 DEF ChainInv
<1>10. Distinct(entries', cap)
  BY <1>5, <1>6, <1>7, ReachedDistinct
<1>11. count' < cap
  <2>1. CASE "set" \notin Failing
    BY <1>1, <1>5, <2>1
  <2>2. CASE "set" \in Failing
    <3>1. IsFiniteSet(Key) /\ Cardinality(Key) < MinCap
      BY <2>2 DEF Fits
    <3>2. count' <= Cardinality(Key)
      BY <1>5, <1>6, <1>10, <3>1, FewUsed
    <3> QED
      BY <1>1, <1>5, <3>1, <3>2, FS_CardinalityType DEF MinCap
  <2> QED
    BY <2>1, <2>2
<1>12. CallInv' /\ CountInv' /\ RoomInv' /\ SizeInv' /\ CopyInv'
  BY <1>1, <1>2, <1>5, <1>6, <1>11 DEF CallInv, CountInv, RoomInv, SizeInv, CopyInv
<1>13. Distinct(entries, cap)'
  BY <1>2, <1>10
<1> QED
  BY <1>8, <1>9, <1>12, <1>13

\* Removing a key leaves a hole for the rehash to repair.
LEMMA RemoveInv ==
    ASSUME "remove" \notin Failing, IInv, NEW k \in Key, Remove(k)
    PROVE  IInv'
<1> USE DEF IInv
<1>1. PICK s \in 0 .. cap - 1 :
         Holds(entries, s, k) /\ entries' = [entries EXCEPT ![s] = Free]
  BY DEF Remove
<1>2. /\ pc = "idle" /\ pc' = "rehash" /\ call = NoCall
      /\ UNCHANGED <<hash, cap, call>>
      /\ count' = IF count > 0 THEN count - 1 ELSE count
      /\ fresh' = Empty(cap) /\ freshCap' = cap /\ next' = 0
  BY DEF Remove, StartRehash, CallInv
<1>3. cap \in Nat /\ entries \in Table(cap) /\ count \in Nat /\ hash \in [Key -> Nat]
  BY DEF TypeOK
<1>4. entries' \in Table(cap) /\ Used(entries', cap) = Used(entries, cap) \ {s}
  BY <1>1, <1>3 DEF Table, Used
<1>5. s \in Used(entries, cap)
  BY <1>1 DEF Used, Holds
<1>6. Cardinality(Used(entries', cap)) = count - 1 /\ count - 1 \in Nat /\ count < cap
  <2>1. Cardinality(Used(entries', cap)) = count - 1
    <3>1. IsFiniteSet(Used(entries, cap))
      BY <1>3, UsedFinite
    <3>2. Cardinality(Used(entries, cap) \ {s}) = Cardinality(Used(entries, cap)) - 1
      BY <1>5, <3>1, FS_RemoveElement
    <3> QED
      BY <1>4, <3>2 DEF CountInv
  <2>2. Cardinality(Used(entries', cap)) \in Nat
    BY <1>3, UsedFinite
  <2> QED
    BY <1>2, <1>3, <2>1, <2>2 DEF RoomInv
<1>7. Distinct(entries, cap)'
  BY <1>1, <1>2, <1>3 DEF Distinct, Table
<1>8. fresh' \in Table(cap) /\ Reached(fresh', cap) /\ Used(fresh', cap) = {}
  BY <1>2, <1>3, EmptyFacts
<1>9. Passed' = {}
  BY <1>2, <1>3 DEF Passed, Used
<1>10. TypeOK'
  BY <1>2, <1>3, <1>4, <1>6, <1>8 DEF TypeOK
<1>11. CallInv' /\ CountInv' /\ RoomInv' /\ ChainInv'
  BY <1>2, <1>3, <1>6 DEF CallInv, CountInv, RoomInv, ChainInv
<1>12. SizeInv'
  BY <1>1, <1>2, <1>3, <1>6 DEF SizeInv
<1>13. CopyInv'
  <2>1. Reached(fresh, freshCap)'
    BY <1>2 DEF Reached, Empty
  <2> QED
    BY <1>2, <1>8, <1>9, <2>1 DEF CopyInv
<1> QED
  BY <1>7, <1>10, <1>11, <1>12, <1>13

\* Emptying the table.
LEMMA ClearInv == ASSUME IInv, Clear PROVE IInv'
<1> USE DEF IInv
<1>1. /\ pc = "idle" /\ entries' = Empty(cap) /\ count' = 0
      /\ UNCHANGED <<hash, cap, pc, call, loop>>
  BY DEF Clear
<1>2. cap \in Nat
  BY DEF TypeOK
<1>3. /\ entries' \in Table(cap) /\ Cardinality(Used(entries', cap)) = 0
      /\ Reached(entries', cap) /\ Distinct(entries', cap)
  BY <1>1, <1>2, EmptyFacts
<1>4. TypeOK'
  BY <1>1, <1>3 DEF TypeOK, loop
<1> QED
  <2>1. Reached(entries, cap)'
    BY <1>1 DEF Reached, Empty
  <2>2. CallInv' /\ CountInv' /\ RoomInv' /\ SizeInv' /\ ChainInv' /\ CopyInv'
    BY <1>1, <1>3, <2>1 DEF CallInv, CountInv, RoomInv, SizeInv, ChainInv, CopyInv
  <2>3. Distinct(entries, cap)'
    BY <1>1, <1>3
  <2> QED
    BY <1>4, <2>2, <2>3

\* One round of the loop.
LEMMA MoveInv == ASSUME IInv, Move PROVE IInv'
<1> USE DEF IInv
<1>1. /\ pc = "rehash" /\ next < cap /\ next' = next + 1
      /\ UNCHANGED <<hash, cap, entries, count, pc, call, freshCap>>
  BY DEF Move, table
<1>2. /\ cap \in Nat /\ entries \in Table(cap) /\ count \in Nat /\ hash \in [Key -> Nat]
      /\ freshCap \in Nat /\ fresh \in Table(freshCap) /\ next \in 0 .. cap - 1
  BY <1>1 DEF TypeOK
<1>3. CallInv' /\ CountInv' /\ RoomInv' /\ SizeInv' /\ ChainInv' /\ Distinct(entries, cap)'
  BY <1>1 DEF CallInv, CountInv, RoomInv, SizeInv, ChainInv, Distinct
<1>4. CASE entries[next] = Free
  <2>1. fresh' = fresh
    BY <1>4 DEF Move
  <2>2. Passed' = Passed
    BY <1>1, <1>2, <1>4 DEF Passed, Used
  <2>3. TypeOK'
    BY <1>1, <1>2, <2>1 DEF TypeOK
  <2>4. CopyInv'
    <3>1. Reached(fresh, freshCap)'
      BY <1>1, <2>1 DEF CopyInv, Reached, ReachedIn, Probe
    <3> QED
      BY <1>1, <2>1, <2>2, <3>1 DEF CopyInv
  <2> QED
    BY <1>3, <2>3, <2>4
<1>5. CASE entries[next] # Free
  <2> DEFINE e == entries[next]
  <2>1. PICK s \in 0 .. freshCap - 1 :
           EndsAt(fresh, freshCap, e.key, s) /\ fresh' = [fresh EXCEPT ![s] = e]
    BY <1>5 DEF Move
  <2>2. e \in Entry /\ e.key \in Key
    BY <1>2, <1>5 DEF Table, Entry
  <2>3. Passed' = Passed \cup {next} /\ next \notin Passed
    BY <1>1, <1>2, <1>5 DEF Passed, Used
  <2>4. IsFiniteSet(Passed) /\ Cardinality(Passed') = Cardinality(Passed) + 1
    <3>1. IsFiniteSet(Passed)
      BY <1>2, UsedFinite, FS_Subset DEF Passed
    <3> QED
      BY <2>3, <3>1, FS_AddElement
  <2>5. Cardinality(Passed) <= count /\ count < freshCap /\ freshCap \in Nat \ {0}
    <3>1. Cardinality(Passed) <= count /\ Cardinality(Passed) \in Nat
      BY <1>2, <2>4, UsedFinite, FS_Subset, FS_CardinalityType DEF Passed, CountInv
    <3> QED
      BY <1>1, <1>2, <3>1 DEF RoomInv
  <2>6. Stops(fresh, freshCap, e.key) # {}
    <3>1. Cardinality(Used(fresh, freshCap)) < freshCap
      BY <1>1, <1>2, <2>4, <2>5, FS_CardinalityType DEF CopyInv
    <3> QED
      BY <1>2, <2>2, <2>5, <3>1, StopsExist
  <2>7. \A r \in 0 .. freshCap - 1 : ~Holds(fresh, r, e.key)
    <3>1. SUFFICES ASSUME NEW r \in 0 .. freshCap - 1, Holds(fresh, r, e.key) PROVE FALSE
      OBVIOUS
    <3>2. PICK q \in Passed : fresh[r] = entries[q]
      BY <1>1, <3>1 DEF CopyInv, Used, Holds
    <3>3. q \in 0 .. cap - 1 /\ q # next /\ entries[q] # Free /\ entries[q].key = e.key
      BY <1>2, <3>1, <3>2 DEF Passed, Used, Holds
    <3> QED
      BY <1>2, <1>5, <3>3 DEF Distinct
  <2>8. fresh[s] = Free
    BY <1>2, <2>1, <2>2, <2>5, <2>6, <2>7, EndsFree
  <2> HIDE DEF e
  <2>9. Reached(fresh', freshCap)
    BY <1>1, <1>2, <2>1, <2>2, <2>5, <2>6, InsertReached DEF CopyInv
  <2>10. /\ fresh' \in Table(freshCap) /\ Used(fresh', freshCap) = Used(fresh, freshCap) \cup {s}
         /\ Cardinality(Used(fresh', freshCap)) = Cardinality(Used(fresh, freshCap)) + 1
    BY <1>2, <2>1, <2>2, <2>8, InsertUsed
  <2>11. fresh'[s] = e /\ \A r \in Used(fresh, freshCap) : r # s /\ fresh'[r] = fresh[r]
    BY <1>2, <2>1, <2>8 DEF Used, Table
  <2>12. \A q \in Passed' : \E r \in Used(fresh', freshCap) : fresh'[r] = entries'[q]
    BY <1>1, <2>3, <2>10, <2>11 DEF CopyInv, e
  <2>13. \A r \in Used(fresh', freshCap) : \E q \in Passed' : fresh'[r] = entries'[q]
    BY <1>1, <2>3, <2>10, <2>11 DEF CopyInv, e
  <2>14. CopyInv'
    <3>1. Reached(fresh, freshCap)'
      BY <1>1, <2>9 DEF Reached, ReachedIn, Probe
    <3> QED
      BY <1>1, <2>4, <2>10, <2>12, <2>13, <3>1 DEF CopyInv
  <2>15. TypeOK'
    BY <1>1, <1>2, <2>10 DEF TypeOK
  <2> QED
    BY <1>3, <2>14, <2>15
<1> QED
  BY <1>4, <1>5

\* The end of a rehash.
LEMMA InstallInv == ASSUME IInv, Install PROVE IInv'
<1> USE DEF IInv
<1>1. /\ pc = "rehash" /\ next = cap
      /\ cap' = freshCap /\ entries' = fresh /\ UNCHANGED <<hash, count, call>>
      /\ fresh' = Empty(0) /\ freshCap' = 0 /\ next' = 0
      /\ pc' = IF call = NoCall THEN "idle" ELSE "store"
  BY DEF Install
<1>2. freshCap \in Nat /\ fresh \in Table(freshCap) /\ cap \in Nat
  BY DEF TypeOK
<1>3. Passed = Used(entries, cap)
  BY <1>1, <1>2 DEF Passed, Used
<1>4. CountInv'
  BY <1>1, <1>3 DEF CountInv, CopyInv
<1>5. Reached(entries, cap)' /\ Distinct(entries, cap)'
  <2>1. Distinct(entries', cap')
    BY <1>1, <1>2, ReachedDistinct DEF CopyInv
  <2>2. Reached(entries, cap)'
    BY <1>1 DEF CopyInv, Reached, ReachedIn, Probe
  <2> QED
    BY <2>1, <2>2
<1>6. TypeOK'
  BY <1>1, <1>2, EmptyFacts DEF TypeOK
<1>7. CallInv' /\ RoomInv' /\ SizeInv'
  <2>1. count \in Nat
    BY DEF TypeOK
  <2> QED
    BY <1>1, <1>2, <2>1 DEF CallInv, RoomInv, SizeInv
<1> QED
  BY <1>1, <1>4, <1>5, <1>6, <1>7 DEF ChainInv, CopyInv

\* A step that changes nothing.
LEMMA StutterInv == ASSUME IInv, UNCHANGED vars PROVE IInv'
<1>1. UNCHANGED <<hash, cap, entries, count, pc, call, fresh, freshCap, next>>
  BY DEF vars, table, loop
<1>2. TypeOK' /\ CallInv' /\ RoomInv' /\ SizeInv'
  BY <1>1 DEF IInv, TypeOK, CallInv, RoomInv, SizeInv
<1>3. CountInv' /\ Distinct(entries, cap)'
  BY <1>1 DEF IInv, CountInv, Distinct
<1>4. Reached(entries, cap)' = Reached(entries, cap)
  BY <1>1 DEF Reached, ReachedIn, Probe
<1>5. Reached(fresh, freshCap)' = Reached(fresh, freshCap)
  BY <1>1 DEF Reached, ReachedIn, Probe
<1>6. ChainInv'
  BY <1>1, <1>4 DEF IInv, ChainInv
<1>7. Passed' = Passed
  BY <1>1 DEF Passed
<1>8. CopyInv'
  BY <1>1, <1>5, <1>7 DEF IInv, CopyInv
<1> QED
  BY <1>2, <1>3, <1>6, <1>8 DEF IInv

\* The invariant of the table: what is stored is reached, also by a rehash.
THEOREM Invariance == ASSUME Fits PROVE Spec => []IInv
<1>1. "remove" \notin Failing
  BY DEF Fits
<1>2. IInv /\ [Next]_vars => IInv'
  BY <1>1, SetInv, StoreInv, RemoveInv, ClearInv, MoveInv, InstallInv, StutterInv DEF Next
<1> QED
  BY <1>2, InitInv, PTL DEF Spec

\* The types of the tables and of the call under way.
THEOREM TypeCorrect == ASSUME Fits PROVE Spec => []TypeOK
<1>1. IInv => TypeOK
  BY DEF IInv
<1> QED
  BY <1>1, Invariance, PTL

\* A search finds every key in the table, whatever the collisions.
THEOREM SearchCorrect == ASSUME Fits PROVE Spec => []FindsStored
<1>1. IInv => FindsStored
  <2> SUFFICES ASSUME IInv, pc = "idle", NEW k \in Key,
                      NEW r \in 0 .. cap - 1, Holds(entries, r, k),
                      NEW s \in 0 .. cap - 1, EndsAt(entries, cap, k, s)
               PROVE  Holds(entries, s, k)
    BY DEF FindsStored, Stored
  <2>1. cap \in Nat \ {0} /\ entries \in Table(cap) /\ hash \in [Key -> Nat]
    BY DEF IInv, TypeOK
  <2> QED
    BY <2>1, FindsReached DEF IInv, ChainInv
<1> QED
  BY <1>1, Invariance, PTL

\* No search runs through a full table.
THEOREM RoomLeft == ASSUME Fits PROVE Spec => []HasRoom
<1>1. IInv => HasRoom
  <2> SUFFICES ASSUME IInv, pc = "idle", cap > 0, NEW k \in Key
               PROVE  Stops(entries, cap, k) # {}
    BY DEF HasRoom
  <2>1. cap \in Nat \ {0} /\ entries \in Table(cap) /\ hash \in [Key -> Nat] /\ count < cap
    BY DEF IInv, TypeOK, RoomInv
  <2> QED
    BY <2>1, StopsExist DEF IInv, CountInv
<1> QED
  BY <1>1, Invariance, PTL

-----------------------------------------------------------------------------
(* The table implements the dictionary *)

\* Count is the number of keys, and the map is what the slots say.
MapInv ==
    /\ Cardinality(Stored) = count
    /\ \A k \in Key : \A s \in 0 .. cap - 1 :
          Holds(entries, s, k) => k \in Stored /\ Map[k] = entries[s].value

\* The instance counts as this module does.
LEMMA SameCardinality == ASSUME NEW S PROVE Promise!Cardinality(S) = Cardinality(S)
BY DEF Promise!Cardinality, Cardinality, Promise!IsFiniteSet, IsFiniteSet

\* Slots in use and keys correspond one to one.
LEMMA MapFacts == IInv => MapInv
<1> SUFFICES ASSUME IInv PROVE MapInv
  OBVIOUS
<1>1. /\ cap \in Nat /\ entries \in Table(cap) /\ Distinct(entries, cap)
      /\ count = Cardinality(Used(entries, cap))
  BY DEF IInv, TypeOK, CountInv
<1>2. \A s \in Used(entries, cap) : entries[s].key \in Stored
  BY <1>1 DEF Used, Stored, Holds, Table, Entry
<1>3. Cardinality(Stored) = count
  <2> DEFINE f == [s \in Used(entries, cap) |-> entries[s].key]
  <2>1. f \in Injection(Used(entries, cap), Stored)
    <3>1. f \in [Used(entries, cap) -> Stored]
      BY <1>2
    <3>2. \A a, b \in Used(entries, cap) : f[a] = f[b] => a = b
      BY <1>1 DEF Used, Distinct
    <3> QED
      BY <3>1, <3>2, Zenon DEF Injection, IsInjective
  <2>2. f \in Surjection(Used(entries, cap), Stored)
    BY <1>2 DEF Surjection, Used, Stored, Holds
  <2>3. ExistsBijection(Used(entries, cap), Stored)
    BY <2>1, <2>2 DEF ExistsBijection, Bijection
  <2> QED
    BY <1>1, <2>3, UsedFinite, FS_Bijection
<1>4. ASSUME NEW k \in Key, NEW s \in 0 .. cap - 1, Holds(entries, s, k)
      PROVE  k \in Stored /\ Map[k] = entries[s].value
  <2>1. k \in Stored
    BY <1>4 DEF Stored
  <2>2. \A r \in 0 .. cap - 1 : Holds(entries, r, k) => r = s
    BY <1>1, <1>4 DEF Distinct, Holds
  <2>3. (CHOOSE r \in 0 .. cap - 1 : Holds(entries, r, k)) = s
    BY <1>4, <2>2
  <2> QED
    BY <2>1, <2>3 DEF Map
<1> QED
  BY <1>3, <1>4 DEF MapInv

\* The map does not change when the keys stay in slots with their values.
LEMMA SameMap ==
    ASSUME MapInv, MapInv', count' = count,
           \A k \in Key : k \in Stored <=> k \in Stored',
           \A k \in Stored : \E s \in 0 .. cap - 1 : \E r \in 0 .. cap' - 1 :
               Holds(entries, s, k) /\ Holds(entries', r, k) /\ entries'[r].value = entries[s].value
    PROVE  UNCHANGED <<Map, count>>
<1>1. Stored' = Stored /\ Stored \subseteq Key
  BY DEF Stored
<1>2. ASSUME NEW k \in Stored PROVE Map'[k] = Map[k]
  <2>1. PICK s \in 0 .. cap - 1, r \in 0 .. cap' - 1 :
           Holds(entries, s, k) /\ Holds(entries', r, k) /\ entries'[r].value = entries[s].value
    OBVIOUS
  <2>2. k \in Key
    BY <1>1
  <2>3. Map[k] = entries[s].value
    BY <2>1, <2>2 DEF MapInv
  <2>4. Map'[k] = entries'[r].value
    BY <2>1, <2>2 DEF MapInv, Holds
  <2> QED
    BY <2>1, <2>3, <2>4
<1>3. /\ Map = [k \in Stored |-> Map[k]]
      /\ Map' = [k \in Stored' |-> Map'[k]]
  BY DEF Map
<1>4. Map' = Map
  BY <1>1, <1>2, <1>3
<1> QED
  BY <1>4

\* The initial table is the empty function.
LEMMA InitRefines == Init => Promise!Init
<1> SUFFICES ASSUME Init PROVE Promise!Init
  OBVIOUS
<1>1. Stored = {} /\ count = 0
  BY DEF Init, Stored
<1> QED
  BY <1>1 DEF Map, Promise!Init

\* A write is the Set of the dictionary.
LEMMA StoreRefines ==
    ASSUME IInv, MapInv, MapInv', Store
    PROVE  \E k \in Key, v \in Value : Promise!Set(k, v)
<1>1. PICK s \in 0 .. cap - 1 :
        /\ EndsAt(entries, cap, call[1], s)
        /\ entries' = [entries EXCEPT ![s] = [key |-> call[1], value |-> call[2]]]
  BY DEF Store
<1>2. pc = "store" /\ cap' = cap
  BY DEF Store
<1> DEFINE k == call[1]
           v == call[2]
<1>3. k \in Key /\ v \in Value /\ cap \in Nat /\ entries \in Table(cap)
  BY <1>2 DEF IInv, TypeOK, CallInv
<1>4. [key |-> k, value |-> v] # Free /\ (entries[s] # Free => entries[s].key = k)
  BY <1>1, <1>2, StoreFacts, HashConstants DEF Entry, Holds
<1> HIDE DEF k, v
<1>5. entries'[s] = [key |-> k, value |-> v]
      /\ \A r \in 0 .. cap - 1 : r # s => entries'[r] = entries[r]
  BY <1>1, <1>3 DEF Table, k, v
<1>6. Holds(entries', s, k) /\ entries'[s].value = v
  BY <1>4, <1>5 DEF Holds
<1>7. \A x \in Key : \A r \in 0 .. cap - 1 :
         x # k => (Holds(entries', r, x) <=> Holds(entries, r, x))
  BY <1>4, <1>5 DEF Holds
<1>8. Stored' = Stored \cup {k}
  BY <1>2, <1>3, <1>6, <1>7 DEF Stored, Holds
<1>9. Map'[k] = v
  BY <1>2, <1>3, <1>6 DEF MapInv, Holds
<1>10. ASSUME NEW x \in Stored, x # k PROVE Map'[x] = Map[x]
  <2>1. PICK r \in 0 .. cap - 1 : Holds(entries, r, x)
    BY DEF Stored
  <2>2. x \in Key /\ r # s
    BY <1>4, <1>10, <2>1 DEF Stored, Holds
  <2>3. Map[x] = entries[r].value
    BY <2>1, <2>2 DEF MapInv
  <2>4. Holds(entries', r, x) /\ entries'[r].value = entries[r].value
    BY <1>5, <1>7, <1>10, <2>1, <2>2
  <2> QED
    BY <1>2, <2>2, <2>3, <2>4 DEF MapInv, Holds
<1>11. /\ DOMAIN Map = Stored
       /\ Map' = [x \in Stored' |-> Map'[x]]
  BY DEF Map
<1>12. Map' = [x \in DOMAIN Map \cup {k} |-> IF x = k THEN v ELSE Map[x]]
  BY <1>8, <1>9, <1>10, <1>11
<1>13. count' = Cardinality(DOMAIN [x \in DOMAIN Map \cup {k} |-> IF x = k THEN v ELSE Map[x]])
  BY <1>8, <1>11 DEF MapInv
<1>14. Promise!Set(k, v)
  BY <1>12, <1>13, SameCardinality DEF Promise!Set, Promise!Becomes
<1> QED
  BY <1>3, <1>14

\* The hole a Remove makes is the Remove of the dictionary.
LEMMA RemoveRefines ==
    ASSUME IInv, MapInv, MapInv', NEW k \in Key, Remove(k)
    PROVE  Promise!Remove(k)
<1>1. PICK s \in 0 .. cap - 1 :
         Holds(entries, s, k) /\ entries' = [entries EXCEPT ![s] = Free]
  BY DEF Remove
<1>2. cap' = cap /\ cap \in Nat /\ entries \in Table(cap) /\ Distinct(entries, cap)
  BY DEF Remove, IInv, TypeOK
<1>3. entries'[s] = Free /\ \A r \in 0 .. cap - 1 : r # s => entries'[r] = entries[r]
  BY <1>1, <1>2 DEF Table
<1>4. \A x \in Key : \A r \in 0 .. cap - 1 :
         Holds(entries', r, x) <=> x # k /\ Holds(entries, r, x)
  BY <1>1, <1>2, <1>3 DEF Holds, Distinct
<1>5. Stored' = Stored \ {k}
  BY <1>2, <1>4 DEF Stored, Holds
<1>6. ASSUME NEW x \in Stored' PROVE Map'[x] = Map[x]
  <2>1. x \in Key /\ x # k /\ x \in Stored
    BY <1>5, <1>6 DEF Stored
  <2>2. PICK r \in 0 .. cap - 1 : Holds(entries, r, x)
    BY <2>1 DEF Stored
  <2>3. r # s /\ Holds(entries', r, x)
    BY <1>1, <1>4, <2>1, <2>2 DEF Holds
  <2>4. Map[x] = entries[r].value
    BY <2>1, <2>2 DEF MapInv
  <2>5. Map'[x] = entries'[r].value
    BY <1>2, <2>1, <2>3 DEF MapInv, Holds
  <2> QED
    BY <1>3, <2>3, <2>4, <2>5
<1>7. /\ DOMAIN Map = Stored
      /\ Map' = [x \in Stored' |-> Map'[x]]
  BY DEF Map
<1>8. Map' = [x \in DOMAIN Map \ {k} |-> Map[x]]
  BY <1>5, <1>6, <1>7
<1>9. count' = Cardinality(DOMAIN [x \in DOMAIN Map \ {k} |-> Map[x]])
  BY <1>5, <1>7 DEF MapInv
<1> QED
  BY <1>8, <1>9, SameCardinality DEF Promise!Remove, Promise!Becomes

\* An emptied table is the empty function.
LEMMA ClearRefines == ASSUME IInv, MapInv', Clear PROVE Promise!Clear
<1>1. Stored' = {}
  BY DEF Clear, Stored, Holds, Empty
<1>2. Map' = [x \in {} |-> {}]
  BY <1>1 DEF Map
<1>3. count' = Cardinality(DOMAIN [x \in {} |-> {}])
  BY <1>1 DEF MapInv
<1> QED
  BY <1>2, <1>3, SameCardinality DEF Promise!Clear, Promise!Becomes

\* The new table says what the old one said.
LEMMA InstallRefines ==
    ASSUME IInv, MapInv, MapInv', Install
    PROVE  UNCHANGED <<Map, count>>
<1>1. pc = "rehash" /\ next = cap /\ cap' = freshCap /\ entries' = fresh /\ count' = count
  BY DEF Install
<1>2. Passed = Used(entries, cap)
  BY <1>1 DEF Passed, Used, IInv, TypeOK
<1>3. \A s \in 0 .. cap - 1 : entries[s] # Free =>
         \E r \in 0 .. cap' - 1 : entries'[r] = entries[s]
  BY <1>1, <1>2 DEF IInv, CopyInv, Used
<1>4. \A r \in 0 .. cap' - 1 : entries'[r] # Free =>
         \E s \in 0 .. cap - 1 : entries'[r] = entries[s]
  BY <1>1, <1>2 DEF IInv, CopyInv, Used
<1>5. \A k \in Key : k \in Stored <=> k \in Stored'
  BY <1>3, <1>4 DEF Stored, Holds
<1>6. \A k \in Stored : \E s \in 0 .. cap - 1 : \E r \in 0 .. cap' - 1 :
         Holds(entries, s, k) /\ Holds(entries', r, k) /\ entries'[r].value = entries[s].value
  BY <1>3 DEF Stored, Holds
<1> QED
  BY <1>1, <1>5, <1>6, SameMap

\* Every step of the table is a step of the dictionary or leaves it alone.
LEMMA StepRefines ==
    ASSUME IInv, MapInv, MapInv', [Next]_vars
    PROVE  [Promise!Next]_<<Map, count>>
<1>1. ASSUME UNCHANGED table PROVE UNCHANGED <<Map, count>>
  BY <1>1 DEF table, Map, Stored, Holds
<1>2. CASE \E k \in Key : Remove(k)
  BY <1>2, RemoveRefines DEF Promise!Next
<1>3. CASE \E k \in Key, v \in Value : Set(k, v)
  BY <1>1, <1>3 DEF Set
<1>4. CASE Store
  BY <1>4, StoreRefines DEF Promise!Next
<1>5. CASE Clear
  BY <1>5, ClearRefines DEF Promise!Next
<1>6. CASE Move
  BY <1>1, <1>6 DEF Move
<1>7. CASE Install
  BY <1>7, InstallRefines
<1>8. CASE UNCHANGED vars
  BY <1>1, <1>8 DEF vars
<1> QED
  BY <1>2, <1>3, <1>4, <1>5, <1>6, <1>7, <1>8 DEF Next

\* The table of the runtime implements the finite function of the documents.
THEOREM Refinement == ASSUME Fits PROVE Spec => ImplementsDictionary
<1>1. IInv /\ IInv' /\ [Next]_vars => [Promise!Next]_<<Map, count>>
  <2>1. IInv' => MapInv'
    BY MapFacts, PTL
  <2> QED
    BY <2>1, MapFacts, StepRefines
<1> QED
  BY <1>1, InitRefines, Invariance, PTL DEF Spec, ImplementsDictionary, Promise!Spec, Promise!vars

=============================================================================
