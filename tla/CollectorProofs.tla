-------------------------- MODULE CollectorProofs --------------------------
(***************************************************************************)
(* Proofs about Collector for every set of addresses and of threads. What  *)
(* a collection frees is proved of the programs in which no uncounted      *)
(* thread runs Kinal code (AllCounted); types, the lock and the tasks are  *)
(* proved of all.                                                          *)
(***************************************************************************)
EXTENDS Collector, FiniteSetTheorems, TLAPS

\* What g_async_live_tasks stands for: the task threads, and the spawns that
\* have counted a task and not created its thread.
Running  == {k \in Task : pc[k] \notin {"none", "gone"}}
Spawning == {t \in Thread : pc[t] = "spawn"}

CountInv == live = Cardinality(Running) + Cardinality(Spawning)

\* A thread that does not run holds nothing.
IdleInv == \A t \in Thread : pc[t] \in {"none", "gone"} => roots[t] = {} /\ exc[t] = Null

NoCollector == \A t \in Thread : pc[t] \notin Collecting

\* Nothing refers to freed memory, except that a sweep frees unmarked blocks
\* that other unmarked blocks refer to.
HeapInv ==
    /\ \A t \in Thread : roots[t] \subseteq blocks /\ exc[t] \in blocks \cup {Null}
    /\ global \in blocks \cup {Null}
    /\ (\A t \in Thread : pc[t] # "sweep") =>
          \A o \in blocks : field[o] \in blocks \cup {Null}

\* A marked block that is off the mark stack refers to marked blocks only, and
\* once a root was scanned it refers to a marked block.
MarkInv ==
    \A t \in Thread :
       /\ pc[t] \in Collecting =>
             \A o \in marked \ stack : field[o] \in marked \cup {Null}
       /\ pc[t] \in {"globals", "trace", "sweep"} =>
             roots[t] \subseteq marked /\ exc[t] \in marked \cup {Null}
       /\ pc[t] \in {"trace", "sweep"} => global \in marked \cup {Null}
       /\ pc[t] = "sweep" => stack = {}

IInv == TypeOK /\ CountInv /\ IdleInv /\ Alone /\ HeapInv /\ MarkInv

-----------------------------------------------------------------------------

\* The initial state satisfies the invariant: one thread, an empty heap.
LEMMA InitInv == Init => IInv
<1> SUFFICES ASSUME Init PROVE IInv
  OBVIOUS
<1> USE CollectorConstants
<1>1. TypeOK /\ IdleInv /\ HeapInv /\ MarkInv /\ Alone
  BY DEF Init, TypeOK, IdleInv, HeapInv, MarkInv, Alone, Thread, PC,
         Collecting, Marking, Ref
<1>2. Running = {} /\ Spawning = {}
  BY DEF Init, Running, Spawning, Thread
<1>3. CountInv
  BY <1>2, FS_EmptySet DEF Init, CountInv
<1> QED
  BY <1>1, <1>3 DEF IInv

\* Both sets behind the counter are finite.
LEMMA CountedFinite ==
    /\ IsFiniteSet(Running) /\ IsFiniteSet(Spawning)
    /\ Cardinality(Running) \in Nat /\ Cardinality(Spawning) \in Nat
<1>1. IsFiniteSet(Thread)
  BY CollectorConstants, FS_Union, FS_Singleton DEF Thread
<1> QED
  BY <1>1, CollectorConstants, FS_Subset, FS_CardinalityType DEF Running, Spawning

\* A counter of 0 means that no task thread runs and no spawn is under way.
LEMMA ZeroMeansNone ==
    CountInv /\ live = 0 => Running = {} /\ Spawning = {}
<1> SUFFICES ASSUME CountInv, live = 0 PROVE Running = {} /\ Spawning = {}
  OBVIOUS
<1>1. Cardinality(Running) = 0 /\ Cardinality(Spawning) = 0
  BY CountedFinite DEF CountInv
<1> QED
  BY <1>1, CountedFinite, FS_EmptySet

\* Every step keeps the types; that `live` stays a natural number is CountStep.
LEMMA TypeStep == TypeOK /\ [Next]_vars /\ live' \in Nat => TypeOK'
<1> SUFFICES ASSUME TypeOK, Next \/ UNCHANGED vars, live' \in Nat PROVE TypeOK'
  OBVIOUS
<1> USE CollectorConstants DEF TypeOK, Goto, Ref, Refs, mutatorVars, markVars, Mark, Link, Thread, PC, Collecting, Marking
<1>1. ASSUME NEW t \in Thread, Load(t) PROVE TypeOK'
  BY <1>1 DEF Load

<1>2. ASSUME NEW t \in Thread, Store(t) PROVE TypeOK'
  BY <1>2 DEF Store

<1>3. ASSUME NEW t \in Thread, LoadGlobal(t) PROVE TypeOK'
  BY <1>3 DEF LoadGlobal

<1>4. ASSUME NEW t \in Thread, StoreGlobal(t) PROVE TypeOK'
  BY <1>4 DEF StoreGlobal

<1>5. ASSUME NEW t \in Thread, Drop(t) PROVE TypeOK'
  BY <1>5 DEF Drop

<1>6. ASSUME NEW t \in Thread, Throw(t) PROVE TypeOK'
  BY <1>6 DEF Throw

<1>7. ASSUME NEW t \in Thread, Catch(t) PROVE TypeOK'
  BY <1>7 DEF Catch

<1>8. ASSUME NEW t \in Thread, Alloc(t) PROVE TypeOK'
  BY <1>8 DEF Alloc

<1>9. ASSUME NEW t \in Thread, AllocFails(t) PROVE TypeOK'
  BY <1>9 DEF AllocFails

<1>10. ASSUME NEW t \in Thread, AllocCollects(t) PROVE TypeOK'
  BY <1>10 DEF AllocCollects

<1>11. ASSUME NEW t \in Thread, CallCollect(t) PROVE TypeOK'
  BY <1>11 DEF CallCollect

<1>12. ASSUME NEW t \in Thread, Check(t) PROVE TypeOK'
  BY <1>12 DEF Check

<1>13. ASSUME NEW t \in Thread, GiveUp(t) PROVE TypeOK'
  BY <1>13 DEF GiveUp

<1>14. ASSUME NEW t \in Thread, Begin(t) PROVE TypeOK'
  BY <1>14 DEF Begin

<1>15. ASSUME NEW t \in Thread, MarkOwn(t) PROVE TypeOK'
  BY <1>15 DEF MarkOwn

<1>16. ASSUME NEW t \in Thread, MarkGlobals(t) PROVE TypeOK'
  BY <1>16 DEF MarkGlobals

<1>17. ASSUME NEW t \in Thread, Trace(t) PROVE TypeOK'
  BY <1>17 DEF Trace

<1>18. ASSUME NEW t \in Thread, TraceDone(t) PROVE TypeOK'
  BY <1>18 DEF TraceDone

<1>19. ASSUME NEW t \in Thread, Free(t) PROVE TypeOK'
  BY <1>19 DEF Free

<1>20. ASSUME NEW t \in Thread, SweepDone(t) PROVE TypeOK'
  BY <1>20 DEF SweepDone

<1>21. ASSUME NEW t \in Thread, SpawnCount(t) PROVE TypeOK'
  BY <1>21 DEF SpawnCount

<1>22. ASSUME NEW t \in Thread, SpawnFails(t) PROVE TypeOK'
  BY <1>22 DEF SpawnFails

<1>23. ASSUME NEW t \in Thread, NEW k \in Task, SpawnTask(t, k) PROVE TypeOK'
  BY <1>23 DEF SpawnTask

<1>24. ASSUME NEW k \in Task, TaskReturn(k) PROVE TypeOK'
  BY <1>24 DEF TaskReturn

<1>25. ASSUME NEW k \in Task, Uncount(k) PROVE TypeOK'
  BY <1>25 DEF Uncount

<1>26. ASSUME UNCHANGED vars PROVE TypeOK'
  BY <1>26 DEF vars, mutatorVars, markVars

<1>27. ASSUME NEW w \in Worker, Serve(w) PROVE TypeOK'
  BY <1>27 DEF Serve

<1>28. ASSUME NEW w \in Worker, Reply(w) PROVE TypeOK'
  BY <1>28 DEF Reply

<1> QED
  BY <1>1, <1>2, <1>3, <1>4, <1>5, <1>6, <1>7, <1>8, <1>9, <1>10, <1>11, <1>12, <1>13, <1>14, <1>15, <1>16, <1>17, <1>18, <1>19, <1>20, <1>21, <1>22, <1>23, <1>24, <1>25, <1>26, <1>27, <1>28
  DEF Next, Mutate, Allocate, Collect, Spawn

\* The counter follows the two sets.
LEMMA CountStep == TypeOK /\ CountInv /\ [Next]_vars => CountInv' /\ live' \in Nat
<1> SUFFICES ASSUME TypeOK, CountInv, Next \/ UNCHANGED vars PROVE CountInv' /\ live' \in Nat
  OBVIOUS
<1> USE CollectorConstants DEF TypeOK
<1>f. /\ IsFiniteSet(Running) /\ IsFiniteSet(Spawning)
      /\ Cardinality(Running) \in Nat /\ Cardinality(Spawning) \in Nat
  BY CountedFinite
<1>s. ASSUME Running' = Running, Spawning' = Spawning, live' = live
      PROVE CountInv' /\ live' \in Nat
  BY <1>s DEF CountInv
<1>1. ASSUME NEW t \in Thread, Load(t) PROVE CountInv' /\ live' \in Nat
  <2>1. Running' = Running /\ Spawning' = Spawning /\ live' = live
    BY <1>1 DEF Load, Goto, Running, Spawning, Thread
  <2> QED
    BY <2>1, <1>s

<1>2. ASSUME NEW t \in Thread, Store(t) PROVE CountInv' /\ live' \in Nat
  <2>1. Running' = Running /\ Spawning' = Spawning /\ live' = live
    BY <1>2 DEF Store, Goto, Running, Spawning, Thread
  <2> QED
    BY <2>1, <1>s

<1>3. ASSUME NEW t \in Thread, LoadGlobal(t) PROVE CountInv' /\ live' \in Nat
  <2>1. Running' = Running /\ Spawning' = Spawning /\ live' = live
    BY <1>3 DEF LoadGlobal, Goto, Running, Spawning, Thread
  <2> QED
    BY <2>1, <1>s

<1>4. ASSUME NEW t \in Thread, StoreGlobal(t) PROVE CountInv' /\ live' \in Nat
  <2>1. Running' = Running /\ Spawning' = Spawning /\ live' = live
    BY <1>4 DEF StoreGlobal, Goto, Running, Spawning, Thread
  <2> QED
    BY <2>1, <1>s

<1>5. ASSUME NEW t \in Thread, Drop(t) PROVE CountInv' /\ live' \in Nat
  <2>1. Running' = Running /\ Spawning' = Spawning /\ live' = live
    BY <1>5 DEF Drop, Goto, Running, Spawning, Thread
  <2> QED
    BY <2>1, <1>s

<1>6. ASSUME NEW t \in Thread, Throw(t) PROVE CountInv' /\ live' \in Nat
  <2>1. Running' = Running /\ Spawning' = Spawning /\ live' = live
    BY <1>6 DEF Throw, Goto, Running, Spawning, Thread
  <2> QED
    BY <2>1, <1>s

<1>7. ASSUME NEW t \in Thread, Catch(t) PROVE CountInv' /\ live' \in Nat
  <2>1. Running' = Running /\ Spawning' = Spawning /\ live' = live
    BY <1>7 DEF Catch, Goto, Running, Spawning, Thread
  <2> QED
    BY <2>1, <1>s

<1>8. ASSUME NEW t \in Thread, Alloc(t) PROVE CountInv' /\ live' \in Nat
  <2>1. Running' = Running /\ Spawning' = Spawning /\ live' = live
    BY <1>8 DEF Alloc, Goto, Running, Spawning, Thread, PC
  <2> QED
    BY <2>1, <1>s

<1>9. ASSUME NEW t \in Thread, AllocFails(t) PROVE CountInv' /\ live' \in Nat
  <2>1. Running' = Running /\ Spawning' = Spawning /\ live' = live
    BY <1>9 DEF AllocFails, Goto, Running, Spawning, Thread, PC
  <2> QED
    BY <2>1, <1>s

<1>10. ASSUME NEW t \in Thread, AllocCollects(t) PROVE CountInv' /\ live' \in Nat
  <2>1. Running' = Running /\ Spawning' = Spawning /\ live' = live
    BY <1>10 DEF AllocCollects, Goto, Running, Spawning, Thread, PC
  <2> QED
    BY <2>1, <1>s

<1>11. ASSUME NEW t \in Thread, CallCollect(t) PROVE CountInv' /\ live' \in Nat
  <2>1. Running' = Running /\ Spawning' = Spawning /\ live' = live
    BY <1>11 DEF CallCollect, Goto, Running, Spawning, Thread, PC
  <2> QED
    BY <2>1, <1>s

<1>12. ASSUME NEW t \in Thread, Check(t) PROVE CountInv' /\ live' \in Nat
  <2>1. Running' = Running /\ Spawning' = Spawning /\ live' = live
    BY <1>12 DEF Check, Goto, Running, Spawning, Thread, PC
  <2> QED
    BY <2>1, <1>s

<1>13. ASSUME NEW t \in Thread, GiveUp(t) PROVE CountInv' /\ live' \in Nat
  <2>1. Running' = Running /\ Spawning' = Spawning /\ live' = live
    BY <1>13 DEF GiveUp, Goto, Running, Spawning, Thread, PC
  <2> QED
    BY <2>1, <1>s

<1>14. ASSUME NEW t \in Thread, Begin(t) PROVE CountInv' /\ live' \in Nat
  <2>1. Running' = Running /\ Spawning' = Spawning /\ live' = live
    BY <1>14 DEF Begin, Goto, Running, Spawning, Thread, PC
  <2> QED
    BY <2>1, <1>s

<1>15. ASSUME NEW t \in Thread, MarkOwn(t) PROVE CountInv' /\ live' \in Nat
  <2>1. Running' = Running /\ Spawning' = Spawning /\ live' = live
    BY <1>15 DEF MarkOwn, Goto, Running, Spawning, Thread, PC
  <2> QED
    BY <2>1, <1>s

<1>16. ASSUME NEW t \in Thread, MarkGlobals(t) PROVE CountInv' /\ live' \in Nat
  <2>1. Running' = Running /\ Spawning' = Spawning /\ live' = live
    BY <1>16 DEF MarkGlobals, Goto, Running, Spawning, Thread, PC
  <2> QED
    BY <2>1, <1>s

<1>17. ASSUME NEW t \in Thread, Trace(t) PROVE CountInv' /\ live' \in Nat
  <2>1. Running' = Running /\ Spawning' = Spawning /\ live' = live
    BY <1>17 DEF Trace, Goto, Running, Spawning, Thread, PC
  <2> QED
    BY <2>1, <1>s

<1>18. ASSUME NEW t \in Thread, TraceDone(t) PROVE CountInv' /\ live' \in Nat
  <2>1. Running' = Running /\ Spawning' = Spawning /\ live' = live
    BY <1>18 DEF TraceDone, Goto, Running, Spawning, Thread, PC
  <2> QED
    BY <2>1, <1>s

<1>19. ASSUME NEW t \in Thread, Free(t) PROVE CountInv' /\ live' \in Nat
  <2>1. Running' = Running /\ Spawning' = Spawning /\ live' = live
    BY <1>19 DEF Free, Goto, Running, Spawning, Thread, PC
  <2> QED
    BY <2>1, <1>s

<1>20. ASSUME NEW t \in Thread, SweepDone(t) PROVE CountInv' /\ live' \in Nat
  <2>1. Running' = Running /\ Spawning' = Spawning /\ live' = live
    BY <1>20 DEF SweepDone, Goto, Running, Spawning, Thread, PC
  <2> QED
    BY <2>1, <1>s

<1>21. ASSUME NEW t \in Thread, SpawnCount(t) PROVE CountInv' /\ live' \in Nat
  <2>1. Running' = Running /\ Spawning' = Spawning \cup {t} /\ t \notin Spawning
    BY <1>21 DEF SpawnCount, Goto, Running, Spawning, Thread
  <2>2. Cardinality(Spawning') = Cardinality(Spawning) + 1
    BY <2>1, <1>f, FS_AddElement
  <2> QED
    BY <2>1, <2>2, <1>f, <1>21 DEF SpawnCount, CountInv

<1>22. ASSUME NEW t \in Thread, SpawnFails(t) PROVE CountInv' /\ live' \in Nat
  <2>1. Running' = Running /\ Spawning' = Spawning \ {t} /\ t \in Spawning
    BY <1>22 DEF SpawnFails, Goto, Running, Spawning, Thread
  <2>2. /\ Cardinality(Spawning') = Cardinality(Spawning) - 1
        /\ Cardinality(Spawning') \in Nat
    BY <2>1, <1>f, FS_RemoveElement, FS_CardinalityType
  <2> QED
    BY <2>1, <2>2, <1>f, <1>22 DEF SpawnFails, CountInv

<1>23. ASSUME NEW t \in Thread, NEW k \in Task, SpawnTask(t, k) PROVE CountInv' /\ live' \in Nat
  <2>1. /\ Running' = Running \cup {k} /\ k \notin Running
        /\ Spawning' = Spawning \ {t} /\ t \in Spawning
    BY <1>23 DEF SpawnTask, Goto, Running, Spawning, Thread
  <2>2. Cardinality(Running') = Cardinality(Running) + 1
    BY <2>1, <1>f, FS_AddElement
  <2>3. /\ Cardinality(Spawning') = Cardinality(Spawning) - 1
        /\ Cardinality(Spawning') \in Nat
    BY <2>1, <1>f, FS_RemoveElement, FS_CardinalityType
  <2>4. live' = live
    BY <1>23 DEF SpawnTask
  <2> QED
    BY <2>2, <2>3, <2>4, <1>f DEF CountInv

<1>24. ASSUME NEW k \in Task, TaskReturn(k) PROVE CountInv' /\ live' \in Nat
  <2>1. Running' = Running /\ Spawning' = Spawning /\ live' = live
    BY <1>24 DEF TaskReturn, Goto, Running, Spawning, Thread
  <2> QED
    BY <2>1, <1>s

<1>25. ASSUME NEW k \in Task, Uncount(k) PROVE CountInv' /\ live' \in Nat
  <2>1. Running' = Running \ {k} /\ k \in Running /\ Spawning' = Spawning
    BY <1>25 DEF Uncount, Goto, Running, Spawning, Thread
  <2>2. /\ Cardinality(Running') = Cardinality(Running) - 1
        /\ Cardinality(Running') \in Nat
    BY <2>1, <1>f, FS_RemoveElement, FS_CardinalityType
  <2> QED
    BY <2>1, <2>2, <1>f, <1>25 DEF Uncount, CountInv

<1>26. ASSUME UNCHANGED vars PROVE CountInv' /\ live' \in Nat
  BY <1>26 DEF vars, mutatorVars, markVars, Running, Spawning, CountInv

<1>27. ASSUME NEW w \in Worker, Serve(w) PROVE CountInv' /\ live' \in Nat
  <2>1. Running' = Running /\ Spawning' = Spawning /\ live' = live
    BY <1>27 DEF Serve, Goto, Running, Spawning, Thread
  <2> QED
    BY <2>1, <1>s

<1>28. ASSUME NEW w \in Worker, Reply(w) PROVE CountInv' /\ live' \in Nat
  <2>1. Running' = Running /\ Spawning' = Spawning /\ live' = live
    BY <1>28 DEF Reply, Goto, Running, Spawning, Thread
  <2> QED
    BY <2>1, <1>s

<1> QED
  BY <1>1, <1>2, <1>3, <1>4, <1>5, <1>6, <1>7, <1>8, <1>9, <1>10, <1>11, <1>12, <1>13, <1>14, <1>15, <1>16, <1>17, <1>18, <1>19, <1>20, <1>21, <1>22, <1>23, <1>24, <1>25, <1>26, <1>27, <1>28
  DEF Next, Mutate, Allocate, Collect, Spawn

\* A thread that runs outside a collection is proof that nobody collects.
LEMMA NobodyCollects ==
    ASSUME IInv, NEW t \in Thread, pc[t] \notin Collecting \cup {"none", "gone"}
    PROVE  NoCollector
BY DEF IInv, Alone, NoCollector

\* A program without IO.Web has no handler threads that serve a request.
LEMMA NobodyServes == AllCounted => \A w \in Worker : ~Serve(w) /\ ~Reply(w)
BY DEF AllCounted, Serve, Reply

\* Nothing can start to run during a collection, and a collection starts only
\* when the counter says that nothing else runs.
LEMMA AloneStep == AllCounted /\ IInv /\ [Next]_vars => Alone' /\ IdleInv'
<1> SUFFICES ASSUME AllCounted, IInv, Next \/ UNCHANGED vars PROVE Alone' /\ IdleInv'
  OBVIOUS
<1> USE CollectorConstants DEF IInv, TypeOK, Alone, IdleInv, Goto, Thread, Collecting, Marking, PC, mutatorVars, markVars
<1>1. ASSUME NEW t \in Thread, Load(t) PROVE Alone' /\ IdleInv'
  BY <1>1 DEF Load

<1>2. ASSUME NEW t \in Thread, Store(t) PROVE Alone' /\ IdleInv'
  BY <1>2 DEF Store

<1>3. ASSUME NEW t \in Thread, LoadGlobal(t) PROVE Alone' /\ IdleInv'
  BY <1>3 DEF LoadGlobal

<1>4. ASSUME NEW t \in Thread, StoreGlobal(t) PROVE Alone' /\ IdleInv'
  BY <1>4 DEF StoreGlobal

<1>5. ASSUME NEW t \in Thread, Drop(t) PROVE Alone' /\ IdleInv'
  BY <1>5 DEF Drop

<1>6. ASSUME NEW t \in Thread, Throw(t) PROVE Alone' /\ IdleInv'
  BY <1>6 DEF Throw

<1>7. ASSUME NEW t \in Thread, Catch(t) PROVE Alone' /\ IdleInv'
  BY <1>7 DEF Catch

<1>8. ASSUME NEW t \in Thread, Alloc(t) PROVE Alone' /\ IdleInv'
  BY <1>8 DEF Alloc

<1>9. ASSUME NEW t \in Thread, AllocFails(t) PROVE Alone' /\ IdleInv'
  BY <1>9 DEF AllocFails

<1>10. ASSUME NEW t \in Thread, AllocCollects(t) PROVE Alone' /\ IdleInv'
  BY <1>10 DEF AllocCollects

<1>11. ASSUME NEW t \in Thread, CallCollect(t) PROVE Alone' /\ IdleInv'
  BY <1>11 DEF CallCollect

<1>12. ASSUME NEW t \in Thread, Check(t) PROVE Alone' /\ IdleInv'
  BY <1>12 DEF Check

<1>13. ASSUME NEW t \in Thread, GiveUp(t) PROVE Alone' /\ IdleInv'
  BY <1>13 DEF GiveUp

<1>14. ASSUME NEW t \in Thread, Begin(t) PROVE Alone' /\ IdleInv'
  <2>1. Running = {} /\ Spawning = {}
    BY <1>14, ZeroMeansNone DEF Begin, NoTaskLive
  <2>2. \A u \in Thread : u # t => pc[u] \in {"none", "gone"}
    BY <1>14, <2>1 DEF Begin, Running, AllCounted
  <2> QED
    BY <1>14, <2>2 DEF Begin

<1>15. ASSUME NEW t \in Thread, MarkOwn(t) PROVE Alone' /\ IdleInv'
  BY <1>15 DEF MarkOwn

<1>16. ASSUME NEW t \in Thread, MarkGlobals(t) PROVE Alone' /\ IdleInv'
  BY <1>16 DEF MarkGlobals

<1>17. ASSUME NEW t \in Thread, Trace(t) PROVE Alone' /\ IdleInv'
  BY <1>17 DEF Trace

<1>18. ASSUME NEW t \in Thread, TraceDone(t) PROVE Alone' /\ IdleInv'
  BY <1>18 DEF TraceDone

<1>19. ASSUME NEW t \in Thread, Free(t) PROVE Alone' /\ IdleInv'
  BY <1>19 DEF Free

<1>20. ASSUME NEW t \in Thread, SweepDone(t) PROVE Alone' /\ IdleInv'
  BY <1>20 DEF SweepDone

<1>21. ASSUME NEW t \in Thread, SpawnCount(t) PROVE Alone' /\ IdleInv'
  BY <1>21 DEF SpawnCount

<1>22. ASSUME NEW t \in Thread, SpawnFails(t) PROVE Alone' /\ IdleInv'
  BY <1>22 DEF SpawnFails

<1>23. ASSUME NEW t \in Thread, NEW k \in Task, SpawnTask(t, k) PROVE Alone' /\ IdleInv'
  BY <1>23 DEF SpawnTask

<1>24. ASSUME NEW k \in Task, TaskReturn(k) PROVE Alone' /\ IdleInv'
  BY <1>24 DEF TaskReturn

<1>25. ASSUME NEW k \in Task, Uncount(k) PROVE Alone' /\ IdleInv'
  BY <1>25 DEF Uncount

<1>26. ASSUME UNCHANGED vars PROVE Alone' /\ IdleInv'
  BY <1>26 DEF vars, mutatorVars, markVars

<1> QED
  BY <1>1, <1>2, <1>3, <1>4, <1>5, <1>6, <1>7, <1>8, <1>9, <1>10, <1>11, <1>12, <1>13, <1>14, <1>15, <1>16, <1>17, <1>18, <1>19, <1>20, <1>21, <1>22, <1>23, <1>24, <1>25, <1>26, NobodyServes
  DEF Next, Mutate, Allocate, Collect, Spawn

\* Nothing refers to freed memory after any step.
LEMMA HeapStep == AllCounted /\ IInv /\ [Next]_vars => HeapInv'
<1> SUFFICES ASSUME AllCounted, IInv, Next \/ UNCHANGED vars PROVE HeapInv'
  OBVIOUS
<1> USE CollectorConstants DEF IInv, TypeOK, HeapInv, Goto, Ref, Refs, Link, Mark, PC,
        Collecting, Marking, mutatorVars, markVars
<1>1. ASSUME NEW t \in Thread, Load(t) PROVE HeapInv'
  <2>1. NoCollector
    BY <1>1, NobodyCollects DEF Load
  <2> QED
    BY <1>1, <2>1 DEF Load, NoCollector

<1>2. ASSUME NEW t \in Thread, Store(t) PROVE HeapInv'
  <2>1. NoCollector
    BY <1>2, NobodyCollects DEF Store
  <2> QED
    BY <1>2, <2>1 DEF Store, NoCollector

<1>3. ASSUME NEW t \in Thread, LoadGlobal(t) PROVE HeapInv'
  <2>1. NoCollector
    BY <1>3, NobodyCollects DEF LoadGlobal
  <2> QED
    BY <1>3, <2>1 DEF LoadGlobal, NoCollector

<1>4. ASSUME NEW t \in Thread, StoreGlobal(t) PROVE HeapInv'
  <2>1. NoCollector
    BY <1>4, NobodyCollects DEF StoreGlobal
  <2> QED
    BY <1>4, <2>1 DEF StoreGlobal, NoCollector

<1>5. ASSUME NEW t \in Thread, Drop(t) PROVE HeapInv'
  <2>1. NoCollector
    BY <1>5, NobodyCollects DEF Drop
  <2> QED
    BY <1>5, <2>1 DEF Drop, NoCollector

<1>6. ASSUME NEW t \in Thread, Throw(t) PROVE HeapInv'
  <2>1. NoCollector
    BY <1>6, NobodyCollects DEF Throw
  <2> QED
    BY <1>6, <2>1 DEF Throw, NoCollector

<1>7. ASSUME NEW t \in Thread, Catch(t) PROVE HeapInv'
  <2>1. NoCollector
    BY <1>7, NobodyCollects DEF Catch
  <2> QED
    BY <1>7, <2>1 DEF Catch, NoCollector

<1>8. ASSUME NEW t \in Thread, Alloc(t) PROVE HeapInv'
  <2>1. NoCollector
    BY <1>8, NobodyCollects DEF Alloc
  <2> QED
    BY <1>8, <2>1 DEF Alloc, NoCollector

<1>9. ASSUME NEW t \in Thread, AllocFails(t) PROVE HeapInv'
  <2>1. NoCollector
    BY <1>9, NobodyCollects DEF AllocFails
  <2> QED
    BY <1>9, <2>1 DEF AllocFails, NoCollector

<1>10. ASSUME NEW t \in Thread, AllocCollects(t) PROVE HeapInv'
  <2>1. NoCollector
    BY <1>10, NobodyCollects DEF AllocCollects
  <2> QED
    BY <1>10, <2>1 DEF AllocCollects, NoCollector

<1>11. ASSUME NEW t \in Thread, CallCollect(t) PROVE HeapInv'
  <2>1. NoCollector
    BY <1>11, NobodyCollects DEF CallCollect
  <2> QED
    BY <1>11, <2>1 DEF CallCollect, NoCollector

<1>12. ASSUME NEW t \in Thread, Check(t) PROVE HeapInv'
  <2>1. NoCollector
    BY <1>12, NobodyCollects DEF Check
  <2> QED
    BY <1>12, <2>1 DEF Check, NoCollector

<1>13. ASSUME NEW t \in Thread, GiveUp(t) PROVE HeapInv'
  <2>1. NoCollector
    BY <1>13, NobodyCollects DEF GiveUp
  <2> QED
    BY <1>13, <2>1 DEF GiveUp, NoCollector

<1>14. ASSUME NEW t \in Thread, Begin(t) PROVE HeapInv'
  BY <1>14 DEF Begin

<1>15. ASSUME NEW t \in Thread, MarkOwn(t) PROVE HeapInv'
  BY <1>15 DEF MarkOwn

<1>16. ASSUME NEW t \in Thread, MarkGlobals(t) PROVE HeapInv'
  BY <1>16 DEF MarkGlobals

<1>17. ASSUME NEW t \in Thread, Trace(t) PROVE HeapInv'
  BY <1>17 DEF Trace

<1>18. ASSUME NEW t \in Thread, TraceDone(t) PROVE HeapInv'
  BY <1>18 DEF TraceDone

<1>19. ASSUME NEW t \in Thread, Free(t) PROVE HeapInv'
  <2>1. PICK o \in blocks \ marked : /\ blocks' = blocks \ {o}
                                    /\ field' = [field EXCEPT ![o] = Null]
    BY <1>19 DEF Free
  <2>2. \A u \in Thread : u # t => roots[u] = {} /\ exc[u] = Null
    BY <1>19 DEF Free, Alone, IdleInv
  <2>3. roots[t] \subseteq marked /\ exc[t] \in marked \cup {Null} /\ global \in marked \cup {Null}
    BY <1>19 DEF Free, MarkInv
  <2>4. pc'[t] = "sweep" /\ UNCHANGED <<roots, exc, global>>
    BY <1>19 DEF Free
  <2> QED
    BY <2>1, <2>2, <2>3, <2>4

<1>20. ASSUME NEW t \in Thread, SweepDone(t) PROVE HeapInv'
  <2>1. marked = blocks /\ stack = {}
    BY <1>20 DEF SweepDone, MarkInv
  <2>2. \A o \in blocks : field[o] \in blocks \cup {Null}
    BY <1>20, <2>1 DEF SweepDone, MarkInv
  <2> QED
    BY <1>20, <2>2 DEF SweepDone

<1>21. ASSUME NEW t \in Thread, SpawnCount(t) PROVE HeapInv'
  <2>1. NoCollector
    BY <1>21, NobodyCollects DEF SpawnCount
  <2> QED
    BY <1>21, <2>1 DEF SpawnCount, NoCollector

<1>22. ASSUME NEW t \in Thread, SpawnFails(t) PROVE HeapInv'
  <2>1. NoCollector
    BY <1>22, NobodyCollects DEF SpawnFails
  <2> QED
    BY <1>22, <2>1 DEF SpawnFails, NoCollector

<1>23. ASSUME NEW t \in Thread, NEW k \in Task, SpawnTask(t, k) PROVE HeapInv'
  <2>1. NoCollector
    BY <1>23, NobodyCollects DEF SpawnTask
  <2> QED
    BY <1>23, <2>1 DEF SpawnTask, NoCollector

<1>24. ASSUME NEW k \in Task, TaskReturn(k) PROVE HeapInv'
  <2>1. NoCollector
    BY <1>24, NobodyCollects DEF TaskReturn, Thread
  <2> QED
    BY <1>24, <2>1 DEF TaskReturn, NoCollector

<1>25. ASSUME NEW k \in Task, Uncount(k) PROVE HeapInv'
  <2>1. NoCollector
    BY <1>25, NobodyCollects DEF Uncount, Thread
  <2> QED
    BY <1>25, <2>1 DEF Uncount, NoCollector

<1>26. ASSUME UNCHANGED vars PROVE HeapInv'
  BY <1>26 DEF vars, mutatorVars, markVars

<1> QED
  BY <1>1, <1>2, <1>3, <1>4, <1>5, <1>6, <1>7, <1>8, <1>9, <1>10, <1>11, <1>12, <1>13, <1>14, <1>15, <1>16, <1>17, <1>18, <1>19, <1>20, <1>21, <1>22, <1>23, <1>24, <1>25, <1>26, NobodyServes
  DEF Next, Mutate, Allocate, Collect, Spawn

\* The tracing invariant holds at each phase of a collection.
LEMMA MarkStep == AllCounted /\ IInv /\ [Next]_vars => MarkInv'
<1> SUFFICES ASSUME AllCounted, IInv, Next \/ UNCHANGED vars PROVE MarkInv'
  OBVIOUS
<1> USE CollectorConstants DEF IInv, TypeOK, MarkInv, Goto, Ref, Refs, Link, Mark, PC,
        Collecting, Marking, mutatorVars, markVars
<1>1. ASSUME NEW t \in Thread, Load(t) PROVE MarkInv'
  <2>1. NoCollector
    BY <1>1, NobodyCollects DEF Load
  <2> QED
    BY <1>1, <2>1 DEF Load, NoCollector

<1>2. ASSUME NEW t \in Thread, Store(t) PROVE MarkInv'
  <2>1. NoCollector
    BY <1>2, NobodyCollects DEF Store
  <2> QED
    BY <1>2, <2>1 DEF Store, NoCollector

<1>3. ASSUME NEW t \in Thread, LoadGlobal(t) PROVE MarkInv'
  <2>1. NoCollector
    BY <1>3, NobodyCollects DEF LoadGlobal
  <2> QED
    BY <1>3, <2>1 DEF LoadGlobal, NoCollector

<1>4. ASSUME NEW t \in Thread, StoreGlobal(t) PROVE MarkInv'
  <2>1. NoCollector
    BY <1>4, NobodyCollects DEF StoreGlobal
  <2> QED
    BY <1>4, <2>1 DEF StoreGlobal, NoCollector

<1>5. ASSUME NEW t \in Thread, Drop(t) PROVE MarkInv'
  <2>1. NoCollector
    BY <1>5, NobodyCollects DEF Drop
  <2> QED
    BY <1>5, <2>1 DEF Drop, NoCollector

<1>6. ASSUME NEW t \in Thread, Throw(t) PROVE MarkInv'
  <2>1. NoCollector
    BY <1>6, NobodyCollects DEF Throw
  <2> QED
    BY <1>6, <2>1 DEF Throw, NoCollector

<1>7. ASSUME NEW t \in Thread, Catch(t) PROVE MarkInv'
  <2>1. NoCollector
    BY <1>7, NobodyCollects DEF Catch
  <2> QED
    BY <1>7, <2>1 DEF Catch, NoCollector

<1>8. ASSUME NEW t \in Thread, Alloc(t) PROVE MarkInv'
  <2>1. NoCollector
    BY <1>8, NobodyCollects DEF Alloc
  <2> QED
    BY <1>8, <2>1 DEF Alloc, NoCollector

<1>9. ASSUME NEW t \in Thread, AllocFails(t) PROVE MarkInv'
  <2>1. NoCollector
    BY <1>9, NobodyCollects DEF AllocFails
  <2> QED
    BY <1>9, <2>1 DEF AllocFails, NoCollector

<1>10. ASSUME NEW t \in Thread, AllocCollects(t) PROVE MarkInv'
  <2>1. NoCollector
    BY <1>10, NobodyCollects DEF AllocCollects
  <2> QED
    BY <1>10, <2>1 DEF AllocCollects, NoCollector

<1>11. ASSUME NEW t \in Thread, CallCollect(t) PROVE MarkInv'
  <2>1. NoCollector
    BY <1>11, NobodyCollects DEF CallCollect
  <2> QED
    BY <1>11, <2>1 DEF CallCollect, NoCollector

<1>12. ASSUME NEW t \in Thread, Check(t) PROVE MarkInv'
  <2>1. NoCollector
    BY <1>12, NobodyCollects DEF Check
  <2> QED
    BY <1>12, <2>1 DEF Check, NoCollector

<1>13. ASSUME NEW t \in Thread, GiveUp(t) PROVE MarkInv'
  <2>1. NoCollector
    BY <1>13, NobodyCollects DEF GiveUp
  <2> QED
    BY <1>13, <2>1 DEF GiveUp, NoCollector

<1>14. ASSUME NEW t \in Thread, Begin(t) PROVE MarkInv'
  <2>1. \A u \in Thread : u # t => pc[u] \notin Collecting
    BY <1>14, ZeroMeansNone DEF Begin, NoTaskLive, Running, Thread, AllCounted
  <2> QED
    BY <1>14, <2>1 DEF Begin

<1>15. ASSUME NEW t \in Thread, MarkOwn(t) PROVE MarkInv'
  <2>1. \A u \in Thread : u # t => pc[u] \notin Collecting /\ pc[u] # "sweep"
    BY <1>15 DEF MarkOwn, Alone
  <2> QED
    BY <1>15, <2>1 DEF MarkOwn, HeapInv

<1>16. ASSUME NEW t \in Thread, MarkGlobals(t) PROVE MarkInv'
  <2>1. \A u \in Thread : u # t => pc[u] \notin Collecting /\ pc[u] # "sweep"
    BY <1>16 DEF MarkGlobals, Alone
  <2> QED
    BY <1>16, <2>1 DEF MarkGlobals, HeapInv

<1>17. ASSUME NEW t \in Thread, Trace(t) PROVE MarkInv'
  <2>1. \A u \in Thread : u # t => pc[u] \notin Collecting /\ pc[u] # "sweep"
    BY <1>17 DEF Trace, Alone
  <2> QED
    BY <1>17, <2>1 DEF Trace, HeapInv

<1>18. ASSUME NEW t \in Thread, TraceDone(t) PROVE MarkInv'
  <2>1. \A u \in Thread : u # t => pc[u] \notin Collecting /\ pc[u] # "sweep"
    BY <1>18 DEF TraceDone, Alone
  <2> QED
    BY <1>18, <2>1 DEF TraceDone, HeapInv

<1>19. ASSUME NEW t \in Thread, Free(t) PROVE MarkInv'
  <2>1. \A u \in Thread : u # t => pc[u] \notin Collecting /\ pc[u] # "sweep"
    BY <1>19 DEF Free, Alone
  <2> QED
    BY <1>19, <2>1 DEF Free, HeapInv

<1>20. ASSUME NEW t \in Thread, SweepDone(t) PROVE MarkInv'
  <2>1. \A u \in Thread : u # t => pc[u] \notin Collecting /\ pc[u] # "sweep"
    BY <1>20 DEF SweepDone, Alone
  <2> QED
    BY <1>20, <2>1 DEF SweepDone, HeapInv

<1>21. ASSUME NEW t \in Thread, SpawnCount(t) PROVE MarkInv'
  <2>1. NoCollector
    BY <1>21, NobodyCollects DEF SpawnCount
  <2> QED
    BY <1>21, <2>1 DEF SpawnCount, NoCollector

<1>22. ASSUME NEW t \in Thread, SpawnFails(t) PROVE MarkInv'
  <2>1. NoCollector
    BY <1>22, NobodyCollects DEF SpawnFails
  <2> QED
    BY <1>22, <2>1 DEF SpawnFails, NoCollector

<1>23. ASSUME NEW t \in Thread, NEW k \in Task, SpawnTask(t, k) PROVE MarkInv'
  <2>1. NoCollector
    BY <1>23, NobodyCollects DEF SpawnTask
  <2> QED
    BY <1>23, <2>1 DEF SpawnTask, NoCollector

<1>24. ASSUME NEW k \in Task, TaskReturn(k) PROVE MarkInv'
  <2>1. NoCollector
    BY <1>24, NobodyCollects DEF TaskReturn, Thread
  <2> QED
    BY <1>24, <2>1 DEF TaskReturn, NoCollector

<1>25. ASSUME NEW k \in Task, Uncount(k) PROVE MarkInv'
  <2>1. NoCollector
    BY <1>25, NobodyCollects DEF Uncount, Thread
  <2> QED
    BY <1>25, <2>1 DEF Uncount, NoCollector

<1>26. ASSUME UNCHANGED vars PROVE MarkInv'
  BY <1>26 DEF vars, mutatorVars, markVars

<1> QED
  BY <1>1, <1>2, <1>3, <1>4, <1>5, <1>6, <1>7, <1>8, <1>9, <1>10, <1>11, <1>12, <1>13, <1>14, <1>15, <1>16, <1>17, <1>18, <1>19, <1>20, <1>21, <1>22, <1>23, <1>24, <1>25, <1>26, NobodyServes
  DEF Next, Mutate, Allocate, Collect, Spawn

-----------------------------------------------------------------------------

\* The counter follows the tasks, whoever spawns them and whatever HTTP
\* threads there are.
LEMMA CountedAlways == Spec => [](TypeOK /\ CountInv)
<1>1. Init => TypeOK /\ CountInv
  BY InitInv DEF IInv
<1>2. TypeOK /\ CountInv /\ [Next]_vars => TypeOK' /\ CountInv'
  BY TypeStep, CountStep
<1> QED
  BY <1>1, <1>2, PTL DEF Spec

\* A CivetWeb thread is out of the program from the start or never.
LEMMA CountedStep == TypeOK /\ AllCounted' /\ [Next]_vars => AllCounted
<1> SUFFICES ASSUME TypeOK, Next \/ UNCHANGED vars, NEW w \in Worker, pc[w] # "gone"
             PROVE  pc'[w] # "gone"
  BY DEF AllCounted
<1>t. pc \in [Thread -> PC] /\ resume \in [Thread -> {"run", "alloc"}] /\ w \in Thread
      /\ Task \cap Worker = {}
  BY CollectorConstants DEF TypeOK, Thread
<1> USE DEF Goto
<1>1. ASSUME NEW t \in Thread, Mutate(t) PROVE pc'[w] # "gone"
  BY <1>1 DEF Mutate, Load, Store, LoadGlobal, StoreGlobal, Drop, Throw, Catch
<1>2. ASSUME NEW t \in Thread, Allocate(t) PROVE pc'[w] # "gone"
  BY <1>2, <1>t DEF Allocate, Alloc, AllocFails, AllocCollects
<1>3. ASSUME NEW t \in Thread, Collect(t) PROVE pc'[w] # "gone"
  BY <1>3, <1>t DEF Collect, CallCollect, Check, GiveUp, Begin, MarkOwn, MarkGlobals, Trace,
                    TraceDone, Free, SweepDone
<1>4. ASSUME NEW t \in Thread, Spawn(t) PROVE pc'[w] # "gone"
  BY <1>4, <1>t DEF Spawn, SpawnCount, SpawnFails, SpawnTask
<1>5. ASSUME NEW k \in Task, TaskReturn(k) \/ Uncount(k) PROVE pc'[w] # "gone"
  BY <1>5, <1>t DEF TaskReturn, Uncount
<1>6. ASSUME NEW x \in Worker, Serve(x) \/ Reply(x) PROVE pc'[w] # "gone"
  BY <1>6, <1>t DEF Serve, Reply
<1>7. ASSUME UNCHANGED vars PROVE pc'[w] # "gone"
  BY <1>7 DEF vars
<1> QED
  BY <1>1, <1>2, <1>3, <1>4, <1>5, <1>6, <1>7 DEF Next

\* The invariant is inductive when no thread runs uncounted.
THEOREM Invariance == Spec => [](AllCounted => IInv)
<1>1. AllCounted /\ IInv /\ [Next]_vars => IInv'
  BY TypeStep, CountStep, AloneStep, HeapStep, MarkStep DEF IInv
<1>2. TypeOK /\ AllCounted' /\ [Next]_vars => AllCounted
  BY CountedStep
<1>3. (AllCounted => IInv) /\ TypeOK /\ [Next]_vars => (AllCounted => IInv)'
  BY <1>1, <1>2
<1> QED
  BY InitInv, <1>3, CountedAlways, PTL DEF Spec

\* The tests of g_async_live_tasks make a collection run alone.
THEOREM RunsAlone == Spec => []CollectsAlone
<1>1. (AllCounted => IInv) => CollectsAlone
  BY DEF IInv, CollectsAlone
<1> QED
  BY <1>1, Invariance, PTL

\* No thread is ever left with a block the sweep has freed.
THEOREM NothingDangles == Spec => []NoDanglingCounted
<1>1. (AllCounted => IInv) => NoDanglingCounted
  BY DEF IInv, TypeOK, HeapInv, NoDanglingCounted, NoDangling, Held, Refs
<1> QED
  BY <1>1, Invariance, PTL

\* Reachable(Held) is closed under following fields and contains Held.
LEMMA ReachableClosed ==
    ASSUME TypeOK
    PROVE  /\ Held \cap Object \subseteq Reachable(Held)
           /\ \A o \in Reachable(Held) : Refs(field[o]) \cap Object \subseteq Reachable(Held)
BY DEF Reachable

\* When everything held is marked and marks are closed, nothing unmarked can
\* be reached.
LEMMA UnmarkedIsGarbage ==
    ASSUME IInv, NEW t \in Thread, pc[t] = "sweep"
    PROVE  Reachable(Held) \subseteq marked /\ Held \subseteq marked
<1> USE DEF IInv, TypeOK, MarkInv, Refs
<1>1. \A u \in Thread : u # t => roots[u] = {} /\ exc[u] = Null
  BY DEF Alone, IdleInv, Collecting
<1>2. Held \subseteq marked
  BY <1>1 DEF Held
<1>3. \A x \in marked : Refs(field[x]) \subseteq marked
  BY DEF Collecting
<1>4. marked \in SUBSET Object
  OBVIOUS
<1> QED
  BY <1>2, <1>3, <1>4 DEF Reachable

\* A step frees a block only in Free.
LEMMA FreesStep ==
    AllCounted /\ IInv /\ [Next]_vars
        => \A o \in blocks : o \notin blocks' => o \notin Reachable(Held)
<1> SUFFICES ASSUME AllCounted, IInv, Next \/ UNCHANGED vars
             PROVE  \A o \in blocks : o \notin blocks' => o \notin Reachable(Held)
  OBVIOUS
<1>f. ASSUME NEW t \in Thread, Free(t)
      PROVE  \A o \in blocks : o \notin blocks' => o \notin Reachable(Held)
  BY <1>f, UnmarkedIsGarbage DEF Free
<1>o. ASSUME \A t \in Thread : ~Free(t) PROVE blocks \subseteq blocks'
  BY <1>o, NobodyServes DEF Next, Mutate, Allocate, Collect, Spawn, Load, Store, LoadGlobal, StoreGlobal,
     Drop, Throw, Catch, Alloc, Link, AllocFails, AllocCollects, CallCollect, Check, GiveUp,
     Begin, MarkOwn, MarkGlobals, Trace, TraceDone, SweepDone, SpawnCount, SpawnFails,
     SpawnTask, TaskReturn, Uncount, vars, mutatorVars, markVars
<1> QED
  BY <1>f, <1>o

\* A collection frees only what nothing can reach.
THEOREM OnlyGarbageIsFreed == Spec => FreesOnlyGarbage
<1>1. (AllCounted => IInv) /\ [Next]_vars =>
         [AllCounted => \A o \in blocks : o \notin blocks' => o \notin Reachable(Held)]_vars
  BY FreesStep
<1> QED
  BY <1>1, Invariance, PTL DEF Spec, FreesOnlyGarbage

\* Every marked block is reachable while a collection is under way.
MarkedReachable == ~NoCollector => marked \subseteq Reachable(Held)

\* Reachable depends on the fields and on what is held only.
LEMMA SameReachable ==
    ASSUME UNCHANGED <<roots, exc, global, field>> PROVE Reachable(Held)' = Reachable(Held)
BY DEF Reachable, Held, Refs

\* Marking follows fields from the roots, and freeing unmarked blocks takes
\* nothing from what the marked ones can reach.
LEMMA ReachableStep ==
    AllCounted /\ IInv /\ MarkedReachable /\ [Next]_vars => MarkedReachable'
<1> SUFFICES ASSUME AllCounted, IInv, MarkedReachable, Next \/ UNCHANGED vars
             PROVE  MarkedReachable'
  OBVIOUS
<1> USE CollectorConstants DEF MarkedReachable, mutatorVars, markVars
<1>a. TypeOK
  BY DEF IInv
<1>1. ASSUME NEW t \in Thread, Load(t) PROVE MarkedReachable'
  <2>1. NoCollector
    BY <1>1, NobodyCollects DEF Load, Collecting, Marking
  <2> QED
    BY <1>1, <2>1, <1>a DEF Load, NoCollector, TypeOK, Goto, Collecting, Marking, PC

<1>2. ASSUME NEW t \in Thread, Store(t) PROVE MarkedReachable'
  <2>1. NoCollector
    BY <1>2, NobodyCollects DEF Store, Collecting, Marking
  <2> QED
    BY <1>2, <2>1, <1>a DEF Store, NoCollector, TypeOK, Goto, Collecting, Marking, PC

<1>3. ASSUME NEW t \in Thread, LoadGlobal(t) PROVE MarkedReachable'
  <2>1. NoCollector
    BY <1>3, NobodyCollects DEF LoadGlobal, Collecting, Marking
  <2> QED
    BY <1>3, <2>1, <1>a DEF LoadGlobal, NoCollector, TypeOK, Goto, Collecting, Marking, PC

<1>4. ASSUME NEW t \in Thread, StoreGlobal(t) PROVE MarkedReachable'
  <2>1. NoCollector
    BY <1>4, NobodyCollects DEF StoreGlobal, Collecting, Marking
  <2> QED
    BY <1>4, <2>1, <1>a DEF StoreGlobal, NoCollector, TypeOK, Goto, Collecting, Marking, PC

<1>5. ASSUME NEW t \in Thread, Drop(t) PROVE MarkedReachable'
  <2>1. NoCollector
    BY <1>5, NobodyCollects DEF Drop, Collecting, Marking
  <2> QED
    BY <1>5, <2>1, <1>a DEF Drop, NoCollector, TypeOK, Goto, Collecting, Marking, PC

<1>6. ASSUME NEW t \in Thread, Throw(t) PROVE MarkedReachable'
  <2>1. NoCollector
    BY <1>6, NobodyCollects DEF Throw, Collecting, Marking
  <2> QED
    BY <1>6, <2>1, <1>a DEF Throw, NoCollector, TypeOK, Goto, Collecting, Marking, PC

<1>7. ASSUME NEW t \in Thread, Catch(t) PROVE MarkedReachable'
  <2>1. NoCollector
    BY <1>7, NobodyCollects DEF Catch, Collecting, Marking
  <2> QED
    BY <1>7, <2>1, <1>a DEF Catch, NoCollector, TypeOK, Goto, Collecting, Marking, PC

<1>8. ASSUME NEW t \in Thread, Alloc(t) PROVE MarkedReachable'
  <2>1. NoCollector
    BY <1>8, NobodyCollects DEF Alloc, Collecting, Marking
  <2> QED
    BY <1>8, <2>1, <1>a DEF Alloc, NoCollector, TypeOK, Goto, Collecting, Marking, PC

<1>9. ASSUME NEW t \in Thread, AllocFails(t) PROVE MarkedReachable'
  <2>1. NoCollector
    BY <1>9, NobodyCollects DEF AllocFails, Collecting, Marking
  <2> QED
    BY <1>9, <2>1, <1>a DEF AllocFails, NoCollector, TypeOK, Goto, Collecting, Marking, PC

<1>10. ASSUME NEW t \in Thread, AllocCollects(t) PROVE MarkedReachable'
  <2>1. NoCollector
    BY <1>10, NobodyCollects DEF AllocCollects, Collecting, Marking
  <2> QED
    BY <1>10, <2>1, <1>a DEF AllocCollects, NoCollector, TypeOK, Goto, Collecting, Marking, PC

<1>11. ASSUME NEW t \in Thread, CallCollect(t) PROVE MarkedReachable'
  <2>1. NoCollector
    BY <1>11, NobodyCollects DEF CallCollect, Collecting, Marking
  <2> QED
    BY <1>11, <2>1, <1>a DEF CallCollect, NoCollector, TypeOK, Goto, Collecting, Marking, PC

<1>12. ASSUME NEW t \in Thread, Check(t) PROVE MarkedReachable'
  <2>1. NoCollector
    BY <1>12, NobodyCollects DEF Check, Collecting, Marking
  <2> QED
    BY <1>12, <2>1, <1>a DEF Check, NoCollector, TypeOK, Goto, Collecting, Marking, PC

<1>13. ASSUME NEW t \in Thread, GiveUp(t) PROVE MarkedReachable'
  <2>1. NoCollector
    BY <1>13, NobodyCollects DEF GiveUp, Collecting, Marking
  <2> QED
    BY <1>13, <2>1, <1>a DEF GiveUp, NoCollector, TypeOK, Goto, Collecting, Marking, PC

<1>14. ASSUME NEW t \in Thread, Begin(t) PROVE MarkedReachable'
  <2> QED
    BY <1>14 DEF Begin

<1>15. ASSUME NEW t \in Thread, MarkOwn(t) PROVE MarkedReachable'
  <2>1. ~NoCollector
    BY <1>15 DEF MarkOwn, NoCollector, Collecting, Marking
  <2>2. Reachable(Held)' = Reachable(Held)
    BY <1>15, SameReachable DEF MarkOwn
  <2>3. marked' \subseteq Reachable(Held)
    BY <1>15, <1>a, <2>1, ReachableClosed DEF MarkOwn, Mark, TypeOK, Held, Refs
  <2> QED
    BY <2>2, <2>3

<1>16. ASSUME NEW t \in Thread, MarkGlobals(t) PROVE MarkedReachable'
  <2>1. ~NoCollector
    BY <1>16 DEF MarkGlobals, NoCollector, Collecting, Marking
  <2>2. Reachable(Held)' = Reachable(Held)
    BY <1>16, SameReachable DEF MarkGlobals
  <2>3. marked' \subseteq Reachable(Held)
    BY <1>16, <1>a, <2>1, ReachableClosed DEF MarkGlobals, Mark, TypeOK, Held, Refs
  <2> QED
    BY <2>2, <2>3

<1>17. ASSUME NEW t \in Thread, Trace(t) PROVE MarkedReachable'
  <2>1. ~NoCollector
    BY <1>17 DEF Trace, NoCollector, Collecting, Marking
  <2>2. Reachable(Held)' = Reachable(Held)
    BY <1>17, SameReachable DEF Trace
  <2>3. marked' \subseteq Reachable(Held)
    BY <1>17, <1>a, <2>1, ReachableClosed DEF Trace, Mark, TypeOK, Ref, Refs
  <2> QED
    BY <2>2, <2>3

<1>18. ASSUME NEW t \in Thread, TraceDone(t) PROVE MarkedReachable'
  <2>1. ~NoCollector
    BY <1>18 DEF TraceDone, NoCollector, Collecting, Marking
  <2>2. Reachable(Held)' = Reachable(Held)
    BY <1>18, SameReachable DEF TraceDone
  <2>3. marked' \subseteq Reachable(Held)
    BY <1>18, <1>a, <2>1, ReachableClosed DEF TraceDone, Mark, TypeOK, Held, Refs
  <2> QED
    BY <2>2, <2>3

<1>19. ASSUME NEW t \in Thread, Free(t) PROVE MarkedReachable'
  <2>1. PICK o \in blocks \ marked : field' = [field EXCEPT ![o] = Null]
    BY <1>19 DEF Free
  <2>2. ~NoCollector /\ UNCHANGED <<roots, exc, global, marked>>
    BY <1>19 DEF Free, NoCollector, Collecting
  <2>3. Held' = Held /\ Held \subseteq marked
    BY <1>19, <2>2, UnmarkedIsGarbage DEF Free, Held, Refs
  <2>4. \A x \in marked : Refs(field[x]) \subseteq marked /\ field'[x] = field[x]
    BY <1>19, <2>1, <1>a DEF Free, IInv, MarkInv, Collecting, Refs, TypeOK
  <2>5. ASSUME NEW S \in SUBSET Object, Held \subseteq S,
               \A x \in S : Refs(field'[x]) \subseteq S
        PROVE  marked \subseteq S
    <3>1. Held \subseteq S \cap marked /\ S \cap marked \in SUBSET Object
      BY <2>3, <2>5
    <3>2. \A x \in S \cap marked : Refs(field[x]) \subseteq S \cap marked
      BY <2>4, <2>5
    <3>3. Reachable(Held) \subseteq S \cap marked
      BY <3>1, <3>2 DEF Reachable
    <3> QED
      BY <3>3, <2>2
  <2>6. marked \subseteq Reachable(Held)'
    BY <2>3, <2>5, <1>a DEF Reachable, TypeOK
  <2> QED
    BY <2>2, <2>6

<1>20. ASSUME NEW t \in Thread, SweepDone(t) PROVE MarkedReachable'
  <2>1. \A u \in Thread : pc'[u] \notin Collecting
    BY <1>20, <1>a DEF SweepDone, IInv, Alone, TypeOK, Goto, Collecting, Marking, PC
  <2> QED
    BY <2>1 DEF NoCollector

<1>21. ASSUME NEW t \in Thread, SpawnCount(t) PROVE MarkedReachable'
  <2>1. NoCollector
    BY <1>21, NobodyCollects DEF SpawnCount, Collecting, Marking
  <2> QED
    BY <1>21, <2>1, <1>a DEF SpawnCount, NoCollector, TypeOK, Goto, Collecting, Marking, PC

<1>22. ASSUME NEW t \in Thread, SpawnFails(t) PROVE MarkedReachable'
  <2>1. NoCollector
    BY <1>22, NobodyCollects DEF SpawnFails, Collecting, Marking
  <2> QED
    BY <1>22, <2>1, <1>a DEF SpawnFails, NoCollector, TypeOK, Goto, Collecting, Marking, PC

<1>23. ASSUME NEW t \in Thread, NEW k \in Task, SpawnTask(t, k) PROVE MarkedReachable'
  <2>1. NoCollector
    BY <1>23, NobodyCollects DEF SpawnTask, Collecting, Marking
  <2> QED
    BY <1>23, <2>1, <1>a DEF SpawnTask, NoCollector, TypeOK, Goto, Collecting, Marking, PC

<1>24. ASSUME NEW k \in Task, TaskReturn(k) PROVE MarkedReachable'
  <2>1. NoCollector
    BY <1>24, NobodyCollects DEF TaskReturn, Thread, Collecting, Marking
  <2> QED
    BY <1>24, <2>1, <1>a DEF TaskReturn, NoCollector, TypeOK, Goto, Collecting, Marking, PC

<1>25. ASSUME NEW k \in Task, Uncount(k) PROVE MarkedReachable'
  <2>1. NoCollector
    BY <1>25, NobodyCollects DEF Uncount, Thread, Collecting, Marking
  <2> QED
    BY <1>25, <2>1, <1>a DEF Uncount, NoCollector, TypeOK, Goto, Collecting, Marking, PC

<1>26. ASSUME UNCHANGED vars PROVE MarkedReachable'
  BY <1>26, SameReachable DEF vars, mutatorVars, markVars, NoCollector

<1> QED
  BY <1>1, <1>2, <1>3, <1>4, <1>5, <1>6, <1>7, <1>8, <1>9, <1>10, <1>11, <1>12, <1>13, <1>14, <1>15, <1>16, <1>17, <1>18, <1>19, <1>20, <1>21, <1>22, <1>23, <1>24, <1>25, <1>26, NobodyServes
  DEF Next, Mutate, Allocate, Collect, Spawn

\* When a sweep ends the block list holds marked blocks only.
SweptClean(t) == pc[t] = "sweep" /\ pc'[t] # "sweep" => blocks' \subseteq Reachable(Held)

\* A sweep ends in SweepDone only.
LEMMA SweepStep ==
    ASSUME AllCounted, IInv, MarkedReachable, Next \/ UNCHANGED vars, NEW u \in Thread
    PROVE  SweptClean(u)
<1> USE CollectorConstants DEF SweptClean, Goto, mutatorVars, markVars, IInv, TypeOK
<1>a. ASSUME pc[u] = "sweep" PROVE \A t \in Thread : t # u => pc[t] \in {"none", "gone"}
  BY <1>a DEF Alone, Collecting
<1>1. ASSUME NEW t \in Thread, Load(t) PROVE SweptClean(u)
  BY <1>a, <1>1 DEF Load, Thread

<1>2. ASSUME NEW t \in Thread, Store(t) PROVE SweptClean(u)
  BY <1>a, <1>2 DEF Store, Thread

<1>3. ASSUME NEW t \in Thread, LoadGlobal(t) PROVE SweptClean(u)
  BY <1>a, <1>3 DEF LoadGlobal, Thread

<1>4. ASSUME NEW t \in Thread, StoreGlobal(t) PROVE SweptClean(u)
  BY <1>a, <1>4 DEF StoreGlobal, Thread

<1>5. ASSUME NEW t \in Thread, Drop(t) PROVE SweptClean(u)
  BY <1>a, <1>5 DEF Drop, Thread

<1>6. ASSUME NEW t \in Thread, Throw(t) PROVE SweptClean(u)
  BY <1>a, <1>6 DEF Throw, Thread

<1>7. ASSUME NEW t \in Thread, Catch(t) PROVE SweptClean(u)
  BY <1>a, <1>7 DEF Catch, Thread

<1>8. ASSUME NEW t \in Thread, Alloc(t) PROVE SweptClean(u)
  BY <1>a, <1>8 DEF Alloc, Thread

<1>9. ASSUME NEW t \in Thread, AllocFails(t) PROVE SweptClean(u)
  BY <1>a, <1>9 DEF AllocFails, Thread

<1>10. ASSUME NEW t \in Thread, AllocCollects(t) PROVE SweptClean(u)
  BY <1>a, <1>10 DEF AllocCollects, Thread

<1>11. ASSUME NEW t \in Thread, CallCollect(t) PROVE SweptClean(u)
  BY <1>a, <1>11 DEF CallCollect, Thread

<1>12. ASSUME NEW t \in Thread, Check(t) PROVE SweptClean(u)
  BY <1>a, <1>12 DEF Check, Thread

<1>13. ASSUME NEW t \in Thread, GiveUp(t) PROVE SweptClean(u)
  BY <1>a, <1>13 DEF GiveUp, Thread

<1>14. ASSUME NEW t \in Thread, Begin(t) PROVE SweptClean(u)
  BY <1>a, <1>14 DEF Begin, Thread

<1>15. ASSUME NEW t \in Thread, MarkOwn(t) PROVE SweptClean(u)
  BY <1>a, <1>15 DEF MarkOwn, Thread

<1>16. ASSUME NEW t \in Thread, MarkGlobals(t) PROVE SweptClean(u)
  BY <1>a, <1>16 DEF MarkGlobals, Thread

<1>17. ASSUME NEW t \in Thread, Trace(t) PROVE SweptClean(u)
  BY <1>a, <1>17 DEF Trace, Thread

<1>18. ASSUME NEW t \in Thread, TraceDone(t) PROVE SweptClean(u)
  BY <1>a, <1>18 DEF TraceDone, Thread

<1>19. ASSUME NEW t \in Thread, Free(t) PROVE SweptClean(u)
  BY <1>a, <1>19 DEF Free, Thread

<1>20. ASSUME NEW t \in Thread, SweepDone(t) PROVE SweptClean(u)
  <2>1. ~NoCollector
    BY <1>20 DEF SweepDone, NoCollector, Collecting
  <2> QED
    BY <1>20, <2>1 DEF SweepDone, MarkedReachable

<1>21. ASSUME NEW t \in Thread, SpawnCount(t) PROVE SweptClean(u)
  BY <1>a, <1>21 DEF SpawnCount, Thread

<1>22. ASSUME NEW t \in Thread, SpawnFails(t) PROVE SweptClean(u)
  BY <1>a, <1>22 DEF SpawnFails, Thread

<1>23. ASSUME NEW t \in Thread, NEW k \in Task, SpawnTask(t, k) PROVE SweptClean(u)
  BY <1>a, <1>23 DEF SpawnTask, Thread

<1>24. ASSUME NEW k \in Task, TaskReturn(k) PROVE SweptClean(u)
  BY <1>a, <1>24 DEF TaskReturn, Thread

<1>25. ASSUME NEW k \in Task, Uncount(k) PROVE SweptClean(u)
  BY <1>a, <1>25 DEF Uncount, Thread

<1>26. ASSUME UNCHANGED vars PROVE SweptClean(u)
  BY <1>26 DEF vars, mutatorVars, markVars

<1> QED
  BY <1>1, <1>2, <1>3, <1>4, <1>5, <1>6, <1>7, <1>8, <1>9, <1>10, <1>11, <1>12, <1>13, <1>14, <1>15, <1>16, <1>17, <1>18, <1>19, <1>20, <1>21, <1>22, <1>23, <1>24, <1>25, <1>26, NobodyServes
  DEF Next, Mutate, Allocate, Collect, Spawn

\* A collection leaves nothing behind that cannot be reached.
THEOREM AllGarbageIsFreed == Spec => CollectsAllGarbage
<1>1. Init => MarkedReachable
  BY DEF Init, MarkedReachable, NoCollector, Collecting, Marking
<1>2. (AllCounted => IInv) /\ (AllCounted => MarkedReachable) /\ [Next]_vars
         => [AllCounted => \A t \in Thread : SweptClean(t)]_vars
  BY SweepStep
<1>3. (AllCounted => IInv) /\ TypeOK /\ (AllCounted => MarkedReachable) /\ [Next]_vars
         => (AllCounted => MarkedReachable)'
  BY ReachableStep, CountedStep
<1> QED
  BY <1>1, <1>2, <1>3, Invariance, CountedAlways, PTL DEF Spec, CollectsAllGarbage, SweptClean

-----------------------------------------------------------------------------
(* What holds with uncounted threads too *)

\* __kn_gc_collect keeps the types: the live counter never goes below 0, the
\* mark stack holds marked blocks.
THEOREM TypeCorrect == Spec => []TypeOK
BY CountedAlways, PTL

\* The thread that collects is the one that has g_gc_lock.
LockInv ==
    /\ pc \in [Thread -> PC] /\ resume \in [Thread -> {"run", "alloc"}]
    /\ \A t \in Thread : pc[t] \in Collecting <=> lock = t

\* A collection begins and ends with taking and releasing g_gc_lock, and what
\* links a block in needs it too.
LEMMA LockStep ==
    LockInv /\ [Next]_vars =>
        LockInv' /\ ((\E t \in Thread : pc[t] \in Collecting) => blocks' \subseteq blocks)
<1> SUFFICES ASSUME LockInv, [Next]_vars
             PROVE  LockInv' /\ (lock \in Thread => blocks' \subseteq blocks)
  BY DEF LockInv
<1> USE CollectorConstants DEF LockInv, Goto, mutatorVars, markVars, Collecting, Marking, PC
<1>0. Null \notin Thread /\ Task \subseteq Thread /\ Worker \subseteq Thread
  BY DEF Thread
<1>1. ASSUME NEW t \in Thread, Load(t) PROVE LockInv' /\ (lock \in Thread => blocks' \subseteq blocks)
  BY <1>0, <1>1 DEF Load
<1>2. ASSUME NEW t \in Thread, Store(t) PROVE LockInv' /\ (lock \in Thread => blocks' \subseteq blocks)
  BY <1>0, <1>2 DEF Store
<1>3. ASSUME NEW t \in Thread, LoadGlobal(t) PROVE LockInv' /\ (lock \in Thread => blocks' \subseteq blocks)
  BY <1>0, <1>3 DEF LoadGlobal
<1>4. ASSUME NEW t \in Thread, StoreGlobal(t) PROVE LockInv' /\ (lock \in Thread => blocks' \subseteq blocks)
  BY <1>0, <1>4 DEF StoreGlobal
<1>5. ASSUME NEW t \in Thread, Drop(t) PROVE LockInv' /\ (lock \in Thread => blocks' \subseteq blocks)
  BY <1>0, <1>5 DEF Drop
<1>6. ASSUME NEW t \in Thread, Throw(t) PROVE LockInv' /\ (lock \in Thread => blocks' \subseteq blocks)
  BY <1>0, <1>6 DEF Throw
<1>7. ASSUME NEW t \in Thread, Catch(t) PROVE LockInv' /\ (lock \in Thread => blocks' \subseteq blocks)
  BY <1>0, <1>7 DEF Catch
<1>8. ASSUME NEW t \in Thread, Alloc(t) PROVE LockInv' /\ (lock \in Thread => blocks' \subseteq blocks)
  BY <1>0, <1>8 DEF Alloc, Link
<1>9. ASSUME NEW t \in Thread, AllocFails(t) PROVE LockInv' /\ (lock \in Thread => blocks' \subseteq blocks)
  BY <1>0, <1>9 DEF AllocFails
<1>10. ASSUME NEW t \in Thread, AllocCollects(t) PROVE LockInv' /\ (lock \in Thread => blocks' \subseteq blocks)
  BY <1>0, <1>10 DEF AllocCollects
<1>11. ASSUME NEW t \in Thread, CallCollect(t) PROVE LockInv' /\ (lock \in Thread => blocks' \subseteq blocks)
  BY <1>0, <1>11 DEF CallCollect
<1>12. ASSUME NEW t \in Thread, Check(t) PROVE LockInv' /\ (lock \in Thread => blocks' \subseteq blocks)
  BY <1>0, <1>12 DEF Check
<1>13. ASSUME NEW t \in Thread, GiveUp(t) PROVE LockInv' /\ (lock \in Thread => blocks' \subseteq blocks)
  BY <1>0, <1>13 DEF GiveUp
<1>14. ASSUME NEW t \in Thread, Begin(t) PROVE LockInv' /\ (lock \in Thread => blocks' \subseteq blocks)
  BY <1>0, <1>14 DEF Begin
<1>15. ASSUME NEW t \in Thread, MarkOwn(t) PROVE LockInv' /\ (lock \in Thread => blocks' \subseteq blocks)
  BY <1>0, <1>15 DEF MarkOwn, Mark
<1>16. ASSUME NEW t \in Thread, MarkGlobals(t) PROVE LockInv' /\ (lock \in Thread => blocks' \subseteq blocks)
  BY <1>0, <1>16 DEF MarkGlobals, Mark
<1>17. ASSUME NEW t \in Thread, Trace(t) PROVE LockInv' /\ (lock \in Thread => blocks' \subseteq blocks)
  BY <1>0, <1>17 DEF Trace, Mark
<1>18. ASSUME NEW t \in Thread, TraceDone(t) PROVE LockInv' /\ (lock \in Thread => blocks' \subseteq blocks)
  BY <1>0, <1>18 DEF TraceDone
<1>19. ASSUME NEW t \in Thread, Free(t) PROVE LockInv' /\ (lock \in Thread => blocks' \subseteq blocks)
  BY <1>0, <1>19 DEF Free
<1>20. ASSUME NEW t \in Thread, SweepDone(t) PROVE LockInv' /\ (lock \in Thread => blocks' \subseteq blocks)
  BY <1>0, <1>20 DEF SweepDone
<1>21. ASSUME NEW t \in Thread, SpawnCount(t) PROVE LockInv' /\ (lock \in Thread => blocks' \subseteq blocks)
  BY <1>0, <1>21 DEF SpawnCount
<1>22. ASSUME NEW t \in Thread, SpawnFails(t) PROVE LockInv' /\ (lock \in Thread => blocks' \subseteq blocks)
  BY <1>0, <1>22 DEF SpawnFails
<1>23. ASSUME NEW t \in Thread, NEW k \in Task, SpawnTask(t, k) PROVE LockInv' /\ (lock \in Thread => blocks' \subseteq blocks)
  BY <1>0, <1>23 DEF SpawnTask
<1>24. ASSUME NEW k \in Task, TaskReturn(k) PROVE LockInv' /\ (lock \in Thread => blocks' \subseteq blocks)
  BY <1>0, <1>24 DEF TaskReturn
<1>25. ASSUME NEW k \in Task, Uncount(k) PROVE LockInv' /\ (lock \in Thread => blocks' \subseteq blocks)
  BY <1>0, <1>25 DEF Uncount
<1>26. ASSUME NEW w \in Worker, Serve(w) PROVE LockInv' /\ (lock \in Thread => blocks' \subseteq blocks)
  BY <1>0, <1>26 DEF Serve
<1>27. ASSUME NEW w \in Worker, Reply(w) PROVE LockInv' /\ (lock \in Thread => blocks' \subseteq blocks)
  BY <1>0, <1>27 DEF Reply
<1>28. CASE UNCHANGED vars
  BY <1>0, <1>28 DEF vars
<1> QED
  BY <1>1, <1>2, <1>3, <1>4, <1>5, <1>6, <1>7, <1>8, <1>9, <1>10, <1>11, <1>12, <1>13, <1>14, <1>15, <1>16, <1>17, <1>18, <1>19, <1>20, <1>21, <1>22, <1>23, <1>24, <1>25, <1>26, <1>27, <1>28
  DEF Next, Mutate, Allocate, Collect, Spawn

\* The lock is free at first.
LEMMA LockInit == Init => LockInv
BY CollectorConstants DEF Init, LockInv, Thread, PC, Collecting, Marking

\* One thread collects at a time, whatever threads there are: g_gc_lock is
\* held from the marking to the end of the sweep.
THEOREM OneCollects == Spec => []OneCollector
<1>1. LockInv /\ [Next]_vars => LockInv'
  BY LockStep
<1>2. LockInv => OneCollector
  BY DEF LockInv, OneCollector
<1> QED
  BY LockInit, <1>1, <1>2, PTL DEF Spec

\* No block is linked in while a collection runs, by any thread.
THEOREM NothingLinked == Spec => NothingLinkedMeanwhile
<1>1. LockInv /\ [Next]_vars => LockInv'
  BY LockStep
<1>2. LockInv /\ [Next]_vars =>
        [(\E t \in Thread : pc[t] \in Collecting) => blocks' \subseteq blocks]_vars
  BY LockStep
<1> QED
  BY LockInit, <1>1, <1>2, PTL DEF Spec, NothingLinkedMeanwhile

\* No task thread runs while a collection scans and sweeps, and none collects.
TasksOut ==
    (\E t \in Thread : pc[t] \in Collecting) => \A k \in Task : pc[k] \in {"none", "gone"}

\* A collection begins when no task is counted, and needs the lock without
\* which no task is created.
LEMMA TasksStep ==
    TypeOK /\ CountInv /\ LockInv /\ TasksOut /\ [Next]_vars => TasksOut'
<1> SUFFICES ASSUME TypeOK, CountInv, LockInv, TasksOut, [Next]_vars,
                    NEW u \in Thread, pc'[u] \in Collecting, NEW k \in Task
             PROVE  pc'[k] \in {"none", "gone"}
  BY DEF TasksOut
<1>0. /\ pc \in [Thread -> PC] /\ Task \subseteq Thread /\ Worker \subseteq Thread
      /\ Task \cap Worker = {} /\ Null \notin Thread
      /\ resume \in [Thread -> {"run", "alloc"}]
  BY CollectorConstants DEF TypeOK, Thread
<1>1. ASSUME pc' = pc PROVE pc'[k] \in {"none", "gone"}
  BY <1>1 DEF TasksOut
\* A thread that moves on within its call, and begins no collection.
<1>2. ASSUME NEW t \in Thread, pc[t] \notin {"none", "gone"}, NEW l \in PC,
             pc' = [pc EXCEPT ![t] = l], l \in Collecting => pc[t] \in Collecting
      PROVE  pc'[k] \in {"none", "gone"}
  <2>1. pc[u] \in Collecting
    BY <1>0, <1>2
  <2>2. pc[k] \in {"none", "gone"}
    BY <2>1 DEF TasksOut
  <2> QED
    BY <1>0, <1>2, <2>2
<1>3. ASSUME NEW t \in Thread, Mutate(t) PROVE pc'[k] \in {"none", "gone"}
  BY <1>1, <1>3 DEF Mutate, Load, Store, LoadGlobal, StoreGlobal, Drop, Throw, Catch
<1>4. ASSUME NEW t \in Thread, Allocate(t) PROVE pc'[k] \in {"none", "gone"}
  <2>1. /\ pc[t] \notin {"none", "gone"}
        /\ pc' = [pc EXCEPT ![t] = "run"] \/ pc' = [pc EXCEPT ![t] = "check"]
    BY <1>4 DEF Allocate, Alloc, AllocFails, AllocCollects, Goto
  <2> QED
    BY <1>2, <2>1 DEF PC, Collecting, Marking
<1>5. ASSUME NEW t \in Thread, Begin(t) PROVE pc'[k] \in {"none", "gone"}
  <2>1. Running = {}
    BY <1>5, ZeroMeansNone DEF Begin, NoTaskLive
  <2>2. t # k /\ pc'[k] = pc[k]
    BY <1>0, <1>5, <2>1 DEF Begin, Goto, Running
  <2> QED
    BY <2>1, <2>2 DEF Running
<1>6. ASSUME NEW t \in Thread, CallCollect(t) \/ Check(t) \/ GiveUp(t) \/ SweepDone(t)
      PROVE  pc'[k] \in {"none", "gone"}
  <2>1. pc[t] \notin {"none", "gone"} /\ \E l \in {"check", "lock", "run", "alloc"} : pc' = [pc EXCEPT ![t] = l]
    BY <1>0, <1>6 DEF CallCollect, Check, GiveUp, SweepDone, Goto
  <2> QED
    BY <1>2, <2>1 DEF PC, Collecting, Marking
<1>7. ASSUME NEW t \in Thread, MarkOwn(t) \/ MarkGlobals(t) \/ TraceDone(t)
      PROVE  pc'[k] \in {"none", "gone"}
  <2>1. pc[t] \in Collecting /\ \E l \in Collecting : pc' = [pc EXCEPT ![t] = l]
    BY <1>7 DEF MarkOwn, MarkGlobals, TraceDone, Goto, Collecting, Marking
  <2>2. Collecting \subseteq PC /\ Collecting \cap {"none", "gone"} = {}
    BY DEF PC, Collecting, Marking
  <2> QED
    BY <1>2, <2>1, <2>2
<1>8. ASSUME NEW t \in Thread, Trace(t) \/ Free(t) PROVE pc'[k] \in {"none", "gone"}
  BY <1>1, <1>8 DEF Trace, Free
<1>9. ASSUME NEW t \in Thread, SpawnCount(t) \/ SpawnFails(t) PROVE pc'[k] \in {"none", "gone"}
  <2>1. pc[t] \notin {"none", "gone"} /\ \E l \in {"spawn", "run"} : pc' = [pc EXCEPT ![t] = l]
    BY <1>9 DEF SpawnCount, SpawnFails, Goto
  <2> QED
    BY <1>2, <2>1 DEF PC, Collecting, Marking
<1>10. ASSUME NEW t \in Thread, NEW j \in Task, SpawnTask(t, j) PROVE pc'[k] \in {"none", "gone"}
  <2>1. lock = Null /\ pc' = [pc EXCEPT ![t] = "run", ![j] = "run"]
    BY <1>10 DEF SpawnTask
  <2>2. pc[u] \notin Collecting
    BY <1>0, <2>1 DEF LockInv
  <2>3. pc'[u] \in {pc[u], "run"}
    BY <1>0, <2>1
  <2> QED
    BY <2>2, <2>3 DEF Collecting, Marking
<1>11. ASSUME NEW j \in Task, TaskReturn(j) \/ Uncount(j) PROVE pc'[k] \in {"none", "gone"}
  <2>1. pc[j] \notin {"none", "gone"} /\ \E l \in {"uncount", "gone"} : pc' = [pc EXCEPT ![j] = l]
    BY <1>11 DEF TaskReturn, Uncount, Goto
  <2> QED
    BY <1>0, <1>2, <2>1 DEF PC, Collecting, Marking
<1>12. ASSUME NEW w \in Worker, Serve(w) PROVE pc'[k] \in {"none", "gone"}
  <2>1. pc' = [pc EXCEPT ![w] = "run"] /\ w # k
    BY <1>0, <1>12 DEF Serve, Goto
  <2>2. pc[u] \in Collecting
    BY <1>0, <2>1 DEF Collecting, Marking
  <2> QED
    BY <1>0, <2>1, <2>2 DEF TasksOut
<1>13. ASSUME NEW w \in Worker, Reply(w) PROVE pc'[k] \in {"none", "gone"}
  <2>1. pc[w] = "run" /\ pc' = [pc EXCEPT ![w] = "none"]
    BY <1>13 DEF Reply, Goto
  <2> QED
    BY <1>0, <1>2, <2>1 DEF PC, Collecting, Marking
<1>14. CASE UNCHANGED vars
  BY <1>1, <1>14 DEF vars
<1> QED
  BY <1>3, <1>4, <1>5, <1>6, <1>7, <1>8, <1>9, <1>10, <1>11, <1>12, <1>13, <1>14 DEF Next, Collect, Spawn

\* A task never runs during a collection of __kn_gc_collect, and never makes
\* one itself, whatever HTTP threads there are: g_async_live_tasks keeps every
\* thread out that it counts, and those it does not count cannot upset it.
THEOREM TasksKeptOut == Spec => []TasksOut
<1>1. Init => TasksOut
  BY DEF Init, TasksOut, Collecting, Marking
<1>2. LockInv /\ [Next]_vars => LockInv'
  BY LockStep
<1> QED
  BY <1>1, <1>2, LockInit, CountedAlways, TasksStep, PTL DEF Spec

-----------------------------------------------------------------------------
(* The tasks the collector sees are those of the task runtime *)

Tasks == INSTANCE LiveTasks WITH up <- TRUE, spawning <- Spawning, running <- Running

TasksStay == Running' = Running /\ Spawning' = Spawning /\ live' = live

\* A thread that neither spawns nor ends, before and after.
LEMMA TasksStutter ==
    ASSUME NEW t \in Thread, NEW l \in PC, pc \in [Thread -> PC],
           pc[t] \notin {"none", "gone", "spawn"} \/ (t \notin Task /\ pc[t] = "none"),
           l \notin {"none", "gone", "spawn"} \/ (t \notin Task /\ l = "none"),
           pc' = [pc EXCEPT ![t] = l]
    PROVE  Running' = Running /\ Spawning' = Spawning
<1>1. \A k \in Task : k \in Running' <=> k \in Running
  BY CollectorConstants DEF Running, Thread
<1>2. \A u \in Thread : u \in Spawning' <=> u \in Spawning
  BY DEF Spawning
<1> QED
  BY <1>1, <1>2 DEF Running, Spawning

\* Steps other than those of spawns and of the end of a task.
LEMMA TasksUntouched ==
    ASSUME TypeOK, NEW t \in Thread,
           Mutate(t) \/ Allocate(t) \/ Collect(t) \/ (t \in Task /\ TaskReturn(t))
                     \/ (t \in Worker /\ (Serve(t) \/ Reply(t)))
    PROVE  TasksStay
<1>0. pc \in [Thread -> PC] /\ resume[t] \in {"run", "alloc"} /\ Task \cap Worker = {}
  BY CollectorConstants DEF TypeOK
<1>1. CASE pc' = pc /\ live' = live
  BY <1>1 DEF Running, Spawning, TasksStay
<1>2. ASSUME NEW l \in PC, pc' = [pc EXCEPT ![t] = l], live' = live,
             pc[t] \notin {"none", "gone", "spawn"} \/ (t \notin Task /\ pc[t] = "none"),
             l \notin {"none", "gone", "spawn"} \/ (t \notin Task /\ l = "none")
      PROVE  TasksStay
  BY <1>0, <1>2, TasksStutter DEF TasksStay
<1>3. CASE Mutate(t)
  BY <1>1, <1>3 DEF Mutate, Load, Store, LoadGlobal, StoreGlobal, Drop, Throw, Catch
<1>4. CASE Allocate(t)
  <2>1. /\ pc[t] \in {"run", "alloc"} /\ live' = live
        /\ \E l \in {"run", "check"} : pc' = [pc EXCEPT ![t] = l]
    BY <1>4 DEF Allocate, Alloc, AllocFails, AllocCollects, Goto
  <2> QED
    BY <1>2, <2>1 DEF PC
<1>5. CASE Collect(t)
  <2>1. CASE Trace(t) \/ Free(t)
    BY <1>1, <2>1 DEF Trace, Free
  <2>2. CASE ~(Trace(t) \/ Free(t))
    <3>1. /\ pc[t] \in {"run", "check", "lock", "roots", "globals", "trace", "sweep"}
          /\ live' = live
          /\ \E l \in {"check", "lock", "run", "alloc", "roots", "globals", "trace", "sweep"} :
                pc' = [pc EXCEPT ![t] = l]
      BY <1>0, <1>5, <2>2 DEF Collect, CallCollect, Check, GiveUp, Begin, MarkOwn, MarkGlobals,
         TraceDone, SweepDone, Goto, mutatorVars, markVars
    <3> QED
      BY <1>2, <3>1 DEF PC, Collecting, Marking
  <2> QED
    BY <2>1, <2>2
<1>6. CASE t \in Task /\ TaskReturn(t)
  BY <1>2, <1>6 DEF TaskReturn, Goto, PC
<1>7. CASE t \in Worker /\ (Serve(t) \/ Reply(t))
  <2>1. t \notin Task /\ live' = live
    BY <1>0, <1>7 DEF Serve, Reply
  <2>2. CASE Serve(t)
    BY <1>2, <2>1, <2>2 DEF Serve, Goto, PC
  <2>3. CASE Reply(t)
    BY <1>2, <2>1, <2>3 DEF Reply, Goto, PC
  <2> QED
    BY <1>7, <2>2, <2>3
<1> QED
  BY <1>3, <1>4, <1>5, <1>6, <1>7

\* Each step is one of LiveTasks or changes nothing that LiveTasks sees.
LEMMA TasksRefined ==
    TypeOK /\ [Next]_vars => [Tasks!Next]_<<TRUE, Spawning, Running, live>>
<1> SUFFICES ASSUME TypeOK, [Next]_vars
             PROVE  Tasks!Next \/ TasksStay
  BY DEF TasksStay
<1>0. pc \in [Thread -> PC] /\ Task \subseteq Thread /\ Worker \subseteq Thread
  BY DEF TypeOK, Thread
<1>1. ASSUME NEW t \in Thread, Mutate(t) \/ Allocate(t) \/ Collect(t)
      PROVE  TasksStay
  BY <1>1, TasksUntouched
<1>2. ASSUME NEW t \in Thread, SpawnCount(t) PROVE Tasks!Count(t)
  <2>1. pc[t] = "run" /\ pc' = [pc EXCEPT ![t] = "spawn"] /\ live' = live + 1
    BY <1>2 DEF SpawnCount, Goto
  <2>2. t \notin Spawning /\ Spawning' = Spawning \cup {t} /\ Running' = Running
    BY <1>0, <2>1 DEF Spawning, Running
  <2> QED
    BY <2>1, <2>2 DEF Tasks!Count
<1>3. ASSUME NEW t \in Thread, SpawnFails(t) PROVE Tasks!TakeBack(t)
  <2>1. pc[t] = "spawn" /\ pc' = [pc EXCEPT ![t] = "run"] /\ live' = live - 1
    BY <1>3 DEF SpawnFails, Goto
  <2>2. t \in Spawning /\ Spawning' = Spawning \ {t} /\ Running' = Running
    BY <1>0, <2>1 DEF Spawning, Running
  <2> QED
    BY <2>1, <2>2 DEF Tasks!TakeBack
<1>4. ASSUME NEW t \in Thread, NEW k \in Task, SpawnTask(t, k) PROVE Tasks!Start(t, k)
  <2>1. /\ pc[t] = "spawn" /\ pc[k] = "none" /\ live' = live
        /\ pc' = [pc EXCEPT ![t] = "run", ![k] = "run"]
    BY <1>4 DEF SpawnTask
  <2>2. t \in Spawning /\ Spawning' = Spawning \ {t}
    BY <1>0, <2>1 DEF Spawning
  <2>3. k \notin Running /\ Running' = Running \cup {k}
    BY <1>0, <2>1 DEF Running
  <2> QED
    BY <2>1, <2>2, <2>3 DEF Tasks!Start
<1>5. ASSUME NEW k \in Task, TaskReturn(k) PROVE TasksStay
  BY <1>0, <1>5, TasksUntouched
<1>6. ASSUME NEW k \in Task, Uncount(k) PROVE Tasks!End(k)
  <2>1. pc[k] = "uncount" /\ pc' = [pc EXCEPT ![k] = "gone"] /\ live' = live - 1
    BY <1>6 DEF Uncount, Goto
  <2>2. k \in Running /\ Running' = Running \ {k} /\ Spawning' = Spawning
    BY <1>0, <2>1 DEF Spawning, Running
  <2> QED
    BY <2>1, <2>2 DEF Tasks!End
<1>7. ASSUME NEW w \in Worker, Serve(w) \/ Reply(w) PROVE TasksStay
  BY <1>0, <1>7, TasksUntouched
<1>8. CASE UNCHANGED vars
  BY <1>8 DEF vars, Spawning, Running, TasksStay
<1> QED
  BY <1>1, <1>2, <1>3, <1>4, <1>5, <1>6, <1>7, <1>8 DEF Next, Spawn, Tasks!Next

\* The tasks of Collector count as those of AsyncTask do (ImplementsLiveTasks
\* there): both models of tasks keep one promise to __kn_gc_collect.
THEOREM TasksAreLiveTasks == Spec => Tasks!Spec
<1>1. Init => Tasks!Init
  <2>1. Init => Spawning = {} /\ Running = {} /\ live = 0
    BY CollectorConstants DEF Init, Spawning, Running, Thread
  <2> QED
    BY <2>1 DEF Tasks!Init
<1> QED
  BY <1>1, TasksRefined, CountedAlways, PTL DEF Spec, Tasks!Spec
=============================================================================
