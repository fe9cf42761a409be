------------------------------ MODULE Collector ------------------------------
(***************************************************************************)
(* The mark-sweep collector of libs/runtime/src/kn_runtime.c together with *)
(* what makes it safe: __kn_gc_collect scans the stack, the frames and the *)
(* exceptions of the thread it runs on and the global roots, and returns   *)
(* at once while g_async_live_tasks counts a task.  The threads that       *)
(* CivetWeb starts for IO.Web (Worker) run Kinal handlers and are not      *)
(* counted.                                                                *)
(*                                                                         *)
(* A managed block has one reference field and there is one registered     *)
(* global word.  Everything between taking and releasing g_gc_lock that    *)
(* touches only the block list is one step; the collection itself is not,  *)
(* because the other threads' fields and roots are not under that lock.    *)
(***************************************************************************)
EXTENDS Integers, FiniteSets

CONSTANTS Object,   \* addresses a managed block can have
          Main,     \* the initial thread
          Task,     \* threads of __kn_async_task_spawn
          Worker,   \* threads of the embedded HTTP server
          Programs, \* the sets of threads that a program may start
          Null

Thread == {Main} \cup Task \cup Worker

ASSUME CollectorConstants ==
    /\ Main \notin Task \cup Worker /\ Task \cap Worker = {}
    /\ IsFiniteSet(Task) /\ IsFiniteSet(Worker)
    /\ Programs \subseteq SUBSET (Task \cup Worker)
    /\ Null \notin Object \cup Thread

VARIABLES
    pc,         \* control point of each thread
    resume,     \* where the collection a thread is in returns to
    roots,      \* blocks in the native stack and the frames of each thread
    exc,        \* g_exc_current of each thread, or g_exc_last once caught
    global,     \* the registered global root
    field,      \* the reference stored in each block
    blocks,     \* g_gc_blocks
    marked,     \* the blocks whose mark is set
    stack,      \* the collector's mark stack
    lock,       \* holder of g_gc_lock
    live        \* g_async_live_tasks

mutatorVars == <<roots, exc, global, field>>
markVars    == <<marked, stack, lock>>
vars == <<pc, resume, mutatorVars, blocks, markVars, live>>

Ref == Object \cup {Null}

Marking    == {"roots", "globals", "trace"}
Collecting == Marking \cup {"sweep"}
PC == {"none", "run", "spawn", "alloc", "check", "lock", "uncount", "gone"}
      \cup Collecting

Refs(r) == {r} \ {Null}

\* A thread the program at hand never starts counts as gone.
Init ==
    /\ \E others \in Programs :
          pc = [t \in Thread |-> IF t = Main THEN "run"
                                 ELSE IF t \in others THEN "none" ELSE "gone"]
    /\ resume = [t \in Thread |-> "run"]
    /\ roots = [t \in Thread |-> {}]
    /\ exc = [t \in Thread |-> Null]
    /\ global = Null
    /\ field = [o \in Object |-> Null]
    /\ blocks = {}
    /\ marked = {}
    /\ stack = {}
    /\ lock = Null
    /\ live = 0

Goto(t, l) == pc' = [pc EXCEPT ![t] = l]

\* Mutant: nobody looks at the counter.
NoTaskLive_Any == TRUE

\* The test of g_async_live_tasks, made before and again under the lock.
NoTaskLive == live = 0

-----------------------------------------------------------------------------
(* What generated code does between two calls of the runtime *)

Load(t) ==
    /\ pc[t] = "run"
    /\ \E o \in roots[t] : field[o] # Null
                           /\ roots' = [roots EXCEPT ![t] = @ \cup {field[o]}]
    /\ UNCHANGED <<pc, resume, exc, global, field, blocks, markVars, live>>

Store(t) ==
    /\ pc[t] = "run"
    /\ \E o \in roots[t], r \in roots[t] \cup {Null} :
          field' = [field EXCEPT ![o] = r]
    /\ UNCHANGED <<pc, resume, roots, exc, global, blocks, markVars, live>>

LoadGlobal(t) ==
    /\ pc[t] = "run" /\ global # Null
    /\ roots' = [roots EXCEPT ![t] = @ \cup {global}]
    /\ UNCHANGED <<pc, resume, exc, global, field, blocks, markVars, live>>

StoreGlobal(t) ==
    /\ pc[t] = "run"
    /\ global' \in roots[t] \cup {Null}
    /\ UNCHANGED <<pc, resume, roots, exc, field, blocks, markVars, live>>

\* A local is overwritten or its frame popped.
Drop(t) ==
    /\ pc[t] = "run"
    /\ \E o \in roots[t] : roots' = [roots EXCEPT ![t] = @ \ {o}]
    /\ UNCHANGED <<pc, resume, exc, global, field, blocks, markVars, live>>

\* A Throw leaves the object in the thread-local error state only; a Catch
\* binds it and leaves it there as g_exc_last.
Throw(t) ==
    /\ pc[t] = "run"
    /\ \E o \in roots[t] : /\ exc' = [exc EXCEPT ![t] = o]
                           /\ roots' = [roots EXCEPT ![t] = @ \ {o}]
    /\ UNCHANGED <<pc, resume, global, field, blocks, markVars, live>>

Catch(t) ==
    /\ pc[t] = "run" /\ exc[t] # Null
    /\ roots' = [roots EXCEPT ![t] = @ \cup {exc[t]}]
    /\ UNCHANGED <<pc, resume, exc, global, field, blocks, markVars, live>>

-----------------------------------------------------------------------------
(* __kn_gc_alloc *)

\* Mutant: the block list is extended without the lock.
Link_Unlocked(t, o) ==
    /\ o \in Object \ blocks
    /\ blocks' = blocks \cup {o}
    /\ field' = [field EXCEPT ![o] = Null]

\* The block is linked in and handed to the caller; its memory is zeroed.
Link(t, o) ==
    /\ lock = Null
    /\ o \in Object \ blocks
    /\ blocks' = blocks \cup {o}
    /\ field' = [field EXCEPT ![o] = Null]

\* Below the threshold, with a task alive, or after the collection.
Alloc(t) ==
    /\ pc[t] \in {"run", "alloc"}
    /\ \E o \in Object : Link(t, o) /\ roots' = [roots EXCEPT ![t] = @ \cup {o}]
    /\ Goto(t, "run")
    /\ UNCHANGED <<resume, exc, global, markVars, live>>

\* Memory is exhausted.
AllocFails(t) ==
    /\ pc[t] = "alloc" /\ lock = Null
    /\ Goto(t, "run")
    /\ UNCHANGED <<resume, mutatorVars, blocks, markVars, live>>

\* Above it: the lock is dropped around the collection.
AllocCollects(t) ==
    /\ pc[t] = "run" /\ lock = Null /\ NoTaskLive
    /\ Goto(t, "check")
    /\ resume' = [resume EXCEPT ![t] = "alloc"]
    /\ UNCHANGED <<mutatorVars, blocks, markVars, live>>

-----------------------------------------------------------------------------
(* __kn_gc_collect *)

\* IO.GC.Collect
CallCollect(t) ==
    /\ pc[t] = "run"
    /\ Goto(t, "check")
    /\ resume' = [resume EXCEPT ![t] = "run"]
    /\ UNCHANGED <<mutatorVars, blocks, markVars, live>>

Check(t) ==
    /\ pc[t] = "check"
    /\ Goto(t, IF NoTaskLive THEN "lock" ELSE resume[t])
    /\ UNCHANGED <<resume, mutatorVars, blocks, markVars, live>>

\* A task was spawned meanwhile, there is no block, or the index or the mark
\* stack cannot be allocated.
GiveUp(t) ==
    /\ pc[t] = "lock" /\ lock = Null
    /\ Goto(t, resume[t])
    /\ UNCHANGED <<resume, mutatorVars, blocks, markVars, live>>

\* Mutant: the marks of the last collection are not cleared.
Begin_StaleMarks(t) ==
    /\ pc[t] = "lock" /\ lock = Null /\ NoTaskLive /\ blocks # {}
    /\ lock' = t /\ stack' = {}
    /\ Goto(t, "roots")
    /\ UNCHANGED <<resume, mutatorVars, blocks, marked, live>>

\* Mutant: the collecting flag is tested, the lock is not taken.
Begin_Unlocked(t) ==
    /\ pc[t] = "lock" /\ NoTaskLive /\ blocks # {}
    /\ lock' = t /\ marked' = {} /\ stack' = {}
    /\ Goto(t, "roots")
    /\ UNCHANGED <<resume, mutatorVars, blocks, live>>

Begin(t) ==
    /\ pc[t] = "lock" /\ lock = Null /\ NoTaskLive /\ blocks # {}
    /\ lock' = t /\ marked' = {} /\ stack' = {}
    /\ Goto(t, "roots")
    /\ UNCHANGED <<resume, mutatorVars, blocks, live>>

\* gc_mark_ptr for a set of words: those that point to an unmarked block.
Mark(words, pending) ==
    LET new == (words \cap blocks) \ marked
    IN  marked' = marked \cup new /\ stack' = pending \cup new

\* Mutant: a pending exception is not a root.
MarkOwn_NoException(t) ==
    /\ pc[t] = "roots"
    /\ Mark(roots[t], stack)
    /\ Goto(t, "globals")
    /\ UNCHANGED <<resume, mutatorVars, blocks, lock, live>>

\* The native stack, the frames and the exceptions of this thread.
MarkOwn(t) ==
    /\ pc[t] = "roots"
    /\ Mark(roots[t] \cup Refs(exc[t]), stack)
    /\ Goto(t, "globals")
    /\ UNCHANGED <<resume, mutatorVars, blocks, lock, live>>

MarkGlobals(t) ==
    /\ pc[t] = "globals"
    /\ Mark(Refs(global), stack)
    /\ Goto(t, "trace")
    /\ UNCHANGED <<resume, mutatorVars, blocks, lock, live>>

\* Mutant: the contents of a popped block are not scanned.
Trace_Shallow(t) ==
    /\ pc[t] = "trace"
    /\ \E o \in stack : Mark({}, stack \ {o})
    /\ UNCHANGED <<pc, resume, mutatorVars, blocks, lock, live>>

Trace(t) ==
    /\ pc[t] = "trace"
    /\ \E o \in stack : Mark(Refs(field[o]), stack \ {o})
    /\ UNCHANGED <<pc, resume, mutatorVars, blocks, lock, live>>

TraceDone(t) ==
    /\ pc[t] = "trace" /\ stack = {}
    /\ Goto(t, "sweep")
    /\ UNCHANGED <<resume, mutatorVars, blocks, markVars, live>>

\* The contents of a freed block are gone.
Free(t) ==
    /\ pc[t] = "sweep"
    /\ \E o \in blocks \ marked : /\ blocks' = blocks \ {o}
                                  /\ field' = [field EXCEPT ![o] = Null]
    /\ UNCHANGED <<pc, resume, roots, exc, global, markVars, live>>

SweepDone(t) ==
    /\ pc[t] = "sweep" /\ blocks \subseteq marked
    /\ lock' = Null
    /\ Goto(t, resume[t])
    /\ UNCHANGED <<resume, mutatorVars, blocks, marked, stack, live>>

-----------------------------------------------------------------------------
(* Threads that are counted, and threads that are not *)

SpawnCount(t) ==
    /\ pc[t] = "run"
    /\ live' = live + 1
    /\ Goto(t, "spawn")
    /\ UNCHANGED <<resume, mutatorVars, blocks, markVars>>

SpawnFails(t) ==
    /\ pc[t] = "spawn"
    /\ live' = live - 1
    /\ Goto(t, "run")
    /\ UNCHANGED <<resume, mutatorVars, blocks, markVars>>

\* The task object o is allocated, refers to its environment, and the new
\* thread holds it.
SpawnTask(t, k) ==
    /\ pc[t] = "spawn" /\ pc[k] = "none"
    /\ \E o \in Object, env \in roots[t] \cup {Null} :
          /\ lock = Null /\ o \notin blocks
          /\ blocks' = blocks \cup {o}
          /\ field' = [field EXCEPT ![o] = env]
          /\ roots' = [roots EXCEPT ![t] = @ \cup {o}, ![k] = {o}]
    /\ exc' = [exc EXCEPT ![k] = Null]
    /\ pc' = [pc EXCEPT ![t] = "run", ![k] = "run"]
    /\ UNCHANGED <<resume, global, markVars, live>>

\* The entry has returned; rt_async_task_thread_main still holds the task.
TaskReturn(k) ==
    /\ pc[k] = "run"
    /\ Goto(k, "uncount")
    /\ UNCHANGED <<resume, mutatorVars, blocks, markVars, live>>

\* Mutant: the count is taken back twice.
Uncount_Twice(k) ==
    /\ pc[k] = "uncount"
    /\ live' = live - 2
    /\ Goto(k, "gone")
    /\ roots' = [roots EXCEPT ![k] = {}]
    /\ exc' = [exc EXCEPT ![k] = Null]
    /\ UNCHANGED <<resume, global, field, blocks, markVars>>

Uncount(k) ==
    /\ pc[k] = "uncount"
    /\ live' = live - 1
    /\ Goto(k, "gone")
    /\ roots' = [roots EXCEPT ![k] = {}]
    /\ exc' = [exc EXCEPT ![k] = Null]
    /\ UNCHANGED <<resume, global, field, blocks, markVars>>

\* kn_web_dispatch runs a handler on a CivetWeb thread.
Serve(w) ==
    /\ pc[w] = "none"
    /\ Goto(w, "run")
    /\ UNCHANGED <<resume, mutatorVars, blocks, markVars, live>>

Reply(w) ==
    /\ pc[w] = "run"
    /\ Goto(w, "none")
    /\ roots' = [roots EXCEPT ![w] = {}]
    /\ UNCHANGED <<resume, exc, global, field, blocks, markVars, live>>

-----------------------------------------------------------------------------

Mutate(t) == \/ Load(t) \/ Store(t) \/ LoadGlobal(t) \/ StoreGlobal(t)
             \/ Drop(t) \/ Throw(t) \/ Catch(t)

Allocate(t) == Alloc(t) \/ AllocFails(t) \/ AllocCollects(t)

Collect(t) == \/ CallCollect(t) \/ Check(t) \/ GiveUp(t) \/ Begin(t)
              \/ MarkOwn(t) \/ MarkGlobals(t) \/ Trace(t) \/ TraceDone(t)
              \/ Free(t) \/ SweepDone(t)

Spawn(t) == SpawnCount(t) \/ SpawnFails(t) \/ \E k \in Task : SpawnTask(t, k)

Next == \/ \E t \in Thread : Mutate(t) \/ Allocate(t) \/ Collect(t) \/ Spawn(t)
        \/ \E k \in Task : TaskReturn(k) \/ Uncount(k)
        \/ \E w \in Worker : Serve(w) \/ Reply(w)

Spec == Init /\ [][Next]_vars

-----------------------------------------------------------------------------

\* The variables keep their types; g_async_live_tasks is never negative and
\* the mark stack holds marked blocks.
TypeOK ==
    /\ pc \in [Thread -> PC]
    /\ resume \in [Thread -> {"run", "alloc"}]
    /\ roots \in [Thread -> SUBSET Object]
    /\ exc \in [Thread -> Ref]
    /\ global \in Ref
    /\ field \in [Object -> Ref]
    /\ blocks \subseteq Object
    /\ marked \subseteq blocks
    /\ stack \subseteq marked
    /\ lock \in Thread \cup {Null}
    /\ live \in Nat

\* No Kinal code ever runs on a thread that is not counted: the program does
\* not use IO.Web.
AllCounted == \A w \in Worker : pc[w] = "gone"

Alone ==
    \A t, u \in Thread : t # u /\ pc[t] \in Collecting => pc[u] \in {"none", "gone"}

\* While a collection scans and sweeps, no other thread runs Kinal code: the
\* two tests of g_async_live_tasks and the count taken before a task exists
\* keep every task thread out.
CollectsAlone == AllCounted => Alone

\* With any threads at all, counted or not, g_gc_lock lets one thread collect
\* at a time, and no block is linked in under the index that thread has built.
OneCollector ==
    \A t, u \in Thread : pc[t] \in Collecting /\ pc[u] \in Collecting => t = u

NothingLinkedMeanwhile ==
    [][(\E t \in Thread : pc[t] \in Collecting) => blocks' \subseteq blocks]_vars

\* The blocks the program can get at without following a field.
Held == (UNION {roots[t] \cup Refs(exc[t]) : t \in Thread}) \cup Refs(global)

\* No thread and no global refers to memory the sweep has freed.  kn_runtime.c
\* says at __kn_gc_init that the collector retains the in-flight GC pointers
\* of the C code by scanning the used native-stack range.
NoDangling == Held \subseteq blocks

\* Without CivetWeb threads that holds: the scan of the collecting thread and
\* of the globals is enough, as no task is alive.
NoDanglingCounted == AllCounted => NoDangling

\* The least set that has `from` and is closed under following fields.
Reachable(from) ==
    {o \in Object : \A S \in SUBSET Object :
        from \subseteq S /\ (\A x \in S : Refs(field[x]) \subseteq S) => o \in S}

\* The sweep frees only what no thread, exception or global can reach.
FreesOnlyGarbage ==
    [][AllCounted => \A o \in blocks : o \notin blocks' => o \notin Reachable(Held)]_vars

\* A collection leaves nothing behind: what is in the block list when the
\* sweep ends can be reached.
CollectsAllGarbage ==
    [][AllCounted => \A t \in Thread :
          pc[t] = "sweep" /\ pc'[t] # "sweep" => blocks' \subseteq Reachable(Held)]_vars
=============================================================================
