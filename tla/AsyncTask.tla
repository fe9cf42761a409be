------------------------------ MODULE AsyncTask ------------------------------
(***************************************************************************)
(* Native tasks of libs/runtime/src/kn_runtime.c: __kn_async_task_spawn    *)
(* starts a detached thread per task, the generated runner calls           *)
(* __kn_async_task_complete or __kn_async_task_fail, and                   *)
(* __kn_async_task_run (Await, IO.Async.Run) polls `done` and then reads   *)
(* the other fields without a lock.  A thread is identified with the task  *)
(* it runs; Main is the thread the process started with.                   *)
(*                                                                         *)
(* One step is one access that other threads can observe: the increment    *)
(* and decrement of g_async_live_tasks, the compare-and-swap of `done`,    *)
(* the plain stores between it and the publishing store, and the reads.    *)
(***************************************************************************)
EXTENDS Integers, FiniteSets

CONSTANTS Task,       \* task objects, each spawned at most once
          Main,       \* the initial thread
          Value,      \* boxed values a task body can return
          Unit,       \* the (KN_ANY_TAG_NONE, 0) pair
          Error,      \* error objects
          NoError,    \* the null error pointer
          NoTask,     \* the null task pointer
          Foreign,    \* tasks whose entry is not a generated runner: it calls
                      \* complete and fail itself, or neither
          MaxFinish   \* bound on the finish calls of one foreign entry

\* What a finish call is given: (tag, payload) or (error, trace).
Outcome == [faulted : {FALSE}, result : Value \cup {Unit}, error : {NoError}]
           \cup [faulted : {TRUE}, result : {Unit}, error : Error]

ASSUME ConstantsDistinct ==
    /\ Main \notin Task /\ NoTask \notin Task \cup {Main}
    /\ Unit \notin Value /\ NoError \notin Error
    /\ Foreign \subseteq Task /\ IsFiniteSet(Task) /\ MaxFinish \in Nat

ASSUME NoTaskIsNoOutcome == NoTask \notin Outcome

VARIABLES
    pc,         \* control point of each thread
    exc,        \* g_exc_current of each thread
    known,      \* the task pointers a thread holds
    nulls,      \* the threads that hold the null a failed spawn returned
    done,       \* KnAsyncTask.done: 0 pending, 2 being finished, 1 published
    fields,     \* the fields __kn_async_task_run reads once done is 1
    live,       \* g_async_live_tasks
    child,      \* the task a thread's __kn_async_task_spawn is building
    target,     \* the task a thread is finishing or awaiting
    outcome,    \* argument of the finish call a thread is in
    resume,     \* where that call returns to
    calls,      \* finish calls a foreign entry has made
    body,       \* history: what the body of a task computed
    got         \* history: what a thread's last await was given and returned

objectVars == <<done, fields>>
callVars   == <<child, target, outcome, resume, calls>>
historyVars == <<body, got>>
vars == <<pc, exc, known, nulls, live, objectVars, callVars, historyVars>>

Thread == Task \cup {Main}

Returned(v) == [faulted |-> FALSE, result |-> v, error |-> NoError]
Failed(e)   == [faulted |-> TRUE,  result |-> Unit, error |-> e]
Nothing     == Returned(Unit)

\* The last await of a thread: the pointer it was given and what it yielded.
Await   == [from : Task \cup {NoTask, Main}, what : Outcome]
NoAwait == [from |-> Main, what |-> Nothing]

PC == {"unborn", "body", "alloc", "create", "begin", "store", "publish",
       "poll", "read", "returned", "uncount", "gone"}

-----------------------------------------------------------------------------

Init ==
    /\ pc = [t \in Thread |-> IF t = Main THEN "body" ELSE "unborn"]
    /\ exc = [t \in Thread |-> NoError]
    /\ known = [t \in Thread |-> {}]
    /\ nulls = {}
    /\ done = [k \in Task |-> 0]
    /\ fields = [k \in Task |-> Nothing]
    /\ live = 0
    /\ child = [t \in Thread |-> NoTask]
    /\ target = [t \in Thread |-> NoTask]
    /\ outcome = [t \in Thread |-> Nothing]
    /\ resume = [t \in Thread |-> "returned"]
    /\ calls = [t \in Thread |-> 0]
    /\ body = [k \in Task |-> Nothing]
    /\ got = [t \in Thread |-> NoAwait]

Goto(t, l) == pc' = [pc EXCEPT ![t] = l]

\* Generated code runs its next statement only while no exception is pending:
\* maybe_propagate_exception tests __kn_exc_has after every call.
AtStatement(t) == pc[t] = "body" /\ exc[t] = NoError

-----------------------------------------------------------------------------
(* __kn_async_task_spawn *)

\* Mutant: the count is left to the new thread, which never takes it.
SpawnCount_Late(t, k) ==
    /\ AtStatement(t)
    /\ pc[k] = "unborn" /\ \A u \in Thread : child[u] # k
    /\ live' = live
    /\ child' = [child EXCEPT ![t] = k]
    /\ Goto(t, "alloc")
    /\ UNCHANGED <<exc, known, nulls, objectVars, target, outcome, resume,
                   calls, historyVars>>

\* The caller counts the task before it allocates it.
SpawnCount(t, k) ==
    /\ AtStatement(t)
    /\ pc[k] = "unborn" /\ \A u \in Thread : child[u] # k
    /\ live' = live + 1
    /\ child' = [child EXCEPT ![t] = k]
    /\ Goto(t, "alloc")
    /\ UNCHANGED <<exc, known, nulls, objectVars, target, outcome, resume,
                   calls, historyVars>>

SpawnAlloc(t) ==
    /\ pc[t] = "alloc"
    /\ done' = [done EXCEPT ![child[t]] = 0]
    /\ fields' = [fields EXCEPT ![child[t]] = Nothing]
    /\ Goto(t, "create")
    /\ UNCHANGED <<exc, known, nulls, live, callVars, historyVars>>

\* __kn_gc_alloc returns null, or pthread_create fails: the count is taken
\* back and the caller gets a null task.
SpawnFails(t) ==
    /\ pc[t] \in {"alloc", "create"}
    /\ live' = live - 1
    /\ child' = [child EXCEPT ![t] = NoTask]
    /\ nulls' = nulls \cup {t}
    /\ Goto(t, "body")
    /\ UNCHANGED <<exc, known, objectVars, target, outcome, resume, calls,
                   historyVars>>

\* pthread_create succeeds.  The new thread clears its exception state; its
\* environment may carry task pointers the caller holds.
SpawnCreate(t) ==
    /\ pc[t] = "create"
    /\ \E env \in SUBSET known[t] :
          known' = [known EXCEPT ![t] = @ \cup {child[t]}, ![child[t]] = env]
    /\ exc' = [exc EXCEPT ![child[t]] = NoError]
    /\ child' = [child EXCEPT ![t] = NoTask]
    /\ pc' = [pc EXCEPT ![t] = "body", ![child[t]] = "body"]
    /\ UNCHANGED <<nulls, live, objectVars, target, outcome, resume, calls,
                   historyVars>>

-----------------------------------------------------------------------------
(* The statements of a body *)

Throw(t) ==
    /\ AtStatement(t)
    /\ \E e \in Error : exc' = [exc EXCEPT ![t] = e]
    /\ UNCHANGED <<pc, known, nulls, live, objectVars, callVars, historyVars>>

\* A Catch: the generated code calls __kn_exc_clear.
Catch(t) ==
    /\ pc[t] = "body" /\ exc[t] # NoError
    /\ exc' = [exc EXCEPT ![t] = NoError]
    /\ UNCHANGED <<pc, known, nulls, live, objectVars, callVars, historyVars>>

CallFinish(t, k, o, l) ==
    /\ target' = [target EXCEPT ![t] = k]
    /\ outcome' = [outcome EXCEPT ![t] = o]
    /\ resume' = [resume EXCEPT ![t] = l]
    /\ Goto(t, "begin")

\* Mutant: the runner does not test __kn_exc_has.
RunnerFinish_NoTest(k) ==
    /\ pc[k] = "body"
    /\ \E v \in Value :
          /\ CallFinish(k, k, Returned(v), "returned")
          /\ body' = [body EXCEPT ![k] =
                IF exc[k] # NoError THEN Failed(exc[k]) ELSE Returned(v)]
    /\ UNCHANGED <<exc, known, nulls, live, objectVars, child, calls, got>>

\* The body of a generated runner ends: codegen_async_runner tests
\* __kn_exc_has and finishes its own task with the error or the value.
RunnerFinish(k) ==
    /\ pc[k] = "body"
    /\ \E v \in Value :
          LET o == IF exc[k] # NoError THEN Failed(exc[k]) ELSE Returned(v)
          IN  CallFinish(k, k, o, "returned") /\ body' = [body EXCEPT ![k] = o]
    /\ UNCHANGED <<exc, known, nulls, live, objectVars, child, calls, got>>

\* A foreign entry may finish its own task, or one its environment gave it.
ForeignFinish(t) ==
    /\ AtStatement(t) /\ calls[t] < MaxFinish
    /\ \E k \in known[t] \cup {t}, o \in Outcome : CallFinish(t, k, o, "body")
    /\ calls' = [calls EXCEPT ![t] = @ + 1]
    /\ UNCHANGED <<exc, known, nulls, live, objectVars, child, historyVars>>

ForeignReturn(t) ==
    /\ pc[t] = "body"
    /\ Goto(t, "returned")
    /\ UNCHANGED <<exc, known, nulls, live, objectVars, callVars, historyVars>>

-----------------------------------------------------------------------------
(* __kn_async_task_complete and __kn_async_task_fail *)

\* Mutant: a load and a store instead of a compare-and-swap on 0.
BeginFinish_Blind(t) ==
    /\ pc[t] = "begin"
    /\ done[target[t]] # 1
    /\ done' = [done EXCEPT ![target[t]] = 2]
    /\ Goto(t, "store")
    /\ UNCHANGED <<exc, known, nulls, live, fields, callVars, historyVars>>

\* Mutant: 1 is published before the fields are stored.
BeginFinish_Early(t) ==
    /\ pc[t] = "begin"
    /\ done[target[t]] = 0
    /\ done' = [done EXCEPT ![target[t]] = 1]
    /\ Goto(t, "store")
    /\ UNCHANGED <<exc, known, nulls, live, fields, callVars, historyVars>>

\* rt_async_task_begin_finish: only the call that takes done from 0 goes on.
BeginFinish(t) ==
    /\ pc[t] = "begin"
    /\ done[target[t]] = 0
    /\ done' = [done EXCEPT ![target[t]] = 2]
    /\ Goto(t, "store")
    /\ UNCHANGED <<exc, known, nulls, live, fields, callVars, historyVars>>

\* The call returns and its locals are gone.
FinishReturns(t) ==
    /\ Goto(t, resume[t])
    /\ target' = [target EXCEPT ![t] = NoTask]
    /\ outcome' = [outcome EXCEPT ![t] = Nothing]
    /\ resume' = [resume EXCEPT ![t] = "returned"]

LoseFinish(t) ==
    /\ pc[t] = "begin"
    /\ done[target[t]] # 0
    /\ FinishReturns(t)
    /\ UNCHANGED <<exc, known, nulls, live, objectVars, child, calls,
                   historyVars>>

StoreFields(t) ==
    /\ pc[t] = "store"
    /\ fields' = [fields EXCEPT ![target[t]] = outcome[t]]
    /\ Goto(t, "publish")
    /\ UNCHANGED <<exc, known, nulls, live, done, callVars, historyVars>>

\* rt_async_task_publish_finish
Publish(t) ==
    /\ pc[t] = "publish"
    /\ done' = [done EXCEPT ![target[t]] = 1]
    /\ FinishReturns(t)
    /\ UNCHANGED <<exc, known, nulls, live, fields, child, calls, historyVars>>

-----------------------------------------------------------------------------
(* The rest of rt_async_task_thread_main *)

\* The entry has returned and the task is published.
EntryDone(k) ==
    /\ pc[k] = "returned"
    /\ done[k] = 1
    /\ Goto(k, "uncount")
    /\ UNCHANGED <<exc, known, nulls, live, objectVars, callVars, historyVars>>

\* Mutant: a thread whose entry left the task pending just ends.
EntryUnfinished_Ignored(k) ==
    /\ pc[k] = "returned"
    /\ done[k] # 1
    /\ Goto(k, "uncount")
    /\ UNCHANGED <<exc, known, nulls, live, objectVars, callVars, historyVars>>

\* It is not: thread_main finishes the task from the exception state.
EntryUnfinished(k) ==
    /\ pc[k] = "returned"
    /\ done[k] # 1
    /\ CallFinish(k, k, IF exc[k] # NoError THEN Failed(exc[k]) ELSE Nothing,
                  "uncount")
    /\ UNCHANGED <<exc, known, nulls, live, objectVars, child, calls,
                   historyVars>>

\* Mutant: the spawn's error path and the thread both take the count back.
Uncount_Twice(k) ==
    /\ pc[k] = "uncount"
    /\ live' = live - 2
    /\ Goto(k, "gone")
    /\ UNCHANGED <<exc, known, nulls, objectVars, callVars, historyVars>>

Uncount(k) ==
    /\ pc[k] = "uncount"
    /\ live' = live - 1
    /\ Goto(k, "gone")
    /\ UNCHANGED <<exc, known, nulls, objectVars, callVars, historyVars>>

-----------------------------------------------------------------------------
(* __kn_async_task_run *)

AwaitNull(t) ==
    /\ AtStatement(t) /\ t \in nulls
    /\ got' = [got EXCEPT ![t] = [from |-> NoTask, what |-> Nothing]]
    /\ UNCHANGED <<pc, exc, known, nulls, live, objectVars, callVars, body>>

CallAwait(t, k) ==
    /\ AtStatement(t) /\ k \in known[t]
    /\ target' = [target EXCEPT ![t] = k]
    /\ Goto(t, "poll")
    /\ UNCHANGED <<exc, known, nulls, live, objectVars, child, outcome, resume,
                   calls, historyVars>>

\* The wait loop leaves once it loads 1.
Poll(t) ==
    /\ pc[t] = "poll"
    /\ done[target[t]] = 1
    /\ Goto(t, "read")
    /\ UNCHANGED <<exc, known, nulls, live, objectVars, callVars, historyVars>>

\* A faulted task raises its error in the awaiting thread.
Read(t) ==
    /\ pc[t] = "read"
    /\ exc' = [exc EXCEPT ![t] = fields[target[t]].error]
    /\ got' = [got EXCEPT ![t] = [from |-> target[t], what |-> fields[target[t]]]]
    /\ target' = [target EXCEPT ![t] = NoTask]
    /\ Goto(t, "body")
    /\ UNCHANGED <<known, nulls, live, objectVars, child, outcome, resume, calls,
                   body>>

\* Main returns: the process ends and takes the detached threads with it.
Exit ==
    /\ pc[Main] = "body"
    /\ pc' = [t \in Thread |-> "gone"]
    /\ UNCHANGED <<exc, known, nulls, live, objectVars, callVars, historyVars>>

Stopped == pc[Main] = "gone" /\ UNCHANGED vars

-----------------------------------------------------------------------------

InBody(t) ==
    \/ \E k \in Task : SpawnCount(t, k) \/ CallAwait(t, k)
    \/ Throw(t) \/ Catch(t) \/ AwaitNull(t)

InSpawn(t) == SpawnAlloc(t) \/ SpawnFails(t) \/ SpawnCreate(t)

InFinish(t) == BeginFinish(t) \/ LoseFinish(t) \/ StoreFields(t) \/ Publish(t)

InAwait(t) == Poll(t) \/ Read(t)

EndOfTask(k) ==
    \/ k \in Task \ Foreign /\ RunnerFinish(k)
    \/ k \in Foreign /\ (ForeignFinish(k) \/ ForeignReturn(k))
    \/ EntryDone(k) \/ EntryUnfinished(k) \/ Uncount(k)

ThreadStep(t) == InBody(t) \/ InSpawn(t) \/ InFinish(t) \/ InAwait(t)

Next ==
    \/ \E t \in Thread : ThreadStep(t)
    \/ \E k \in Task : EndOfTask(k)
    \/ Exit
    \/ Stopped

Spec == Init /\ [][Next]_vars

\* The threads the operating system schedules run, and the bodies of tasks
\* terminate: a body that comes back to its statements again and again ends.
\* Nothing makes Main return.
Fairness ==
    /\ \A t \in Thread : WF_vars(InSpawn(t)) /\ WF_vars(InFinish(t))
                         /\ WF_vars(InAwait(t))
    /\ \A k \in Task : WF_vars(EntryDone(k) \/ EntryUnfinished(k) \/ Uncount(k))
    /\ \A k \in Task \ Foreign : SF_vars(RunnerFinish(k))
    /\ \A k \in Foreign : SF_vars(ForeignReturn(k))

FairSpec == Spec /\ Fairness

-----------------------------------------------------------------------------

\* The variables keep their types: `done` is 0, 1 or 2, the live counter is
\* never negative, and the pointers a call works on are its own.
TypeOK ==
    /\ pc \in [Thread -> PC]
    /\ exc \in [Thread -> Error \cup {NoError}]
    /\ known \in [Thread -> SUBSET Task]
    /\ nulls \subseteq Thread
    /\ done \in [Task -> {0, 1, 2}]
    /\ fields \in [Task -> Outcome]
    /\ live \in Nat
    /\ child \in [Thread -> Task \cup {NoTask}]
    /\ target \in [Thread -> Task \cup {NoTask}]
    /\ outcome \in [Thread -> Outcome]
    /\ resume \in [Thread -> {"body", "returned", "uncount"}]
    /\ calls \in [Thread -> 0..MaxFinish]
    /\ body \in [Task -> Outcome]
    /\ got \in [Thread -> Await]

\* While the process runs and the live counter is 0, no task thread exists and
\* none is being created.  __kn_gc_collect stops at a nonzero counter, so this
\* is what makes it run alone (the counter is bumped before the task is
\* allocated and dropped after the last field of the task was touched).
CollectorGate ==
    pc[Main] # "gone" /\ live = 0
        => /\ \A k \in Task : pc[k] \in {"unborn", "gone"}
           /\ \A t \in Thread : child[t] = NoTask

\* The plain fields of a task have one writer at a time and no reader while
\* they are written: the compare-and-swap elects the writer and readers wait
\* for the publishing store.
Writes(t, k) == pc[t] \in {"store", "publish"} /\ target[t] = k
Reads(t, k)  == pc[t] = "read" /\ target[t] = k

FieldsRaceFree ==
    \A k \in Task, t, u \in Thread :
        t # u /\ Writes(t, k) => ~Writes(u, k) /\ ~Reads(u, k)

\* An await of a task run by a generated runner hands back what the body of
\* that task computed: its value, or the error that escaped from it, unless a
\* foreign entry was given a task and has finished it.
AwaitYieldsBody ==
    \A t \in Thread, k \in Task \ Foreign :
        got[t].from = k /\ (\A f \in Foreign : calls[f] = 0) =>
            got[t].what = body[k]

\* The refinement: a task is settled when 1 is published in `done`.
Promise == INSTANCE TaskPromise WITH
    Waiter  <- Thread,
    Pending <- NoTask,
    promise <- [k \in Task |-> IF done[k] = 1 THEN fields[k] ELSE NoTask],
    seen    <- got

\* Every task is settled once and every await observes that outcome.
ImplementsPromise == Promise!Spec

\* Every await returns, unless Main returns first and ends the process: tasks
\* only await tasks spawned before them or by them, and a task whose entry
\* returns without finishing it is finished by its thread.
AwaitReturns ==
    \A t \in Thread : pc[t] = "poll" ~> pc[t] # "poll"
=============================================================================
