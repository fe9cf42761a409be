-------------------------- MODULE AsyncTaskProofs --------------------------
(***************************************************************************)
(* Proofs about AsyncTask for every set of tasks, values and errors.       *)
(***************************************************************************)
EXTENDS AsyncTask, FiniteSetTheorems, TLAPS

Up == pc[Main] # "gone"

\* The tasks g_async_live_tasks stands for: those with a thread and those a
\* spawn has counted and not yet given one.
Counted == {k \in Task : \/ pc[k] \notin {"unborn", "gone"}
                         \/ \E t \in Thread : child[t] = k}

InCall(t) == pc[t] \in {"begin", "store", "publish", "poll", "read"}

\* A spawn under way has a child of its own that no thread runs yet.
SpawnInv ==
    Up => /\ \A t \in Thread : child[t] # NoTask <=> pc[t] \in {"alloc", "create"}
          /\ \A t \in Thread : child[t] # NoTask => pc[child[t]] = "unborn"
          /\ \A t, u \in Thread : child[t] # NoTask /\ child[t] = child[u] => t = u

\* A pointer that can be finished or awaited is that of a started task.
TargetInv ==
    /\ \A t \in Thread, k \in Task : k \in known[t] => pc[k] # "unborn"
    /\ \A t \in Thread : InCall(t) => /\ target[t] \in Task
                                      /\ pc[target[t]] # "unborn"

\* `done` tells who may touch the fields.
DoneInv ==
    /\ \A t \in Thread, k \in Task : Writes(t, k) => done[k] = 2
    /\ \A t, u \in Thread, k \in Task : Writes(t, k) /\ Writes(u, k) => t = u
    /\ \A t \in Thread, k \in Task : Reads(t, k) => done[k] = 1
    /\ \A k \in Task : pc[k] = "unborn" => done[k] = 0

CountInv == Up => live = Cardinality(Counted)

\* Once Main has returned nothing runs.
StopInv == ~Up => \A t \in Thread : pc[t] = "gone"

IInv == TypeOK /\ SpawnInv /\ TargetInv /\ DoneInv /\ CountInv /\ StopInv

-----------------------------------------------------------------------------

\* The initial state satisfies the invariant.
LEMMA InitInv == Init => IInv
<1> SUFFICES ASSUME Init PROVE IInv
  OBVIOUS
<1> USE ConstantsDistinct
<1>1. TypeOK
  BY DEF Init, TypeOK, Thread, PC, Outcome, Await, NoAwait, Nothing, Returned
<1>2. SpawnInv /\ TargetInv /\ DoneInv /\ StopInv
  BY DEF Init, SpawnInv, TargetInv, DoneInv, StopInv, InCall, Writes, Reads,
         Thread, Up
<1>3. Counted = {}
  BY DEF Init, Counted, Thread
<1>4. CountInv
  BY <1>3, FS_EmptySet DEF Init, CountInv
<1> QED
  BY <1>1, <1>2, <1>4 DEF IInv

\* What a finish call is given is an outcome.
LEMMA OutcomeForms ==
    /\ Nothing \in Outcome
    /\ \A v \in Value : Returned(v) \in Outcome
    /\ \A e \in Error : Failed(e) \in Outcome
BY DEF Nothing, Returned, Failed, Outcome

\* Every step keeps the types; that `live` stays a natural number needs the
\* count and is CountStep below.
LEMMA TypeStep == IInv /\ [Next]_vars /\ live' \in Nat => TypeOK'
<1> SUFFICES ASSUME IInv, [Next]_vars, live' \in Nat PROVE TypeOK'
  OBVIOUS
<1> USE ConstantsDistinct DEF IInv, TypeOK, SpawnInv, TargetInv, StopInv, InCall,
        Up, Thread, PC
<1>1. ASSUME NEW t \in Thread, NEW k \in Task, SpawnCount(t, k) PROVE TypeOK'
  BY <1>1 DEF SpawnCount, AtStatement, Goto, objectVars, callVars, historyVars, vars

<1>2. ASSUME NEW t \in Thread, SpawnAlloc(t) PROVE TypeOK'
  BY <1>2 DEF SpawnAlloc, Nothing, Returned, Outcome, Goto, objectVars, callVars, historyVars, vars

<1>3. ASSUME NEW t \in Thread, SpawnFails(t) PROVE TypeOK'
  BY <1>3 DEF SpawnFails, Goto, objectVars, callVars, historyVars, vars

<1>4. ASSUME NEW t \in Thread, SpawnCreate(t) PROVE TypeOK'
  BY <1>4, SMTT(20) DEF SpawnCreate, Goto, objectVars, callVars, historyVars, vars

<1>5. ASSUME NEW t \in Thread, Throw(t) PROVE TypeOK'
  BY <1>5 DEF Throw, Goto, objectVars, callVars, historyVars, vars

<1>6. ASSUME NEW t \in Thread, Catch(t) PROVE TypeOK'
  BY <1>6 DEF Catch, Goto, objectVars, callVars, historyVars, vars

<1>7. ASSUME NEW t \in Task, RunnerFinish(t) PROVE TypeOK'
  <2>1. PICK v \in Value :
          LET o == IF exc[t] # NoError THEN Failed(exc[t]) ELSE Returned(v)
          IN  CallFinish(t, t, o, "returned") /\ body' = [body EXCEPT ![t] = o]
    BY <1>7 DEF RunnerFinish
  <2> DEFINE o == IF exc[t] # NoError THEN Failed(exc[t]) ELSE Returned(v)
  <2>2. o \in Outcome
    BY OutcomeForms
  <2>3. CallFinish(t, t, o, "returned") /\ body' = [body EXCEPT ![t] = o]
    BY <2>1
  <2> HIDE DEF o
  <2> QED
    BY <1>7, <2>2, <2>3
    DEF RunnerFinish, CallFinish, Goto, objectVars, callVars, historyVars, vars

<1>8. ASSUME NEW t \in Foreign, ForeignFinish(t) PROVE TypeOK'
  <2>1. PICK k \in known[t] \cup {t}, o \in Outcome : CallFinish(t, k, o, "body")
    BY <1>8 DEF ForeignFinish
  <2>2. calls[t] < MaxFinish /\ calls[t] \in 0..MaxFinish
    BY <1>8 DEF ForeignFinish
  <2>3. calls[t] + 1 \in 0..MaxFinish
    BY <2>2
  <2> QED
    BY <1>8, <2>1, <2>3
    DEF ForeignFinish, CallFinish, Goto, objectVars, callVars, historyVars, vars

<1>9. ASSUME NEW t \in Foreign, ForeignReturn(t) PROVE TypeOK'
  BY <1>9 DEF ForeignReturn, Goto, objectVars, callVars, historyVars, vars

<1>10. ASSUME NEW t \in Thread, BeginFinish(t) PROVE TypeOK'
  BY <1>10 DEF BeginFinish, Goto, objectVars, callVars, historyVars, vars

<1>11. ASSUME NEW t \in Thread, LoseFinish(t) PROVE TypeOK'
  BY <1>11 DEF LoseFinish, FinishReturns, Nothing, Returned, Outcome, Goto, objectVars, callVars, historyVars, vars

<1>12. ASSUME NEW t \in Thread, StoreFields(t) PROVE TypeOK'
  BY <1>12 DEF StoreFields, Goto, objectVars, callVars, historyVars, vars

<1>13. ASSUME NEW t \in Thread, Publish(t) PROVE TypeOK'
  BY <1>13 DEF Publish, FinishReturns, Nothing, Returned, Outcome, Goto, objectVars, callVars, historyVars, vars

<1>14. ASSUME NEW t \in Task, EntryDone(t) PROVE TypeOK'
  BY <1>14 DEF EntryDone, Goto, objectVars, callVars, historyVars, vars

<1>15. ASSUME NEW t \in Task, EntryUnfinished(t) PROVE TypeOK'
  <2>1. PICK o \in Outcome : CallFinish(t, t, o, "uncount")
    BY <1>15, OutcomeForms DEF EntryUnfinished
  <2> QED
    BY <1>15, <2>1
    DEF EntryUnfinished, CallFinish, Goto, objectVars, callVars, historyVars, vars

<1>16. ASSUME NEW t \in Task, Uncount(t) PROVE TypeOK'
  BY <1>16 DEF Uncount, Goto, objectVars, callVars, historyVars, vars

<1>17. ASSUME NEW t \in Thread, AwaitNull(t) PROVE TypeOK'
  BY <1>17 DEF AwaitNull, Await, Nothing, Returned, Outcome, Goto, objectVars, callVars, historyVars, vars

<1>18. ASSUME NEW t \in Thread, NEW k \in Task, CallAwait(t, k) PROVE TypeOK'
  BY <1>18 DEF CallAwait, Goto, objectVars, callVars, historyVars, vars

<1>19. ASSUME NEW t \in Thread, Poll(t) PROVE TypeOK'
  BY <1>19 DEF Poll, Goto, objectVars, callVars, historyVars, vars

<1>20. ASSUME NEW t \in Thread, Read(t) PROVE TypeOK'
  BY <1>20 DEF Read, Await, Nothing, Returned, Outcome, Goto, objectVars, callVars, historyVars, vars

<1>21. CASE Exit
  BY <1>21 DEF Exit, Thread, Goto, objectVars, callVars, historyVars, vars

<1>22. CASE UNCHANGED vars
  BY <1>22 DEF vars, objectVars, callVars, historyVars

<1> QED
  BY <1>1, <1>2, <1>3, <1>4, <1>5, <1>6, <1>7, <1>8, <1>9, <1>10, <1>11, <1>12, <1>13, <1>14, <1>15, <1>16, <1>17, <1>18, <1>19, <1>20, <1>21, <1>22
  DEF Next, ThreadStep, InBody, InSpawn, InFinish, InAwait, EndOfTask, Stopped

\* A step of a thread that neither spawns, starts nor ends keeps both.
LEMMA QuietStep ==
    ASSUME IInv, NEW t \in Thread, NEW to \in PC,
           {pc[t], to} \cap {"unborn", "alloc", "create", "gone"} = {},
           Goto(t, to), UNCHANGED child
    PROVE  SpawnInv' /\ StopInv'
<1>1. /\ pc \in [Thread -> PC] /\ child \in [Thread -> Task \cup {NoTask}]
      /\ SpawnInv /\ StopInv
  BY DEF IInv, TypeOK
<1>2. /\ \A u \in Thread : pc'[u] = IF u = t THEN to ELSE pc[u]
      /\ child' = child
  BY <1>1 DEF Goto
<1>3. /\ Main \in Thread /\ Task \subseteq Thread
      /\ pc[t] # "unborn" /\ pc[t] # "alloc" /\ pc[t] # "create" /\ pc[t] # "gone"
      /\ to # "unborn" /\ to # "alloc" /\ to # "create" /\ to # "gone"
  BY DEF Thread
<1>4. Up' <=> Up
  BY <1>2, <1>3 DEF Up
<1>5. SpawnInv'
  BY <1>1, <1>2, <1>3, <1>4 DEF SpawnInv
<1>6. StopInv'
  BY <1>1, <1>2, <1>3, <1>4 DEF StopInv
<1> QED
  BY <1>5, <1>6

\* Every step keeps the spawns under way apart and the stopped process stopped.
LEMMA SpawnStep == IInv /\ [Next]_vars => SpawnInv' /\ StopInv'
<1> SUFFICES ASSUME IInv, [Next]_vars PROVE SpawnInv' /\ StopInv'
  OBVIOUS
<1> USE ConstantsDistinct DEF IInv, TypeOK, SpawnInv, StopInv, TargetInv, InCall,
        Up, Thread, PC
<1>1. ASSUME NEW t \in Thread, NEW k \in Task, SpawnCount(t, k) PROVE SpawnInv' /\ StopInv'
  BY <1>1 DEF SpawnCount, AtStatement, Goto, objectVars, callVars, historyVars, vars

<1>2. ASSUME NEW t \in Thread, SpawnAlloc(t) PROVE SpawnInv' /\ StopInv'
  BY <1>2 DEF SpawnAlloc, Goto, objectVars, callVars, historyVars, vars

<1>3. ASSUME NEW t \in Thread, SpawnFails(t) PROVE SpawnInv' /\ StopInv'
  BY <1>3 DEF SpawnFails, Goto, objectVars, callVars, historyVars, vars

<1>4. ASSUME NEW t \in Thread, SpawnCreate(t) PROVE SpawnInv' /\ StopInv'
  BY <1>4 DEF SpawnCreate, Goto, objectVars, callVars, historyVars, vars

<1>5. ASSUME NEW t \in Thread, Throw(t) PROVE SpawnInv' /\ StopInv'
  BY <1>5 DEF Throw, AtStatement, Goto, objectVars, callVars, historyVars, vars

<1>6. ASSUME NEW t \in Thread, Catch(t) PROVE SpawnInv' /\ StopInv'
  BY <1>6 DEF Catch, Goto, objectVars, callVars, historyVars, vars

<1>7. ASSUME NEW t \in Task, RunnerFinish(t) PROVE SpawnInv' /\ StopInv'
  BY <1>7 DEF RunnerFinish, CallFinish, Goto, objectVars, callVars, historyVars, vars

<1>8. ASSUME NEW t \in Foreign, ForeignFinish(t) PROVE SpawnInv' /\ StopInv'
  BY <1>8 DEF ForeignFinish, CallFinish, AtStatement, Goto, objectVars, callVars, historyVars, vars

<1>9. ASSUME NEW t \in Foreign, ForeignReturn(t) PROVE SpawnInv' /\ StopInv'
  BY <1>9 DEF ForeignReturn, Goto, objectVars, callVars, historyVars, vars

<1>10. ASSUME NEW t \in Thread, BeginFinish(t) PROVE SpawnInv' /\ StopInv'
  BY <1>10 DEF BeginFinish, Goto, objectVars, callVars, historyVars, vars

<1>11. ASSUME NEW t \in Thread, LoseFinish(t) PROVE SpawnInv' /\ StopInv'
  <2>1. /\ pc[t] = "begin" /\ Goto(t, resume[t])
        /\ resume[t] \in {"body", "returned", "uncount"} /\ UNCHANGED child
    BY <1>11 DEF LoseFinish, FinishReturns
  <2> QED
    BY <2>1, QuietStep

<1>12. ASSUME NEW t \in Thread, StoreFields(t) PROVE SpawnInv' /\ StopInv'
  BY <1>12 DEF StoreFields, Goto, objectVars, callVars, historyVars, vars

<1>13. ASSUME NEW t \in Thread, Publish(t) PROVE SpawnInv' /\ StopInv'
  <2>1. /\ pc[t] = "publish" /\ Goto(t, resume[t])
        /\ resume[t] \in {"body", "returned", "uncount"} /\ UNCHANGED child
    BY <1>13 DEF Publish, FinishReturns
  <2> QED
    BY <2>1, QuietStep

<1>14. ASSUME NEW t \in Task, EntryDone(t) PROVE SpawnInv' /\ StopInv'
  BY <1>14 DEF EntryDone, Goto, objectVars, callVars, historyVars, vars

<1>15. ASSUME NEW t \in Task, EntryUnfinished(t) PROVE SpawnInv' /\ StopInv'
  BY <1>15 DEF EntryUnfinished, CallFinish, Goto, objectVars, callVars, historyVars, vars

<1>16. ASSUME NEW t \in Task, Uncount(t) PROVE SpawnInv' /\ StopInv'
  BY <1>16 DEF Uncount, Goto, objectVars, callVars, historyVars, vars

<1>17. ASSUME NEW t \in Thread, AwaitNull(t) PROVE SpawnInv' /\ StopInv'
  BY <1>17 DEF AwaitNull, AtStatement, Goto, objectVars, callVars, historyVars, vars

<1>18. ASSUME NEW t \in Thread, NEW k \in Task, CallAwait(t, k) PROVE SpawnInv' /\ StopInv'
  BY <1>18 DEF CallAwait, AtStatement, Goto, objectVars, callVars, historyVars, vars

<1>19. ASSUME NEW t \in Thread, Poll(t) PROVE SpawnInv' /\ StopInv'
  BY <1>19 DEF Poll, Goto, objectVars, callVars, historyVars, vars

<1>20. ASSUME NEW t \in Thread, Read(t) PROVE SpawnInv' /\ StopInv'
  BY <1>20 DEF Read, Goto, objectVars, callVars, historyVars, vars

<1>21. CASE Exit
  BY <1>21 DEF Exit, Goto, objectVars, callVars, historyVars, vars

<1>22. CASE UNCHANGED vars
  BY <1>22 DEF vars, objectVars, callVars, historyVars

<1> QED
  BY <1>1, <1>2, <1>3, <1>4, <1>5, <1>6, <1>7, <1>8, <1>9, <1>10, <1>11, <1>12, <1>13, <1>14, <1>15, <1>16, <1>17, <1>18, <1>19, <1>20, <1>21, <1>22
  DEF Next, ThreadStep, InBody, InSpawn, InFinish, InAwait, EndOfTask, Stopped

\* Every step keeps pointers to started tasks.
LEMMA TargetStep == IInv /\ [Next]_vars => TargetInv'
<1> SUFFICES ASSUME IInv, [Next]_vars PROVE TargetInv'
  OBVIOUS
<1> USE ConstantsDistinct DEF IInv, TypeOK, SpawnInv, StopInv, TargetInv, InCall,
        Up, Thread, PC
<1>1. ASSUME NEW t \in Thread, NEW k \in Task, SpawnCount(t, k) PROVE TargetInv'
  BY <1>1 DEF SpawnCount, AtStatement, Goto, objectVars, callVars, historyVars, vars

<1>2. ASSUME NEW t \in Thread, SpawnAlloc(t) PROVE TargetInv'
  BY <1>2 DEF SpawnAlloc, Goto, objectVars, callVars, historyVars, vars

<1>3. ASSUME NEW t \in Thread, SpawnFails(t) PROVE TargetInv'
  BY <1>3 DEF SpawnFails, Goto, objectVars, callVars, historyVars, vars

<1>4. ASSUME NEW t \in Thread, SpawnCreate(t) PROVE TargetInv'
  <2>1. /\ pc[t] = "create" /\ child[t] \in Task /\ child[t] # t
        /\ pc[child[t]] = "unborn"
        /\ \A u \in Thread : pc'[u] = IF u \in {t, child[t]} THEN "body" ELSE pc[u]
        /\ target' = target
    BY <1>4 DEF SpawnCreate
  <2>2. PICK env \in SUBSET known[t] :
          known' = [known EXCEPT ![t] = @ \cup {child[t]}, ![child[t]] = env]
    BY <1>4 DEF SpawnCreate
  <2>3. \A u \in Thread, k \in Task : k \in known'[u] => k = child[t] \/ pc[k] # "unborn"
    BY <2>1, <2>2
  <2>4. \A u \in Thread, k \in Task : k \in known'[u] => pc'[k] # "unborn"
    BY <2>1, <2>3
  <2>5. \A u \in Thread : InCall(u)' => /\ target'[u] \in Task
                                       /\ pc'[target'[u]] # "unborn"
    BY <2>1
  <2> QED
    BY <2>4, <2>5

<1>5. ASSUME NEW t \in Thread, Throw(t) PROVE TargetInv'
  BY <1>5 DEF Throw, AtStatement, Goto, objectVars, callVars, historyVars, vars

<1>6. ASSUME NEW t \in Thread, Catch(t) PROVE TargetInv'
  BY <1>6 DEF Catch, Goto, objectVars, callVars, historyVars, vars

<1>7. ASSUME NEW t \in Task, RunnerFinish(t) PROVE TargetInv'
  BY <1>7 DEF RunnerFinish, CallFinish, Goto, objectVars, callVars, historyVars, vars

<1>8. ASSUME NEW t \in Foreign, ForeignFinish(t) PROVE TargetInv'
  BY <1>8 DEF ForeignFinish, CallFinish, AtStatement, Goto, objectVars, callVars, historyVars, vars

<1>9. ASSUME NEW t \in Foreign, ForeignReturn(t) PROVE TargetInv'
  BY <1>9 DEF ForeignReturn, Goto, objectVars, callVars, historyVars, vars

<1>10. ASSUME NEW t \in Thread, BeginFinish(t) PROVE TargetInv'
  BY <1>10 DEF BeginFinish, Goto, objectVars, callVars, historyVars, vars

<1>11. ASSUME NEW t \in Thread, LoseFinish(t) PROVE TargetInv'
  BY <1>11 DEF LoseFinish, FinishReturns, Goto, objectVars, callVars, historyVars, vars

<1>12. ASSUME NEW t \in Thread, StoreFields(t) PROVE TargetInv'
  BY <1>12 DEF StoreFields, Goto, objectVars, callVars, historyVars, vars

<1>13. ASSUME NEW t \in Thread, Publish(t) PROVE TargetInv'
  BY <1>13 DEF Publish, FinishReturns, Goto, objectVars, callVars, historyVars, vars

<1>14. ASSUME NEW t \in Task, EntryDone(t) PROVE TargetInv'
  BY <1>14 DEF EntryDone, Goto, objectVars, callVars, historyVars, vars

<1>15. ASSUME NEW t \in Task, EntryUnfinished(t) PROVE TargetInv'
  BY <1>15 DEF EntryUnfinished, CallFinish, Goto, objectVars, callVars, historyVars, vars

<1>16. ASSUME NEW t \in Task, Uncount(t) PROVE TargetInv'
  BY <1>16 DEF Uncount, Goto, objectVars, callVars, historyVars, vars

<1>17. ASSUME NEW t \in Thread, AwaitNull(t) PROVE TargetInv'
  BY <1>17 DEF AwaitNull, AtStatement, Goto, objectVars, callVars, historyVars, vars

<1>18. ASSUME NEW t \in Thread, NEW k \in Task, CallAwait(t, k) PROVE TargetInv'
  BY <1>18 DEF CallAwait, AtStatement, Goto, objectVars, callVars, historyVars, vars

<1>19. ASSUME NEW t \in Thread, Poll(t) PROVE TargetInv'
  BY <1>19 DEF Poll, Goto, objectVars, callVars, historyVars, vars

<1>20. ASSUME NEW t \in Thread, Read(t) PROVE TargetInv'
  BY <1>20 DEF Read, Goto, objectVars, callVars, historyVars, vars

<1>21. CASE Exit
  BY <1>21 DEF Exit, Goto, objectVars, callVars, historyVars, vars

<1>22. CASE UNCHANGED vars
  BY <1>22 DEF vars, objectVars, callVars, historyVars

<1> QED
  BY <1>1, <1>2, <1>3, <1>4, <1>5, <1>6, <1>7, <1>8, <1>9, <1>10, <1>11, <1>12, <1>13, <1>14, <1>15, <1>16, <1>17, <1>18, <1>19, <1>20, <1>21, <1>22
  DEF Next, ThreadStep, InBody, InSpawn, InFinish, InAwait, EndOfTask, Stopped

\* A step that neither touches `done` nor brings a thread to the fields.
LEMMA DoneFrame ==
    ASSUME DoneInv, done' = done,
           \A u \in Thread : pc'[u] \in {"store", "publish", "read"} =>
               pc[u] = pc'[u] /\ target'[u] = target[u],
           \A k \in Task : pc'[k] = "unborn" => pc[k] = "unborn"
    PROVE  DoneInv'
BY DEF DoneInv, Writes, Reads

\* Every step keeps the meaning of `done`.
LEMMA DoneStep == IInv /\ [Next]_vars => DoneInv'
<1> SUFFICES ASSUME IInv, [Next]_vars PROVE DoneInv'
  OBVIOUS
<1> USE ConstantsDistinct DEF IInv, TypeOK, SpawnInv, StopInv, TargetInv, DoneInv,
        InCall, Up, Thread, PC, Writes, Reads
<1>1. ASSUME NEW t \in Thread, NEW k \in Task, SpawnCount(t, k) PROVE DoneInv'
  BY <1>1 DEF SpawnCount, AtStatement, Goto, objectVars, callVars, historyVars, vars

<1>2. ASSUME NEW t \in Thread, SpawnAlloc(t) PROVE DoneInv'
  <2>1. done' = done
    BY <1>2 DEF SpawnAlloc
  <2> QED
    BY <1>2, <2>1 DEF SpawnAlloc, Goto, callVars

<1>3. ASSUME NEW t \in Thread, SpawnFails(t) PROVE DoneInv'
  BY <1>3 DEF SpawnFails, Goto, objectVars, callVars, historyVars, vars

<1>4. ASSUME NEW t \in Thread, SpawnCreate(t) PROVE DoneInv'
  BY <1>4 DEF SpawnCreate, Goto, objectVars, callVars, historyVars, vars

<1>5. ASSUME NEW t \in Thread, Throw(t) PROVE DoneInv'
  BY <1>5 DEF Throw, AtStatement, Goto, objectVars, callVars, historyVars, vars

<1>6. ASSUME NEW t \in Thread, Catch(t) PROVE DoneInv'
  BY <1>6 DEF Catch, Goto, objectVars, callVars, historyVars, vars

<1>7. ASSUME NEW t \in Task, RunnerFinish(t) PROVE DoneInv'
  <2>1. /\ done' = done
        /\ \A u \in Thread : pc'[u] \in {"store", "publish", "read"} =>
               pc[u] = pc'[u] /\ target'[u] = target[u]
        /\ \A j \in Task : pc'[j] = "unborn" => pc[j] = "unborn"
    BY <1>7 DEF RunnerFinish, CallFinish, Goto, objectVars
  <2> HIDE DEF IInv, TypeOK, DoneInv
  <2> QED
    BY <2>1, DoneFrame DEF IInv

<1>8. ASSUME NEW t \in Foreign, ForeignFinish(t) PROVE DoneInv'
  BY <1>8 DEF ForeignFinish, CallFinish, AtStatement, Goto, objectVars, callVars, historyVars, vars

<1>9. ASSUME NEW t \in Foreign, ForeignReturn(t) PROVE DoneInv'
  BY <1>9 DEF ForeignReturn, Goto, objectVars, callVars, historyVars, vars

<1>10. ASSUME NEW t \in Thread, BeginFinish(t) PROVE DoneInv'
  <2>1. (\A u \in Thread, k \in Task : Writes(u, k) => done[k] = 2)'
    BY <1>10, SMTT(20) DEF BeginFinish, Goto, callVars
  <2>2. (\A u, w \in Thread, k \in Task : Writes(u, k) /\ Writes(w, k) => u = w)'
    BY <1>10, SMTT(20) DEF BeginFinish, Goto, callVars
  <2>3. (\A u \in Thread, k \in Task : Reads(u, k) => done[k] = 1)'
    BY <1>10, SMTT(20) DEF BeginFinish, Goto, callVars
  <2>4. (\A k \in Task : pc[k] = "unborn" => done[k] = 0)'
    BY <1>10, SMTT(20) DEF BeginFinish, Goto, callVars
  <2> QED
    BY <2>1, <2>2, <2>3, <2>4

<1>11. ASSUME NEW t \in Thread, LoseFinish(t) PROVE DoneInv'
  <2>1. /\ done' = done
        /\ \A u \in Thread : pc'[u] \in {"store", "publish", "read"} =>
               pc[u] = pc'[u] /\ target'[u] = target[u]
        /\ \A j \in Task : pc'[j] = "unborn" => pc[j] = "unborn"
    BY <1>11 DEF LoseFinish, FinishReturns, Goto, objectVars
  <2> HIDE DEF IInv, TypeOK, DoneInv
  <2> QED
    BY <2>1, DoneFrame DEF IInv

<1>12. ASSUME NEW t \in Thread, StoreFields(t) PROVE DoneInv'
  <2>1. (\A u \in Thread, k \in Task : Writes(u, k) => done[k] = 2)'
    BY <1>12 DEF StoreFields, Goto, callVars
  <2>2. (\A u, w \in Thread, k \in Task : Writes(u, k) /\ Writes(w, k) => u = w)'
    BY <1>12 DEF StoreFields, Goto, callVars
  <2>3. (\A u \in Thread, k \in Task : Reads(u, k) => done[k] = 1)'
    BY <1>12 DEF StoreFields, Goto, callVars
  <2>4. (\A k \in Task : pc[k] = "unborn" => done[k] = 0)'
    BY <1>12 DEF StoreFields, Goto, callVars
  <2> QED
    BY <2>1, <2>2, <2>3, <2>4

<1>13. ASSUME NEW t \in Thread, Publish(t) PROVE DoneInv'
  <2>1. (\A u \in Thread, k \in Task : Writes(u, k) => done[k] = 2)'
    BY <1>13 DEF Publish, FinishReturns, Goto, callVars
  <2>2. (\A u, w \in Thread, k \in Task : Writes(u, k) /\ Writes(w, k) => u = w)'
    BY <1>13 DEF Publish, FinishReturns, Goto, callVars
  <2>3. (\A u \in Thread, k \in Task : Reads(u, k) => done[k] = 1)'
    BY <1>13 DEF Publish, FinishReturns, Goto, callVars
  <2>4. (\A k \in Task : pc[k] = "unborn" => done[k] = 0)'
    BY <1>13 DEF Publish, FinishReturns, Goto, callVars
  <2> QED
    BY <2>1, <2>2, <2>3, <2>4

<1>14. ASSUME NEW t \in Task, EntryDone(t) PROVE DoneInv'
  BY <1>14 DEF EntryDone, Goto, objectVars, callVars, historyVars, vars

<1>15. ASSUME NEW t \in Task, EntryUnfinished(t) PROVE DoneInv'
  <2>1. /\ done' = done
        /\ \A u \in Thread : pc'[u] \in {"store", "publish", "read"} =>
               pc[u] = pc'[u] /\ target'[u] = target[u]
        /\ \A j \in Task : pc'[j] = "unborn" => pc[j] = "unborn"
    BY <1>15 DEF EntryUnfinished, CallFinish, Goto, objectVars
  <2> HIDE DEF IInv, TypeOK, DoneInv
  <2> QED
    BY <2>1, DoneFrame DEF IInv

<1>16. ASSUME NEW t \in Task, Uncount(t) PROVE DoneInv'
  BY <1>16 DEF Uncount, Goto, objectVars, callVars, historyVars, vars

<1>17. ASSUME NEW t \in Thread, AwaitNull(t) PROVE DoneInv'
  BY <1>17 DEF AwaitNull, AtStatement, Goto, objectVars, callVars, historyVars, vars

<1>18. ASSUME NEW t \in Thread, NEW k \in Task, CallAwait(t, k) PROVE DoneInv'
  <2>1. /\ done' = done
        /\ \A u \in Thread : pc'[u] \in {"store", "publish", "read"} =>
               pc[u] = pc'[u] /\ target'[u] = target[u]
        /\ \A j \in Task : pc'[j] = "unborn" => pc[j] = "unborn"
    BY <1>18 DEF CallAwait, AtStatement, Goto, objectVars
  <2> HIDE DEF IInv, TypeOK, DoneInv
  <2> QED
    BY <2>1, DoneFrame DEF IInv

<1>19. ASSUME NEW t \in Thread, Poll(t) PROVE DoneInv'
  <2>1. (\A u \in Thread, k \in Task : Writes(u, k) => done[k] = 2)'
    BY <1>19 DEF Poll, Goto, objectVars, callVars
  <2>2. (\A u, w \in Thread, k \in Task : Writes(u, k) /\ Writes(w, k) => u = w)'
    BY <1>19 DEF Poll, Goto, objectVars, callVars
  <2>3. (\A u \in Thread, k \in Task : Reads(u, k) => done[k] = 1)'
    BY <1>19 DEF Poll, Goto, objectVars, callVars
  <2>4. (\A k \in Task : pc[k] = "unborn" => done[k] = 0)'
    BY <1>19 DEF Poll, Goto, objectVars, callVars
  <2> QED
    BY <2>1, <2>2, <2>3, <2>4

<1>20. ASSUME NEW t \in Thread, Read(t) PROVE DoneInv'
  <2>1. /\ done' = done
        /\ \A u \in Thread : pc'[u] \in {"store", "publish", "read"} =>
               pc[u] = pc'[u] /\ target'[u] = target[u]
        /\ \A j \in Task : pc'[j] = "unborn" => pc[j] = "unborn"
    BY <1>20 DEF Read, Goto, objectVars
  <2> HIDE DEF IInv, TypeOK, DoneInv
  <2> QED
    BY <2>1, DoneFrame DEF IInv

<1>21. CASE Exit
  BY <1>21 DEF Exit, Goto, objectVars, callVars, historyVars, vars

<1>22. CASE UNCHANGED vars
  BY <1>22 DEF vars, objectVars, callVars, historyVars

<1> QED
  BY <1>1, <1>2, <1>3, <1>4, <1>5, <1>6, <1>7, <1>8, <1>9, <1>10, <1>11, <1>12, <1>13, <1>14, <1>15, <1>16, <1>17, <1>18, <1>19, <1>20, <1>21, <1>22
  DEF Next, ThreadStep, InBody, InSpawn, InFinish, InAwait, EndOfTask, Stopped

\* Every step keeps `live` equal to the number of counted tasks.
LEMMA CountStep == IInv /\ [Next]_vars => CountInv' /\ live' \in Nat
<1> SUFFICES ASSUME IInv, [Next]_vars PROVE CountInv' /\ live' \in Nat
  OBVIOUS
<1> USE ConstantsDistinct DEF IInv
<1>f. IsFiniteSet(Counted) /\ Cardinality(Counted) \in Nat
  BY FS_Subset, FS_CardinalityType DEF Counted
<1>1. ASSUME NEW t \in Thread, NEW k \in Task, SpawnCount(t, k) PROVE CountInv' /\ live' \in Nat
  <2>1. Up /\ k \notin Counted
    BY <1>1 DEF SpawnCount, AtStatement, Counted, Thread, StopInv, TypeOK
  <2>2. Counted' = Counted \cup {k}
    BY <1>1 DEF SpawnCount, Goto, Counted, Thread, TypeOK, SpawnInv, Up, PC, StopInv,
       AtStatement
  <2>3. Cardinality(Counted') = Cardinality(Counted) + 1
    BY <2>1, <2>2, <1>f, FS_AddElement
  <2> QED
    BY <1>1, <2>1, <2>3, <1>f DEF SpawnCount, CountInv, TypeOK

<1>2. ASSUME NEW t \in Thread, SpawnAlloc(t) PROVE CountInv' /\ live' \in Nat
  <2>1. Up => Counted' = Counted
    BY <1>2 DEF SpawnAlloc, Goto, Counted, Thread, TypeOK, SpawnInv, TargetInv, PC, Up, StopInv, callVars
  <2>2. live' = live /\ (Up' => Up)
    BY <1>2 DEF SpawnAlloc, Goto, Thread, TypeOK, Up, StopInv, callVars
  <2> QED
    BY <2>1, <2>2 DEF CountInv, TypeOK

<1>3. ASSUME NEW t \in Thread, SpawnFails(t) PROVE CountInv' /\ live' \in Nat
  <2>1. Up /\ child[t] \in Counted
    BY <1>3 DEF SpawnFails, Counted, Thread, StopInv, SpawnInv, TypeOK, Up
  <2>2. Counted' = Counted \ {child[t]}
    BY <1>3, <2>1 DEF SpawnFails, Goto, Counted, Thread, TypeOK, SpawnInv, PC, StopInv,
       callVars
  <2>3. /\ Cardinality(Counted') = Cardinality(Counted) - 1
        /\ Cardinality(Counted') \in Nat
    BY <2>1, <2>2, <1>f, FS_RemoveElement, FS_CardinalityType
  <2> QED
    BY <1>3, <2>1, <2>3, <1>f DEF SpawnFails, CountInv, TypeOK

<1>4. ASSUME NEW t \in Thread, SpawnCreate(t) PROVE CountInv' /\ live' \in Nat
  <2>1. Up => Counted' = Counted
    BY <1>4 DEF SpawnCreate, Goto, Counted, Thread, TypeOK, SpawnInv, TargetInv, PC, Up, StopInv, callVars
  <2>2. live' = live /\ (Up' => Up)
    BY <1>4 DEF SpawnCreate, Goto, Thread, TypeOK, Up, StopInv, callVars
  <2> QED
    BY <2>1, <2>2 DEF CountInv, TypeOK

<1>5. ASSUME NEW t \in Thread, Throw(t) PROVE CountInv' /\ live' \in Nat
  <2>1. Up => Counted' = Counted
    BY <1>5 DEF Throw, AtStatement, Goto, Counted, Thread, TypeOK, SpawnInv, TargetInv, PC, Up, StopInv, callVars
  <2>2. live' = live /\ (Up' => Up)
    BY <1>5 DEF Throw, AtStatement, Goto, Thread, TypeOK, Up, StopInv, callVars
  <2> QED
    BY <2>1, <2>2 DEF CountInv, TypeOK

<1>6. ASSUME NEW t \in Thread, Catch(t) PROVE CountInv' /\ live' \in Nat
  <2>1. Up => Counted' = Counted
    BY <1>6 DEF Catch, Goto, Counted, Thread, TypeOK, SpawnInv, TargetInv, PC, Up, StopInv, callVars
  <2>2. live' = live /\ (Up' => Up)
    BY <1>6 DEF Catch, Goto, Thread, TypeOK, Up, StopInv, callVars
  <2> QED
    BY <2>1, <2>2 DEF CountInv, TypeOK

<1>7. ASSUME NEW t \in Task, RunnerFinish(t) PROVE CountInv' /\ live' \in Nat
  <2>1. Up => Counted' = Counted
    BY <1>7 DEF RunnerFinish, CallFinish, Goto, Counted, Thread, TypeOK, SpawnInv, TargetInv, PC, Up, StopInv, callVars
  <2>2. live' = live /\ (Up' => Up)
    BY <1>7 DEF RunnerFinish, CallFinish, Goto, Thread, TypeOK, Up, StopInv, callVars
  <2> QED
    BY <2>1, <2>2 DEF CountInv, TypeOK

<1>8. ASSUME NEW t \in Foreign, ForeignFinish(t) PROVE CountInv' /\ live' \in Nat
  <2>1. Up => Counted' = Counted
    BY <1>8 DEF ForeignFinish, CallFinish, AtStatement, Goto, Counted, Thread, TypeOK, SpawnInv, TargetInv, PC, Up, StopInv, callVars
  <2>2. live' = live /\ (Up' => Up)
    BY <1>8 DEF ForeignFinish, CallFinish, AtStatement, Goto, Thread, TypeOK, Up, StopInv, callVars
  <2> QED
    BY <2>1, <2>2 DEF CountInv, TypeOK

<1>9. ASSUME NEW t \in Foreign, ForeignReturn(t) PROVE CountInv' /\ live' \in Nat
  <2>1. Up => Counted' = Counted
    BY <1>9 DEF ForeignReturn, Goto, Counted, Thread, TypeOK, SpawnInv, TargetInv, PC, Up, StopInv, callVars
  <2>2. live' = live /\ (Up' => Up)
    BY <1>9 DEF ForeignReturn, Goto, Thread, TypeOK, Up, StopInv, callVars
  <2> QED
    BY <2>1, <2>2 DEF CountInv, TypeOK

<1>10. ASSUME NEW t \in Thread, BeginFinish(t) PROVE CountInv' /\ live' \in Nat
  <2>1. Up => Counted' = Counted
    BY <1>10 DEF BeginFinish, Goto, Counted, Thread, TypeOK, SpawnInv, TargetInv, PC, Up, StopInv, callVars
  <2>2. live' = live /\ (Up' => Up)
    BY <1>10 DEF BeginFinish, Goto, Thread, TypeOK, Up, StopInv, callVars
  <2> QED
    BY <2>1, <2>2 DEF CountInv, TypeOK

<1>11. ASSUME NEW t \in Thread, LoseFinish(t) PROVE CountInv' /\ live' \in Nat
  <2>1. Up => Counted' = Counted
    BY <1>11 DEF LoseFinish, FinishReturns, Goto, Counted, Thread, TypeOK, SpawnInv, TargetInv, PC, Up, StopInv, callVars
  <2>2. live' = live /\ (Up' => Up)
    BY <1>11 DEF LoseFinish, FinishReturns, Goto, Thread, TypeOK, Up, StopInv, callVars
  <2> QED
    BY <2>1, <2>2 DEF CountInv, TypeOK

<1>12. ASSUME NEW t \in Thread, StoreFields(t) PROVE CountInv' /\ live' \in Nat
  <2>1. Up => Counted' = Counted
    BY <1>12 DEF StoreFields, Goto, Counted, Thread, TypeOK, SpawnInv, TargetInv, PC, Up, StopInv, callVars
  <2>2. live' = live /\ (Up' => Up)
    BY <1>12 DEF StoreFields, Goto, Thread, TypeOK, Up, StopInv, callVars
  <2> QED
    BY <2>1, <2>2 DEF CountInv, TypeOK

<1>13. ASSUME NEW t \in Thread, Publish(t) PROVE CountInv' /\ live' \in Nat
  <2>1. Up => Counted' = Counted
    BY <1>13 DEF Publish, FinishReturns, Goto, Counted, Thread, TypeOK, SpawnInv, TargetInv, PC, Up, StopInv, callVars
  <2>2. live' = live /\ (Up' => Up)
    BY <1>13 DEF Publish, FinishReturns, Goto, Thread, TypeOK, Up, StopInv, callVars
  <2> QED
    BY <2>1, <2>2 DEF CountInv, TypeOK

<1>14. ASSUME NEW t \in Task, EntryDone(t) PROVE CountInv' /\ live' \in Nat
  <2>1. Up => Counted' = Counted
    BY <1>14 DEF EntryDone, Goto, Counted, Thread, TypeOK, SpawnInv, TargetInv, PC, Up, StopInv, callVars
  <2>2. live' = live /\ (Up' => Up)
    BY <1>14 DEF EntryDone, Goto, Thread, TypeOK, Up, StopInv, callVars
  <2> QED
    BY <2>1, <2>2 DEF CountInv, TypeOK

<1>15. ASSUME NEW t \in Task, EntryUnfinished(t) PROVE CountInv' /\ live' \in Nat
  <2>1. Up => Counted' = Counted
    BY <1>15 DEF EntryUnfinished, CallFinish, Goto, Counted, Thread, TypeOK, SpawnInv, TargetInv, PC, Up, StopInv, callVars
  <2>2. live' = live /\ (Up' => Up)
    BY <1>15 DEF EntryUnfinished, CallFinish, Goto, Thread, TypeOK, Up, StopInv, callVars
  <2> QED
    BY <2>1, <2>2 DEF CountInv, TypeOK

<1>16. ASSUME NEW t \in Task, Uncount(t) PROVE CountInv' /\ live' \in Nat
  <2>1. Up /\ t \in Counted
    BY <1>16 DEF Uncount, Counted, Thread, StopInv, SpawnInv, TypeOK, Up
  <2>2. Counted' = Counted \ {t}
    BY <1>16, <2>1 DEF Uncount, Goto, Counted, Thread, TypeOK, SpawnInv, PC, StopInv,
       callVars
  <2>3. /\ Cardinality(Counted') = Cardinality(Counted) - 1
        /\ Cardinality(Counted') \in Nat
    BY <2>1, <2>2, <1>f, FS_RemoveElement, FS_CardinalityType
  <2> QED
    BY <1>16, <2>1, <2>3, <1>f DEF Uncount, CountInv, TypeOK

<1>17. ASSUME NEW t \in Thread, AwaitNull(t) PROVE CountInv' /\ live' \in Nat
  <2>1. Up => Counted' = Counted
    BY <1>17 DEF AwaitNull, AtStatement, Goto, Counted, Thread, TypeOK, SpawnInv, TargetInv, PC, Up, StopInv, callVars
  <2>2. live' = live /\ (Up' => Up)
    BY <1>17 DEF AwaitNull, AtStatement, Goto, Thread, TypeOK, Up, StopInv, callVars
  <2> QED
    BY <2>1, <2>2 DEF CountInv, TypeOK

<1>18. ASSUME NEW t \in Thread, NEW k \in Task, CallAwait(t, k) PROVE CountInv' /\ live' \in Nat
  <2>1. Up => Counted' = Counted
    BY <1>18 DEF CallAwait, AtStatement, Goto, Counted, Thread, TypeOK, SpawnInv, TargetInv, PC, Up, StopInv, callVars
  <2>2. live' = live /\ (Up' => Up)
    BY <1>18 DEF CallAwait, AtStatement, Goto, Thread, TypeOK, Up, StopInv, callVars
  <2> QED
    BY <2>1, <2>2 DEF CountInv, TypeOK

<1>19. ASSUME NEW t \in Thread, Poll(t) PROVE CountInv' /\ live' \in Nat
  <2>1. Up => Counted' = Counted
    BY <1>19 DEF Poll, Goto, Counted, Thread, TypeOK, SpawnInv, TargetInv, PC, Up, StopInv, callVars
  <2>2. live' = live /\ (Up' => Up)
    BY <1>19 DEF Poll, Goto, Thread, TypeOK, Up, StopInv, callVars
  <2> QED
    BY <2>1, <2>2 DEF CountInv, TypeOK

<1>20. ASSUME NEW t \in Thread, Read(t) PROVE CountInv' /\ live' \in Nat
  <2>1. Up => Counted' = Counted
    BY <1>20 DEF Read, Goto, Counted, Thread, TypeOK, SpawnInv, TargetInv, PC, Up, StopInv, callVars
  <2>2. live' = live /\ (Up' => Up)
    BY <1>20 DEF Read, Goto, Thread, TypeOK, Up, StopInv, callVars
  <2> QED
    BY <2>1, <2>2 DEF CountInv, TypeOK

<1>21. CASE Exit
  BY <1>21 DEF Exit, CountInv, Up, Thread, TypeOK

<1>22. CASE UNCHANGED vars
  <2>1. Counted' = Counted
    BY <1>22 DEF vars, callVars, Counted, Thread
  <2> QED
    BY <1>22, <2>1 DEF vars, CountInv, Up, TypeOK

<1> QED
  BY <1>1, <1>2, <1>3, <1>4, <1>5, <1>6, <1>7, <1>8, <1>9, <1>10, <1>11, <1>12, <1>13, <1>14, <1>15, <1>16, <1>17, <1>18, <1>19, <1>20, <1>21, <1>22
  DEF Next, ThreadStep, InBody, InSpawn, InFinish, InAwait, EndOfTask, Stopped

\* The invariant holds in every reachable state.
THEOREM Invariance == Spec => []IInv
<1>1. IInv /\ [Next]_vars => IInv'
  BY TypeStep, SpawnStep, TargetStep, DoneStep, CountStep DEF IInv
<1> QED
  BY InitInv, <1>1, PTL DEF Spec

-----------------------------------------------------------------------------

\* Type correctness: in particular the live counter never goes below zero, on
\* any path through spawn, its two error returns and the end of a thread.
THEOREM TypeCorrect == Spec => []TypeOK
BY Invariance, PTL DEF IInv

\* A zero live counter means that no task thread exists or is being created.
THEOREM CollectorGateHolds == Spec => []CollectorGate
<1>1. IInv => CollectorGate
  <2> SUFFICES ASSUME IInv, Up, live = 0 PROVE Counted = {}
    BY DEF CollectorGate, Up, Counted, IInv, TypeOK, Thread
  <2> QED
    BY ConstantsDistinct, FS_Subset, FS_EmptySet DEF IInv, CountInv, Counted
<1> QED
  BY Invariance, <1>1, PTL

\* The plain fields of a task are never accessed by two threads at once.
THEOREM FieldsRaceFreeHolds == Spec => []FieldsRaceFree
<1>1. IInv => FieldsRaceFree
  BY DEF IInv, DoneInv, FieldsRaceFree
<1> QED
  BY Invariance, <1>1, PTL

-----------------------------------------------------------------------------

\* The value the refinement gives TaskPromise's promise.
PromiseOf == [k \in Task |-> IF done[k] = 1 THEN fields[k] ELSE NoTask]

\* Every step settles one pending task, hands one waiter a settled outcome, or
\* changes neither.
LEMMA PromiseStep == IInv /\ [Next]_vars => [Promise!Next]_<<PromiseOf, got>>
<1> SUFFICES ASSUME IInv, [Next]_vars PROVE [Promise!Next]_<<PromiseOf, got>>
  OBVIOUS
<1> USE ConstantsDistinct, NoTaskIsNoOutcome DEF IInv, TypeOK, SpawnInv, StopInv, TargetInv, DoneInv,
        Up, Thread, PC, Writes, Reads, PromiseOf
<1>1. ASSUME NEW t \in Thread, NEW k \in Task, SpawnCount(t, k) PROVE [Promise!Next]_<<PromiseOf, got>>
  BY <1>1 DEF SpawnCount, objectVars, historyVars

<1>2. ASSUME NEW t \in Thread, SpawnAlloc(t) PROVE [Promise!Next]_<<PromiseOf, got>>
  BY <1>2 DEF SpawnAlloc, historyVars

<1>3. ASSUME NEW t \in Thread, SpawnFails(t) PROVE [Promise!Next]_<<PromiseOf, got>>
  BY <1>3 DEF SpawnFails, objectVars, historyVars

<1>4. ASSUME NEW t \in Thread, SpawnCreate(t) PROVE [Promise!Next]_<<PromiseOf, got>>
  BY <1>4 DEF SpawnCreate, objectVars, historyVars

<1>5. ASSUME NEW t \in Thread, Throw(t) PROVE [Promise!Next]_<<PromiseOf, got>>
  BY <1>5 DEF Throw, objectVars, historyVars

<1>6. ASSUME NEW t \in Thread, Catch(t) PROVE [Promise!Next]_<<PromiseOf, got>>
  BY <1>6 DEF Catch, objectVars, historyVars

<1>7. ASSUME NEW t \in Task, RunnerFinish(t) PROVE [Promise!Next]_<<PromiseOf, got>>
  BY <1>7 DEF RunnerFinish, objectVars, historyVars

<1>8. ASSUME NEW t \in Foreign, ForeignFinish(t) PROVE [Promise!Next]_<<PromiseOf, got>>
  BY <1>8 DEF ForeignFinish, objectVars, historyVars

<1>9. ASSUME NEW t \in Foreign, ForeignReturn(t) PROVE [Promise!Next]_<<PromiseOf, got>>
  BY <1>9 DEF ForeignReturn, objectVars, historyVars

<1>10. ASSUME NEW t \in Thread, BeginFinish(t) PROVE [Promise!Next]_<<PromiseOf, got>>
  BY <1>10 DEF BeginFinish, historyVars, InCall

<1>11. ASSUME NEW t \in Thread, LoseFinish(t) PROVE [Promise!Next]_<<PromiseOf, got>>
  BY <1>11 DEF LoseFinish, objectVars, historyVars

<1>12. ASSUME NEW t \in Thread, StoreFields(t) PROVE [Promise!Next]_<<PromiseOf, got>>
  BY <1>12 DEF StoreFields, historyVars, InCall

<1>13. ASSUME NEW t \in Thread, Publish(t) PROVE [Promise!Next]_<<PromiseOf, got>>
  <2>1. PICK k \in Task, o \in Outcome : k = target[t] /\ o = fields[k] /\ done[k] = 2
    BY <1>13 DEF Publish, InCall
  <2>2. /\ done' = [done EXCEPT ![k] = 1] /\ fields' = fields /\ got' = got
        /\ done \in [Task -> {0, 1, 2}]
    BY <1>13, <2>1 DEF Publish, historyVars
  <2> HIDE DEF IInv, TypeOK, Thread, PC, SpawnInv, StopInv, TargetInv, DoneInv
  <2>3. PromiseOf[k] = NoTask
    BY <2>1
  <2>4. ASSUME NEW j \in Task
        PROVE PromiseOf'[j] = IF j = k THEN o ELSE PromiseOf[j]
    BY <2>1, <2>2
  <2>5. PromiseOf' = [PromiseOf EXCEPT ![k] = o]
    BY <2>4
  <2> QED
    BY <2>1, <2>2, <2>3, <2>5 DEF Promise!Next, Promise!Settle

<1>14. ASSUME NEW t \in Task, EntryDone(t) PROVE [Promise!Next]_<<PromiseOf, got>>
  BY <1>14 DEF EntryDone, objectVars, historyVars

<1>15. ASSUME NEW t \in Task, EntryUnfinished(t) PROVE [Promise!Next]_<<PromiseOf, got>>
  BY <1>15 DEF EntryUnfinished, objectVars, historyVars

<1>16. ASSUME NEW t \in Task, Uncount(t) PROVE [Promise!Next]_<<PromiseOf, got>>
  BY <1>16 DEF Uncount, objectVars, historyVars

<1>17. ASSUME NEW t \in Thread, AwaitNull(t) PROVE [Promise!Next]_<<PromiseOf, got>>
  <2>1. Promise!ObserveNull(t)
    BY <1>17 DEF AwaitNull, objectVars, Promise!ObserveNull
  <2> QED
    BY <2>1 DEF Promise!Next

<1>18. ASSUME NEW t \in Thread, NEW k \in Task, CallAwait(t, k) PROVE [Promise!Next]_<<PromiseOf, got>>
  BY <1>18 DEF CallAwait, objectVars, historyVars

<1>19. ASSUME NEW t \in Thread, Poll(t) PROVE [Promise!Next]_<<PromiseOf, got>>
  BY <1>19 DEF Poll, objectVars, historyVars

<1>20. ASSUME NEW t \in Thread, Read(t) PROVE [Promise!Next]_<<PromiseOf, got>>
  <2> DEFINE k == target[t]
  <2>1. k \in Task /\ done[k] = 1 /\ fields[k] \in Outcome
    BY <1>20 DEF Read, InCall
  <2>2. /\ UNCHANGED <<done, fields>>
        /\ got' = [got EXCEPT ![t] = [from |-> k, what |-> fields[k]]]
    BY <1>20 DEF Read, objectVars
  <2> HIDE DEF k
  <2>3. PromiseOf[k] = fields[k] /\ PromiseOf[k] # NoTask /\ PromiseOf' = PromiseOf
    BY <2>1, <2>2
  <2> HIDE DEF IInv, TypeOK
  <2>4. Promise!Observe(t, k)
    BY <2>2, <2>3 DEF Promise!Observe
  <2> QED
    BY <2>1, <2>4 DEF Promise!Next

<1>21. CASE Exit
  BY <1>21 DEF Exit, objectVars, historyVars

<1>22. CASE UNCHANGED vars
  BY <1>22 DEF vars, objectVars, historyVars

<1> QED
  BY <1>1, <1>2, <1>3, <1>4, <1>5, <1>6, <1>7, <1>8, <1>9, <1>10, <1>11, <1>12, <1>13, <1>14, <1>15, <1>16, <1>17, <1>18, <1>19, <1>20, <1>21, <1>22
  DEF Next, ThreadStep, InBody, InSpawn, InFinish, InAwait, EndOfTask, Stopped

\* AsyncTask implements TaskPromise: a task is settled once, and an await hands
\* back exactly what it was settled with.
THEOREM Refinement == Spec => ImplementsPromise
<1>1. Init => Promise!Init
  BY DEF Init, Promise!Init, NoAwait, Thread
<1> QED
  BY <1>1, Invariance, PromiseStep, PTL DEF Spec, ImplementsPromise, Promise!Spec, PromiseOf
-----------------------------------------------------------------------------
(* What an await yields. *)

\* No foreign entry has finished a task.
Quiet == \A f \in Foreign : calls[f] = 0

Finishing(t) == pc[t] \in {"begin", "store", "publish"}

\* Then a task of a generated runner is finished by its own thread only, once,
\* with what the body computed.
YieldOf(k) ==
    /\ \A t \in Thread : Finishing(t) /\ target[t] = k => t = k
    /\ Finishing(k) => target[k] = k /\ resume[k] = "returned" /\ outcome[k] = body[k]
    /\ pc[k] \in {"unborn", "body", "alloc", "create", "poll", "read", "begin"}
        => done[k] = 0
    /\ pc[k] = "publish" => fields[k] = body[k]
    /\ pc[k] \in {"returned", "uncount"} => done[k] = 1
    /\ done[k] = 1 => fields[k] = body[k]
    /\ \A t \in Thread : got[t].from = k => done[k] = 1 /\ got[t].what = body[k]

YieldInv == Quiet => \A k \in Task \ Foreign : YieldOf(k)

LEMMA YieldInit == Init => YieldInv
BY ConstantsDistinct DEF Init, YieldInv, YieldOf, Finishing, Thread, NoAwait

LEMMA YieldStep == IInv /\ YieldInv /\ [Next]_vars => YieldInv'
<1> SUFFICES ASSUME IInv, YieldInv, [Next]_vars, Quiet', NEW k \in Task \ Foreign
             PROVE  YieldOf(k)'
  BY DEF YieldInv
<1> USE ConstantsDistinct DEF Finishing, Goto, AtStatement, objectVars, callVars, historyVars
<1>0. /\ Main \in Thread /\ Main # k /\ k \in Thread /\ k \in Task /\ k \notin Foreign
      /\ Foreign \subseteq Task /\ Task \subseteq Thread /\ NoTask \notin Thread
      /\ pc \in [Thread -> PC] /\ done \in [Task -> {0, 1, 2}]
      /\ fields \in [Task -> Outcome] /\ target \in [Thread -> Task \cup {NoTask}]
      /\ outcome \in [Thread -> Outcome] /\ body \in [Task -> Outcome]
      /\ resume \in [Thread -> {"body", "returned", "uncount"}]
      /\ got \in [Thread -> Await] /\ child \in [Thread -> Task \cup {NoTask}]
      /\ \A f \in Foreign : calls[f] \in Nat
  BY DEF IInv, TypeOK, Thread
<1>t. \A t \in Thread : InCall(t) => target[t] \in Task
  BY DEF IInv, TargetInv
<1>i. /\ SpawnInv /\ StopInv
      /\ \A t \in Thread : Finishing(t) => target[t] \in Task
      /\ \A t \in Thread, j \in Task : Writes(t, j) => done[j] = 2
      /\ \A t \in Thread, j \in Task : Reads(t, j) => done[j] = 1 /\ target[t] \in Task
      /\ \A j \in Task : pc[j] = "unborn" => done[j] = 0
  BY DEF IInv, TargetInv, DoneInv, InCall, Reads
<1>q. ASSUME UNCHANGED calls PROVE YieldOf(k)
  BY <1>q DEF YieldInv, Quiet
<1> HIDE DEF Quiet
<1>1. ASSUME NEW t \in Thread, NEW j \in Task, SpawnCount(t, j) PROVE YieldOf(k)'
  <2>1. YieldOf(k)
    BY <1>1, <1>q DEF SpawnCount
  <2> QED
    BY <1>0, <1>i, <1>1, <2>1 DEF SpawnCount, YieldOf
<1>2. ASSUME NEW t \in Thread, SpawnAlloc(t) PROVE YieldOf(k)'
  <2>1. YieldOf(k)
    BY <1>2, <1>q DEF SpawnAlloc
  <2> QED
    BY <1>0, <1>i, <1>2, <2>1 DEF SpawnAlloc, SpawnInv, StopInv, Up, YieldOf
<1>3. ASSUME NEW t \in Thread, SpawnFails(t) PROVE YieldOf(k)'
  <2>1. YieldOf(k)
    BY <1>3, <1>q DEF SpawnFails
  <2> QED
    BY <1>0, <1>i, <1>3, <2>1 DEF SpawnFails, YieldOf
<1>4. ASSUME NEW t \in Thread, SpawnCreate(t) PROVE YieldOf(k)'
  <2>1. YieldOf(k)
    BY <1>4, <1>q DEF SpawnCreate
  <2> QED
    BY <1>0, <1>i, <1>4, <2>1 DEF SpawnCreate, SpawnInv, StopInv, Up, YieldOf
<1>5. ASSUME NEW t \in Thread, Throw(t) PROVE YieldOf(k)'
  <2>1. YieldOf(k)
    BY <1>5, <1>q DEF Throw
  <2> QED
    BY <1>0, <1>i, <1>5, <2>1 DEF Throw, YieldOf
<1>6. ASSUME NEW t \in Thread, Catch(t) PROVE YieldOf(k)'
  <2>1. YieldOf(k)
    BY <1>6, <1>q DEF Catch
  <2> QED
    BY <1>0, <1>i, <1>6, <2>1 DEF Catch, YieldOf
<1>7. ASSUME NEW t \in Task \ Foreign, RunnerFinish(t) PROVE YieldOf(k)'
  <2>1. YieldOf(k)
    BY <1>7, <1>q DEF RunnerFinish
  <2> QED
    BY <1>0, <1>i, <1>7, <2>1 DEF RunnerFinish, CallFinish, YieldOf
<1>8. ASSUME NEW t \in Foreign, ForeignFinish(t) PROVE FALSE
  <2>1. calls \in [Thread -> 0..MaxFinish] /\ calls' = [calls EXCEPT ![t] = @ + 1]
    BY <1>8 DEF ForeignFinish, IInv, TypeOK
  <2>2. calls[t] \in 0..MaxFinish /\ calls'[t] = calls[t] + 1
    BY <1>0, <2>1
  <2>3. calls'[t] # 0
    BY <2>2
  <2> QED
    BY <2>3 DEF Quiet
<1>9. ASSUME NEW t \in Foreign, ForeignReturn(t) PROVE YieldOf(k)'
  <2>1. YieldOf(k)
    BY <1>9, <1>q DEF ForeignReturn
  <2> QED
    BY <1>0, <1>i, <1>9, <2>1 DEF ForeignReturn, YieldOf
<1>10. ASSUME NEW t \in Thread, BeginFinish(t) PROVE YieldOf(k)'
  <2>1. YieldOf(k)
    BY <1>10, <1>q DEF BeginFinish
  <2> QED
    BY <1>0, <1>i, <1>10, <2>1 DEF BeginFinish, YieldOf
<1>11. ASSUME NEW t \in Thread, LoseFinish(t) PROVE YieldOf(k)'
  <2>1. YieldOf(k)
    BY <1>11, <1>q DEF LoseFinish
  <2> QED
    BY <1>0, <1>i, <1>11, <2>1 DEF LoseFinish, FinishReturns, YieldOf
<1>12. ASSUME NEW t \in Thread, StoreFields(t) PROVE YieldOf(k)'
  <2>1. YieldOf(k)
    BY <1>12, <1>q DEF StoreFields
  <2> QED
    BY <1>0, <1>i, <1>12, <2>1 DEF StoreFields, Writes, YieldOf
<1>13. ASSUME NEW t \in Thread, Publish(t) PROVE YieldOf(k)'
  <2>1. YieldOf(k)
    BY <1>13, <1>q DEF Publish
  <2> QED
    BY <1>0, <1>i, <1>13, <2>1 DEF Publish, FinishReturns, YieldOf
<1>14. ASSUME NEW t \in Task, EntryDone(t) PROVE YieldOf(k)'
  <2>1. YieldOf(k)
    BY <1>14, <1>q DEF EntryDone
  <2> QED
    BY <1>0, <1>i, <1>14, <2>1 DEF EntryDone, YieldOf
<1>15. ASSUME NEW t \in Task, EntryUnfinished(t) PROVE YieldOf(k)'
  <2>1. YieldOf(k)
    BY <1>15, <1>q DEF EntryUnfinished
  <2> QED
    BY <1>0, <1>i, <1>15, <2>1 DEF EntryUnfinished, CallFinish, YieldOf
<1>16. ASSUME NEW t \in Task, Uncount(t) PROVE YieldOf(k)'
  <2>1. YieldOf(k)
    BY <1>16, <1>q DEF Uncount
  <2> QED
    BY <1>0, <1>i, <1>16, <2>1 DEF Uncount, YieldOf
<1>17. ASSUME NEW t \in Thread, AwaitNull(t) PROVE YieldOf(k)'
  <2>1. YieldOf(k)
    BY <1>17, <1>q DEF AwaitNull
  <2> QED
    BY <1>0, <1>i, <1>17, <2>1 DEF AwaitNull, YieldOf
<1>18. ASSUME NEW t \in Thread, NEW j \in Task, CallAwait(t, j) PROVE YieldOf(k)'
  <2>1. YieldOf(k)
    BY <1>18, <1>q DEF CallAwait
  <2> QED
    BY <1>0, <1>i, <1>18, <2>1 DEF CallAwait, YieldOf
<1>19. ASSUME NEW t \in Thread, Poll(t) PROVE YieldOf(k)'
  <2>1. YieldOf(k)
    BY <1>19, <1>q DEF Poll
  <2> QED
    BY <1>0, <1>i, <1>19, <2>1 DEF Poll, YieldOf
<1>20. ASSUME NEW t \in Thread, Read(t) PROVE YieldOf(k)'
  <2>1. YieldOf(k)
    BY <1>20, <1>q DEF Read
  <2> QED
    BY <1>0, <1>i, <1>20, <2>1 DEF Read, Reads, YieldOf
<1>21. CASE Exit
  <2>1. YieldOf(k)
    BY <1>21, <1>q DEF Exit
  <2> QED
    BY <1>0, <1>21, <2>1 DEF Exit, YieldOf
<1>22. CASE UNCHANGED vars
  <2>1. YieldOf(k)
    BY <1>22, <1>q DEF vars
  <2> QED
    BY <1>22, <2>1 DEF vars, YieldOf
<1> QED
  BY <1>1, <1>2, <1>3, <1>4, <1>5, <1>6, <1>7, <1>8, <1>9, <1>10, <1>11, <1>12, <1>13, <1>14, <1>15, <1>16, <1>17, <1>18, <1>19, <1>20, <1>21, <1>22
  DEF Next, ThreadStep, InBody, InSpawn, InFinish, InAwait, EndOfTask, Stopped

\* An await of a generated task hands back what its body computed, whatever
\* other threads do, while no foreign entry finishes tasks.
THEOREM AwaitYields == Spec => []AwaitYieldsBody
<1>1. IInv /\ YieldInv /\ [Next]_vars => (IInv /\ YieldInv)'
  BY TypeStep, SpawnStep, TargetStep, DoneStep, CountStep, YieldStep DEF IInv
<1>2. YieldInv => AwaitYieldsBody
  BY DEF YieldInv, YieldOf, AwaitYieldsBody, Quiet
<1> QED
  BY InitInv, YieldInit, <1>1, <1>2, PTL DEF Spec
-----------------------------------------------------------------------------
(* Nobody awaits in a ring. *)

\* However many tasks there are, one of them knows none of the others.
RingInv == \A S \in SUBSET Task : S # {} => \E t \in S : known[t] \cap S = {}

\* An await is of a task the thread knows.
HoldsInv == \A t \in Thread : pc[t] \in {"poll", "read"} => target[t] \in known[t]

\* A thread does not end before its task is being finished; a task that is being
\* finished has a writer; a call that ends a thread is about its own task.
FinishInv ==
    Up => /\ \A k \in Task : done[k] = 0 => pc[k] \notin {"uncount", "gone"}
          /\ \A k \in Task : done[k] = 2 => \E t \in Thread : Writes(t, k)
          /\ \A t \in Thread : Finishing(t) /\ resume[t] = "uncount" => target[t] = t

AwaitInv == RingInv /\ HoldsInv /\ FinishInv

LEMMA AwaitInit == Init => AwaitInv
<1> SUFFICES ASSUME Init PROVE AwaitInv
  OBVIOUS
<1>1. RingInv
  BY DEF Init, RingInv, Thread
<1>2. HoldsInv /\ FinishInv
  BY ConstantsDistinct DEF Init, HoldsInv, FinishInv, Finishing, Thread
<1> QED
  BY <1>1, <1>2 DEF AwaitInv

\* What a new task knows is what its spawner knew, and nobody knew the new task.
LEMMA RingSpawn ==
    ASSUME IInv, RingInv, NEW t \in Thread, SpawnCreate(t)
    PROVE  RingInv'
<1> DEFINE k == child[t]
<1>1. PICK env \in SUBSET known[t] :
        known' = [known EXCEPT ![t] = @ \cup {k}, ![k] = env]
  BY DEF SpawnCreate
<1>2. /\ k \in Task /\ k # t /\ pc[k] = "unborn" /\ Task \subseteq Thread
      /\ known \in [Thread -> SUBSET Task]
  BY ConstantsDistinct DEF SpawnCreate, IInv, TypeOK, SpawnInv, StopInv, Up, Thread
<1>3. \A u \in Thread : k \notin known[u]
  BY <1>2 DEF IInv, TargetInv
<1> HIDE DEF k
<1>4. /\ known'[k] = env /\ known'[t] = known[t] \cup {k}
      /\ \A u \in Thread \ {t, k} : known'[u] = known[u]
  BY <1>1, <1>2
<1> SUFFICES ASSUME NEW S \in SUBSET Task, S # {}
             PROVE  \E u \in S : known'[u] \cap S = {}
  BY DEF RingInv
<1>5. CASE k \notin S
  <2>1. PICK u \in S : known[u] \cap S = {}
    BY DEF RingInv
  <2>2. known'[u] \cap S = {}
    BY <1>2, <1>4, <1>5, <2>1
  <2> QED
    BY <2>2
<1>6. CASE S = {k}
  BY <1>3, <1>4, <1>6
<1>7. CASE k \in S /\ S # {k}
  <2>1. PICK u \in S \ {k} : known[u] \cap (S \ {k}) = {}
    <3>1. S \ {k} \in SUBSET Task /\ S \ {k} # {}
      BY <1>7
    <3> QED
      BY <3>1 DEF RingInv
  <2>2. CASE u = t
    <3>1. known'[k] \cap S = {}
      BY <1>3, <1>4, <2>1, <2>2
    <3> QED
      BY <1>7, <3>1
  <2>3. CASE u # t
    <3>1. known'[u] = known[u] /\ k \notin known[u]
      BY <1>2, <1>3, <1>4, <2>1, <2>3
    <3> QED
      BY <2>1, <3>1
  <2> QED
    BY <2>2, <2>3
<1> QED
  BY <1>5, <1>6, <1>7

LEMMA RingStep == IInv /\ RingInv /\ [Next]_vars => RingInv'
<1> SUFFICES ASSUME IInv, RingInv, [Next]_vars PROVE RingInv'
  OBVIOUS
<1>1. CASE \E t \in Thread : SpawnCreate(t)
  BY <1>1, RingSpawn
<1>2. CASE UNCHANGED known
  BY <1>2 DEF RingInv
<1>3. UNCHANGED known \/ \E t \in Thread : SpawnCreate(t)
  BY DEF Next, ThreadStep, InBody, InSpawn, InFinish, InAwait, EndOfTask, Stopped, vars,
         SpawnCount, SpawnAlloc, SpawnFails, Throw, Catch, RunnerFinish, ForeignFinish,
         ForeignReturn, BeginFinish, LoseFinish, StoreFields, Publish, EntryDone,
         EntryUnfinished, Uncount, AwaitNull, CallAwait, Poll, Read, Exit
<1> QED
  BY <1>1, <1>2, <1>3

\* Every step keeps the awaits on known tasks, and the tasks in somebody's hands.
LEMMA AwaitStep ==
    IInv /\ HoldsInv /\ FinishInv /\ [Next]_vars => HoldsInv' /\ FinishInv'
<1> SUFFICES ASSUME IInv, HoldsInv, FinishInv, [Next]_vars
             PROVE  HoldsInv' /\ FinishInv'
  OBVIOUS
<1>0. /\ Main \in Thread /\ Main \notin Task /\ Task \subseteq Thread
      /\ NoTask \notin Thread /\ Foreign \subseteq Task
      /\ pc \in [Thread -> PC] /\ done \in [Task -> {0, 1, 2}]
      /\ known \in [Thread -> SUBSET Task]
      /\ target \in [Thread -> Task \cup {NoTask}]
      /\ resume \in [Thread -> {"body", "returned", "uncount"}]
      /\ child \in [Thread -> Task \cup {NoTask}]
      /\ SpawnInv /\ StopInv /\ DoneInv
      /\ \A t \in Thread : InCall(t) => target[t] \in Task
  BY ConstantsDistinct DEF IInv, TypeOK, Thread, TargetInv
<1> USE DEF HoldsInv, FinishInv, Finishing, Writes, Up, Goto, InCall,
            objectVars, callVars, historyVars
<1>1. ASSUME NEW t \in Thread, NEW k \in Task, SpawnCount(t, k) PROVE HoldsInv' /\ FinishInv'
  BY <1>0, <1>1 DEF SpawnCount, AtStatement
<1>2. ASSUME NEW t \in Thread, SpawnAlloc(t) PROVE HoldsInv' /\ FinishInv'
  <2>1. /\ pc[t] = "alloc" /\ Up /\ child[t] \in Task /\ pc[child[t]] = "unborn"
        /\ done[child[t]] = 0
    BY <1>0, <1>2 DEF SpawnAlloc, SpawnInv, StopInv, DoneInv
  <2>2. done' = done /\ pc' = [pc EXCEPT ![t] = "create"]
    BY <1>0, <1>2, <2>1 DEF SpawnAlloc
  <2> QED
    BY <1>0, <1>2, <2>1, <2>2 DEF SpawnAlloc
<1>3. ASSUME NEW t \in Thread, SpawnFails(t) PROVE HoldsInv' /\ FinishInv'
  <2>1. Up /\ Up' /\ pc[t] \in {"alloc", "create"} /\ pc' = [pc EXCEPT ![t] = "body"]
    BY <1>0, <1>3 DEF SpawnFails, StopInv
  <2>2. UNCHANGED <<known, done, target, resume>>
    BY <1>3 DEF SpawnFails
  <2>3. \A u \in Thread : \/ pc'[u] = pc[u]
                          \/ u = t /\ pc'[u] = "body"
    BY <1>0, <2>1
  <2> QED
    BY <1>0, <2>1, <2>2, <2>3
<1>4. ASSUME NEW t \in Thread, SpawnCreate(t) PROVE HoldsInv' /\ FinishInv'
  <2>1. /\ pc[t] = "create" /\ Up /\ child[t] \in Task /\ pc[child[t]] = "unborn"
        /\ child[t] # t
    BY <1>0, <1>4 DEF SpawnCreate, SpawnInv, StopInv
  <2>2. /\ UNCHANGED <<done, target, resume>> /\ Up'
        /\ \A u \in Thread : pc'[u] = IF u \in {t, child[t]} THEN "body" ELSE pc[u]
        /\ \A u \in Thread \ {t, child[t]} : known'[u] = known[u]
    BY <1>0, <1>4, <2>1 DEF SpawnCreate
  <2>3. HoldsInv'
    BY <1>0, <2>1, <2>2
  <2>4. FinishInv'
    BY <1>0, <2>1, <2>2
  <2> QED
    BY <2>3, <2>4
<1>5. ASSUME NEW t \in Thread, Throw(t) PROVE HoldsInv' /\ FinishInv'
  BY <1>0, <1>5 DEF Throw, AtStatement
<1>6. ASSUME NEW t \in Thread, Catch(t) PROVE HoldsInv' /\ FinishInv'
  BY <1>0, <1>6 DEF Catch
<1>7. ASSUME NEW t \in Task, RunnerFinish(t) PROVE HoldsInv' /\ FinishInv'
  BY <1>0, <1>7 DEF RunnerFinish, CallFinish
<1>8. ASSUME NEW t \in Foreign, ForeignFinish(t) PROVE HoldsInv' /\ FinishInv'
  BY <1>0, <1>8 DEF ForeignFinish, CallFinish, AtStatement
<1>9. ASSUME NEW t \in Foreign, ForeignReturn(t) PROVE HoldsInv' /\ FinishInv'
  BY <1>0, <1>9 DEF ForeignReturn
<1>10. ASSUME NEW t \in Thread, BeginFinish(t) PROVE HoldsInv' /\ FinishInv'
  BY <1>0, <1>10 DEF BeginFinish
<1>11. ASSUME NEW t \in Thread, LoseFinish(t) PROVE HoldsInv' /\ FinishInv'
  BY <1>0, <1>11 DEF LoseFinish, FinishReturns
<1>12. ASSUME NEW t \in Thread, StoreFields(t) PROVE HoldsInv' /\ FinishInv'
  BY <1>0, <1>12 DEF StoreFields
<1>13. ASSUME NEW t \in Thread, Publish(t) PROVE HoldsInv' /\ FinishInv'
  BY <1>0, <1>13 DEF Publish, FinishReturns
<1>14. ASSUME NEW t \in Task, EntryDone(t) PROVE HoldsInv' /\ FinishInv'
  BY <1>0, <1>14 DEF EntryDone
<1>15. ASSUME NEW t \in Task, EntryUnfinished(t) PROVE HoldsInv' /\ FinishInv'
  BY <1>0, <1>15 DEF EntryUnfinished, CallFinish
<1>16. ASSUME NEW t \in Task, Uncount(t) PROVE HoldsInv' /\ FinishInv'
  BY <1>0, <1>16 DEF Uncount
<1>17. ASSUME NEW t \in Thread, AwaitNull(t) PROVE HoldsInv' /\ FinishInv'
  BY <1>0, <1>17 DEF AwaitNull, AtStatement
<1>18. ASSUME NEW t \in Thread, NEW k \in Task, CallAwait(t, k) PROVE HoldsInv' /\ FinishInv'
  BY <1>0, <1>18 DEF CallAwait, AtStatement
<1>19. ASSUME NEW t \in Thread, Poll(t) PROVE HoldsInv' /\ FinishInv'
  BY <1>0, <1>19 DEF Poll
<1>20. ASSUME NEW t \in Thread, Read(t) PROVE HoldsInv' /\ FinishInv'
  BY <1>0, <1>20 DEF Read
<1>21. CASE Exit
  BY <1>0, <1>21 DEF Exit
<1>22. CASE UNCHANGED vars
  BY <1>22 DEF vars
<1> QED
  BY <1>1, <1>2, <1>3, <1>4, <1>5, <1>6, <1>7, <1>8, <1>9, <1>10, <1>11, <1>12, <1>13, <1>14, <1>15, <1>16, <1>17, <1>18, <1>19, <1>20, <1>21, <1>22
  DEF Next, ThreadStep, InBody, InSpawn, InFinish, InAwait, EndOfTask, Stopped

\* A thread that waits for a task that is not published.
Awaiting(t) == pc[t] = "poll" /\ done[target[t]] # 1

\* Whatever threads wait, one of them waits for a task that a thread outside
\* them is finishing, or that runs on a thread outside them.
NoDeadlock ==
    Up => \A S \in SUBSET {t \in Thread : Awaiting(t)} : S # {} =>
              \E t \in S, u \in Thread \ S :
                  \/ Writes(u, target[t])
                  \/ u = target[t] /\ pc[u] \notin {"unborn", "uncount", "gone"}

\* No set of threads waits for each other, however tasks hand pointers to the
\* tasks they spawn, and no thread waits for a task that nobody will finish:
\* the part of AwaitReturns that does not depend on fairness.
THEOREM AwaitsCannotDeadlock == Spec => []NoDeadlock
<1>1. IInv /\ AwaitInv => NoDeadlock
  <2> SUFFICES ASSUME IInv, AwaitInv, Up, NEW S \in SUBSET {t \in Thread : Awaiting(t)},
                      S # {}
               PROVE  \E t \in S, u \in Thread \ S :
                        \/ Writes(u, target[t])
                        \/ u = target[t] /\ pc[u] \notin {"unborn", "uncount", "gone"}
    BY DEF NoDeadlock
  <2>1. \A t \in S : /\ t \in Thread /\ pc[t] = "poll" /\ target[t] \in Task
                     /\ target[t] \in known[t] /\ done[target[t]] \in {0, 2}
                     /\ pc[target[t]] # "unborn"
    BY DEF Awaiting, IInv, TypeOK, TargetInv, InCall, AwaitInv, HoldsInv
  <2>2. PICK t \in S : target[t] \notin S
    <3>1. CASE S \cap Task = {}
      BY <2>1, <3>1
    <3>2. CASE S \cap Task # {}
      <4>1. PICK t \in S \cap Task : known[t] \cap (S \cap Task) = {}
        BY <3>2 DEF AwaitInv, RingInv
      <4> QED
        BY <2>1, <4>1
    <3> QED
      BY <3>1, <3>2
  <2>3. CASE done[target[t]] = 2
    <3>1. PICK u \in Thread : Writes(u, target[t])
      BY <2>1, <2>3 DEF AwaitInv, FinishInv
    <3>2. u \notin S
      BY <2>1, <3>1 DEF Writes
    <3> QED
      BY <3>1, <3>2
  <2>4. CASE done[target[t]] = 0
    <3>1. pc[target[t]] \notin {"unborn", "uncount", "gone"}
      BY <2>1, <2>4 DEF AwaitInv, FinishInv
    <3> QED
      BY <2>1, <2>2, <3>1 DEF Thread
  <2> QED
    BY <2>1, <2>3, <2>4
<1>2. IInv /\ AwaitInv /\ [Next]_vars => (IInv /\ AwaitInv)'
  BY TypeStep, SpawnStep, TargetStep, DoneStep, CountStep, RingStep, AwaitStep
  DEF IInv, AwaitInv
<1> QED
  BY InitInv, AwaitInit, <1>1, <1>2, PTL DEF Spec
-----------------------------------------------------------------------------
(* What the collector is told of tasks *)

Spawning == {t \in Thread : pc[t] \in {"alloc", "create"}}
Running  == {k \in Task : pc[k] \notin {"unborn", "gone"}}

Tasks == INSTANCE LiveTasks WITH up <- Up, spawning <- Spawning, running <- Running

\* Nothing that LiveTasks sees has changed.
TasksStay == Up' = Up /\ Spawning' = Spawning /\ Running' = Running /\ live' = live

\* A thread that was neither spawning nor ended and is neither after.
LEMMA TasksStutter ==
    ASSUME TypeOK, NEW t \in Thread, NEW l, live' = live,
           \/ pc' = pc
           \/ /\ pc[t] \notin {"unborn", "alloc", "create", "gone"}
              /\ l \notin {"unborn", "alloc", "create", "gone"}
              /\ pc' = [pc EXCEPT ![t] = l]
    PROVE  TasksStay
<1>0. pc \in [Thread -> PC] /\ Task \subseteq Thread /\ Main \in Thread
  BY DEF TypeOK, Thread
<1>1. \A u \in Thread : pc'[u] = pc[u] \/ (u = t /\ pc'[u] = l)
  BY <1>0
<1>2. Up' = Up
  BY <1>0, <1>1 DEF Up
<1>3. Spawning' = Spawning
  BY <1>0, <1>1 DEF Spawning
<1>4. Running' = Running
  BY <1>0, <1>1 DEF Running
<1> QED
  BY <1>2, <1>3, <1>4 DEF TasksStay

\* Steps other than those of a spawn and of the end of a task.
LEMMA TasksUntouched ==
    ASSUME IInv, NEW t \in Thread,
           \/ SpawnAlloc(t) \/ InFinish(t) \/ InAwait(t)
           \/ Throw(t) \/ Catch(t) \/ AwaitNull(t) \/ \E k \in Task : CallAwait(t, k)
           \/ t \in Task /\ (RunnerFinish(t) \/ EntryDone(t) \/ EntryUnfinished(t))
           \/ ForeignFinish(t) \/ ForeignReturn(t)
    PROVE  TasksStay
<1>0. TypeOK
  BY DEF IInv
<1>1. CASE SpawnAlloc(t)
  <2>1. /\ pc \in [Thread -> PC] /\ Task \subseteq Thread /\ Main \in Thread
        /\ pc[t] = "alloc" /\ pc' = [pc EXCEPT ![t] = "create"] /\ live' = live
    BY <1>0, <1>1 DEF SpawnAlloc, Goto, TypeOK, Thread
  <2>2. \A u \in Thread : pc'[u] = pc[u] \/ (u = t /\ pc'[u] = "create")
    BY <2>1
  <2>3. Up' = Up
    BY <2>1, <2>2 DEF Up
  <2>4. Spawning' = Spawning
    BY <2>1, <2>2 DEF Spawning
  <2>5. Running' = Running
    BY <2>1, <2>2 DEF Running
  <2> QED
    BY <2>1, <2>3, <2>4, <2>5 DEF TasksStay
<1>2. CASE InFinish(t)
  <2>1. resume[t] \in {"body", "returned", "uncount"}
    BY <1>0 DEF TypeOK
  <2>2. /\ pc[t] \in {"begin", "store", "publish"} /\ live' = live
        /\ \E l \in {"body", "returned", "uncount", "store", "publish"} : pc' = [pc EXCEPT ![t] = l]
    BY <1>2, <2>1 DEF InFinish, BeginFinish, LoseFinish, StoreFields, Publish, FinishReturns, Goto
  <2> QED
    BY <1>0, <2>2, TasksStutter
<1>3. CASE InAwait(t)
  <2>1. /\ pc[t] \in {"poll", "read"} /\ live' = live
        /\ \E l \in {"read", "body"} : pc' = [pc EXCEPT ![t] = l]
    BY <1>3 DEF InAwait, Poll, Read, Goto
  <2> QED
    BY <1>0, <2>1, TasksStutter
<1>4. CASE Throw(t) \/ Catch(t) \/ AwaitNull(t)
  <2>1. pc' = pc /\ live' = live
    BY <1>4 DEF Throw, Catch, AwaitNull
  <2> QED
    BY <1>0, <2>1, TasksStutter
<1>5. ASSUME NEW k \in Task, CallAwait(t, k) PROVE TasksStay
  <2>1. pc[t] = "body" /\ pc' = [pc EXCEPT ![t] = "poll"] /\ live' = live
    BY <1>5 DEF CallAwait, AtStatement, Goto
  <2> QED
    BY <1>0, <2>1, TasksStutter
<1>6. CASE t \in Task /\ (RunnerFinish(t) \/ EntryDone(t) \/ EntryUnfinished(t))
  <2>1. /\ pc[t] \in {"body", "returned"} /\ live' = live
        /\ \E l \in {"begin", "uncount"} : pc' = [pc EXCEPT ![t] = l]
    BY <1>6 DEF RunnerFinish, EntryDone, EntryUnfinished, CallFinish, Goto
  <2> QED
    BY <1>0, <2>1, TasksStutter
<1>7. CASE ForeignFinish(t) \/ ForeignReturn(t)
  <2>1. /\ pc[t] = "body" /\ live' = live
        /\ \E l \in {"begin", "returned"} : pc' = [pc EXCEPT ![t] = l]
    BY <1>7 DEF ForeignFinish, ForeignReturn, CallFinish, AtStatement, Goto
  <2> QED
    BY <1>0, <2>1, TasksStutter
<1> QED
  BY <1>1, <1>2, <1>3, <1>4, <1>5, <1>6, <1>7

\* Each step is one of LiveTasks or changes nothing that LiveTasks sees.
LEMMA TasksRefined ==
    IInv /\ [Next]_vars => [Tasks!Next]_<<Up, Spawning, Running, live>>
<1> SUFFICES ASSUME IInv, [Next]_vars PROVE Tasks!Next \/ TasksStay
  BY DEF TasksStay
<1>0. /\ pc \in [Thread -> PC] /\ Task \subseteq Thread /\ Main \in Thread \ Task
      /\ Foreign \subseteq Task /\ SpawnInv /\ StopInv
      /\ child \in [Thread -> Task \cup {NoTask}] /\ NoTask \notin Thread
  BY ConstantsDistinct DEF IInv, TypeOK, Thread
<1>1. ASSUME NEW t \in Thread, NEW k \in Task, SpawnCount(t, k) PROVE Tasks!Count(t)
  <2>1. /\ pc[t] = "body" /\ live' = live + 1
        /\ \A u \in Thread : pc'[u] = IF u = t THEN "alloc" ELSE pc[u]
    BY <1>0, <1>1 DEF SpawnCount, AtStatement, Goto
  <2>2. Up /\ Up'
    BY <1>0, <2>1 DEF StopInv, Up
  <2>3. t \notin Spawning /\ Spawning' = Spawning \cup {t}
    BY <1>0, <2>1 DEF Spawning
  <2>4. Running' = Running
    BY <1>0, <2>1 DEF Running
  <2> QED
    BY <2>1, <2>2, <2>3, <2>4 DEF Tasks!Count
<1>2. ASSUME NEW t \in Thread, SpawnFails(t) PROVE Tasks!TakeBack(t)
  <2>1. /\ pc[t] \in {"alloc", "create"} /\ live' = live - 1
        /\ \A u \in Thread : pc'[u] = IF u = t THEN "body" ELSE pc[u]
    BY <1>0, <1>2 DEF SpawnFails, Goto
  <2>2. Up /\ Up'
    BY <1>0, <2>1 DEF StopInv, Up
  <2>3. t \in Spawning /\ Spawning' = Spawning \ {t}
    BY <1>0, <2>1 DEF Spawning
  <2>4. Running' = Running
    BY <1>0, <2>1 DEF Running
  <2> QED
    BY <2>1, <2>2, <2>3, <2>4 DEF Tasks!TakeBack
<1>3. ASSUME NEW t \in Thread, SpawnCreate(t) PROVE Tasks!Next
  <2>1. pc[t] = "create" /\ live' = live
    BY <1>3 DEF SpawnCreate
  <2>2. Up
    BY <1>0, <2>1 DEF StopInv
  <2>3. child[t] \in Task /\ pc[child[t]] = "unborn"
    BY <1>0, <2>1, <2>2 DEF SpawnInv
  <2>4. /\ child[t] # t
        /\ \A u \in Thread : pc'[u] = IF u \in {t, child[t]} THEN "body" ELSE pc[u]
    BY <1>0, <1>3, <2>1, <2>3 DEF SpawnCreate
  <2>5. Up'
    BY <1>0, <2>2, <2>4 DEF Up
  <2>6. t \in Spawning /\ Spawning' = Spawning \ {t}
    BY <1>0, <2>1, <2>3, <2>4 DEF Spawning
  <2>7. child[t] \notin Running /\ Running' = Running \cup {child[t]}
    BY <1>0, <2>1, <2>3, <2>4 DEF Running
  <2>8. Tasks!Start(t, child[t])
    BY <2>1, <2>2, <2>5, <2>6, <2>7 DEF Tasks!Start
  <2> QED
    BY <2>3, <2>8 DEF Tasks!Next
<1>4. ASSUME NEW k \in Task, Uncount(k) PROVE Tasks!End(k)
  <2>1. /\ pc[k] = "uncount" /\ live' = live - 1 /\ k # Main
        /\ \A u \in Thread : pc'[u] = IF u = k THEN "gone" ELSE pc[u]
    BY <1>0, <1>4 DEF Uncount, Goto
  <2>2. Up' = Up
    BY <1>0, <2>1 DEF Up
  <2>3. Spawning' = Spawning
    BY <1>0, <2>1 DEF Spawning
  <2>4. k \in Running /\ Running' = Running \ {k}
    BY <1>0, <2>1 DEF Running
  <2> QED
    BY <2>1, <2>2, <2>3, <2>4 DEF Tasks!End
<1>5. CASE Exit
  <2>1. Up /\ live' = live /\ pc' = [t \in Thread |-> "gone"]
    BY <1>5 DEF Exit, Up
  <2>2. ~Up' /\ Spawning' = {} /\ Running' = {}
    BY <1>0, <2>1 DEF Up, Spawning, Running
  <2>3. Tasks!Exit
    BY <2>1, <2>2 DEF Tasks!Exit
  <2> QED
    BY <2>3 DEF Tasks!Next
<1>6. CASE UNCHANGED vars
  BY <1>6 DEF vars, Up, Spawning, Running, TasksStay
<1>7. ASSUME NEW t \in Thread, ThreadStep(t) PROVE Tasks!Next \/ TasksStay
  BY <1>1, <1>2, <1>3, <1>7, TasksUntouched DEF ThreadStep, InBody, InSpawn, Tasks!Next
<1>8. ASSUME NEW k \in Task, EndOfTask(k) PROVE Tasks!Next \/ TasksStay
  BY <1>0, <1>4, <1>8, TasksUntouched DEF EndOfTask, Tasks!Next
<1> QED
  BY <1>5, <1>6, <1>7, <1>8 DEF Next, Stopped

\* A spawn counts its task before it allocates it, and a thread takes its count
\* back as the last thing it does: what Collector assumes of tasks.
THEOREM ImplementsLiveTasks == Spec => Tasks!Spec
<1>1. Init => Tasks!Init
  <2>1. Init => Up = TRUE /\ Spawning = {} /\ Running = {} /\ live = 0
    BY ConstantsDistinct DEF Init, Up, Spawning, Running, Thread
  <2> QED
    BY <2>1 DEF Tasks!Init
<1> QED
  BY <1>1, TasksRefined, Invariance, PTL DEF Spec, Tasks!Spec
=============================================================================
