----------------------------- MODULE LiveTasks -----------------------------
(***************************************************************************)
(* What the tasks of the runtime promise the collector: a thread that is   *)
(* about to create a task is counted in g_async_live_tasks before the task *)
(* exists, the count passes to the task, and a task that is not counted    *)
(* any more runs no Kinal code.  AsyncTask implements it, and so do the    *)
(* tasks of Collector, with whatever other threads.                        *)
(***************************************************************************)
EXTENDS Integers

CONSTANTS Thread, Task

VARIABLES up,        \* the process has not ended
          spawning,  \* threads that have counted a task they have not created
          running,   \* tasks that have a thread
          live       \* g_async_live_tasks

Init == up = TRUE /\ spawning = {} /\ running = {} /\ live = 0

Count(t) ==
    /\ up /\ t \notin spawning
    /\ spawning' = spawning \cup {t}
    /\ live' = live + 1
    /\ UNCHANGED <<up, running>>

\* The task cannot be allocated, or its thread not created.
TakeBack(t) ==
    /\ t \in spawning
    /\ spawning' = spawning \ {t}
    /\ live' = live - 1
    /\ UNCHANGED <<up, running>>

Start(t, k) ==
    /\ t \in spawning /\ k \notin running
    /\ spawning' = spawning \ {t}
    /\ running' = running \cup {k}
    /\ UNCHANGED <<up, live>>

End(k) ==
    /\ k \in running
    /\ running' = running \ {k}
    /\ live' = live - 1
    /\ UNCHANGED <<up, spawning>>

\* The process ends with the return of Main, and takes its threads with it.
Exit ==
    /\ up /\ up' = FALSE
    /\ spawning' = {} /\ running' = {}
    /\ UNCHANGED live

Next == \/ \E t \in Thread : Count(t) \/ TakeBack(t) \/ \E k \in Task : Start(t, k)
        \/ \E k \in Task : End(k)
        \/ Exit

Spec == Init /\ [][Next]_<<up, spawning, running, live>>
=============================================================================
