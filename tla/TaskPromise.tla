---------------------------- MODULE TaskPromise ----------------------------
(***************************************************************************)
(* What a task promises its users: it is settled at most once, and every   *)
(* await of it hands back the outcome it was settled with, never an        *)
(* earlier or a partial one.  AsyncTask implements it.                     *)
(***************************************************************************)
CONSTANTS Task, Waiter, Outcome, Pending, NoTask, Nothing

VARIABLES promise,  \* the outcome of each task, or Pending
          seen      \* the last thing each waiter was handed

Init ==
    /\ promise = [k \in Task |-> Pending]
    /\ seen \in [Waiter -> [from : Waiter, what : {Nothing}]]

Settle(k, o) ==
    /\ promise[k] = Pending
    /\ promise' = [promise EXCEPT ![k] = o]
    /\ UNCHANGED seen

Observe(t, k) ==
    /\ promise[k] # Pending
    /\ seen' = [seen EXCEPT ![t] = [from |-> k, what |-> promise[k]]]
    /\ UNCHANGED promise

\* The await of a null task.
ObserveNull(t) ==
    /\ seen' = [seen EXCEPT ![t] = [from |-> NoTask, what |-> Nothing]]
    /\ UNCHANGED promise

Next ==
    \/ \E k \in Task, o \in Outcome : Settle(k, o)
    \/ \E t \in Waiter, k \in Task : Observe(t, k)
    \/ \E t \in Waiter : ObserveNull(t)

Spec == Init /\ [][Next]_<<promise, seen>>
=============================================================================
