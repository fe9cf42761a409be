---------------------------- MODULE ChildProcess ----------------------------
(***************************************************************************)
(* The child processes of IO.Async (POSIX build).  A handle remembers the  *)
(* pid of a child and, once waitpid has reaped it, how it ended; after     *)
(* that the kernel may give the pid to the next child.  One call at a time *)
(* is under way on a handle; calls on different handles, the runs of       *)
(* ProcessRun and the children interleave.                                 *)
(***************************************************************************)
EXTENDS Integers

CONSTANTS
    Handle,    \* the memory of a KnAsyncProc
    Runner,    \* threads in kn_native_process_run
    Pid,
    NoOne, NoPid, NoRecord,
    Number     \* exit codes and signals

ASSUME ConstantsAssumption ==
    /\ Number \subseteq Nat
    /\ Handle \cap Runner = {} /\ NoOne \notin Handle \cup Runner
    /\ NoPid \notin Pid
    /\ NoRecord \notin [pid : Pid, done : BOOLEAN, exit_code : Int]

VARIABLES
    child,    \* the kernel's table: whose child a pid is until it is reaped
    fate,     \* what became of the last child of a handle or a runner
    proc,     \* KnAsyncProc
    call,     \* the call under way on a handle
    run,      \* the pid a runner waits for
    answer    \* history: what the last call answered, about whose child

vars == <<child, fate, proc, call, run, answer>>

Owner == Handle \cup Runner
Status == [how : {"exited", "signaled"}, n : Number]
Alive == [how |-> "alive", n |-> 0]

\* WIFEXITED, WIFSIGNALED.
CodeOf(s) == IF s.how = "exited" THEN s.n ELSE 128 + s.n
StillActive == 259

\* WaitFor(ms) is Wait with ms > 0, WaitForever with ms < 0, Poll with 0.
Brief == {"IsCompleted", "Poll", "ExitCode", "Close"}
Op == Brief \cup {"WaitFor", "WaitForever"}

\* `ran`: the child was alive when the call began.  `late`: the deadline is over.
NoCall == [op |-> "none", at |-> "none", ran |-> FALSE, late |-> FALSE]
NoAnswer == [of |-> NoOne, op |-> "none", ended |-> FALSE, code |-> StillActive, ran |-> FALSE]

Init ==
    /\ child = [p \in Pid |-> NoOne]
    /\ fate = [o \in Owner |-> Alive]
    /\ proc = [h \in Handle |-> NoRecord]
    /\ call = [h \in Handle |-> NoCall]
    /\ run = [r \in Runner |-> NoPid]
    /\ answer = NoAnswer

-----------------------------------------------------------------------------
(* The kernel. *)

Runs(p) == child[p] # NoOne /\ fate[child[p]] = Alive
Ended(p) == child[p] # NoOne /\ fate[child[p]] # Alive

Fork(o, p) ==
    /\ child[p] = NoOne
    /\ child' = [child EXCEPT ![p] = o]
    /\ fate' = [fate EXCEPT ![o] = Alive]
    /\ answer' = NoAnswer

\* A child ends, by itself or by a signal; a failed exec exits with 127.
Exit(p) ==
    /\ Runs(p)
    /\ \E s \in Status : fate' = [fate EXCEPT ![child[p]] = s]
    /\ UNCHANGED <<child, proc, call, run, answer>>

Reaped(p) == child' = [child EXCEPT ![p] = NoOne]

-----------------------------------------------------------------------------
(* IO.Async. *)

Spawn(h) ==
    /\ proc[h] = NoRecord
    /\ \E p \in Pid :
          /\ Fork(h, p)
          /\ proc' = [proc EXCEPT ![h] =
                        [pid |-> p, done |-> FALSE, exit_code |-> StillActive]]
    /\ UNCHANGED <<call, run>>

\* The call on h ends; a Close that may go ahead frees the handle.
Answers(h, c, ended, record) ==
    /\ call' = [call EXCEPT ![h] = NoCall]
    /\ answer' = [of |-> h, op |-> c.op, ended |-> ended,
                  code |-> record.exit_code, ran |-> c.ran]
    /\ proc' = [proc EXCEPT ![h] = IF c.op = "Close" /\ ended THEN NoRecord ELSE record]

\* Mutant: the call does not look at `done` and waits for the pid once more.
Call_Blind(h, op) ==
    /\ proc[h] # NoRecord /\ call[h] = NoCall
    /\ call' = [call EXCEPT ![h] =
            [op |-> op, at |-> "test", ran |-> fate[h] = Alive, late |-> FALSE]]
    /\ UNCHANGED <<child, fate, proc, run, answer>>

\* Every call first looks at `done`.
Call(h, op) ==
    /\ proc[h] # NoRecord /\ call[h] = NoCall
    /\ LET c == [op |-> op, at |-> "test", ran |-> fate[h] = Alive, late |-> FALSE]
       IN  IF proc[h].done
           THEN Answers(h, c, TRUE, proc[h])
           ELSE call' = [call EXCEPT ![h] = c] /\ UNCHANGED <<proc, answer>>
    /\ UNCHANGED <<child, fate, run>>

\* waitpid returns the pid.
Reap(h) ==
    /\ call[h].at = "test" /\ Ended(proc[h].pid)
    /\ Answers(h, call[h], TRUE,
               [proc[h] EXCEPT !.done = TRUE,
                               !.exit_code = CodeOf(fate[child[proc[h].pid]])])
    /\ Reaped(proc[h].pid)
    /\ UNCHANGED <<fate, run>>

\* Mutant: Close frees the handle of a child that still runs.
Fruitless_Frees(h) ==
    /\ call[h].at = "test" /\ ~Ended(proc[h].pid)
    /\ IF call[h].op \in Brief \/ child[proc[h].pid] = NoOne
       THEN Answers(h, call[h], call[h].op = "Close", proc[h])
       ELSE call' = [call EXCEPT ![h].at = "clock"] /\ UNCHANGED <<proc, answer>>
    /\ UNCHANGED <<child, fate, run>>

\* Mutant: the clock is read inside the loop, so each turn starts the time again.
Fruitless_Restarts(h) ==
    /\ call[h].at = "test" /\ ~Ended(proc[h].pid)
    /\ IF call[h].op \in Brief \/ child[proc[h].pid] = NoOne
       THEN Answers(h, call[h], FALSE, proc[h])
       ELSE /\ call' = [call EXCEPT ![h].at = "clock", ![h].late = FALSE]
            /\ UNCHANGED <<proc, answer>>
    /\ UNCHANGED <<child, fate, run>>

\* waitpid returns 0, or fails because the pid is not a child of the program.
Fruitless(h) ==
    /\ call[h].at = "test" /\ ~Ended(proc[h].pid)
    /\ IF call[h].op \in Brief \/ child[proc[h].pid] = NoOne
       THEN Answers(h, call[h], FALSE, proc[h])
       ELSE call' = [call EXCEPT ![h].at = "clock"] /\ UNCHANGED <<proc, answer>>
    /\ UNCHANGED <<child, fate, run>>

Deadline(h) ==
    /\ call[h].op = "WaitFor" /\ ~call[h].late
    /\ call' = [call EXCEPT ![h].late = TRUE]
    /\ UNCHANGED <<child, fate, proc, run, answer>>

GiveUp(h) ==
    /\ call[h].at = "clock" /\ call[h].late
    /\ Answers(h, call[h], FALSE, proc[h])
    /\ UNCHANGED <<child, fate, run>>

Sleep(h) ==
    /\ call[h].at = "clock" /\ ~call[h].late
    /\ call' = [call EXCEPT ![h].at = "test"]
    /\ UNCHANGED <<child, fate, proc, run, answer>>

-----------------------------------------------------------------------------
(* kn_native_process_run. *)

RunFork(r) ==
    /\ run[r] = NoPid
    /\ \E p \in Pid : Fork(r, p) /\ run' = [run EXCEPT ![r] = p]
    /\ UNCHANGED <<proc, call>>

RunEnds(r) ==
    /\ run[r] # NoPid /\ ~Runs(run[r])
    /\ answer' = [of |-> r, op |-> "ProcessRun", ended |-> TRUE, ran |-> TRUE,
                  code |-> IF child[run[r]] = NoOne THEN -1 ELSE CodeOf(fate[child[run[r]]])]
    /\ Reaped(run[r])
    /\ run' = [run EXCEPT ![r] = NoPid]
    /\ UNCHANGED <<fate, proc, call>>

-----------------------------------------------------------------------------

Next ==
    \/ \E p \in Pid : Exit(p)
    \/ \E h \in Handle :
          \/ Spawn(h) \/ (\E op \in Op : Call(h, op))
          \/ Reap(h) \/ Fruitless(h) \/ Deadline(h) \/ GiveUp(h) \/ Sleep(h)
    \/ \E r \in Runner : RunFork(r) \/ RunEnds(r)

Spec == Init /\ [][Next]_vars

\* Threads run and time passes; no child has to end.
Fairness ==
    \A h \in Handle :
        /\ WF_vars(Reap(h) \/ Fruitless(h) \/ GiveUp(h) \/ Sleep(h))
        /\ WF_vars(Deadline(h))

FairSpec == Spec /\ Fairness

-----------------------------------------------------------------------------

\* What a call answers is true of the child the handle was made for: "ended",
\* and the code it ended with, only after it has; "not yet", or the 259 of
\* ExitCode, or a refused Close, only if it was alive when the call began; and
\* a Wait without a deadline does not say "not yet".  A pid that has been
\* reaped may be another child by then.
AnswersTrue ==
    answer # NoAnswer =>
        IF answer.ended
        THEN fate[answer.of] # Alive /\ answer.code = CodeOf(fate[answer.of])
        ELSE answer.ran /\ answer.op # "WaitForever"

\* A handle or a run that has not reaped its child waits for that child and no
\* other, and no child is left that nobody waits for: Close refuses to forget
\* a child that it cannot reap.
ChildrenOwned ==
    /\ \A h \in Handle :
          proc[h] # NoRecord /\ ~proc[h].done => child[proc[h].pid] = h
    /\ \A r \in Runner : run[r] # NoPid => child[run[r]] = r
    /\ \A p \in Pid : child[p] # NoOne =>
          \/ \E h \in Handle : proc[h] # NoRecord /\ ~proc[h].done /\ proc[h].pid = p
          \/ \E r \in Runner : run[r] = p

\* A Wait with a deadline ends, whatever the child does, and a Wait without one
\* ends once the child has.
WaitsEnd ==
    \A h \in Handle :
        /\ call[h].op = "WaitFor" ~> call[h].op # "WaitFor"
        /\ call[h].op = "WaitForever" /\ fate[h] # Alive ~> call[h].op # "WaitForever"
=============================================================================
