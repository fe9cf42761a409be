------------------------------ MODULE TryCatch ------------------------------
(***************************************************************************)
(* What Try, Catch and Throw promise on one thread, whatever the back end: *)
(* an exception goes to the innermost Try around the throwing statement    *)
(* that catches it, through any number of calls, and ends the program when *)
(* there is none.  NativeExceptions and VMFrames implement it.             *)
(***************************************************************************)
EXTENDS Naturals, Sequences

CONSTANTS Exception,     \* what a program can throw
          NoException,
          Target,        \* what a Catch can declare
          Catches(_, _)  \* Catches(e, t): a Catch that declares t handles e

VARIABLES
    stack,    \* per call, the Try and Catch blocks around the current statement
    pending,  \* the exception on its way out
    ended     \* the program is over

vars == <<stack, pending, ended>>

Init == stack = << <<>> >> /\ pending = NoException /\ ended = FALSE

Top == stack[Len(stack)]

Running == pending = NoException /\ ~ended

EnterTry ==
    /\ Running
    /\ \E t \in Target :
          stack' = [stack EXCEPT ![Len(stack)] = Append(@, [block |-> "try", catches |-> t])]
    /\ UNCHANGED <<pending, ended>>

\* The end of a block, or a jump out of several.
LeaveBlocks ==
    /\ Running
    /\ \E n \in 0 .. Len(Top) - 1 :
          stack' = [stack EXCEPT ![Len(stack)] = SubSeq(@, 1, n)]
    /\ UNCHANGED <<pending, ended>>

Call ==
    /\ Running
    /\ stack' = Append(stack, <<>>)
    /\ UNCHANGED <<pending, ended>>

Return ==
    /\ Running /\ Len(stack) > 1
    /\ stack' = SubSeq(stack, 1, Len(stack) - 1)
    /\ UNCHANGED <<pending, ended>>

Finish ==
    /\ Running
    /\ ended' = TRUE
    /\ UNCHANGED <<stack, pending>>

\* The positions of the Try blocks of call i that catch e.
CatchersIn(i, e) ==
    {j \in DOMAIN stack[i] : stack[i][j].block = "try" /\ Catches(e, stack[i][j].catches)}

Caught(e) ==
    \E i \in DOMAIN stack : \E j \in CatchersIn(i, e) :
        /\ \A k \in CatchersIn(i, e) : k <= j
        /\ \A m \in i + 1 .. Len(stack) : CatchersIn(m, e) = {}
        /\ stack' = [SubSeq(stack, 1, i) EXCEPT ![i] =
                        Append(SubSeq(@, 1, j - 1), [@[j] EXCEPT !.block = "catch"])]
        /\ pending' = NoException
        /\ UNCHANGED ended

Uncaught(e) ==
    /\ \A i \in DOMAIN stack : CatchersIn(i, e) = {}
    /\ pending' = NoException
    /\ ended' = TRUE
    /\ UNCHANGED stack

\* An implementation may find the handler at once or unwind call by call.
Throw ==
    /\ Running
    /\ \E e \in Exception : \/ Caught(e) \/ Uncaught(e)
                            \/ pending' = e /\ UNCHANGED <<stack, ended>>

LeaveCall ==
    /\ Len(stack) > 1 /\ CatchersIn(Len(stack), pending) = {}
    /\ stack' = SubSeq(stack, 1, Len(stack) - 1)
    /\ UNCHANGED <<pending, ended>>

Unwind == pending # NoException /\ (Caught(pending) \/ Uncaught(pending) \/ LeaveCall)

Next == EnterTry \/ LeaveBlocks \/ Call \/ Return \/ Finish \/ Throw \/ Unwind

Spec == Init /\ [][Next]_vars
=============================================================================
