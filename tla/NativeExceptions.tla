--------------------------- MODULE NativeExceptions ---------------------------
(***************************************************************************)
(* Exceptions of natively compiled code on one thread: the error state of  *)
(* libs/runtime/src/kn_runtime.c (__kn_exc_set, clear, push, trace) and    *)
(* the code kn_codegen_expr.inc generates for Throw, for the test after a  *)
(* call, for Catch and for the report at the entry point.                  *)
(*                                                                         *)
(* A frame is a function and the Try and Catch blocks that enclose its     *)
(* current statement, outermost first.                                     *)
(***************************************************************************)
EXTENDS Integers, Sequences, SequencesExt, FiniteSets

CONSTANTS Error,     \* IO.Error objects
          NoError,   \* the null error pointer
          Type,      \* types of thrown values
          ErrorType, \* IO.Error among them
          AnyType,   \* what a Catch without parameter declares
          Function,  \* names of functions
          Entry,     \* the entry function
          Length,    \* the length of each name, in bytes
          TraceSize, \* the size of g_exc_trace and g_exc_last_trace, in bytes
          MaxFrames, \* bound on the call depth
          MaxBlocks  \* bound on the Try and Catch blocks on the call stack

ASSUME NativeConstants ==
    /\ NoError \notin Error /\ Entry \in Function
    /\ ErrorType \in Type /\ AnyType \notin Type
    /\ Length \in [Function -> Nat \ {0}] /\ TraceSize \in Nat \ {0}
    /\ MaxFrames \in Nat \ {0} /\ MaxBlocks \in Nat

VARIABLES
    mode,       \* what the thread does next
    frames,     \* the call stack, innermost frame last
    current,    \* g_exc_current
    last,       \* g_exc_last
    trace,      \* g_exc_trace and its length
    lastTrace,  \* g_exc_last_trace and its length
    inner,      \* the Inner field of each error
    made,       \* the errors constructed so far
    at,         \* the error the report has got to
    path,       \* history: functions the exception under way has left
    pathOf,     \* history: that path for the exception caught last
    thrown,     \* history: the type of the value under way
    relinked    \* history: errors given their Inner later than by the Throw that made them

stateVars   == <<current, last, trace, lastTrace>>
errorVars   == <<inner, made>>
historyVars == <<path, pathOf, thrown, relinked>>
vars == <<mode, frames, at, stateVars, errorVars, historyVars>>

\* A Try or Catch block and the type that its Catch declares.
Declared == Type \cup {AnyType}
Block == [block : {"try", "catch"}, catches : Declared]
Frame == [fn : Function, blocks : Seq(Block)]

Trace == [names : Seq(Function), bytes : Nat]
EmptyTrace == [names |-> <<>>, bytes |-> 0]

Mode == {"run", "unwind", "returned", "report", "exit"}

Init ==
    /\ mode = "run"
    /\ frames = <<[fn |-> Entry, blocks |-> <<>>]>>
    /\ current = NoError /\ last = NoError
    /\ trace = EmptyTrace /\ lastTrace = EmptyTrace
    /\ inner = [e \in Error |-> NoError]
    /\ made = {}
    /\ at = NoError
    /\ path = <<>> /\ pathOf = <<>>
    /\ thrown = AnyType
    /\ relinked = {}

Top == frames[Len(frames)]

WithTop(f) == [frames EXCEPT ![Len(frames)] = f]

\* The blocks on the call stack, by position.
Open == {p \in (1 .. MaxFrames) \X (1 .. MaxBlocks) :
            p[1] \in DOMAIN frames /\ p[2] \in DOMAIN frames[p[1]].blocks}

\* __kn_exc_last, which is also IO.Error.Current.
LastError == IF current # NoError THEN current ELSE last

-----------------------------------------------------------------------------
(* Blocks and calls *)

EnterTry ==
    /\ mode = "run" /\ Cardinality(Open) < MaxBlocks
    /\ \E t \in Declared :
          frames' = WithTop([Top EXCEPT !.blocks = Append(@, [block |-> "try", catches |-> t])])
    /\ UNCHANGED <<mode, at, stateVars, errorVars, historyVars>>

\* The end of a Try or of a Catch block, or a Break or Continue that leaves
\* several.
LeaveBlocks ==
    /\ mode = "run"
    /\ \E n \in 0 .. Len(Top.blocks) - 1 :
          frames' = WithTop([Top EXCEPT !.blocks = SubSeq(@, 1, n)])
    /\ UNCHANGED <<mode, at, stateVars, errorVars, historyVars>>

Call ==
    /\ mode = "run" /\ Len(frames) < MaxFrames
    /\ \E f \in Function : frames' = Append(frames, [fn |-> f, blocks |-> <<>>])
    /\ UNCHANGED <<mode, at, stateVars, errorVars, historyVars>>

\* Return, also from inside a Try; the caller tests __kn_exc_has.
Return ==
    /\ mode = "run" /\ Len(frames) > 1
    /\ frames' = Front(frames)
    /\ mode' = "returned"
    /\ UNCHANGED <<at, stateVars, errorVars, historyVars>>

-----------------------------------------------------------------------------
(* The error state *)

\* A name goes into the buffer behind "\nat ".
Fits(tr, fn) == tr.bytes + Length[fn] + 4 < TraceSize

Added(tr, fn) == [names |-> Append(tr.names, fn),
                  bytes |-> tr.bytes + (IF tr.bytes > 0 THEN 4 ELSE 3) + Length[fn]]

\* Mutant: no test of the space left.
Pushed_Unbounded(tr, fn) == Added(tr, fn)

\* __kn_exc_push: a name that does not fit is skipped, a shorter one pushed
\* after it may fit again.
Pushed(tr, fn) == IF Fits(tr, fn) THEN Added(tr, fn) ELSE tr

\* Mutant: an error that is thrown again by its own handler is linked too.
Linked_Self(e) ==
    IF inner[e] = NoError THEN [inner EXCEPT ![e] = LastError] ELSE inner

\* link_error_inner_from_last: an empty Inner gets what __kn_exc_last returns.
Linked(e) ==
    IF inner[e] = NoError /\ LastError # e
    THEN [inner EXCEPT ![e] = LastError] ELSE inner

\* __kn_exc_set and __kn_exc_push of the function at hand.
SetException(e) ==
    /\ current' = e
    /\ trace' = Pushed(EmptyTrace, Top.fn)

\* Mutant: the buffers are swapped before the copy.
ClearException_Late ==
    /\ last' = LastError
    /\ current' = NoError
    /\ trace' = EmptyTrace
    /\ lastTrace' = IF current # NoError THEN trace' ELSE lastTrace

\* __kn_exc_clear
ClearException ==
    /\ last' = LastError
    /\ lastTrace' = IF current # NoError THEN trace ELSE lastTrace
    /\ current' = NoError
    /\ trace' = EmptyTrace

-----------------------------------------------------------------------------
(* Errors and Throw *)

\* New IO.Error(...): kept in a variable, a field or a list.
New ==
    /\ mode = "run"
    /\ \E e \in Error \ made : made' = made \cup {e}
    /\ UNCHANGED <<mode, frames, at, stateVars, inner, historyVars>>

\* An assignment to the field Inner.
SetInner ==
    /\ mode = "run"
    /\ \E e \in made, i \in made \cup {NoError} :
          /\ inner' = [inner EXCEPT ![e] = i]
          /\ relinked' = IF i = NoError THEN relinked \ {e} ELSE relinked \cup {e}
    /\ UNCHANGED <<mode, frames, at, stateVars, made, path, pathOf, thrown>>

\* Throw New IO.Error(...), Throw of a string, which is wrapped in an error,
\* and emit_runtime_error.
ThrowNew ==
    /\ mode = "run"
    /\ \E e \in Error \ made, t \in Type :
          /\ made' = made \cup {e}
          /\ inner' = Linked(e) /\ SetException(e)
          /\ thrown' = t
    /\ path' = <<Top.fn>>
    /\ mode' = "unwind"
    /\ UNCHANGED <<frames, at, last, lastTrace, pathOf, relinked>>

\* Throw of an error the program has: kept since New, bound by a Catch, the
\* Inner of another one, IO.Error.Current.
ThrowMade ==
    /\ mode = "run"
    /\ \E e \in made :
          /\ inner' = Linked(e) /\ SetException(e)
          /\ relinked' = IF inner[e] = NoError /\ LastError \notin {e, NoError}
                         THEN relinked \cup {e} ELSE relinked
    /\ thrown' = ErrorType
    /\ path' = <<Top.fn>>
    /\ mode' = "unwind"
    /\ UNCHANGED <<frames, at, last, lastTrace, made, pathOf>>

\* Mutant: the error is set without the trace the task has kept.
AwaitFaulted_NoTrace ==
    /\ mode = "run"
    /\ \E e \in Error, f \in Function, t \in Type :
          /\ current' = e /\ trace' = EmptyTrace /\ path' = <<f>>
          /\ made' = made \cup {e}
          /\ thrown' = t
    /\ mode' = "returned"
    /\ UNCHANGED <<frames, at, last, lastTrace, inner, pathOf, relinked>>

\* __kn_async_task_run on a faulted task: the error and the trace of the
\* other thread become this thread's, as if the call had thrown.  A task can
\* be awaited again.
AwaitFaulted ==
    /\ mode = "run"
    /\ \E e \in Error, f \in Function, t \in Type :
          /\ current' = e /\ trace' = Pushed(EmptyTrace, f) /\ path' = <<f>>
          /\ made' = made \cup {e}
          /\ thrown' = t
    /\ mode' = "returned"
    /\ UNCHANGED <<frames, at, last, lastTrace, inner, pathOf, relinked>>

\* IO.Error.Clear
ClearCall ==
    /\ mode = "run"
    /\ ClearException
    /\ UNCHANGED <<mode, frames, at, errorVars, historyVars>>

-----------------------------------------------------------------------------
(* Unwinding *)

\* maybe_propagate_exception, after a call has come back.
Continue ==
    /\ mode = "returned" /\ current = NoError
    /\ mode' = "run"
    /\ UNCHANGED <<frames, at, stateVars, errorVars, historyVars>>

Propagate ==
    /\ mode = "returned" /\ current # NoError
    /\ trace' = Pushed(trace, Top.fn)
    /\ path' = Append(path, Top.fn)
    /\ mode' = "unwind"
    /\ UNCHANGED <<frames, at, current, last, lastTrace, inner, made, pathOf, thrown, relinked>>

\* The positions of the Try blocks of the top frame.
Tries == {i \in DOMAIN Top.blocks : Top.blocks[i].block = "try"}

\* Mutant: the generated handler does not call __kn_exc_clear.
EnterCatch_NoClear ==
    /\ mode = "unwind"
    /\ \E i \in Tries :
          /\ \A j \in Tries : j <= i
          /\ frames' = WithTop([Top EXCEPT !.blocks = Append(SubSeq(@, 1, i - 1),
                                    [@[i] EXCEPT !.block = "catch"])])
    /\ pathOf' = path /\ thrown' = AnyType
    /\ mode' = "run"
    /\ UNCHANGED <<at, stateVars, errorVars, path, relinked>>

\* Mutant: the outermost Try of the function takes the exception.
EnterCatch_Outermost ==
    /\ mode = "unwind"
    /\ \E i \in Tries :
          /\ \A j \in Tries : i <= j
          /\ frames' = WithTop([Top EXCEPT !.blocks = Append(SubSeq(@, 1, i - 1),
                                    [@[i] EXCEPT !.block = "catch"])])
    /\ ClearException
    /\ pathOf' = path /\ thrown' = AnyType
    /\ mode' = "run"
    /\ UNCHANGED <<at, errorVars, path, relinked>>

\* The handler of the innermost Try takes the exception from its slot and
\* clears the error state.  The type it declares only decides whether it binds
\* the error or the message.
EnterCatch ==
    /\ mode = "unwind"
    /\ \E i \in Tries :
          /\ \A j \in Tries : j <= i
          /\ frames' = WithTop([Top EXCEPT !.blocks = Append(SubSeq(@, 1, i - 1),
                                    [@[i] EXCEPT !.block = "catch"])])
    /\ ClearException
    /\ pathOf' = path /\ thrown' = AnyType
    /\ mode' = "run"
    /\ UNCHANGED <<at, errorVars, path, relinked>>

\* Without a Try the function returns a default value.
LeaveFunction ==
    /\ mode = "unwind" /\ Tries = {} /\ Len(frames) > 1
    /\ frames' = Front(frames)
    /\ mode' = "returned"
    /\ UNCHANGED <<at, stateVars, errorVars, historyVars>>

\* The entry point reports the exception and what caused it.
Report ==
    /\ mode = "unwind" /\ Tries = {} /\ Len(frames) = 1
    /\ at' = inner[current]
    /\ mode' = "report"
    /\ UNCHANGED <<frames, stateVars, errorVars, historyVars>>

CausedBy ==
    /\ mode = "report" /\ at # NoError
    /\ at' = inner[at]
    /\ UNCHANGED <<mode, frames, stateVars, errorVars, historyVars>>

Exit ==
    /\ mode = "report" /\ at = NoError
    /\ ClearException
    /\ mode' = "exit"
    /\ UNCHANGED <<frames, at, errorVars, historyVars>>

\* The entry function returns with no exception pending.
Finish ==
    /\ mode = "run" /\ Len(frames) = 1 /\ current = NoError
    /\ mode' = "exit"
    /\ UNCHANGED <<frames, at, stateVars, errorVars, historyVars>>

Ended == mode = "exit" /\ UNCHANGED vars

-----------------------------------------------------------------------------

Statement == \/ EnterTry \/ LeaveBlocks \/ Call \/ Return \/ New \/ SetInner
             \/ ThrowNew \/ ThrowMade \/ AwaitFaulted \/ ClearCall \/ Finish

Unwind == Continue \/ Propagate \/ EnterCatch \/ LeaveFunction \/ Report

Next == Statement \/ Unwind \/ CausedBy \/ Exit \/ Ended

Spec == Init /\ [][Next]_vars

-----------------------------------------------------------------------------

\* The variables keep their types and the trace fits its buffer.
TypeOK ==
    /\ mode \in Mode
    /\ frames \in Seq(Frame) /\ frames # <<>>
    /\ {current, last, at} \subseteq Error \cup {NoError}
    /\ {path, pathOf} \subseteq Seq(Function)
    /\ trace \in Trace /\ trace.bytes < TraceSize
    /\ lastTrace \in Trace /\ lastTrace.bytes < TraceSize
    /\ inner \in [Error -> Error \cup {NoError}]
    /\ made \subseteq Error
    /\ thrown \in Declared
    /\ relinked \subseteq Error

\* A statement never runs with an exception pending.  The test after each call
\* only asks whether g_exc_current is null, so a leftover would throw the
\* exception of an earlier Try a second time.
NoStaleException == mode = "run" => current = NoError

\* The trace tr lists functions of the path p in their order.  The throwing
\* one is there if it fits at all, and one is missing only if there is no room
\* for it.
Tells(tr, p) ==
    \E pos \in [DOMAIN tr.names -> DOMAIN p] :
        /\ \A i, j \in DOMAIN tr.names : i < j => pos[i] < pos[j]
        /\ \A i \in DOMAIN tr.names : tr.names[i] = p[pos[i]]
        /\ \A k \in DOMAIN p : k \in Range(pos) \/ ~Fits(tr, p[k])
        /\ 1 \in DOMAIN p => 1 \in Range(pos) \/ ~Fits(EmptyTrace, p[1])

\* While an exception is under way the buffer tells which functions it has
\* left, the throwing one first; the trace of a task that failed on another
\* thread continues in the awaiting one.
TraceIsPath == mode \in {"unwind", "returned"} /\ current # NoError => Tells(trace, path)

\* In and after a handler IO.Error.LastTrace tells where the exception caught
\* last came from.
LastTraceIsPath == mode = "run" => Tells(lastTrace, pathOf)

\* The type of an exception has no say in where it is caught.
HandlesAll(e, t) == TRUE

Promise == INSTANCE TryCatch WITH
    Exception <- Error, NoException <- NoError, Target <- Declared,
    Catches <- HandlesAll,
    stack <- [i \in DOMAIN frames |-> frames[i].blocks],
    pending <- IF mode = "report" THEN NoError ELSE current,
    ended <- mode \in {"report", "exit"}

\* The slots, the test after each call and the default returns take every
\* exception to the innermost Try of the call chain, whatever type its Catch
\* declares, and an exception without one ends the program.
InnermostTryHandles == Promise!Spec

\* A handler gets no exception but those of the type it declares, if it
\* declares one (docs/language/exceptions.md).
CatchTakesItsType ==
    [][mode = "unwind" /\ mode' = "run" =>
          (Top.blocks[Len(Top.blocks)].catches)' \in {thrown, AnyType}]_vars

\* The report of an uncaught error follows Inner to its end.  The Throw that
\* makes an error never closes a cycle of causes: each cycle contains an error
\* that got its Inner later, by an assignment or because it was thrown, for the
\* first time or again, after another one had been handled.
CausesEnd ==
    \A es \in SUBSET Error :
        es # {} /\ (\A e \in es : inner[e] \in es) => es \cap relinked # {}
=============================================================================
