------------------------------ MODULE VMFrames ------------------------------
(***************************************************************************)
(* Calls, exceptions and pointers to locals in the bytecode virtual        *)
(* machine (apps/kinalvm/src/IO/Kinal/VM/Context.kn, VM.kn) running what   *)
(* the KNC emitter (apps/kinal/src/kn_knc.c) makes of Try, Catch, Throw    *)
(* and jumps.  The machine keeps a stack of armed handlers per frame; the  *)
(* blocks the source program is in are kept beside it, as the position of  *)
(* the program counter.  LastException, Inner and traces are left out:     *)
(* only the program reads them.                                            *)
(***************************************************************************)
EXTENDS Integers, Sequences, SequencesExt

CONSTANTS Error, Text,      \* IO.Error objects and strings
          Null,             \* the null value
          JumpsOutOfTry,    \* programs may Break or Continue out of a Try
          MaxFrames,        \* bound on the call depth
          MaxBlocks,        \* bound on the Try and Catch blocks open in all frames
          PointedAt         \* bound: depths of the calls whose locals are pointed to

ASSUME VMConstants ==
    /\ Null \notin Error \cup Text /\ Error \cap Text = {}
    /\ JumpsOutOfTry \in BOOLEAN
    /\ MaxFrames \in Nat \ {0} /\ MaxBlocks \in Nat /\ PointedAt \subseteq Nat

VARIABLES
    status,    \* "run", "halted", or "failed": the machine itself threw
    frames,    \* the first FrameCount entries of Frames
    current,   \* CurrentException
    unhandled, \* HasUnhandledException
    pointers   \* the frames that pointer records of kind FrameReg name, by index

exceptionVars == <<current, unhandled>>
vars == <<status, frames, exceptionVars, pointers>>

Value == Error \cup Text \cup {Null}

\* IsTargetKind, as far as it matters: every type, string, a class.
Target == {"any", "string", "error"}

\* A Try block knows what its Catch takes; a Catch block has bound a value of
\* the kind it declares.
Block == [block : {"try"}, catches : Target, bound : {Null}]
         \cup [block : {"catch"}, catches : {"any"}, bound : Value]
         \cup [block : {"catch"}, catches : {"string"}, bound : Text]
         \cup [block : {"catch"}, catches : {"error"}, bound : Error]

\* CatchPc is the Catch block of a Try inside the blocks `outer`.
Handler == [catches : Target, outer : Seq(Block)]

Frame == [blocks : Seq(Block), handlers : Seq(Handler)]

Init ==
    /\ status = "run"
    /\ frames = <<[blocks |-> <<>>, handlers |-> <<>>]>>
    /\ current = Null /\ unhandled = FALSE
    /\ pointers = {}

Top == frames[Len(frames)]

WithTop(f) == [frames EXCEPT ![Len(frames)] = f]

-----------------------------------------------------------------------------
(* What the emitter makes of blocks *)

\* The positions of the open blocks.
Open == UNION {{i} \X DOMAIN frames[i].blocks : i \in DOMAIN frames}

\* PUSH_TRY
OpPushTry ==
    /\ status = "run" /\ Cardinality(Open) < MaxBlocks
    /\ \E t \in Target :
          frames' = WithTop([blocks |-> Append(Top.blocks,
                                [block |-> "try", catches |-> t, bound |-> Null]),
                             handlers |-> Append(Top.handlers,
                                [catches |-> t, outer |-> Top.blocks])])
    /\ UNCHANGED <<status, exceptionVars, pointers>>

\* Mutant: the emitter forgets the POP_TRY at the end of the Try block.
OpPopTry_Forgotten ==
    /\ status = "run"
    /\ Top.blocks # <<>> /\ Last(Top.blocks).block = "try"
    /\ frames' = WithTop([Top EXCEPT !.blocks = Front(@)])
    /\ UNCHANGED <<status, exceptionVars, pointers>>

\* The end of a Try block: POP_TRY and a jump over the Catch block.
OpPopTry ==
    /\ status = "run"
    /\ Top.blocks # <<>> /\ Last(Top.blocks).block = "try"
    /\ frames' = WithTop([blocks |-> Front(Top.blocks),
                          handlers |-> IF Top.handlers = <<>> THEN <<>>
                                       ELSE Front(Top.handlers)])
    /\ UNCHANGED <<status, exceptionVars, pointers>>

\* The end of a Catch block, or Break and Continue: a bare JUMP.
OpJump ==
    /\ status = "run"
    /\ \E n \in 0 .. Len(Top.blocks) - 1 :
          /\ JumpsOutOfTry \/ \A i \in n + 1 .. Len(Top.blocks) :
                                 Top.blocks[i].block = "catch"
          /\ frames' = WithTop([Top EXCEPT !.blocks = SubSeq(@, 1, n)])
    /\ UNCHANGED <<status, exceptionVars, pointers>>

-----------------------------------------------------------------------------
(* Calls *)

PushCall ==
    /\ status = "run" /\ Len(frames) < MaxFrames
    /\ frames' = Append(frames, [blocks |-> <<>>, handlers |-> <<>>])
    /\ UNCHANGED <<status, exceptionVars, pointers>>

ReturnFromCurrent ==
    /\ status = "run"
    /\ IF Len(frames) = 1
       THEN status' = "halted" /\ UNCHANGED frames
       ELSE frames' = Front(frames) /\ UNCHANGED status
    /\ UNCHANGED <<exceptionVars, pointers>>

-----------------------------------------------------------------------------
(* Exceptions *)

ValueMatchesCatch(v, t) ==
    \/ t = "any"
    \/ t = "error" /\ v \in Error
    \/ t = "string" /\ v \in Text \cup Error

\* Mutant: a string Catch gets the error itself.
CatchBindValue_Same(v, t) == {v}

\* CatchBindValue: a string Catch gets the message of an error.
CatchBindValue(v, t) == IF t = "string" /\ v \in Error THEN Text ELSE {v}

ClearException == current' = Null /\ unhandled' = FALSE

\* The handlers of frame i that match v.
Matching(i, v) ==
    {k \in DOMAIN frames[i].handlers : ValueMatchesCatch(v, frames[i].handlers[k].catches)}

\* Mutant: the search starts at the handler armed first.
Catch_First(v) ==
    \E i \in DOMAIN frames : \E k \in Matching(i, v) :
        /\ \A m \in i + 1 .. Len(frames) : Matching(m, v) = {}
        /\ \A l \in Matching(i, v) : k <= l
        /\ LET h == frames[i].handlers[k]
           IN  \E b \in CatchBindValue(v, h.catches) :
                  frames' = [SubSeq(frames, 1, i) EXCEPT ![i] =
                     [blocks |-> Append(h.outer, [block |-> "catch", catches |-> h.catches,
                                                  bound |-> b]),
                      handlers |-> SubSeq(@.handlers, 1, k - 1)]]
        /\ ClearException
        /\ UNCHANGED <<status, pointers>>

\* The loop of RaiseException: handlers are popped, innermost first and frame
\* by frame, up to the first that matches.
Catch(v) ==
    \E i \in DOMAIN frames : \E k \in Matching(i, v) :
        /\ \A m \in i + 1 .. Len(frames) : Matching(m, v) = {}
        /\ \A l \in Matching(i, v) : l <= k
        /\ LET h == frames[i].handlers[k]
           IN  \E b \in CatchBindValue(v, h.catches) :
                  frames' = [SubSeq(frames, 1, i) EXCEPT ![i] =
                     [blocks |-> Append(h.outer, [block |-> "catch", catches |-> h.catches,
                                                  bound |-> b]),
                      handlers |-> SubSeq(@.handlers, 1, k - 1)]]
        /\ ClearException
        /\ UNCHANGED <<status, pointers>>

NoCatch(v) ==
    /\ \A i \in DOMAIN frames : Matching(i, v) = {}
    /\ frames' = [i \in DOMAIN frames |-> [frames[i] EXCEPT !.handlers = <<>>]]
    /\ status' = "halted"
    /\ current' = v /\ unhandled' = TRUE
    /\ UNCHANGED pointers

RaiseException(v) == Catch(v) \/ NoCatch(v)

\* OpThrow of any value: a new one, what a Catch block has bound, null.
OpThrow == status = "run" /\ \E v \in Value : RaiseException(v)

\* IO.Error.Clear
ClearCall ==
    /\ status = "run"
    /\ ClearException
    /\ UNCHANGED <<status, frames, pointers>>

-----------------------------------------------------------------------------
(* Pointers to locals *)

\* OpMakePtrLocal
NewFramePointer ==
    /\ status = "run"
    /\ Len(frames) \in PointedAt
    /\ pointers' = pointers \cup {Len(frames)}
    /\ UNCHANGED <<status, frames, exceptionVars>>

\* A load or store through a pointer that FrameAt rejects stops the machine.
\* FrameAt only compares the index with the depth of the calls.
PointerFails ==
    /\ status = "run"
    /\ \E p \in pointers : p > Len(frames)
    /\ status' = "failed"
    /\ UNCHANGED <<frames, exceptionVars, pointers>>

Ended == status # "run" /\ UNCHANGED vars

-----------------------------------------------------------------------------

Next ==
    \/ OpPushTry \/ OpPopTry \/ OpJump
    \/ PushCall \/ ReturnFromCurrent
    \/ OpThrow \/ ClearCall
    \/ NewFramePointer \/ PointerFails
    \/ Ended

Spec == Init /\ [][Next]_vars

-----------------------------------------------------------------------------

\* The variables keep their types, and an exception stays current only when
\* nothing has handled it.
TypeOK ==
    /\ status \in {"run", "halted", "failed"}
    /\ frames \in Seq(Frame) /\ Len(frames) \in 1 .. MaxFrames
    /\ current \in Value /\ unhandled \in BOOLEAN
    /\ pointers \subseteq 1 .. MaxFrames
    /\ current # Null => unhandled

\* The position of the Try block of a handler.
TryOf(h) == Len(h.outer) + 1

\* Each handler belongs to a Try block the program is in.
ArmedAreOpen(f) ==
    \A h \in Range(f.handlers) :
        /\ TryOf(h) <= Len(f.blocks)
        /\ h.outer = SubSeq(f.blocks, 1, TryOf(h) - 1)
        /\ f.blocks[TryOf(h)].block = "try" /\ f.blocks[TryOf(h)].catches = h.catches

InnermostLast(f) ==
    \A k, l \in DOMAIN f.handlers : k < l => TryOf(f.handlers[k]) < TryOf(f.handlers[l])

OpenAreArmed(f) ==
    \A j \in DOMAIN f.blocks :
        f.blocks[j].block = "try" => \E h \in Range(f.handlers) : TryOf(h) = j

\* Exactly the Try blocks the program is in are armed, innermost last:
\* docs/language/exceptions.md:11 says that a Try has in it the code whose
\* exceptions it handles.  A handler left armed would send a later exception
\* to a Catch block of a Try that is over.
HandlersAreOpenTries ==
    status = "run" => \A f \in Range(frames) :
        ArmedAreOpen(f) /\ InnermostLast(f) /\ OpenAreArmed(f)

\* What the machine does is what Try, Catch and Throw promise, where a string
\* Catch also takes an IO.Error.
CatchHandles(v, t) == \/ t = "any"
                      \/ v \in Error /\ t \in {"error", "string"}
                      \/ v \in Text /\ t = "string"

NoValue == [no |-> "value"]

Promise == INSTANCE TryCatch WITH
    Exception <- Value, NoException <- NoValue, Target <- Target,
    Catches <- CatchHandles,
    stack <- [i \in DOMAIN frames |-> [j \in DOMAIN frames[i].blocks |->
                [block |-> frames[i].blocks[j].block,
                 catches |-> frames[i].blocks[j].catches]]],
    pending <- NoValue,
    ended <- status # "run"

ImplementsTryCatch == Promise!Spec
=============================================================================
