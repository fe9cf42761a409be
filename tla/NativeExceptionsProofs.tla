----------------------- MODULE NativeExceptionsProofs -----------------------
(***************************************************************************)
(* Proofs about NativeExceptions for every depth of calls and of blocks,   *)
(* every size of the trace buffer and every set of errors, types and       *)
(* functions.                                                              *)
(***************************************************************************)
EXTENDS NativeExceptions, SequenceTheorems, TLAPS

\* An exception on its way out is pending.
PendingInv == mode = "unwind" => current # NoError

\* It has left a function.
PathInv == mode \in {"unwind", "returned"} /\ current # NoError => path # <<>>

\* The saved trace changes only with the exception caught last.
SavedInv == mode # "exit" => Tells(lastTrace, pathOf)

IInv ==
    /\ TypeOK /\ PendingInv /\ NoStaleException /\ PathInv /\ TraceIsPath /\ SavedInv

-----------------------------------------------------------------------------
(* Lemmas about the operators *)

\* __kn_exc_push keeps to the buffer.
LEMMA PushedType ==
    ASSUME NEW tr \in Trace, tr.bytes < TraceSize, NEW f \in Function
    PROVE  Pushed(tr, f) \in Trace /\ Pushed(tr, f).bytes < TraceSize
<1>1. /\ tr.names \in Seq(Function) /\ tr.bytes \in Nat
      /\ Length[f] \in Nat /\ TraceSize \in Nat
  BY NativeConstants DEF Trace
<1>2. CASE Fits(tr, f)
  <2> DEFINE n == Append(tr.names, f)
             b == tr.bytes + (IF tr.bytes > 0 THEN 4 ELSE 3) + Length[f]
  <2>1. n \in Seq(Function)
    BY <1>1, AppendProperties
  <2>2. b \in Nat /\ b < TraceSize
    BY <1>1, <1>2 DEF Fits
  <2>3. Pushed(tr, f) = [names |-> n, bytes |-> b]
    BY <1>2 DEF Pushed, Added
  <2> HIDE DEF n, b
  <2> QED
    BY <2>1, <2>2, <2>3 DEF Trace
<1>3. CASE ~Fits(tr, f)
  BY <1>3 DEF Pushed
<1> QED
  BY <1>2, <1>3

\* Nothing is told of the empty path.
LEMMA TellsNothing ==
    /\ EmptyTrace \in Trace /\ EmptyTrace.bytes < TraceSize
    /\ <<>> \in Seq(Function) /\ Tells(EmptyTrace, <<>>)
<1>1. EmptyTrace.names = <<>> /\ EmptyTrace.bytes = 0 /\ TraceSize \in Nat \ {0}
  BY NativeConstants DEF EmptyTrace
<1>2. <<>> \in Seq(Function) /\ DOMAIN <<>> = {}
  BY EmptySeq
<1>3. EmptyTrace \in Trace
  BY <1>2 DEF EmptyTrace, Trace
<1>4. Tells(EmptyTrace, <<>>)
  <2> DEFINE pos == [i \in {} |-> i]
  <2>1. pos \in [DOMAIN EmptyTrace.names -> DOMAIN <<>>]
    BY <1>1, <1>2
  <2> QED
    BY <1>1, <1>2, <2>1 DEF Tells
<1> QED
  BY <1>1, <1>2, <1>3, <1>4

\* A function that is left is told of if there is room for it, and what was
\* told stays.
LEMMA PushedTells ==
    ASSUME NEW tr \in Trace, NEW p \in Seq(Function), NEW f \in Function,
           Tells(tr, p), p # <<>> \/ tr = EmptyTrace
    PROVE  Tells(Pushed(tr, f), Append(p, f))
<1> DEFINE q == Append(p, f)
           n == Len(tr.names)
           m == Len(p)
<1>1. /\ q \in Seq(Function) /\ DOMAIN q = 1 .. m + 1
      /\ \A k \in 1 .. m : q[k] = p[k]
      /\ q[m + 1] = f
  BY AppendProperties, LenProperties
<1>2. m \in Nat /\ DOMAIN p = 1 .. m /\ \A k \in 1 .. m : p[k] \in Function
  BY LenProperties, ElementOfSeq
<1>3. /\ tr.names \in Seq(Function) /\ n \in Nat /\ DOMAIN tr.names = 1 .. n
      /\ tr.bytes \in Nat /\ TraceSize \in Nat /\ \A g \in Function : Length[g] \in Nat
  BY LenProperties, NativeConstants DEF Trace
<1>4. PICK pos \in [1 .. n -> 1 .. m] :
        /\ \A i, j \in 1 .. n : i < j => pos[i] < pos[j]
        /\ \A i \in 1 .. n : tr.names[i] = p[pos[i]]
        /\ \A k \in 1 .. m : k \in Range(pos) \/ ~Fits(tr, p[k])
        /\ 1 \in 1 .. m => 1 \in Range(pos) \/ ~Fits(EmptyTrace, p[1])
  BY <1>2, <1>3 DEF Tells
<1>5. m = 0 => tr = EmptyTrace
  BY EmptySeq
<1> HIDE DEF q, n, m
<1>6. CASE Fits(tr, f)
  <2> DEFINE u == Pushed(tr, f)
             new == [i \in 1 .. n + 1 |-> IF i = n + 1 THEN m + 1 ELSE pos[i]]
  <2>1. u.names = Append(tr.names, f) /\ u.bytes \in Nat /\ u.bytes >= tr.bytes
    <3>1. u = [names |-> Append(tr.names, f),
               bytes |-> tr.bytes + (IF tr.bytes > 0 THEN 4 ELSE 3) + Length[f]]
      BY <1>6 DEF Pushed, Added
    <3> QED
      BY <1>3, <3>1
  <2>2. /\ DOMAIN u.names = 1 .. n + 1
        /\ \A i \in 1 .. n : u.names[i] = tr.names[i]
        /\ u.names[n + 1] = f
    BY <1>3, <2>1, AppendProperties, LenProperties DEF n
  <2> HIDE DEF u
  <2>3. new \in [DOMAIN u.names -> DOMAIN q]
    BY <1>1, <1>2, <1>3, <2>2
  <2>4. \A i, j \in DOMAIN u.names : i < j => new[i] < new[j]
    BY <1>2, <1>3, <1>4, <2>2
  <2>5. \A i \in DOMAIN u.names : u.names[i] = q[new[i]]
    BY <1>1, <1>2, <1>3, <1>4, <2>2
  <2>6. \A k \in Range(pos) : k \in Range(new)
    <3> SUFFICES ASSUME NEW i \in 1 .. n PROVE pos[i] \in Range(new)
      BY DEF Range
    <3>1. i \in 1 .. n + 1 /\ new[i] = pos[i]
      BY <1>3
    <3> QED
      BY <3>1 DEF Range
  <2>7. m + 1 \in Range(new)
    <3>1. n + 1 \in 1 .. n + 1 /\ new[n + 1] = m + 1
      BY <1>3
    <3> QED
      BY <3>1 DEF Range
  <2>8. \A k \in DOMAIN q : k \in Range(new) \/ ~Fits(u, q[k])
    <3> SUFFICES ASSUME NEW k \in 1 .. m, ~Fits(tr, p[k]) PROVE ~Fits(u, q[k])
      BY <1>1, <1>2, <1>4, <2>6, <2>7
    <3> QED
      BY <1>1, <1>2, <1>3, <2>1 DEF Fits
  <2>9. 1 \in DOMAIN q => 1 \in Range(new) \/ ~Fits(EmptyTrace, q[1])
    BY <1>1, <1>2, <1>4, <2>6, <2>7
  <2> HIDE DEF new
  <2> QED
    BY <2>3, <2>4, <2>5, <2>8, <2>9 DEF Tells, u, q
<1>7. CASE ~Fits(tr, f)
  <2>1. Pushed(tr, f) = tr
    BY <1>7 DEF Pushed
  <2>2. pos \in [DOMAIN tr.names -> DOMAIN q]
    BY <1>1, <1>2, <1>3
  <2>3. \A i \in DOMAIN tr.names : tr.names[i] = q[pos[i]]
    BY <1>1, <1>3, <1>4
  <2>4. \A k \in DOMAIN q : k \in Range(pos) \/ ~Fits(tr, q[k])
    BY <1>1, <1>2, <1>4, <1>7
  <2>5. 1 \in DOMAIN q => 1 \in Range(pos) \/ ~Fits(EmptyTrace, q[1])
    BY <1>1, <1>2, <1>4, <1>5, <1>7
  <2>6. \A i, j \in DOMAIN tr.names : i < j => pos[i] < pos[j]
    BY <1>3, <1>4
  <2>7. Tells(tr, q)
    BY <2>2, <2>3, <2>4, <2>5, <2>6 DEF Tells
  <2> QED
    BY <2>1, <2>7 DEF q
<1> QED
  BY <1>6, <1>7

\* An exception that has left one function.
LEMMA TellsFirst ==
    ASSUME NEW f \in Function
    PROVE  /\ Pushed(EmptyTrace, f) \in Trace /\ Pushed(EmptyTrace, f).bytes < TraceSize
           /\ <<f>> \in Seq(Function) /\ <<f>> # <<>>
           /\ Tells(Pushed(EmptyTrace, f), <<f>>)
<1>1. Append(<<>>, f) = <<f>> /\ <<f>> \in Seq(Function) /\ <<f>> # <<>>
  BY EmptySeq
<1>2. Pushed(EmptyTrace, f) \in Trace /\ Pushed(EmptyTrace, f).bytes < TraceSize
  BY TellsNothing, PushedType
<1>3. Tells(Pushed(EmptyTrace, f), Append(<<>>, f))
  BY TellsNothing, PushedTells
<1> QED
  BY <1>1, <1>2, <1>3

-----------------------------------------------------------------------------
(* Lemmas about the call stack *)

\* The top frame is a frame.
LEMMA TopType ==
    ASSUME TypeOK
    PROVE  /\ Top \in Frame /\ Top.fn \in Function /\ Top.blocks \in Seq(Block)
           /\ Len(frames) \in 1 .. Len(frames)
<1>1. frames \in Seq(Frame) /\ frames # <<>>
  BY DEF TypeOK
<1>2. Len(frames) \in 1 .. Len(frames)
  BY <1>1, EmptySeq, LenProperties
<1>3. Top \in Frame
  BY <1>1, <1>2, ElementOfSeq DEF Top
<1> QED
  BY <1>2, <1>3 DEF Frame

\* Replacing the blocks of the top frame leaves a call stack.
LEMMA WithTopType ==
    ASSUME TypeOK, NEW b \in Seq(Block)
    PROVE  /\ WithTop([Top EXCEPT !.blocks = b]) \in Seq(Frame)
           /\ WithTop([Top EXCEPT !.blocks = b]) # <<>>
<1> DEFINE f == [Top EXCEPT !.blocks = b]
<1>1. f \in Frame
  BY TopType DEF Frame
<1> HIDE DEF f
<1>2. /\ [frames EXCEPT ![Len(frames)] = f] \in Seq(Frame)
      /\ Len([frames EXCEPT ![Len(frames)] = f]) = Len(frames)
  BY <1>1, TopType, ExceptSeq DEF TypeOK
<1>3. [frames EXCEPT ![Len(frames)] = f] # <<>>
  BY <1>2, TopType, EmptySeq
<1> QED
  BY <1>2, <1>3 DEF WithTop, f

\* A prefix of a sequence.
LEMMA PrefixType ==
    ASSUME NEW S, NEW s \in Seq(S), NEW n \in 0 .. Len(s)
    PROVE  /\ SubSeq(s, 1, n) \in Seq(S)
           /\ Len(SubSeq(s, 1, n)) = n
           /\ \A i \in 1 .. n : SubSeq(s, 1, n)[i] = s[i]
<1>1. Len(s) \in Nat /\ n \in Nat
  BY LenProperties
<1>2. \A i \in 1 .. n : s[i] \in S
  BY <1>1, ElementOfSeq
<1>3. /\ SubSeq(s, 1, n) \in Seq(S)
      /\ Len(SubSeq(s, 1, n)) = IF 1 <= n THEN n - 1 + 1 ELSE 0
      /\ \A i \in 1 .. n - 1 + 1 : SubSeq(s, 1, n)[i] = s[1 + i - 1]
  BY <1>1, <1>2, SubSeqProperties
<1>4. Len(SubSeq(s, 1, n)) = n
  BY <1>1, <1>3
<1>5. \A i \in 1 .. n : SubSeq(s, 1, n)[i] = s[i]
  BY <1>1, <1>3
<1> QED
  BY <1>3, <1>4, <1>5

\* The front of a sequence.
LEMMA FrontType ==
    ASSUME NEW S, NEW s \in Seq(S), s # <<>>
    PROVE  Front(s) \in Seq(S) /\ Len(Front(s)) = Len(s) - 1
<1>1. Len(s) \in Nat /\ Len(s) # 0
  BY EmptySeq, LenProperties
<1> DEFINE n == Len(s) - 1
<1>2. n \in Nat /\ \A i \in 1 .. n : s[i] \in S
  BY <1>1, ElementOfSeq
<1>3. Front(s) = SubSeq(s, 1, n)
  BY DEF Front
<1> HIDE DEF n
<1>4. /\ SubSeq(s, 1, n) \in Seq(S)
      /\ Len(SubSeq(s, 1, n)) = IF 1 <= n THEN n - 1 + 1 ELSE 0
  BY <1>2, SubSeqProperties
<1>5. Len(SubSeq(s, 1, n)) = n
  BY <1>2, <1>4
<1> QED
  BY <1>3, <1>4, <1>5, Zenon DEF n

\* Returning from a call leaves a call stack.
LEMMA ReturnType ==
    ASSUME TypeOK, Len(frames) > 1
    PROVE  Front(frames) \in Seq(Frame) /\ Front(frames) # <<>>
<1>1. Front(frames) \in Seq(Frame) /\ Len(Front(frames)) = Len(frames) - 1
  BY FrontType DEF TypeOK
<1>2. Len(frames) \in Nat
  BY LenProperties DEF TypeOK
<1> QED
  BY <1>1, <1>2, EmptySeq

\* link_error_inner_from_last stores an error or null.
LEMMA LinkedType ==
    ASSUME TypeOK, NEW e \in Error
    PROVE  Linked(e) \in [Error -> Error \cup {NoError}]
BY DEF TypeOK, Linked, LastError

-----------------------------------------------------------------------------
(* The invariant *)

\* The initial state satisfies the invariant.
LEMMA InitInv == Init => IInv
<1> SUFFICES ASSUME Init PROVE IInv
  OBVIOUS
<1>1. frames \in Seq(Frame) /\ frames # <<>>
  <2> DEFINE f == [fn |-> Entry, blocks |-> <<>>]
  <2>1. f \in Frame
    BY NativeConstants, EmptySeq DEF Frame
  <2> HIDE DEF f
  <2>2. frames = <<f>>
    BY DEF Init, f
  <2> QED
    BY <2>1, <2>2
<1>2. TypeOK
  BY <1>1, TellsNothing DEF Init, TypeOK, Mode, Declared
<1>3. Tells(lastTrace, pathOf)
  BY TellsNothing DEF Init
<1> QED
  BY <1>2, <1>3 DEF Init, IInv, PendingInv, NoStaleException, PathInv, TraceIsPath, SavedInv

\* Blocks and calls leave the exception state alone.
LEMMA BlockStep ==
    ASSUME IInv, EnterTry \/ LeaveBlocks \/ Call \/ Return \/ Finish
    PROVE  IInv'
<1> USE DEF stateVars, errorVars, historyVars
<1>1. frames' \in Seq(Frame) /\ frames' # <<>>
  <2>1. CASE EnterTry
    <3>1. PICK t \in Declared :
            frames' = WithTop([Top EXCEPT !.blocks =
                        Append(Top.blocks, [block |-> "try", catches |-> t])])
      BY <2>1, TopType DEF EnterTry, IInv, Frame
    <3>2. [block |-> "try", catches |-> t] \in Block
      BY DEF Block
    <3>3. Append(Top.blocks, [block |-> "try", catches |-> t]) \in Seq(Block)
      BY <3>2, TopType, AppendProperties DEF IInv
    <3> QED
      BY <3>1, <3>3, WithTopType DEF IInv
  <2>2. CASE LeaveBlocks
    <3>1. PICK n \in 0 .. Len(Top.blocks) - 1 :
            frames' = WithTop([Top EXCEPT !.blocks = SubSeq(Top.blocks, 1, n)])
      BY <2>2, TopType DEF LeaveBlocks, IInv, Frame
    <3>2. SubSeq(Top.blocks, 1, n) \in Seq(Block)
      BY <3>1, TopType, PrefixType DEF IInv
    <3> QED
      BY <3>1, <3>2, WithTopType DEF IInv
  <2>3. CASE Call
    <3>1. PICK f \in Function : frames' = Append(frames, [fn |-> f, blocks |-> <<>>])
      BY <2>3 DEF Call
    <3>2. [fn |-> f, blocks |-> <<>>] \in Frame
      BY EmptySeq DEF Frame
    <3> QED
      BY <3>1, <3>2, AppendProperties DEF IInv, TypeOK
  <2>4. CASE Return
    BY <2>4, ReturnType DEF Return, IInv
  <2>5. CASE Finish
    BY <2>5 DEF Finish, IInv, TypeOK
  <2> QED
    BY <2>1, <2>2, <2>3, <2>4, <2>5
<1>2. UNCHANGED <<at, stateVars, errorVars, historyVars>> /\ mode = "run"
  BY DEF EnterTry, LeaveBlocks, Call, Return, Finish
<1>3. mode' \in {"run", "returned", "exit"}
  BY DEF EnterTry, LeaveBlocks, Call, Return, Finish
<1>4. TypeOK'
  BY <1>1, <1>2, <1>3 DEF IInv, TypeOK, Mode
<1>5. current = NoError
  BY <1>2 DEF IInv, NoStaleException
<1>6. Tells(lastTrace, pathOf)' <=> Tells(lastTrace, pathOf)
  BY <1>2 DEF Tells, Fits, EmptyTrace
<1> QED
  BY <1>2, <1>3, <1>4, <1>5, <1>6
  DEF IInv, PendingInv, NoStaleException, PathInv, TraceIsPath, SavedInv

\* New and an assignment to Inner do not touch the error state.
LEMMA ErrorStep ==
    ASSUME IInv, New \/ SetInner
    PROVE  IInv'
<1>1. /\ UNCHANGED <<mode, frames, at, current, last, trace, lastTrace, path, pathOf, thrown>>
      /\ mode = "run"
  BY DEF New, SetInner, stateVars, historyVars
<1>2. /\ inner' \in [Error -> Error \cup {NoError}]
      /\ made' \subseteq Error /\ relinked' \subseteq Error
  BY DEF New, SetInner, historyVars, IInv, TypeOK
<1>3. TypeOK'
  BY <1>1, <1>2 DEF IInv, TypeOK
<1>4. Tells(lastTrace, pathOf)' <=> Tells(lastTrace, pathOf)
  BY <1>1 DEF Tells, Fits, EmptyTrace
<1> QED
  BY <1>1, <1>3, <1>4
  DEF IInv, PendingInv, NoStaleException, PathInv, TraceIsPath, SavedInv

\* A throw starts a path and a trace in the throwing function.
LEMMA ThrowStep ==
    ASSUME IInv, ThrowNew \/ ThrowMade
    PROVE  IInv'
<1>1. PICK e \in Error : SetException(e)
  BY DEF ThrowNew, ThrowMade, IInv, TypeOK
<1>2. Top.fn \in Function
  BY TopType DEF IInv
<1>3. /\ path' = <<Top.fn>> /\ mode' = "unwind" /\ mode = "run"
      /\ UNCHANGED <<frames, at, last, lastTrace, pathOf>>
  BY DEF ThrowNew, ThrowMade
<1>4. current' = e /\ trace' = Pushed(EmptyTrace, Top.fn)
  BY <1>1 DEF SetException
<1>5. /\ trace' \in Trace /\ trace'.bytes < TraceSize
      /\ path' \in Seq(Function) /\ path' # <<>> /\ Tells(trace', path')
  BY <1>2, <1>3, <1>4, TellsFirst
<1>6. /\ inner' \in [Error -> Error \cup {NoError}]
      /\ made' \subseteq Error /\ relinked' \subseteq Error /\ thrown' \in Declared
  <2>1. CASE ThrowNew
    BY <2>1, LinkedType DEF ThrowNew, IInv, TypeOK, Declared
  <2>2. CASE ThrowMade
    BY <2>2, LinkedType, NativeConstants DEF ThrowMade, IInv, TypeOK, Declared
  <2> QED
    BY <2>1, <2>2
<1>7. TypeOK'
  BY <1>3, <1>4, <1>5, <1>6 DEF IInv, TypeOK, Mode
<1>8. /\ Tells(lastTrace, pathOf)' <=> Tells(lastTrace, pathOf)
      /\ Tells(trace, path)' <=> Tells(trace', path')
  BY <1>3 DEF Tells, Fits, EmptyTrace
<1> QED
  BY <1>3, <1>4, <1>5, <1>7, <1>8, NativeConstants
  DEF IInv, PendingInv, NoStaleException, PathInv, TraceIsPath, SavedInv

\* The error of another thread comes with the trace made there.
LEMMA AwaitStep ==
    ASSUME IInv, AwaitFaulted
    PROVE  IInv'
<1>1. PICK e \in Error, f \in Function, t \in Type :
        /\ current' = e /\ trace' = Pushed(EmptyTrace, f) /\ path' = <<f>>
        /\ made' = made \cup {e}
        /\ thrown' = t
  BY DEF AwaitFaulted
<1>2. /\ mode' = "returned" /\ mode = "run"
      /\ UNCHANGED <<frames, at, last, lastTrace, inner, pathOf, relinked>>
  BY DEF AwaitFaulted
<1>3. /\ trace' \in Trace /\ trace'.bytes < TraceSize
      /\ path' \in Seq(Function) /\ path' # <<>> /\ Tells(trace', path')
  BY <1>1, TellsFirst
<1>4. TypeOK'
  BY <1>1, <1>2, <1>3 DEF IInv, TypeOK, Mode, Declared
<1>5. /\ Tells(lastTrace, pathOf)' <=> Tells(lastTrace, pathOf)
      /\ Tells(trace, path)' <=> Tells(trace', path')
  BY <1>2 DEF Tells, Fits, EmptyTrace
<1> QED
  BY <1>1, <1>2, <1>3, <1>4, <1>5
  DEF IInv, PendingInv, NoStaleException, PathInv, TraceIsPath, SavedInv

\* After a call: on with the next statement, or one function further out.
LEMMA ReturnedStep ==
    ASSUME IInv, Continue \/ Propagate
    PROVE  IInv'
<1>1. CASE Continue
  <2>1. Tells(lastTrace, pathOf)' <=> Tells(lastTrace, pathOf)
    BY <1>1 DEF Continue, stateVars, historyVars, Tells, Fits, EmptyTrace
  <2> QED
    BY <1>1, <2>1 DEF Continue, stateVars, errorVars, historyVars, IInv, TypeOK, Mode,
                      PendingInv, NoStaleException, PathInv, TraceIsPath, SavedInv
<1>2. CASE Propagate
  <2>1. /\ Top.fn \in Function /\ path \in Seq(Function)
        /\ trace \in Trace /\ trace.bytes < TraceSize
    BY TopType DEF IInv, TypeOK
  <2>2. Tells(trace, path) /\ path # <<>>
    BY <1>2 DEF Propagate, IInv, PathInv, TraceIsPath
  <2>3. trace' = Pushed(trace, Top.fn) /\ path' = Append(path, Top.fn)
    BY <1>2 DEF Propagate
  <2>4. Tells(trace', path') /\ trace' \in Trace /\ trace'.bytes < TraceSize
    BY <2>1, <2>2, <2>3, PushedTells, PushedType
  <2>5. path' \in Seq(Function) /\ path' # <<>>
    <3>1. Append(path, Top.fn) \in Seq(Function) /\ Len(Append(path, Top.fn)) = Len(path) + 1
      BY <2>1, AppendProperties
    <3>2. Len(path) \in Nat
      BY <2>1, LenProperties
    <3> QED
      BY <2>3, <3>1, <3>2, EmptySeq
  <2>6. /\ mode' = "unwind" /\ mode = "returned" /\ current # NoError
        /\ UNCHANGED <<frames, at, current, last, lastTrace, inner, made, pathOf,
                       thrown, relinked>>
    BY <1>2 DEF Propagate
  <2>7. TypeOK'
    BY <2>4, <2>5, <2>6 DEF IInv, TypeOK, Mode
  <2>8. /\ Tells(lastTrace, pathOf)' <=> Tells(lastTrace, pathOf)
        /\ Tells(trace, path)' <=> Tells(trace', path')
    BY <2>6 DEF Tells, Fits, EmptyTrace
  <2> QED
    BY <2>4, <2>5, <2>6, <2>7, <2>8
    DEF IInv, PendingInv, NoStaleException, PathInv, TraceIsPath, SavedInv
<1> QED
  BY <1>1, <1>2

\* A handler saves the trace and leaves nothing pending.
LEMMA CatchStep ==
    ASSUME IInv, EnterCatch
    PROVE  IInv'
<1>1. PICK i \in Tries :
        frames' = WithTop([Top EXCEPT !.blocks = Append(SubSeq(Top.blocks, 1, i - 1),
                    [Top.blocks[i] EXCEPT !.block = "catch"])])
  BY TopType DEF EnterCatch, IInv, Frame
<1>2. /\ mode = "unwind" /\ mode' = "run" /\ pathOf' = path /\ thrown' = AnyType
      /\ UNCHANGED <<at, errorVars, path, relinked>>
      /\ ClearException
  BY DEF EnterCatch
<1>3. current # NoError /\ current \in Error /\ Tells(trace, path)
  BY <1>2 DEF IInv, PendingInv, TypeOK, TraceIsPath
<1>4. frames' \in Seq(Frame) /\ frames' # <<>>
  <2>1. Top.blocks \in Seq(Block) /\ i \in 1 .. Len(Top.blocks)
    BY <1>1, TopType, LenProperties DEF IInv, Tries
  <2>2. Top.blocks[i] \in Block
    BY <2>1, ElementOfSeq
  <2>3. [Top.blocks[i] EXCEPT !.block = "catch"] \in Block
    BY <2>2 DEF Block
  <2>4. SubSeq(Top.blocks, 1, i - 1) \in Seq(Block)
    BY <2>1, PrefixType, LenProperties
  <2>5. Append(SubSeq(Top.blocks, 1, i - 1), [Top.blocks[i] EXCEPT !.block = "catch"])
          \in Seq(Block)
    BY <2>3, <2>4, AppendProperties
  <2> QED
    BY <1>1, <2>5, WithTopType DEF IInv
<1>5. /\ last' = current /\ lastTrace' = trace
      /\ current' = NoError /\ trace' = EmptyTrace
  BY <1>2, <1>3 DEF ClearException, LastError
<1>6. TypeOK'
  BY <1>2, <1>4, <1>5, TellsNothing DEF IInv, TypeOK, Mode, errorVars, Declared
<1>7. Tells(lastTrace, pathOf)' <=> Tells(trace, path)
  BY <1>2, <1>5 DEF Tells, Fits, EmptyTrace
<1> QED
  BY <1>2, <1>3, <1>5, <1>6, <1>7
  DEF IInv, PendingInv, NoStaleException, PathInv, TraceIsPath, SavedInv

\* IO.Error.Clear outside a handler, and the end of the report.
LEMMA ClearStep ==
    ASSUME IInv, ClearCall \/ Exit
    PROVE  IInv'
<1>1. /\ ClearException /\ mode \in {"run", "report"}
      /\ UNCHANGED <<frames, at, errorVars, historyVars>>
      /\ \/ mode = "run" /\ mode' = "run"
         \/ mode' = "exit"
  BY DEF ClearCall, Exit
<1>2. current' = NoError /\ trace' = EmptyTrace
  BY <1>1 DEF ClearException
<1>3. TypeOK'
  BY <1>1, <1>2, TellsNothing
  DEF IInv, TypeOK, Mode, errorVars, historyVars, ClearException, LastError
<1>4. mode = "run" => lastTrace' = lastTrace
  BY <1>1 DEF ClearException, IInv, NoStaleException
<1>5. mode = "run" => (Tells(lastTrace, pathOf)' <=> Tells(lastTrace, pathOf))
  BY <1>1, <1>4 DEF historyVars, Tells, Fits, EmptyTrace
<1> QED
  BY <1>1, <1>2, <1>3, <1>5
  DEF IInv, PendingInv, NoStaleException, PathInv, TraceIsPath, SavedInv

\* Leaving a function or the program with an exception pending.
LEMMA LeaveStep ==
    ASSUME IInv, LeaveFunction \/ Report \/ CausedBy
    PROVE  IInv'
<1>1. UNCHANGED <<stateVars, errorVars, historyVars>>
  BY DEF LeaveFunction, Report, CausedBy
<1>2. /\ mode \in {"unwind", "report"} /\ mode' \in {"returned", "report"}
      /\ mode = "report" => mode' = "report"
  BY DEF LeaveFunction, Report, CausedBy
<1>3. frames' \in Seq(Frame) /\ frames' # <<>>
  BY ReturnType DEF LeaveFunction, Report, CausedBy, IInv, TypeOK
<1>4. at' \in Error \cup {NoError}
  BY DEF LeaveFunction, Report, CausedBy, IInv, TypeOK, PendingInv
<1>5. TypeOK'
  BY <1>1, <1>2, <1>3, <1>4
  DEF IInv, TypeOK, Mode, stateVars, errorVars, historyVars
<1>6. /\ Tells(lastTrace, pathOf)' <=> Tells(lastTrace, pathOf)
      /\ Tells(trace, path)' <=> Tells(trace, path)
  BY <1>1 DEF stateVars, historyVars, Tells, Fits, EmptyTrace
<1> QED
  BY <1>1, <1>2, <1>5, <1>6
  DEF IInv, PendingInv, NoStaleException, PathInv, TraceIsPath, SavedInv, stateVars,
      historyVars

\* Nothing changes.
LEMMA StutterStep ==
    ASSUME IInv, UNCHANGED vars
    PROVE  IInv'
<1>1. /\ Tells(lastTrace, pathOf)' <=> Tells(lastTrace, pathOf)
      /\ Tells(trace, path)' <=> Tells(trace, path)
  BY DEF vars, stateVars, historyVars, Tells, Fits, EmptyTrace
<1> QED
  BY <1>1 DEF IInv, TypeOK, Mode, PendingInv, NoStaleException, PathInv, TraceIsPath, SavedInv,
              vars, stateVars, errorVars, historyVars

-----------------------------------------------------------------------------

\* The inductive invariant holds in every reachable state.
THEOREM Invariance == Spec => []IInv
<1>1. IInv /\ [Next]_vars => IInv'
  <2> SUFFICES ASSUME IInv, [Next]_vars PROVE IInv'
    OBVIOUS
  <2>1. CASE EnterTry \/ LeaveBlocks \/ Call \/ Return \/ Finish
    BY <2>1, BlockStep
  <2>2. CASE ThrowNew \/ ThrowMade
    BY <2>2, ThrowStep
  <2>3. CASE AwaitFaulted
    BY <2>3, AwaitStep
  <2>4. CASE Continue \/ Propagate
    BY <2>4, ReturnedStep
  <2>5. CASE EnterCatch
    BY <2>5, CatchStep
  <2>6. CASE ClearCall \/ Exit
    BY <2>6, ClearStep
  <2>7. CASE LeaveFunction \/ Report \/ CausedBy
    BY <2>7, LeaveStep
  <2>8. CASE New \/ SetInner
    BY <2>8, ErrorStep
  <2>9. CASE UNCHANGED vars
    BY <2>9, StutterStep
  <2> QED
    BY <2>1, <2>2, <2>3, <2>4, <2>5, <2>6, <2>7, <2>8, <2>9
    DEF Next, Statement, Unwind, Ended
<1> QED
  BY <1>1, InitInv, PTL DEF Spec

\* Every reachable state is well typed: the trace never outgrows its buffer
\* and the call stack never empties.
THEOREM TypeCorrect == Spec => []TypeOK
<1>1. IInv => TypeOK
  BY DEF IInv
<1> QED
  BY <1>1, Invariance, PTL

\* A handled exception is never raised again by the test after a later call:
\* statements run with g_exc_current null.
THEOREM NothingStale == Spec => []NoStaleException
<1>1. IInv => NoStaleException
  BY DEF IInv
<1> QED
  BY <1>1, Invariance, PTL

\* The buffer lists functions the exception under way has left, in order, and
\* leaves one out only when there is no room for its name, whatever the depth
\* of the calls, the names and the size of the buffer.
THEOREM TraceCorrect == Spec => []TraceIsPath
<1>1. IInv => TraceIsPath
  BY DEF IInv
<1> QED
  BY <1>1, Invariance, PTL

\* IO.Error.LastTrace is the trace of the exception caught last, also after
\* IO.Error.Clear and after calls that returned normally.
THEOREM LastTraceCorrect == Spec => []LastTraceIsPath
<1>1. IInv => LastTraceIsPath
  BY DEF IInv, SavedInv, LastTraceIsPath
<1> QED
  BY <1>1, Invariance, PTL

-----------------------------------------------------------------------------
(* What causes an error *)

\* Nothing refers to an error before it is made, so that a new error is not
\* among the causes of another one.
CauseInv ==
    /\ \A e \in Error : inner[e] \in made \cup {NoError}
    /\ current \in made \cup {NoError} /\ last \in made \cup {NoError}
    /\ CausesEnd

\* A cause given to a new error closes no cycle, and one given later is
\* recorded.
LEMMA CausesStep ==
    ASSUME TypeOK, CauseInv, NEW e \in Error, NEW c \in made \cup {NoError},
           inner' = [inner EXCEPT ![e] = c],
           relinked \ {e} \subseteq relinked',
           \/ e \notin made
           \/ e \in relinked'
           \/ c = NoError
    PROVE  CausesEnd'
<1> SUFFICES ASSUME NEW es \in SUBSET Error, es # {}, \A x \in es : inner'[x] \in es,
                    es \cap relinked' = {}
             PROVE  FALSE
  BY DEF CausesEnd
<1>1. CASE e \notin es
  <2>1. \A x \in es : inner[x] \in es
    BY <1>1 DEF TypeOK
  <2>2. es \cap relinked = {}
    BY <1>1
  <2> QED
    BY <2>1, <2>2 DEF CauseInv, CausesEnd
<1>2. CASE e \in es
  <2>1. inner'[e] = c /\ c \in es /\ c # NoError
    <3>1. inner'[e] = c
      BY DEF TypeOK
    <3> QED
      BY <1>2, <3>1, NativeConstants
  <2>2. e \notin made
    BY <1>2, <2>1
  <2> DEFINE fs == es \ {e}
  <2>3. ASSUME NEW x \in fs PROVE inner[x] \in fs
    <3>1. inner'[x] = inner[x]
      BY DEF TypeOK
    <3>2. inner[x] \in es
      BY <3>1
    <3>3. inner[x] \in made \cup {NoError}
      BY DEF CauseInv
    <3>4. inner[x] # NoError
      BY <3>2, NativeConstants
    <3> QED
      BY <2>2, <3>2, <3>3, <3>4
  <2>4. fs \in SUBSET Error /\ fs # {} /\ fs \cap relinked = {}
    BY <2>1, <2>2
  <2> HIDE DEF fs
  <2> QED
    BY <2>3, <2>4 DEF CauseInv, CausesEnd
<1> QED
  BY <1>1, <1>2

\* Linking an error leaves its Inner, or sets what was null.
LEMMA LinkedCause ==
    ASSUME TypeOK, CauseInv, NEW e \in Error
    PROVE  \E c \in made \cup {NoError} :
              /\ Linked(e) = [inner EXCEPT ![e] = c]
              /\ c = inner[e] \/ c = NoError \/ (inner[e] = NoError /\ c = LastError /\ c # e)
<1>1. LastError \in made \cup {NoError}
  BY DEF CauseInv, LastError
<1>2. CASE inner[e] = NoError /\ LastError # e
  BY <1>1, <1>2 DEF Linked
<1>3. CASE ~(inner[e] = NoError /\ LastError # e)
  <2>1. Linked(e) = inner /\ inner[e] \in made \cup {NoError}
    BY <1>3 DEF Linked, CauseInv
  <2>2. inner = [inner EXCEPT ![e] = inner[e]]
    BY DEF TypeOK
  <2> QED
    BY <2>1, <2>2
<1> QED
  BY <1>2, <1>3

\* Throws keep what is known.
LEMMA ThrowCauses ==
    ASSUME IInv, CauseInv, ThrowNew \/ ThrowMade PROVE CauseInv'
<1> USE DEF IInv
<1>1. CASE ThrowNew
  <2>1. PICK e \in Error \ made :
           made' = made \cup {e} /\ inner' = Linked(e) /\ current' = e
    BY <1>1 DEF ThrowNew, SetException
  <2>2. UNCHANGED <<last, relinked>>
    BY <1>1 DEF ThrowNew
  <2>3. PICK c \in made \cup {NoError} : inner' = [inner EXCEPT ![e] = c]
    BY <2>1, LinkedCause
  <2>4. CausesEnd'
    BY <2>1, <2>2, <2>3, CausesStep
  <2>5. \A x \in Error : inner'[x] \in made' \cup {NoError}
    BY <2>1, <2>3 DEF TypeOK, CauseInv
  <2> QED
    BY <2>1, <2>2, <2>4, <2>5 DEF CauseInv
<1>2. CASE ThrowMade
  <2>1. PICK e \in made :
           /\ inner' = Linked(e) /\ current' = e
           /\ relinked' = IF inner[e] = NoError /\ LastError \notin {e, NoError}
                          THEN relinked \cup {e} ELSE relinked
    BY <1>2 DEF ThrowMade, SetException
  <2>2. UNCHANGED <<last, made>> /\ e \in Error
    BY <1>2, <2>1 DEF ThrowMade, TypeOK
  <2>3. PICK c \in made \cup {NoError} :
           /\ inner' = [inner EXCEPT ![e] = c]
           /\ c = inner[e] \/ c = NoError \/ (inner[e] = NoError /\ c = LastError /\ c # e)
    BY <2>1, <2>2, LinkedCause
  <2>4. CausesEnd'
    <3>1. CASE inner[e] = NoError
      BY <2>1, <2>2, <2>3, <3>1, CausesStep
    <3>2. CASE inner[e] # NoError
      <4>1. inner' = inner /\ relinked' = relinked
        BY <2>1, <3>2 DEF Linked
      <4> QED
        BY <4>1 DEF CauseInv, CausesEnd
    <3> QED
      BY <3>1, <3>2
  <2>5. \A x \in Error : inner'[x] \in made' \cup {NoError}
    BY <2>2, <2>3 DEF TypeOK, CauseInv
  <2> QED
    BY <2>1, <2>2, <2>4, <2>5 DEF CauseInv
<1> QED
  BY <1>1, <1>2

\* An assignment keeps what is known.
LEMMA AssignCauses ==
    ASSUME IInv, CauseInv, SetInner PROVE CauseInv'
<1> USE DEF IInv
<1>1. PICK e \in made, c \in made \cup {NoError} :
        /\ inner' = [inner EXCEPT ![e] = c]
        /\ relinked' = IF c = NoError THEN relinked \ {e} ELSE relinked \cup {e}
  BY DEF SetInner
<1>2. UNCHANGED <<current, last, made>> /\ e \in Error
  BY <1>1 DEF SetInner, stateVars, TypeOK
<1>3. CausesEnd'
  BY <1>1, <1>2, CausesStep
<1>4. \A x \in Error : inner'[x] \in made' \cup {NoError}
  BY <1>1, <1>2 DEF TypeOK, CauseInv
<1> QED
  BY <1>2, <1>3, <1>4 DEF CauseInv

\* Steps that link no error.
LEMMA QuietCauses ==
    ASSUME CauseInv, UNCHANGED <<inner, relinked>>, made \subseteq made',
           current' \in made' \cup {NoError}, last' \in made' \cup {NoError}
    PROVE  CauseInv'
BY DEF CauseInv, CausesEnd

\* No Throw closes a cycle of causes with the error it makes: a report that
\* does not end has met an error whose Inner was assigned, or that was thrown
\* after it had been made and after another one had been handled.
THEOREM CausesEndAlways == Spec => []CausesEnd
<1>1. Init => CauseInv
  BY NativeConstants DEF Init, CauseInv, CausesEnd
<1>2. IInv /\ CauseInv /\ [Next]_vars => CauseInv'
  <2> SUFFICES ASSUME IInv, CauseInv, [Next]_vars PROVE CauseInv'
    OBVIOUS
  <2>1. CASE ThrowNew \/ ThrowMade
    BY <2>1, ThrowCauses
  <2>2. CASE SetInner
    BY <2>2, AssignCauses
  <2>3. CASE EnterTry \/ LeaveBlocks \/ Call \/ Return \/ LeaveFunction
    BY <2>3, QuietCauses
    DEF EnterTry, LeaveBlocks, Call, Return, LeaveFunction, CauseInv, stateVars, errorVars,
        historyVars
  <2>4. CASE EnterCatch
    BY <2>4, QuietCauses DEF EnterCatch, ClearException, LastError, CauseInv, errorVars
  <2>5. CASE AwaitFaulted \/ New
    BY <2>5, QuietCauses DEF AwaitFaulted, New, CauseInv, stateVars, historyVars
  <2>6. CASE ClearCall \/ Exit
    BY <2>6, QuietCauses
    DEF ClearCall, Exit, ClearException, LastError, CauseInv, errorVars, historyVars
  <2>7. CASE Continue \/ Propagate \/ Report \/ CausedBy \/ Finish \/ UNCHANGED vars
    BY <2>7, QuietCauses
    DEF Continue, Propagate, Report, CausedBy, Finish, CauseInv, stateVars, errorVars,
        historyVars, vars
  <2> QED
    BY <2>1, <2>2, <2>3, <2>4, <2>5, <2>6, <2>7 DEF Next, Statement, Unwind, Ended
<1>3. CauseInv => CausesEnd
  BY DEF CauseInv
<1> QED
  BY <1>1, <1>2, <1>3, Invariance, PTL DEF Spec

-----------------------------------------------------------------------------
(* The view TryCatch has of a stack of frames: the blocks of each. *)

StackOf(fs) == [i \in DOMAIN fs |-> fs[i].blocks]

\* The stack, by position.
LEMMA StackByPosition ==
    ASSUME NEW fs \in Seq(Frame)
    PROVE  /\ StackOf(fs) \in Seq(Seq(Block))
           /\ Len(StackOf(fs)) = Len(fs) /\ Len(fs) \in Nat
           /\ DOMAIN StackOf(fs) = 1 .. Len(fs)
           /\ \A i \in 1 .. Len(fs) : StackOf(fs)[i] = fs[i].blocks
<1>1. /\ Len(fs) \in Nat /\ DOMAIN fs = 1 .. Len(fs)
      /\ \A i \in 1 .. Len(fs) : fs[i].blocks \in Seq(Block)
  <2>1. Len(fs) \in Nat /\ DOMAIN fs = 1 .. Len(fs)
    BY LenProperties
  <2>2. \A i \in 1 .. Len(fs) : fs[i] \in Frame
    BY <2>1, ElementOfSeq
  <2> QED
    BY <2>1, <2>2 DEF Frame
<1>2. StackOf(fs) = [i \in 1 .. Len(fs) |-> fs[i].blocks]
  BY <1>1 DEF StackOf
<1> DEFINE S == Seq(Block)
<1>3. \A i \in 1 .. Len(fs) : fs[i].blocks \in S
  BY <1>1
<1> HIDE DEF S
<1>4. StackOf(fs) \in Seq(S) /\ Len(StackOf(fs)) = Len(fs)
  BY <1>1, <1>2, <1>3
<1> QED
  BY <1>1, <1>2, <1>4 DEF S

\* A call.
LEMMA StackAppend ==
    ASSUME NEW fs \in Seq(Frame), NEW f \in Frame
    PROVE  StackOf(Append(fs, f)) = Append(StackOf(fs), f.blocks)
<1> DEFINE S == Seq(Block)
           s == Append(StackOf(fs), f.blocks)
<1>1. /\ StackOf(fs) \in Seq(S) /\ Len(StackOf(fs)) = Len(fs) /\ Len(fs) \in Nat
      /\ \A i \in 1 .. Len(fs) : StackOf(fs)[i] = fs[i].blocks
  BY StackByPosition
<1>2. f.blocks \in S
  BY DEF Frame
<1> HIDE DEF S
<1>3. /\ s \in Seq(S) /\ Len(s) = Len(fs) + 1 /\ s[Len(fs) + 1] = f.blocks
      /\ \A i \in 1 .. Len(fs) : s[i] = fs[i].blocks
  BY <1>1, <1>2, AppendProperties
<1> HIDE DEF s
<1> DEFINE gs == Append(fs, f)
<1>4. /\ gs \in Seq(Frame) /\ Len(gs) = Len(fs) + 1 /\ gs[Len(fs) + 1] = f
      /\ \A i \in 1 .. Len(fs) : gs[i] = fs[i]
  BY AppendProperties
<1> HIDE DEF gs
<1>5. /\ StackOf(gs) \in Seq(S) /\ Len(StackOf(gs)) = Len(gs)
      /\ \A i \in 1 .. Len(gs) : StackOf(gs)[i] = gs[i].blocks
  BY <1>4, StackByPosition DEF S
<1>6. StackOf(gs) = s
  BY <1>1, <1>3, <1>4, <1>5, SeqEqual
<1> QED
  BY <1>6 DEF gs, s

\* Calls left.
LEMMA StackPrefix ==
    ASSUME NEW fs \in Seq(Frame), NEW n \in 0 .. Len(fs)
    PROVE  StackOf(SubSeq(fs, 1, n)) = SubSeq(StackOf(fs), 1, n)
<1> DEFINE S == Seq(Block)
           s == SubSeq(StackOf(fs), 1, n)
           gs == SubSeq(fs, 1, n)
<1>1. /\ StackOf(fs) \in Seq(S) /\ Len(StackOf(fs)) = Len(fs) /\ Len(fs) \in Nat
      /\ \A i \in 1 .. Len(fs) : StackOf(fs)[i] = fs[i].blocks
  BY StackByPosition
<1> HIDE DEF S
<1>2. s \in Seq(S) /\ Len(s) = n /\ \A i \in 1 .. n : s[i] = fs[i].blocks
  BY <1>1, PrefixType
<1>3. gs \in Seq(Frame) /\ Len(gs) = n /\ \A i \in 1 .. n : gs[i] = fs[i]
  BY PrefixType
<1> HIDE DEF gs, s
<1>4. /\ StackOf(gs) \in Seq(S) /\ Len(StackOf(gs)) = Len(gs)
      /\ \A i \in 1 .. Len(gs) : StackOf(gs)[i] = gs[i].blocks
  BY <1>3, StackByPosition DEF S
<1>5. StackOf(gs) = s
  BY <1>2, <1>3, <1>4, SeqEqual
<1> QED
  BY <1>5 DEF gs, s

\* Another frame at one place.
LEMMA StackExcept ==
    ASSUME NEW fs, NEW n \in DOMAIN fs, NEW f
    PROVE  StackOf([fs EXCEPT ![n] = f]) = [StackOf(fs) EXCEPT ![n] = f.blocks]
BY DEF StackOf

-----------------------------------------------------------------------------
(* What TryCatch promises *)

Stack == StackOf(frames)
PendingOf == IF mode = "report" THEN NoError ELSE current
EndedOf == mode \in {"report", "exit"}

Running == PendingOf = NoError /\ ~EndedOf
Same == PendingOf' = PendingOf /\ EndedOf' = EndedOf

\* The promise in these terms.
LEMMA PromiseView ==
    /\ Promise!Init <=> Stack = << <<>> >> /\ PendingOf = NoError /\ EndedOf = FALSE
    /\ Promise!Running <=> Running
    /\ UNCHANGED Promise!vars <=> Stack' = Stack /\ Same
    /\ Promise!EnterTry <=>
         /\ Running
         /\ \E t \in Declared : Stack' = [Stack EXCEPT ![Len(Stack)] =
                                            Append(@, [block |-> "try", catches |-> t])]
         /\ Same
    /\ Promise!LeaveBlocks <=>
         /\ Running
         /\ \E n \in 0 .. Len(Stack[Len(Stack)]) - 1 :
               Stack' = [Stack EXCEPT ![Len(Stack)] = SubSeq(@, 1, n)]
         /\ Same
    /\ Promise!Call <=> Running /\ Stack' = Append(Stack, <<>>) /\ Same
    /\ Promise!Return <=>
         Running /\ Len(Stack) > 1 /\ Stack' = SubSeq(Stack, 1, Len(Stack) - 1) /\ Same
    /\ Promise!Finish <=>
         Running /\ EndedOf' = TRUE /\ Stack' = Stack /\ PendingOf' = PendingOf
<1> USE DEF Stack, StackOf, PendingOf, EndedOf, Running, Same
<1>1. Promise!Running <=> Running
  BY DEF Promise!Running
<1>2. Promise!Init <=> Stack = << <<>> >> /\ PendingOf = NoError /\ EndedOf = FALSE
  BY DEF Promise!Init
<1>3. UNCHANGED Promise!vars <=> Stack' = Stack /\ Same
  BY DEF Promise!vars
<1>4. Promise!EnterTry <=>
         /\ Running
         /\ \E t \in Declared : Stack' = [Stack EXCEPT ![Len(Stack)] =
                                            Append(@, [block |-> "try", catches |-> t])]
         /\ Same
  BY DEF Promise!EnterTry, Promise!Running
<1>5. Promise!LeaveBlocks <=>
         /\ Running
         /\ \E n \in 0 .. Len(Stack[Len(Stack)]) - 1 :
               Stack' = [Stack EXCEPT ![Len(Stack)] = SubSeq(@, 1, n)]
         /\ Same
  BY DEF Promise!LeaveBlocks, Promise!Running, Promise!Top
<1>6. Promise!Call <=> Running /\ Stack' = Append(Stack, <<>>) /\ Same
  BY DEF Promise!Call, Promise!Running
<1>7. Promise!Return <=>
         Running /\ Len(Stack) > 1 /\ Stack' = SubSeq(Stack, 1, Len(Stack) - 1) /\ Same
  BY DEF Promise!Return, Promise!Running
<1>8. Promise!Finish <=>
         Running /\ EndedOf' = TRUE /\ Stack' = Stack /\ PendingOf' = PendingOf
  BY DEF Promise!Finish, Promise!Running
<1> QED
  BY <1>1, <1>2, <1>3, <1>4, <1>5, <1>6, <1>7, <1>8

\* The Try blocks of call i.
TriesOf(i) == {j \in DOMAIN Stack[i] : Stack[i][j].block = "try"}

\* How the promise lets an exception go, when every Try catches it.
LEMMA UnwindView ==
    /\ \A e \in Error :
        Running /\ PendingOf' = e /\ Stack' = Stack /\ EndedOf' = EndedOf => Promise!Throw
    /\ PendingOf # NoError =>
        /\ \A i \in DOMAIN Stack : \A j \in TriesOf(i) :
             /\ \A k \in TriesOf(i) : k <= j
             /\ \A m \in i + 1 .. Len(Stack) : TriesOf(m) = {}
             /\ Stack' = [SubSeq(Stack, 1, i) EXCEPT ![i] =
                             Append(SubSeq(@, 1, j - 1), [@[j] EXCEPT !.block = "catch"])]
             /\ PendingOf' = NoError /\ EndedOf' = EndedOf
             => Promise!Unwind
        /\ (/\ \A i \in DOMAIN Stack : TriesOf(i) = {}
            /\ PendingOf' = NoError /\ EndedOf' = TRUE /\ Stack' = Stack
            => Promise!Unwind)
        /\ (/\ Len(Stack) > 1 /\ TriesOf(Len(Stack)) = {}
            /\ Stack' = SubSeq(Stack, 1, Len(Stack) - 1) /\ Same
            => Promise!Unwind)
<1> USE DEF Stack, StackOf, PendingOf, EndedOf, Running, Same
<1>1. \A i, e : Promise!CatchersIn(i, e) = TriesOf(i)
  BY DEF Promise!CatchersIn, TriesOf, HandlesAll
<1>2. ASSUME NEW e \in Error,
             Running, PendingOf' = e, Stack' = Stack, EndedOf' = EndedOf
      PROVE  Promise!Throw
  BY <1>2 DEF Promise!Throw, Promise!Running
<1>3. ASSUME PendingOf # NoError, NEW i \in DOMAIN Stack, NEW j \in TriesOf(i),
             \A k \in TriesOf(i) : k <= j,
             \A m \in i + 1 .. Len(Stack) : TriesOf(m) = {},
             Stack' = [SubSeq(Stack, 1, i) EXCEPT ![i] =
                             Append(SubSeq(@, 1, j - 1), [@[j] EXCEPT !.block = "catch"])],
             PendingOf' = NoError, EndedOf' = EndedOf
      PROVE  Promise!Unwind
  <2>1. Promise!Caught(PendingOf)
    BY <1>1, <1>3 DEF Promise!Caught
  <2> QED
    BY <1>3, <2>1 DEF Promise!Unwind
<1>4. ASSUME PendingOf # NoError, \A i \in DOMAIN Stack : TriesOf(i) = {},
             PendingOf' = NoError, EndedOf' = TRUE, Stack' = Stack
      PROVE  Promise!Unwind
  <2>1. Promise!Uncaught(PendingOf)
    BY <1>1, <1>4 DEF Promise!Uncaught
  <2> QED
    BY <1>4, <2>1 DEF Promise!Unwind
<1>5. ASSUME PendingOf # NoError, Len(Stack) > 1, TriesOf(Len(Stack)) = {},
             Stack' = SubSeq(Stack, 1, Len(Stack) - 1), Same
      PROVE  Promise!Unwind
  <2>1. Promise!LeaveCall
    BY <1>1, <1>5 DEF Promise!LeaveCall
  <2> QED
    BY <1>5, <2>1 DEF Promise!Unwind
<1> QED
  BY <1>2, <1>3, <1>4, <1>5

\* The stack that the promise sees, and its top.
LEMMA StackView ==
    ASSUME TypeOK
    PROVE  /\ frames \in Seq(Frame) /\ Stack \in Seq(Seq(Block))
           /\ Len(Stack) = Len(frames) /\ Len(frames) \in Nat \ {0}
           /\ DOMAIN Stack = 1 .. Len(frames)
           /\ Stack[Len(Stack)] = Top.blocks
<1>1. frames \in Seq(Frame) /\ frames # <<>>
  BY DEF TypeOK
<1>2. /\ Stack \in Seq(Seq(Block)) /\ Len(Stack) = Len(frames) /\ Len(frames) \in Nat
      /\ DOMAIN Stack = 1 .. Len(frames)
      /\ \A i \in 1 .. Len(frames) : Stack[i] = frames[i].blocks
  BY <1>1, StackByPosition DEF Stack
<1>3. Len(frames) # 0
  BY <1>1, EmptySeq
<1>4. Stack[Len(Stack)] = Top.blocks
  BY <1>2, <1>3 DEF Top
<1> QED
  BY <1>1, <1>2, <1>3, <1>4

\* The Try blocks of the top frame, in both views.
LEMMA TopTries == ASSUME TypeOK PROVE TriesOf(Len(Stack)) = Tries
BY StackView DEF TriesOf, Tries

\* Other blocks in the top frame.
LEMMA TopChanges ==
    ASSUME TypeOK, NEW b \in Seq(Block), frames' = WithTop([Top EXCEPT !.blocks = b])
    PROVE  Stack' = [Stack EXCEPT ![Len(Stack)] = b]
<1> DEFINE f == [Top EXCEPT !.blocks = b]
<1>1. f \in Frame /\ f.blocks = b
  BY TopType DEF Frame
<1> HIDE DEF f
<1> DEFINE n == Len(frames)
<1>2. n \in DOMAIN frames /\ Len(Stack) = n
  BY StackView, LenProperties
<1>3. frames' = [frames EXCEPT ![n] = f]
  BY DEF WithTop, f
<1> HIDE DEF n
<1>4. StackOf([frames EXCEPT ![n] = f]) = [StackOf(frames) EXCEPT ![n] = f.blocks]
  BY <1>2, StackExcept
<1>5. Stack' = StackOf(frames')
  BY DEF Stack, StackOf
<1> QED
  BY <1>1, <1>2, <1>3, <1>4, <1>5 DEF Stack

\* Entering a Try and leaving blocks are what the promise says.
LEMMA BlocksRefine ==
    ASSUME IInv, EnterTry \/ LeaveBlocks PROVE Promise!EnterTry \/ Promise!LeaveBlocks
<1>1. /\ mode = "run" /\ UNCHANGED <<mode, current>> /\ TypeOK
  BY DEF EnterTry, LeaveBlocks, stateVars, IInv
<1>2. Running /\ Same
  BY <1>1 DEF Running, Same, PendingOf, EndedOf, IInv, NoStaleException
<1>3. Top.blocks \in Seq(Block) /\ Len(Top.blocks) \in Nat
  BY <1>1, TopType, LenProperties
<1>4. Stack[Len(Stack)] = Top.blocks
  BY <1>1, StackView
<1>5. CASE EnterTry
  <2>1. PICK t \in Declared :
          frames' = WithTop([Top EXCEPT !.blocks =
                      Append(Top.blocks, [block |-> "try", catches |-> t])])
    BY <1>1, <1>5, TopType DEF EnterTry, Frame
  <2>2. [block |-> "try", catches |-> t] \in Block
    BY DEF Block
  <2>3. Append(Top.blocks, [block |-> "try", catches |-> t]) \in Seq(Block)
    BY <1>3, <2>2, AppendProperties
  <2>4. Stack' = [Stack EXCEPT ![Len(Stack)] =
                    Append(Top.blocks, [block |-> "try", catches |-> t])]
    BY <1>1, <2>1, <2>3, TopChanges
  <2>5. Stack' = [Stack EXCEPT ![Len(Stack)] = Append(@, [block |-> "try", catches |-> t])]
    BY <1>4, <2>4
  <2> QED
    BY <1>2, <2>5, PromiseView
<1>6. CASE LeaveBlocks
  <2>1. PICK n \in 0 .. Len(Top.blocks) - 1 :
          frames' = WithTop([Top EXCEPT !.blocks = SubSeq(Top.blocks, 1, n)])
    BY <1>1, <1>6, TopType DEF LeaveBlocks, Frame
  <2>2. n \in 0 .. Len(Top.blocks)
    BY <1>3
  <2>3. SubSeq(Top.blocks, 1, n) \in Seq(Block)
    BY <1>3, <2>2, PrefixType
  <2>4. Stack' = [Stack EXCEPT ![Len(Stack)] = SubSeq(Top.blocks, 1, n)]
    BY <1>1, <2>1, <2>3, TopChanges
  <2>5. n \in 0 .. Len(Stack[Len(Stack)]) - 1
    BY <1>4
  <2>6. Stack' = [Stack EXCEPT ![Len(Stack)] = SubSeq(@, 1, n)]
    BY <1>4, <2>4
  <2> QED
    BY <1>2, <2>5, <2>6, PromiseView
<1> QED
  BY <1>5, <1>6

\* The front of the stack.
LEMMA StackFront ==
    ASSUME TypeOK, frames' = Front(frames)
    PROVE  Stack' = SubSeq(Stack, 1, Len(Stack) - 1)
<1>1. Len(frames) - 1 \in 0 .. Len(frames) /\ Len(Stack) = Len(frames)
  BY StackView
<1>2. StackOf(SubSeq(frames, 1, Len(frames) - 1)) = SubSeq(StackOf(frames), 1, Len(frames) - 1)
  BY <1>1, StackView, StackPrefix
<1>3. Stack' = StackOf(frames')
  BY DEF Stack, StackOf
<1> QED
  BY <1>1, <1>2, <1>3 DEF Stack, Front

\* Calls and returns are.
LEMMA CallsRefine ==
    ASSUME IInv, Call \/ Return \/ Finish
    PROVE  Promise!Call \/ Promise!Return \/ Promise!Finish
<1>1. /\ mode = "run" /\ current = NoError /\ UNCHANGED current /\ TypeOK
  BY DEF Call, Return, Finish, stateVars, IInv, NoStaleException
<1>2. Running /\ PendingOf = NoError
  BY <1>1 DEF Running, PendingOf, EndedOf
<1>3. CASE Call
  <2>1. PICK f \in Function : frames' = Append(frames, [fn |-> f, blocks |-> <<>>])
    BY <1>3 DEF Call
  <2> DEFINE g == [fn |-> f, blocks |-> <<>>]
  <2>2. g \in Frame /\ g.blocks = <<>>
    BY EmptySeq DEF Frame
  <2> HIDE DEF g
  <2>3. StackOf(Append(frames, g)) = Append(StackOf(frames), g.blocks)
    BY <1>1, <2>2, StackView, StackAppend
  <2>4. Stack' = StackOf(frames')
    BY DEF Stack, StackOf
  <2>5. Stack' = Append(Stack, <<>>)
    BY <2>1, <2>2, <2>3, <2>4 DEF Stack, g
  <2>6. Same
    BY <1>1, <1>3 DEF Same, PendingOf, EndedOf, Call
  <2> QED
    BY <1>2, <2>5, <2>6, PromiseView
<1>4. CASE Return
  <2>1. Len(Stack) > 1 /\ Stack' = SubSeq(Stack, 1, Len(Stack) - 1)
    BY <1>1, <1>4, StackView, StackFront DEF Return
  <2>2. Same
    BY <1>1, <1>4 DEF Same, PendingOf, EndedOf, Return
  <2> QED
    BY <1>2, <2>1, <2>2, PromiseView
<1>5. CASE Finish
  <2>1. EndedOf' = TRUE /\ PendingOf' = PendingOf
    BY <1>1, <1>5 DEF PendingOf, EndedOf, Finish
  <2>2. Stack' = Stack
    BY <1>5 DEF Finish, Stack, StackOf
  <2> QED
    BY <1>2, <2>1, <2>2, PromiseView
<1> QED
  BY <1>3, <1>4, <1>5

\* A new exception, one made before and that of an awaited task are on their
\* way out.
LEMMA ThrowsRefine ==
    ASSUME IInv, ThrowNew \/ ThrowMade \/ AwaitFaulted
    PROVE  Promise!Throw
<1>1. /\ mode = "run" /\ mode' \in {"unwind", "returned"} /\ frames' = frames
      /\ current = NoError
  BY DEF ThrowNew, ThrowMade, AwaitFaulted, IInv, NoStaleException
<1>2. current' \in Error
  BY DEF ThrowNew, ThrowMade, AwaitFaulted, SetException, IInv, TypeOK
<1>3. Running /\ PendingOf' = current' /\ EndedOf' = EndedOf
  BY <1>1 DEF Running, PendingOf, EndedOf
<1>4. Stack' = Stack
  BY <1>1 DEF Stack, StackOf
<1> QED
  BY <1>2, <1>3, <1>4, UnwindView

\* The handler gets the innermost Try of the top frame, which is the
\* innermost of all.
LEMMA CatchRefines ==
    ASSUME IInv, EnterCatch
    PROVE  Promise!Unwind
<1>1. /\ TypeOK /\ mode = "unwind" /\ mode' = "run" /\ current # NoError
      /\ current' = NoError
  BY DEF IInv, PendingInv, EnterCatch, ClearException
<1>2. PendingOf # NoError /\ PendingOf' = NoError /\ EndedOf' = EndedOf
  BY <1>1 DEF PendingOf, EndedOf
<1> DEFINE b == Top.blocks
           i == Len(Stack)
<1>3. PICK j \in Tries :
        /\ \A k \in Tries : k <= j
        /\ frames' = WithTop([Top EXCEPT !.blocks =
                        Append(SubSeq(b, 1, j - 1), [b[j] EXCEPT !.block = "catch"])])
  BY <1>1, TopType DEF EnterCatch, Frame
<1>4. b \in Seq(Block) /\ Len(b) \in Nat /\ j \in 1 .. Len(b)
  BY <1>1, <1>3, TopType, LenProperties DEF Tries
<1>5. [b[j] EXCEPT !.block = "catch"] \in Block
  <2>1. b[j] \in Block
    BY <1>4, ElementOfSeq
  <2> QED
    BY <2>1 DEF Block
<1>6. i \in DOMAIN Stack /\ i \in Nat /\ Stack[i] = b /\ Stack \in Seq(Seq(Block))
  BY <1>1, StackView
<1>7. TriesOf(i) = Tries
  BY <1>1, TopTries
<1>8. SubSeq(b, 1, j - 1) \in Seq(Block)
  BY <1>4, PrefixType
<1>9. Append(SubSeq(b, 1, j - 1), [b[j] EXCEPT !.block = "catch"]) \in Seq(Block)
  BY <1>5, <1>8, AppendProperties
<1>10. Stack' = [Stack EXCEPT ![i] =
                   Append(SubSeq(b, 1, j - 1), [b[j] EXCEPT !.block = "catch"])]
  BY <1>1, <1>3, <1>9, TopChanges
<1>11. SubSeq(Stack, 1, i) = Stack
  BY <1>6, SubSeqFull
<1>12. Stack' = [SubSeq(Stack, 1, i) EXCEPT ![i] =
                   Append(SubSeq(@, 1, j - 1), [@[j] EXCEPT !.block = "catch"])]
  BY <1>6, <1>10, <1>11
<1>13. \A m \in i + 1 .. Len(Stack) : TriesOf(m) = {}
  BY <1>6
<1> HIDE DEF i, b
<1> QED
  BY <1>2, <1>3, <1>6, <1>7, <1>12, <1>13, UnwindView DEF i

\* A function without a Try around the statement is left, and the last one
\* ends the program.
LEMMA LeavesRefine ==
    ASSUME IInv, LeaveFunction \/ Report
    PROVE  Promise!Unwind
<1>1. /\ TypeOK /\ mode = "unwind" /\ current # NoError /\ current' = current
      /\ Tries = {}
  BY DEF IInv, PendingInv, LeaveFunction, Report, stateVars
<1>2. TriesOf(Len(Stack)) = {} /\ Len(Stack) = Len(frames) /\ DOMAIN Stack = 1 .. Len(frames)
  BY <1>1, StackView, TopTries
<1>3. PendingOf # NoError
  BY <1>1 DEF PendingOf
<1>4. CASE LeaveFunction
  <2>1. Len(Stack) > 1 /\ Stack' = SubSeq(Stack, 1, Len(Stack) - 1)
    BY <1>1, <1>2, <1>4, StackFront DEF LeaveFunction
  <2>2. Same
    BY <1>1, <1>4 DEF Same, PendingOf, EndedOf, LeaveFunction
  <2> QED
    BY <1>2, <1>3, <2>1, <2>2, UnwindView
<1>5. CASE Report
  <2>1. \A k \in DOMAIN Stack : TriesOf(k) = {}
    BY <1>2, <1>5 DEF Report
  <2>2. PendingOf' = NoError /\ EndedOf' = TRUE
    BY <1>5 DEF PendingOf, EndedOf, Report
  <2>3. Stack' = Stack
    BY <1>5 DEF Report, Stack, StackOf
  <2> QED
    BY <1>3, <2>1, <2>2, <2>3, UnwindView
<1> QED
  BY <1>4, <1>5

\* The rest is bookkeeping.
LEMMA StuttersRefine ==
    ASSUME IInv,
           \/ New \/ SetInner \/ ClearCall \/ Continue \/ Propagate \/ CausedBy \/ Exit
           \/ UNCHANGED vars
    PROVE  UNCHANGED Promise!vars
<1>1. frames' = frames
  BY DEF New, SetInner, ClearCall, Continue, Propagate, CausedBy, Exit, vars
<1>2. Same
  <2>1. CASE ClearCall
    BY <2>1 DEF ClearCall, ClearException, Same, PendingOf, EndedOf, IInv, NoStaleException
  <2>2. CASE Continue \/ Propagate
    BY <2>2 DEF Continue, Propagate, stateVars, Same, PendingOf, EndedOf
  <2>3. CASE CausedBy
    BY <2>3 DEF CausedBy, stateVars, Same, PendingOf, EndedOf
  <2>4. CASE Exit
    BY <2>4 DEF Exit, ClearException, Same, PendingOf, EndedOf
  <2>5. CASE New \/ SetInner
    BY <2>5 DEF New, SetInner, stateVars, Same, PendingOf, EndedOf
  <2>6. CASE UNCHANGED vars
    BY <2>6 DEF vars, stateVars, Same, PendingOf, EndedOf
  <2> QED
    BY <2>1, <2>2, <2>3, <2>4, <2>5, <2>6
<1>3. Stack' = Stack
  BY <1>1 DEF Stack, StackOf
<1> QED
  BY <1>2, <1>3, PromiseView

\* The promise starts with one call and no blocks.
LEMMA InitRefines == Init => Promise!Init
<1> SUFFICES ASSUME Init PROVE Promise!Init
  OBVIOUS
<1>1. Len(frames) = 1 /\ frames[1].blocks = <<>> /\ DOMAIN frames = {1}
  BY DEF Init
<1>2. Stack = << <<>> >>
  BY <1>1 DEF Stack, StackOf
<1>3. PendingOf = NoError /\ EndedOf = FALSE
  BY DEF Init, PendingOf, EndedOf
<1> QED
  BY <1>2, <1>3, PromiseView

\* An exception goes to the innermost Try around it, through any number of
\* calls and whatever type its Catch declares.
THEOREM InnermostTry == Spec => InnermostTryHandles
<1>1. IInv /\ [Next]_vars => [Promise!Next]_(Promise!vars)
  <2> SUFFICES ASSUME IInv, [Next]_vars PROVE Promise!Next \/ UNCHANGED Promise!vars
    OBVIOUS
  <2>1. CASE EnterTry \/ LeaveBlocks
    BY <2>1, BlocksRefine DEF Promise!Next
  <2>2. CASE Call \/ Return \/ Finish
    BY <2>2, CallsRefine DEF Promise!Next
  <2>3. CASE ThrowNew \/ ThrowMade \/ AwaitFaulted
    BY <2>3, ThrowsRefine DEF Promise!Next
  <2>4. CASE EnterCatch
    BY <2>4, CatchRefines DEF Promise!Next
  <2>5. CASE LeaveFunction \/ Report
    BY <2>5, LeavesRefine DEF Promise!Next
  <2>6. CASE \/ New \/ SetInner \/ ClearCall \/ Continue \/ Propagate \/ CausedBy \/ Exit
             \/ UNCHANGED vars
    BY <2>6, StuttersRefine
  <2> QED
    BY <2>1, <2>2, <2>3, <2>4, <2>5, <2>6 DEF Next, Statement, Unwind, Ended
<1> QED
  BY <1>1, InitRefines, Invariance, PTL DEF Spec, InnermostTryHandles, Promise!Spec
=============================================================================
