------------------------- MODULE ChildProcessProofs -------------------------
(***************************************************************************)
(* Proofs about ChildProcess for every number of handles, of threads in    *)
(* kn_native_process_run and of pids.                                      *)
(***************************************************************************)
EXTENDS ChildProcess, TLAPS

Record == [pid : Pid, done : BOOLEAN, exit_code : Int]
CallUnderWay == [op : Op, at : {"test", "clock"}, ran : BOOLEAN, late : BOOLEAN]
Answer == [of : Owner, op : Op \cup {"ProcessRun"}, ended : BOOLEAN,
           code : Int, ran : BOOLEAN]

TypeOK ==
    /\ child \in [Pid -> Owner \cup {NoOne}]
    /\ fate \in [Owner -> Status \cup {Alive}]
    /\ proc \in [Handle -> Record \cup {NoRecord}]
    /\ call \in [Handle -> CallUnderWay \cup {NoCall}]
    /\ run \in [Runner -> Pid \cup {NoPid}]
    /\ answer \in Answer \cup {NoAnswer}

\* A handle that waits for its child.
Waits(h) == proc[h] # NoRecord /\ ~proc[h].done

\* What a handle has recorded is how its child ended.
RecordInv ==
    \A h \in Handle : proc[h] # NoRecord /\ proc[h].done =>
        fate[h] # Alive /\ proc[h].exit_code = CodeOf(fate[h])

\* A call goes on only as long as the handle waits; it began before the child
\* ended unless the next test finds the child ended; only WaitFor has a deadline.
CallInv ==
    \A h \in Handle : call[h] # NoCall =>
        /\ Waits(h)
        /\ fate[h] = Alive \/ call[h].at = "clock" => call[h].ran
        /\ call[h].late => call[h].op = "WaitFor"

\* From one step to the next a handle names one child: what it has recorded
\* stays, and its memory is freed only after the child has ended.
HandleStep(h) ==
    proc[h] # NoRecord =>
        IF proc'[h] = NoRecord
        THEN fate[h] # Alive
        ELSE proc'[h].pid = proc[h].pid /\ (proc[h].done => proc'[h] = proc[h])
HandlesStep == \A h \in Handle : HandleStep(h)

IInv == TypeOK /\ ChildrenOwned /\ RecordInv /\ CallInv /\ AnswersTrue

-----------------------------------------------------------------------------
(* Values *)

\* A child that has ended is not alive, and codes are integers.
LEMMA StatusValues ==
    /\ Alive \notin Status
    /\ \A s \in Status : CodeOf(s) \in Int
    /\ StillActive \in Int
<1>1. \A s \in Status : s.how \in {"exited", "signaled"} /\ s.n \in Number
  BY DEF Status
<1>2. Alive \notin Status
  BY <1>1 DEF Alive
<1>3. ASSUME NEW s \in Status PROVE CodeOf(s) \in Int
  <2>1. s.n \in Nat
    BY <1>1, ConstantsAssumption
  <2>2. s.n \in Int /\ 128 + s.n \in Int
    BY <2>1
  <2> QED
    BY <2>2 DEF CodeOf
<1> QED
  BY <1>2, <1>3 DEF StillActive

\* The empty values are none of the others.
LEMMA EmptyValues ==
    /\ NoRecord \notin Record
    /\ NoCall \notin CallUnderWay
    /\ NoAnswer \notin Answer
    /\ NoOne \notin Owner /\ NoPid \notin Pid
<1>1. NoCall \notin CallUnderWay
  <2>1. NoCall.at = "none" /\ \A c \in CallUnderWay : c.at \in {"test", "clock"}
    BY DEF NoCall, CallUnderWay
  <2> QED
    BY <2>1
<1>2. NoAnswer \notin Answer
  BY ConstantsAssumption DEF NoAnswer, Answer, Owner
<1> QED
  BY <1>1, <1>2, ConstantsAssumption DEF Record, Owner

\* The parts of a state.
LEMMA Parts ==
    ASSUME TypeOK
    PROVE  /\ \A h \in Handle : /\ h \in Owner
                                /\ proc[h] # NoRecord => /\ proc[h] \in Record
                                                         /\ proc[h].pid \in Pid
                                                         /\ proc[h].done \in BOOLEAN
                                                         /\ proc[h].exit_code \in Int
                                /\ call[h] # NoCall => /\ call[h] \in CallUnderWay
                                                       /\ call[h].op \in Op
                                                       /\ call[h].at \in {"test", "clock"}
                                                       /\ call[h].ran \in BOOLEAN
                                                       /\ call[h].late \in BOOLEAN
                                /\ fate[h] # Alive => fate[h] \in Status
           /\ \A r \in Runner : r \in Owner /\ (run[r] # NoPid => run[r] \in Pid)
           /\ answer # NoAnswer => answer \in Answer /\ answer.of \in Owner
<1>1. \A h \in Handle : proc[h] # NoRecord => proc[h] \in Record
  BY DEF TypeOK
<1>2. \A h \in Handle : call[h] # NoCall => call[h] \in CallUnderWay
  BY DEF TypeOK
<1>3. \A o \in Owner : fate[o] # Alive => fate[o] \in Status
  BY DEF TypeOK
<1>4. \A r \in Runner : run[r] # NoPid => run[r] \in Pid
  BY DEF TypeOK
<1>5. answer # NoAnswer => answer \in Answer
  BY DEF TypeOK
<1>6. /\ \A x \in Record : x.pid \in Pid /\ x.done \in BOOLEAN /\ x.exit_code \in Int
      /\ \A c \in CallUnderWay : /\ c.op \in Op /\ c.at \in {"test", "clock"}
                                 /\ c.ran \in BOOLEAN /\ c.late \in BOOLEAN
      /\ \A a \in Answer : a.of \in Owner
  BY DEF Record, CallUnderWay, Answer
<1>7. \A o \in Handle \cup Runner : o \in Owner
  BY DEF Owner
<1> QED
  BY <1>1, <1>2, <1>3, <1>4, <1>5, <1>6, <1>7

\* A call in one of its two places is under way.
LEMMA UnderWay ==
    ASSUME IInv, NEW h \in Handle,
           call[h].at \in {"test", "clock"} \/ call[h].op = "WaitFor"
    PROVE  /\ call[h] # NoCall /\ call[h] \in CallUnderWay
           /\ proc[h] # NoRecord /\ ~proc[h].done
           /\ proc[h] \in Record /\ proc[h].pid \in Pid
           /\ child[proc[h].pid] = h /\ h \in Owner
           /\ Ended(proc[h].pid) <=> fate[h] # Alive
<1>1. call[h] # NoCall
  BY DEF NoCall
<1>2. proc[h] # NoRecord /\ ~proc[h].done
  BY <1>1 DEF IInv, CallInv, Waits
<1>3. child[proc[h].pid] = h
  BY <1>2 DEF IInv, ChildrenOwned
<1>4. h # NoOne
  BY EmptyValues DEF Owner
<1> QED
  BY <1>1, <1>2, <1>3, <1>4, Parts DEF IInv, Ended

-----------------------------------------------------------------------------
(* The kernel *)

\* Initially there are no children and no handles.
LEMMA InitInv == Init => IInv
<1> SUFFICES ASSUME Init PROVE IInv
  OBVIOUS
<1>1. TypeOK
  BY DEF Init, TypeOK
<1>2. ChildrenOwned /\ RecordInv /\ CallInv /\ AnswersTrue
  BY DEF Init, ChildrenOwned, RecordInv, CallInv, AnswersTrue
<1> QED
  BY <1>1, <1>2 DEF IInv

\* A child that ends had not been waited for, so nothing has been said of it.
LEMMA ExitStep ==
    ASSUME IInv, NEW p \in Pid, Exit(p)
    PROVE  IInv'
<1> DEFINE o == child[p]
<1>1. PICK s \in Status : fate' = [fate EXCEPT ![o] = s]
  BY DEF Exit
<1>2. o \in Owner /\ fate[o] = Alive /\ UNCHANGED <<child, proc, call, run, answer>>
  BY DEF Exit, Runs, IInv, TypeOK
<1> HIDE DEF o
<1>3. fate \in [Owner -> Status \cup {Alive}]
  BY DEF IInv, TypeOK
<1>4. fate'[o] \in Status /\ \A q \in Owner \ {o} : fate'[q] = fate[q]
  BY <1>1, <1>2, <1>3
<1>5. \A q \in Owner : fate[q] # Alive => q # o /\ fate'[q] = fate[q]
  BY <1>2, <1>4
<1>6. TypeOK'
  BY <1>1, <1>2, <1>3 DEF IInv, TypeOK
<1>7. ChildrenOwned'
  BY <1>2 DEF IInv, ChildrenOwned
<1>8. RecordInv'
  BY <1>2, <1>5 DEF IInv, RecordInv, Owner
<1>9. CallInv'
  <2>1. \A h \in Handle : fate'[h] = Alive => fate[h] = Alive
    BY <1>4, StatusValues DEF Owner
  <2> QED
    BY <1>2, <2>1 DEF IInv, CallInv, Waits
<1>10. AnswersTrue'
  BY <1>2, <1>5, Parts DEF IInv, AnswersTrue
<1> QED
  BY <1>6, <1>7, <1>8, <1>9, <1>10 DEF IInv

\* A fork gives a pid that nobody waits for.
LEMMA ForkFacts ==
    ASSUME IInv, NEW o \in Owner, NEW p \in Pid, Fork(o, p)
    PROVE  /\ child[p] = NoOne /\ child'[p] = o
           /\ \A q \in Pid \ {p} : child'[q] = child[q]
           /\ child' \in [Pid -> Owner \cup {NoOne}]
           /\ fate'[o] = Alive /\ \A q \in Owner \ {o} : fate'[q] = fate[q]
           /\ fate' \in [Owner -> Status \cup {Alive}]
           /\ answer' = NoAnswer
           /\ \A h \in Handle : Waits(h) => proc[h].pid # p
           /\ \A r \in Runner : run[r] # p
<1>1. /\ child \in [Pid -> Owner \cup {NoOne}] /\ fate \in [Owner -> Status \cup {Alive}]
      /\ child[p] = NoOne
      /\ child' = [child EXCEPT ![p] = o] /\ fate' = [fate EXCEPT ![o] = Alive]
      /\ answer' = NoAnswer
  BY DEF IInv, TypeOK, Fork
<1>2. \A h \in Handle : Waits(h) => proc[h].pid # p
  BY <1>1, EmptyValues DEF IInv, ChildrenOwned, Waits, Owner
<1>3. \A r \in Runner : run[r] # p
  BY <1>1, EmptyValues DEF IInv, ChildrenOwned, Owner
<1> QED
  BY <1>1, <1>2, <1>3

\* A new handle, whose child is alive.
LEMMA SpawnStep ==
    ASSUME IInv, NEW h \in Handle, Spawn(h)
    PROVE  IInv'
<1>1. PICK p \in Pid :
        /\ Fork(h, p)
        /\ proc' = [proc EXCEPT ![h] = [pid |-> p, done |-> FALSE, exit_code |-> StillActive]]
  BY DEF Spawn
<1>2. proc[h] = NoRecord /\ UNCHANGED <<call, run>>
  BY DEF Spawn
<1>3. h \in Owner /\ call[h] = NoCall
  BY <1>2 DEF Owner, IInv, CallInv, Waits
<1>4. /\ child[p] = NoOne /\ child'[p] = h
      /\ \A q \in Pid \ {p} : child'[q] = child[q]
      /\ child' \in [Pid -> Owner \cup {NoOne}]
      /\ fate'[h] = Alive /\ \A q \in Owner \ {h} : fate'[q] = fate[q]
      /\ fate' \in [Owner -> Status \cup {Alive}]
      /\ answer' = NoAnswer
      /\ \A g \in Handle : Waits(g) => proc[g].pid # p
      /\ \A r \in Runner : run[r] # p
  BY <1>1, <1>3, ForkFacts
<1> DEFINE new == [pid |-> p, done |-> FALSE, exit_code |-> StillActive]
<1>5. new \in Record /\ new.pid = p /\ ~new.done /\ new # NoRecord
  <2>1. new \in Record
    BY StatusValues DEF Record
  <2> QED
    BY <2>1, EmptyValues
<1> HIDE DEF new
<1>6. proc' \in [Handle -> Record \cup {NoRecord}] /\ proc'[h] = new
      /\ \A g \in Handle \ {h} : proc'[g] = proc[g]
  BY <1>1, <1>5 DEF IInv, TypeOK, new
<1>7. TypeOK'
  BY <1>2, <1>4, <1>6 DEF IInv, TypeOK
<1>8. ChildrenOwned'
  <2>1. ASSUME NEW g \in Handle, proc'[g] # NoRecord, ~proc'[g].done
        PROVE  child'[proc'[g].pid] = g
    <3>1. CASE g = h
      BY <1>4, <1>5, <1>6, <3>1
    <3>2. CASE g # h
      <4>1. Waits(g) /\ proc'[g] = proc[g]
        BY <1>6, <2>1, <3>2 DEF Waits
      <4>2. proc[g].pid \in Pid \ {p} /\ child[proc[g].pid] = g
        BY <1>4, <4>1, Parts DEF IInv, ChildrenOwned, Waits
      <4> QED
        BY <1>4, <4>1, <4>2
    <3> QED
      BY <3>1, <3>2
  <2>2. ASSUME NEW r \in Runner, run'[r] # NoPid
        PROVE  child'[run'[r]] = r
    <3>1. run[r] \in Pid \ {p} /\ child[run[r]] = r
      BY <1>2, <1>4, <2>2, Parts DEF IInv, ChildrenOwned
    <3> QED
      BY <1>2, <1>4, <3>1
  <2>3. ASSUME NEW q \in Pid, child'[q] # NoOne
        PROVE  \/ \E g \in Handle : proc'[g] # NoRecord /\ ~proc'[g].done /\ proc'[g].pid = q
               \/ \E r \in Runner : run'[r] = q
    <3>1. CASE q = p
      BY <1>5, <1>6, <3>1
    <3>2. CASE q # p
      <4>1. child[q] # NoOne
        BY <1>4, <2>3, <3>2
      <4>2. CASE \E r \in Runner : run[r] = q
        BY <1>2, <4>2
      <4>3. ASSUME NEW g \in Handle, Waits(g), proc[g].pid = q
            PROVE  proc'[g] # NoRecord /\ ~proc'[g].done /\ proc'[g].pid = q
        <5>1. g # h
          BY <1>2, <4>3 DEF Waits
        <5> QED
          BY <1>6, <4>3, <5>1 DEF Waits
      <4> QED
        BY <4>1, <4>2, <4>3 DEF IInv, ChildrenOwned, Waits
    <3> QED
      BY <3>1, <3>2
  <2> QED
    BY <2>1, <2>2, <2>3 DEF ChildrenOwned
<1>9. RecordInv'
  <2> SUFFICES ASSUME NEW g \in Handle, proc'[g] # NoRecord, proc'[g].done
               PROVE  fate'[g] # Alive /\ proc'[g].exit_code = CodeOf(fate'[g])
    BY DEF RecordInv
  <2>1. g # h
    BY <1>5, <1>6
  <2>2. proc'[g] = proc[g] /\ fate'[g] = fate[g]
    BY <1>4, <1>6, <2>1 DEF Owner
  <2> QED
    BY <2>2 DEF IInv, RecordInv
<1>10. CallInv'
  <2> SUFFICES ASSUME NEW g \in Handle, call'[g] # NoCall
               PROVE  /\ Waits(g)'
                      /\ fate'[g] = Alive \/ call'[g].at = "clock" => call'[g].ran
                      /\ call'[g].late => call'[g].op = "WaitFor"
    BY DEF CallInv
  <2>1. g # h /\ call'[g] = call[g]
    BY <1>2, <1>3
  <2>2. proc'[g] = proc[g] /\ fate'[g] = fate[g]
    BY <1>4, <1>6, <2>1 DEF Owner
  <2> QED
    BY <2>1, <2>2 DEF IInv, CallInv, Waits
<1>11. AnswersTrue'
  BY <1>4 DEF AnswersTrue
<1> QED
  BY <1>7, <1>8, <1>9, <1>10, <1>11 DEF IInv

\* A run that starts, whose child is alive.
LEMMA RunForkStep ==
    ASSUME IInv, NEW r \in Runner, RunFork(r)
    PROVE  IInv'
<1>1. PICK p \in Pid : Fork(r, p) /\ run' = [run EXCEPT ![r] = p]
  BY DEF RunFork
<1>2. run[r] = NoPid /\ UNCHANGED <<proc, call>>
  BY DEF RunFork
<1>3. r \in Owner /\ r \notin Handle
  BY ConstantsAssumption DEF Owner
<1>4. /\ child[p] = NoOne /\ child'[p] = r
      /\ \A q \in Pid \ {p} : child'[q] = child[q]
      /\ child' \in [Pid -> Owner \cup {NoOne}]
      /\ fate'[r] = Alive /\ \A q \in Owner \ {r} : fate'[q] = fate[q]
      /\ fate' \in [Owner -> Status \cup {Alive}]
      /\ answer' = NoAnswer
      /\ \A g \in Handle : Waits(g) => proc[g].pid # p
      /\ \A s \in Runner : run[s] # p
  BY <1>1, <1>3, ForkFacts
<1>5. /\ run' \in [Runner -> Pid \cup {NoPid}] /\ run'[r] = p
      /\ \A s \in Runner \ {r} : run'[s] = run[s]
  BY <1>1 DEF IInv, TypeOK
<1>6. \A g \in Handle : fate'[g] = fate[g]
  BY <1>3, <1>4 DEF Owner
<1>7. TypeOK'
  BY <1>2, <1>4, <1>5 DEF IInv, TypeOK
<1>8. ChildrenOwned'
  <2>1. ASSUME NEW g \in Handle, proc'[g] # NoRecord, ~proc'[g].done
        PROVE  child'[proc'[g].pid] = g
    <3>1. proc[g].pid \in Pid \ {p} /\ child[proc[g].pid] = g
      BY <1>2, <1>4, <2>1, Parts DEF IInv, ChildrenOwned, Waits
    <3> QED
      BY <1>2, <1>4, <3>1
  <2>2. ASSUME NEW s \in Runner, run'[s] # NoPid
        PROVE  child'[run'[s]] = s
    <3>1. CASE s = r
      BY <1>4, <1>5, <3>1
    <3>2. CASE s # r
      <4>1. run[s] \in Pid \ {p} /\ child[run[s]] = s /\ run'[s] = run[s]
        BY <1>4, <1>5, <2>2, <3>2, Parts DEF IInv, ChildrenOwned
      <4> QED
        BY <1>4, <4>1
    <3> QED
      BY <3>1, <3>2
  <2>3. ASSUME NEW q \in Pid, child'[q] # NoOne
        PROVE  \/ \E g \in Handle : proc'[g] # NoRecord /\ ~proc'[g].done /\ proc'[g].pid = q
               \/ \E s \in Runner : run'[s] = q
    <3>1. CASE q = p
      BY <1>5, <3>1
    <3>2. CASE q # p
      <4>1. child[q] # NoOne
        BY <1>4, <2>3, <3>2
      <4>2. ASSUME NEW s \in Runner, run[s] = q PROVE run'[s] = q
        <5>1. s # r
          BY <1>2, <4>2, EmptyValues
        <5> QED
          BY <1>5, <4>2, <5>1
      <4> QED
        BY <1>2, <4>1, <4>2 DEF IInv, ChildrenOwned
    <3> QED
      BY <3>1, <3>2
  <2> QED
    BY <2>1, <2>2, <2>3 DEF ChildrenOwned
<1>9. RecordInv' /\ CallInv'
  BY <1>2, <1>6 DEF IInv, RecordInv, CallInv, Waits
<1>10. AnswersTrue'
  BY <1>4 DEF AnswersTrue
<1> QED
  BY <1>7, <1>8, <1>9, <1>10 DEF IInv

-----------------------------------------------------------------------------
(* Calls *)

\* What the end of a call on h leaves behind.
LEMMA AnswersFacts ==
    ASSUME IInv, NEW h \in Handle, NEW c \in CallUnderWay, NEW ended \in BOOLEAN,
           NEW record \in Record, Answers(h, c, ended, record)
    PROVE  /\ call' \in [Handle -> CallUnderWay \cup {NoCall}]
           /\ proc' \in [Handle -> Record \cup {NoRecord}]
           /\ answer' \in Answer /\ answer' # NoAnswer
           /\ answer'.of = h /\ answer'.op = c.op /\ answer'.ended = ended
           /\ answer'.code = record.exit_code /\ answer'.ran = c.ran
           /\ call'[h] = NoCall
           /\ proc'[h] = IF c.op = "Close" /\ ended THEN NoRecord ELSE record
           /\ \A g \in Handle \ {h} : proc'[g] = proc[g] /\ call'[g] = call[g]
<1>1. /\ proc \in [Handle -> Record \cup {NoRecord}]
      /\ call \in [Handle -> CallUnderWay \cup {NoCall}]
  BY DEF IInv, TypeOK
<1>2. answer' = [of |-> h, op |-> c.op, ended |-> ended,
                 code |-> record.exit_code, ran |-> c.ran]
  BY DEF Answers
<1>3. h \in Owner /\ c.op \in Op /\ c.ran \in BOOLEAN /\ record.exit_code \in Int
  BY DEF Owner, CallUnderWay, Record
<1>4. answer' \in Answer
  BY <1>2, <1>3 DEF Answer
<1>5. answer' # NoAnswer
  BY <1>4, EmptyValues
<1> QED
  BY <1>1, <1>2, <1>4, <1>5 DEF Answers

\* A call that only answers: the handle is as before, or freed once its child
\* has been reaped.
LEMMA AnswerOnly ==
    ASSUME IInv, NEW h \in Handle, NEW c \in CallUnderWay, NEW ended \in BOOLEAN,
           proc[h] # NoRecord, Answers(h, c, ended, proc[h]),
           UNCHANGED <<child, fate, run>>,
           ended = proc[h].done,
           ~ended => c.ran /\ c.op # "WaitForever"
    PROVE  IInv'
<1>1. proc[h] \in Record /\ h \in Owner
  BY Parts DEF IInv
<1>2. /\ call' \in [Handle -> CallUnderWay \cup {NoCall}]
      /\ proc' \in [Handle -> Record \cup {NoRecord}]
      /\ answer' \in Answer /\ answer' # NoAnswer
      /\ answer'.of = h /\ answer'.op = c.op /\ answer'.ended = ended
      /\ answer'.code = proc[h].exit_code /\ answer'.ran = c.ran
      /\ call'[h] = NoCall
      /\ proc'[h] = IF c.op = "Close" /\ ended THEN NoRecord ELSE proc[h]
      /\ \A g \in Handle \ {h} : proc'[g] = proc[g] /\ call'[g] = call[g]
  BY <1>1, AnswersFacts
<1>3. \A g \in Handle : Waits(g)' <=> Waits(g)
  BY <1>2 DEF Waits
<1>4. \A g \in Handle : proc'[g] # NoRecord => proc'[g] = proc[g]
  BY <1>2
<1>5. \A g \in Handle : Waits(g) => proc'[g] = proc[g]
  BY <1>3, <1>4 DEF Waits
<1>6. TypeOK'
  BY <1>2 DEF IInv, TypeOK
<1>7. ChildrenOwned'
  BY <1>3, <1>4, <1>5 DEF IInv, ChildrenOwned, Waits
<1>8. RecordInv'
  BY <1>4 DEF IInv, RecordInv
<1>9. CallInv'
  BY <1>2, <1>3 DEF IInv, CallInv
<1>10. AnswersTrue'
  <2>1. CASE ended
    <3>1. fate[h] # Alive /\ proc[h].exit_code = CodeOf(fate[h])
      BY <2>1 DEF IInv, RecordInv
    <3> QED
      BY <1>2, <2>1, <3>1 DEF AnswersTrue
  <2>2. CASE ~ended
    BY <1>2, <2>2 DEF AnswersTrue
  <2> QED
    BY <2>1, <2>2
<1> QED
  BY <1>6, <1>7, <1>8, <1>9, <1>10 DEF IInv

\* A call that goes on.
LEMMA CallGoesOn ==
    ASSUME IInv, NEW h \in Handle, NEW c \in CallUnderWay,
           call' = [call EXCEPT ![h] = c],
           UNCHANGED <<child, fate, proc, run, answer>>,
           Waits(h), fate[h] = Alive \/ c.at = "clock" => c.ran,
           c.late => c.op = "WaitFor"
    PROVE  IInv'
<1>1. call \in [Handle -> CallUnderWay \cup {NoCall}]
  BY DEF IInv, TypeOK
<1>2. call'[h] = c /\ \A g \in Handle \ {h} : call'[g] = call[g]
  BY <1>1
<1>3. TypeOK'
  BY <1>1 DEF IInv, TypeOK
<1>4. ChildrenOwned' /\ RecordInv' /\ AnswersTrue'
  BY DEF IInv, ChildrenOwned, RecordInv, AnswersTrue
<1>5. CallInv'
  <2>1. \A g \in Handle : Waits(g)' <=> Waits(g)
    BY DEF Waits
  <2> QED
    BY <1>2, <2>1 DEF IInv, CallInv
<1> QED
  BY <1>3, <1>4, <1>5 DEF IInv

\* A call begins, and ends at once if the handle has recorded the end of the child.
LEMMA CallStep ==
    ASSUME IInv, NEW h \in Handle, NEW op \in Op, Call(h, op)
    PROVE  IInv'
<1> DEFINE c == [op |-> op, at |-> "test", ran |-> fate[h] = Alive, late |-> FALSE]
<1>1. c \in CallUnderWay /\ (fate[h] = Alive => c.ran) /\ ~c.late /\ c.at # "clock"
  BY DEF CallUnderWay
<1>2. proc[h] # NoRecord /\ call[h] = NoCall /\ UNCHANGED <<child, fate, run>>
  BY DEF Call
<1>3. IF proc[h].done
      THEN Answers(h, c, TRUE, proc[h])
      ELSE call' = [call EXCEPT ![h] = c] /\ UNCHANGED <<proc, answer>>
  BY DEF Call
<1> HIDE DEF c
<1>4. proc[h].done \in BOOLEAN
  BY <1>2, Parts DEF IInv
<1>5. CASE proc[h].done
  BY <1>1, <1>2, <1>3, <1>4, <1>5, AnswerOnly
<1>6. CASE ~proc[h].done
  <2>1. Waits(h) /\ call' = [call EXCEPT ![h] = c]
    BY <1>2, <1>3, <1>6 DEF Waits
  <2>2. UNCHANGED <<child, fate, proc, run, answer>>
    BY <1>2, <1>3, <1>6
  <2> QED
    BY <1>1, <2>1, <2>2, CallGoesOn
<1> QED
  BY <1>5, <1>6

\* The child of the handle is alive still.
LEMMA FruitlessStep ==
    ASSUME IInv, NEW h \in Handle, Fruitless(h)
    PROVE  IInv'
<1>1. /\ call[h] # NoCall /\ call[h] \in CallUnderWay /\ proc[h] # NoRecord
      /\ proc[h].done = FALSE /\ child[proc[h].pid] = h /\ fate[h] = Alive
      /\ call[h].at = "test"
  BY UnderWay, Parts DEF Fruitless, IInv
<1>2. UNCHANGED <<child, fate, run>> /\ h # NoOne
  BY EmptyValues DEF Fruitless, Owner
<1>3. call[h].ran /\ (call[h].late => call[h].op = "WaitFor") /\ Waits(h)
  BY <1>1 DEF IInv, CallInv
<1>4. CASE call[h].op \in Brief
  <2>1. Answers(h, call[h], FALSE, proc[h])
    BY <1>4 DEF Fruitless
  <2>2. call[h].op # "WaitForever"
    BY <1>4 DEF Brief
  <2> QED
    BY <1>1, <1>2, <1>3, <2>1, <2>2, AnswerOnly
<1>5. CASE call[h].op \notin Brief
  <2> DEFINE c == [call[h] EXCEPT !.at = "clock"]
  <2>1. call' = [call EXCEPT ![h] = c] /\ UNCHANGED <<proc, answer>>
    BY <1>1, <1>2, <1>5 DEF Fruitless
  <2>2. c \in CallUnderWay /\ c.ran /\ (c.late => c.op = "WaitFor")
    BY <1>1, <1>3 DEF CallUnderWay
  <2> HIDE DEF c
  <2> QED
    BY <1>2, <1>3, <2>1, <2>2, CallGoesOn
<1> QED
  BY <1>4, <1>5

\* The deadline passes, a wait gives up, a wait sleeps.
LEMMA ClockStep ==
    ASSUME IInv, NEW h \in Handle, Deadline(h) \/ GiveUp(h) \/ Sleep(h)
    PROVE  IInv'
<1>1. /\ call[h] # NoCall /\ call[h] \in CallUnderWay /\ proc[h] # NoRecord
      /\ proc[h].done = FALSE
  BY UnderWay, Parts DEF Deadline, GiveUp, Sleep, IInv
<1>2. /\ Waits(h) /\ (call[h].late => call[h].op = "WaitFor")
      /\ fate[h] = Alive \/ call[h].at = "clock" => call[h].ran
  BY <1>1 DEF IInv, CallInv
<1>3. CASE Deadline(h)
  <2> DEFINE c == [call[h] EXCEPT !.late = TRUE]
  <2>1. call' = [call EXCEPT ![h] = c] /\ UNCHANGED <<child, fate, proc, run, answer>>
    BY <1>3 DEF Deadline
  <2>2. /\ c \in CallUnderWay /\ c.op = "WaitFor"
        /\ fate[h] = Alive \/ c.at = "clock" => c.ran
    BY <1>1, <1>2, <1>3 DEF CallUnderWay, Deadline
  <2> HIDE DEF c
  <2> QED
    BY <1>2, <2>1, <2>2, CallGoesOn
<1>4. CASE GiveUp(h)
  <2>1. /\ Answers(h, call[h], FALSE, proc[h]) /\ UNCHANGED <<child, fate, run>>
        /\ call[h].at = "clock" /\ call[h].late
    BY <1>4 DEF GiveUp
  <2>2. call[h].ran /\ call[h].op # "WaitForever"
    BY <1>2, <2>1
  <2> QED
    BY <1>1, <2>1, <2>2, AnswerOnly
<1>5. CASE Sleep(h)
  <2> DEFINE c == [call[h] EXCEPT !.at = "test"]
  <2>1. call' = [call EXCEPT ![h] = c] /\ UNCHANGED <<child, fate, proc, run, answer>>
    BY <1>5 DEF Sleep
  <2>2. c \in CallUnderWay /\ c.ran /\ (c.late => c.op = "WaitFor")
    BY <1>1, <1>2, <1>5 DEF CallUnderWay, Sleep
  <2> HIDE DEF c
  <2> QED
    BY <1>2, <2>1, <2>2, CallGoesOn
<1> QED
  BY <1>3, <1>4, <1>5

-----------------------------------------------------------------------------
(* waitpid returns a pid *)

\* A pid that is reaped is one that a handle, or a run, and no other waits for.
LEMMA ReapedFacts ==
    ASSUME IInv, NEW p \in Pid, child[p] # NoOne, Reaped(p)
    PROVE  /\ child' \in [Pid -> Owner \cup {NoOne}] /\ child'[p] = NoOne
           /\ \A q \in Pid \ {p} : child'[q] = child[q]
           /\ \A h \in Handle : Waits(h) /\ h # child[p] => proc[h].pid \in Pid \ {p}
           /\ \A r \in Runner : run[r] # NoPid /\ r # child[p] => run[r] \in Pid \ {p}
<1>1. child \in [Pid -> Owner \cup {NoOne}] /\ child' = [child EXCEPT ![p] = NoOne]
  BY DEF IInv, TypeOK, Reaped
<1>2. \A h \in Handle : Waits(h) => proc[h].pid \in Pid /\ child[proc[h].pid] = h
  BY Parts DEF IInv, ChildrenOwned, Waits
<1>3. \A r \in Runner : run[r] # NoPid => run[r] \in Pid /\ child[run[r]] = r
  BY Parts DEF IInv, ChildrenOwned
<1> QED
  BY <1>1, <1>2, <1>3

\* The handle records how its child ended.
LEMMA ReapStep ==
    ASSUME IInv, NEW h \in Handle, Reap(h)
    PROVE  IInv'
<1> DEFINE p == proc[h].pid
           c == call[h]
           record == [proc[h] EXCEPT !.done = TRUE, !.exit_code = CodeOf(fate[child[p]])]
<1>1. /\ c # NoCall /\ c \in CallUnderWay /\ proc[h] # NoRecord /\ ~proc[h].done
      /\ proc[h] \in Record /\ p \in Pid /\ child[p] = h /\ h \in Owner /\ fate[h] # Alive
  BY UnderWay DEF Reap
<1>2. Answers(h, c, TRUE, record) /\ Reaped(p) /\ UNCHANGED <<fate, run>>
  BY DEF Reap
<1>3. record \in Record /\ record.done /\ record.exit_code = CodeOf(fate[h])
  <2>1. fate[h] \in Status
    BY <1>1, Parts DEF IInv
  <2>2. CodeOf(fate[h]) \in Int
    BY <2>1, StatusValues
  <2> QED
    BY <1>1, <2>2 DEF Record
<1>4. h # NoOne /\ h \notin Runner
  BY EmptyValues, ConstantsAssumption DEF Owner
<1> HIDE DEF p, c, record
<1>5. /\ child' \in [Pid -> Owner \cup {NoOne}] /\ child'[p] = NoOne
      /\ \A q \in Pid \ {p} : child'[q] = child[q]
      /\ \A g \in Handle : Waits(g) /\ g # h => proc[g].pid \in Pid \ {p}
      /\ \A r \in Runner : run[r] # NoPid => run[r] \in Pid \ {p}
  BY <1>1, <1>2, <1>4, ReapedFacts
<1>6. /\ call' \in [Handle -> CallUnderWay \cup {NoCall}]
      /\ proc' \in [Handle -> Record \cup {NoRecord}]
      /\ answer' \in Answer /\ answer' # NoAnswer
      /\ answer'.of = h /\ answer'.ended = TRUE /\ answer'.code = record.exit_code
      /\ call'[h] = NoCall /\ proc'[h] \in {NoRecord, record}
      /\ \A g \in Handle \ {h} : proc'[g] = proc[g] /\ call'[g] = call[g]
  <2>1. \A b \in BOOLEAN : Answers(h, c, b, record) =>
          /\ call' \in [Handle -> CallUnderWay \cup {NoCall}]
          /\ proc' \in [Handle -> Record \cup {NoRecord}]
          /\ answer' \in Answer /\ answer' # NoAnswer
          /\ answer'.of = h /\ answer'.ended = b /\ answer'.code = record.exit_code
          /\ call'[h] = NoCall
          /\ proc'[h] = IF c.op = "Close" /\ b THEN NoRecord ELSE record
          /\ \A g \in Handle \ {h} : proc'[g] = proc[g] /\ call'[g] = call[g]
    BY <1>1, <1>3, AnswersFacts
  <2> QED
    BY <1>2, <2>1
<1>7. \A g \in Handle : Waits(g)' <=> Waits(g) /\ g # h
  BY <1>3, <1>6 DEF Waits
<1>8. TypeOK'
  BY <1>2, <1>5, <1>6 DEF IInv, TypeOK
<1>9. ChildrenOwned'
  <2>1. ASSUME NEW g \in Handle, proc'[g] # NoRecord, ~proc'[g].done
        PROVE  child'[proc'[g].pid] = g
    <3>1. Waits(g) /\ g # h /\ proc'[g] = proc[g]
      BY <1>6, <1>7, <2>1 DEF Waits
    <3>2. proc[g].pid \in Pid \ {p} /\ child[proc[g].pid] = g
      BY <1>5, <3>1 DEF IInv, ChildrenOwned, Waits
    <3> QED
      BY <1>5, <3>1, <3>2
  <2>2. ASSUME NEW r \in Runner, run'[r] # NoPid
        PROVE  child'[run'[r]] = r
    BY <1>2, <1>5, <2>2 DEF IInv, ChildrenOwned
  <2>3. ASSUME NEW q \in Pid, child'[q] # NoOne
        PROVE  \/ \E g \in Handle : proc'[g] # NoRecord /\ ~proc'[g].done /\ proc'[g].pid = q
               \/ \E r \in Runner : run'[r] = q
    <3>1. q # p /\ child[q] # NoOne
      BY <1>5, <2>3
    <3>2. ASSUME NEW g \in Handle, Waits(g), proc[g].pid = q
          PROVE  proc'[g] # NoRecord /\ ~proc'[g].done /\ proc'[g].pid = q
      <4>1. g # h
        BY <3>1, <3>2 DEF p
      <4> QED
        BY <1>6, <3>2, <4>1 DEF Waits
    <3> QED
      BY <1>2, <3>1, <3>2 DEF IInv, ChildrenOwned, Waits
  <2> QED
    BY <2>1, <2>2, <2>3 DEF ChildrenOwned
<1>10. RecordInv'
  <2> SUFFICES ASSUME NEW g \in Handle, proc'[g] # NoRecord, proc'[g].done
               PROVE  fate'[g] # Alive /\ proc'[g].exit_code = CodeOf(fate'[g])
    BY DEF RecordInv
  <2>1. CASE g = h
    BY <1>1, <1>2, <1>3, <1>6, <2>1
  <2>2. CASE g # h
    BY <1>2, <1>6, <2>2 DEF IInv, RecordInv
  <2> QED
    BY <2>1, <2>2
<1>11. CallInv'
  BY <1>2, <1>6, <1>7 DEF IInv, CallInv
<1>12. AnswersTrue'
  BY <1>1, <1>2, <1>3, <1>6 DEF AnswersTrue
<1> QED
  BY <1>8, <1>9, <1>10, <1>11, <1>12 DEF IInv

\* A run ends with the child that it started.
LEMMA RunEndsStep ==
    ASSUME IInv, NEW r \in Runner, RunEnds(r)
    PROVE  IInv'
<1> DEFINE p == run[r]
<1>1. /\ p # NoPid /\ ~Runs(p) /\ Reaped(p) /\ run' = [run EXCEPT ![r] = NoPid]
      /\ UNCHANGED <<fate, proc, call>>
      /\ answer' = [of |-> r, op |-> "ProcessRun", ended |-> TRUE, ran |-> TRUE,
                    code |-> IF child[p] = NoOne THEN -1 ELSE CodeOf(fate[child[p]])]
  BY DEF RunEnds
<1>2. p \in Pid /\ child[p] = r /\ r \in Owner
  BY <1>1, Parts DEF IInv, ChildrenOwned
<1>3. r # NoOne /\ r \notin Handle
  BY EmptyValues, ConstantsAssumption DEF Owner
<1> HIDE DEF p
<1>4. fate[r] # Alive
  BY <1>1, <1>2, <1>3 DEF Runs
<1>5. answer' = [of |-> r, op |-> "ProcessRun", ended |-> TRUE, ran |-> TRUE,
                 code |-> CodeOf(fate[r])]
  BY <1>1, <1>2, <1>3
<1>6. fate[r] \in Status /\ CodeOf(fate[r]) \in Int
  <2>1. fate[r] \in Status
    BY <1>2, <1>4 DEF IInv, TypeOK
  <2> QED
    BY <2>1, StatusValues
<1>7. /\ child' \in [Pid -> Owner \cup {NoOne}] /\ child'[p] = NoOne
      /\ \A q \in Pid \ {p} : child'[q] = child[q]
      /\ \A h \in Handle : Waits(h) => proc[h].pid \in Pid \ {p}
      /\ \A s \in Runner : run[s] # NoPid /\ s # r => run[s] \in Pid \ {p}
  BY <1>1, <1>2, <1>3, ReapedFacts
<1>8. /\ run' \in [Runner -> Pid \cup {NoPid}] /\ run'[r] = NoPid
      /\ \A s \in Runner \ {r} : run'[s] = run[s]
  BY <1>1 DEF IInv, TypeOK
<1>9. TypeOK'
  <2>1. answer' \in Answer
    BY <1>2, <1>5, <1>6 DEF Answer
  <2> QED
    BY <1>1, <1>7, <1>8, <2>1 DEF IInv, TypeOK
<1>10. ChildrenOwned'
  <2>1. ASSUME NEW h \in Handle, proc'[h] # NoRecord, ~proc'[h].done
        PROVE  child'[proc'[h].pid] = h
    BY <1>1, <1>7, <2>1 DEF IInv, ChildrenOwned, Waits
  <2>2. ASSUME NEW s \in Runner, run'[s] # NoPid
        PROVE  child'[run'[s]] = s
    <3>1. s # r /\ run'[s] = run[s]
      BY <1>8, <2>2
    <3> QED
      BY <1>7, <2>2, <3>1 DEF IInv, ChildrenOwned
  <2>3. ASSUME NEW q \in Pid, child'[q] # NoOne
        PROVE  \/ \E h \in Handle : proc'[h] # NoRecord /\ ~proc'[h].done /\ proc'[h].pid = q
               \/ \E s \in Runner : run'[s] = q
    <3>1. q # p /\ child[q] # NoOne
      BY <1>7, <2>3
    <3>2. ASSUME NEW s \in Runner, run[s] = q PROVE run'[s] = q
      <4>1. s # r
        BY <3>1, <3>2 DEF p
      <4> QED
        BY <1>8, <3>2, <4>1
    <3> QED
      BY <1>1, <3>1, <3>2 DEF IInv, ChildrenOwned
  <2> QED
    BY <2>1, <2>2, <2>3 DEF ChildrenOwned
<1>11. RecordInv' /\ CallInv'
  BY <1>1 DEF IInv, RecordInv, CallInv, Waits
<1>12. AnswersTrue'
  BY <1>1, <1>4, <1>5 DEF AnswersTrue
<1> QED
  BY <1>9, <1>10, <1>11, <1>12 DEF IInv

-----------------------------------------------------------------------------

\* The invariant holds throughout.
THEOREM Invariance == Spec => []IInv
<1>1. IInv /\ [Next]_vars => IInv'
  <2> SUFFICES ASSUME IInv, [Next]_vars PROVE IInv'
    OBVIOUS
  <2>1. CASE UNCHANGED vars
    <3>1. UNCHANGED <<child, fate, proc, call, run, answer>>
      BY <2>1 DEF vars
    <3>2. TypeOK' /\ ChildrenOwned'
      BY <3>1 DEF IInv, TypeOK, ChildrenOwned
    <3>3. RecordInv' /\ CallInv' /\ AnswersTrue'
      BY <3>1 DEF IInv, RecordInv, CallInv, Waits, AnswersTrue
    <3> QED
      BY <3>2, <3>3 DEF IInv
  <2>2. CASE \E p \in Pid : Exit(p)
    BY <2>2, ExitStep
  <2>3. CASE \E h \in Handle : Spawn(h)
    BY <2>3, SpawnStep
  <2>4. CASE \E h \in Handle, op \in Op : Call(h, op)
    BY <2>4, CallStep
  <2>5. CASE \E h \in Handle : Reap(h)
    BY <2>5, ReapStep
  <2>6. CASE \E h \in Handle : Fruitless(h)
    BY <2>6, FruitlessStep
  <2>7. CASE \E h \in Handle : Deadline(h) \/ GiveUp(h) \/ Sleep(h)
    BY <2>7, ClockStep
  <2>8. CASE \E r \in Runner : RunFork(r)
    BY <2>8, RunForkStep
  <2>9. CASE \E r \in Runner : RunEnds(r)
    BY <2>9, RunEndsStep
  <2> QED
    BY <2>1, <2>2, <2>3, <2>4, <2>5, <2>6, <2>7, <2>8, <2>9 DEF Next
<1> QED
  BY InitInv, <1>1, PTL DEF Spec

\* The records, the calls and the answers have their types.
THEOREM TypeCorrect == Spec => []TypeOK
BY Invariance, PTL DEF IInv

\* Whatever pids are reused, in whatever order handles are asked: what IO.Async
\* and ProcessRun answer about a child is true of that child.
THEOREM AnswersRight == Spec => []AnswersTrue
BY Invariance, PTL DEF IInv

\* No handle waits for the child of another, and no child is forgotten.
THEOREM ChildrenKept == Spec => []ChildrenOwned
BY Invariance, PTL DEF IInv

\* The action property, step by step.
LEMMA HandlesKept == IInv /\ [Next]_vars => HandlesStep
<1> SUFFICES ASSUME IInv, [Next]_vars, NEW g \in Handle, proc[g] # NoRecord,
                    proc'[g] # proc[g]
             PROVE  HandleStep(g)
  BY DEF HandlesStep, HandleStep
<1>1. proc[g] \in Record
  BY Parts DEF IInv
<1>2. ASSUME NEW h \in Handle, Spawn(h)
      PROVE  HandleStep(g)
  BY <1>2 DEF Spawn, IInv, TypeOK
<1>3. ASSUME NEW h \in Handle, NEW op \in Op, Call(h, op)
      PROVE  HandleStep(g)
  <2> DEFINE c == [op |-> op, at |-> "test", ran |-> fate[h] = Alive, late |-> FALSE]
  <2>1. proc[h] # NoRecord /\ proc[h].done /\ Answers(h, c, TRUE, proc[h])
    BY <1>3 DEF Call
  <2>2. g = h
    BY <2>1 DEF Answers, IInv, TypeOK
  <2>3. proc'[g] \in {NoRecord, proc[g]}
    BY <2>1, <2>2 DEF Answers, IInv, TypeOK
  <2>4. fate[g] # Alive
    BY <2>1, <2>2 DEF IInv, RecordInv
  <2> QED
    BY <2>3, <2>4 DEF HandleStep
<1>4. ASSUME NEW h \in Handle, Reap(h)
      PROVE  HandleStep(g)
  <2>1. Answers(h, call[h], TRUE, [proc[h] EXCEPT !.done = TRUE,
                               !.exit_code = CodeOf(fate[child[proc[h].pid]])])
    BY <1>4 DEF Reap
  <2>2. g = h
    BY <2>1 DEF Answers, IInv, TypeOK
  <2>3. fate[g] # Alive /\ ~proc[g].done
    BY <1>4, <2>2, UnderWay DEF Reap
  <2>4. proc'[g] = NoRecord \/ proc'[g].pid = proc[g].pid
    BY <1>1, <2>1, <2>2 DEF Answers, IInv, TypeOK, Record
  <2> QED
    BY <2>3, <2>4 DEF HandleStep
<1>5. ASSUME NEW h \in Handle, Fruitless(h) \/ GiveUp(h)
      PROVE  HandleStep(g)
  <2>1. UNCHANGED proc \/ Answers(h, call[h], FALSE, proc[h])
    BY <1>5 DEF Fruitless, GiveUp
  <2>2. proc' = [proc EXCEPT ![h] = proc[h]]
    BY <2>1 DEF Answers, IInv, TypeOK
  <2> QED
    BY <2>2 DEF IInv, TypeOK
<1>6. CASE \/ UNCHANGED vars \/ \E p \in Pid : Exit(p)
           \/ \E h \in Handle : Deadline(h) \/ Sleep(h)
           \/ \E r \in Runner : RunFork(r) \/ RunEnds(r)
  BY <1>6 DEF vars, Exit, Deadline, Sleep, RunFork, RunEnds
<1> QED
  BY <1>2, <1>3, <1>4, <1>5, <1>6 DEF Next

\* A handle speaks of one child: its record, once made, is final, and Close does
\* not free the memory of a handle whose child is alive.
THEOREM HandlesFaithful == Spec => [][HandlesStep]_vars
BY Invariance, HandlesKept, PTL DEF Spec
=============================================================================
