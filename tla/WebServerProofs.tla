-------------------------- MODULE WebServerProofs --------------------------
(* What WebServer keeps for any number of workers, routes and starts.      *)
EXTENDS WebServer, TLAPS

USE DEF serverVars, mainVars, requestVars, GoTo, Reply

\* One Stop is under way at a time.  A handler only stops a context, and one
\* of Main or of a Task drains it unless it found none.
StopInv ==
    /\ main = "mg_start" => ctx = "none"
    /\ main = "stop" => stopper = Main
    /\ stopper = Main => main \in {"stop", "gone"}
    /\ stopper \in Worker => ctx = "draining"
    /\ ctx = "up" => stopper \in {NoThread, Task}
    /\ ctx = "draining" => stopper # NoThread

LibraryInv == libRefs = IF ctx # "none" \/ main = "mg_start" THEN 1 ELSE 0

\* No request is under way without a context, and a handler that stops the
\* server does not come back.
BusyInv ==
    /\ ctx = "none" => \A w \in Worker : pc[w] = "idle"
    /\ stopper \in Worker => pc[stopper] = "stopping"

\* How the handler ended and what was sent fit together.
Answered(w) ==
    \/ sent[w] = "text"
    \/ sent[w] = "204" /\ did[w] = "returned"
    \/ sent[w] = "500" /\ did[w] = "threw"

\* A clean request on its way through the dispatcher.
CleanInv(w) ==
    clean[w] =>
        /\ handle = "registered"
        /\ pc[w] = "enter" => ~exc[w]
        /\ path[w] \in Route =>
              /\ pc[w] = "handler" => sent[w] \in {"nothing", "text"}
              /\ pc[w] = "error" =>
                    \/ sent[w] = "text"
                    \/ sent[w] = "nothing" /\ (did[w] = "threw" \/ ~alive[w])
              /\ pc[w] \in {"return", "end"} /\ alive[w] => Answered(w)

RequestInv(w) ==
    /\ pc[w] \in {"enter", "route"} => sent[w] = "nothing"
    /\ pc[w] = "end" /\ alive[w] => sent[w] # "nothing"
    /\ pc[w] = "idle" => alive[w]
    /\ ~alive[w] => w \in lost
    /\ exc[w] => w \in lost
    /\ CleanInv(w)

IInv ==
    /\ TypeOK
    /\ StopInv /\ LibraryInv /\ BusyInv
    /\ \A w \in Worker : RequestInv(w)

ServerInv == StopInv /\ LibraryInv /\ BusyInv

\* Steps of Start, Wait and Stop touch no request.
MainNext ==
    \/ \E l \in {"run", "wait"} : CallStart(l)
    \/ Starting \/ CallWait \/ WaitEnds \/ Exit
    \/ \E t \in {Main, Task} : CallStop(t)
    \/ Join \/ EndStop

-----------------------------------------------------------------------------

\* The program starts in order.
LEMMA InitInv == Init => IInv
  <1> SUFFICES ASSUME Init PROVE IInv
    OBVIOUS
  <1>1. TypeOK
    <2>1. path \in [Worker -> Path] BY DEF Init, Path
    <2> QED BY <2>1 DEF Init, TypeOK
  <1>2. StopInv /\ LibraryInv /\ BusyInv
    BY WebConstants DEF Init, StopInv, LibraryInv, BusyInv
  <1>3. ASSUME NEW w \in Worker PROVE RequestInv(w)
    BY DEF Init, RequestInv, CleanInv
  <1> QED BY <1>1, <1>2, <1>3 DEF IInv

\* Steps of the server keep the types and the order of starting and stopping.
LEMMA MainStep == TypeOK /\ ServerInv /\ MainNext => TypeOK' /\ ServerInv'
  <1> SUFFICES ASSUME TypeOK, ServerInv, MainNext PROVE TypeOK' /\ ServerInv'
    OBVIOUS
  <1> USE WebConstants DEF TypeOK, ServerInv, StopInv, LibraryInv, BusyInv
  <1>1. ASSUME NEW l \in {"run", "wait"}, CallStart(l) PROVE TypeOK' /\ ServerInv'
    BY <1>1 DEF CallStart
  <1>2. CASE AlreadyStarted BY <1>2 DEF AlreadyStarted
  <1>3. CASE RetainLibrary BY <1>3 DEF RetainLibrary
  <1>4. CASE StartFails BY <1>4 DEF StartFails
  <1>5. CASE StartContext BY <1>5 DEF StartContext
  <1>6. CASE SetRequestHandler BY <1>6 DEF SetRequestHandler
  <1>7. CASE Announce BY <1>7 DEF Announce
  <1>8. CASE CallWait BY <1>8 DEF CallWait
  <1>9. CASE WaitEnds BY <1>9 DEF WaitEnds
  <1>10. CASE Exit BY <1>10 DEF Exit
  <1>11. ASSUME NEW t \in {Main, Task}, CallStop(t) PROVE TypeOK' /\ ServerInv'
    BY <1>11 DEF CallStop, BeginStop
  <1>12. CASE MarkStarted BY <1>12 DEF MarkStarted
  <1>13. CASE Join
    <2>1. ctx # "none" /\ libRefs = 1 /\ libRefs' = 0 /\ ctx' = "none" BY <1>13 DEF Join
    <2>2. TypeOK' BY <1>13, <2>1 DEF Join
    <2>3. main # "mg_start" BY <2>1
    <2>4. ServerInv' BY <1>13, <2>1, <2>3 DEF Join
    <2> QED BY <2>2, <2>4
  <1>14. CASE EndStop BY <1>14 DEF EndStop, Up
  <1> QED
    BY <1>1, <1>2, <1>3, <1>4, <1>5, <1>6, <1>7, <1>8, <1>9, <1>10, <1>11, <1>12,
       <1>13, <1>14 DEF MainNext, Starting

\* They leave every request as it is, but that the threads of a context end
\* with it, and no server loses its registration.
LEMMA MainFrame ==
  ASSUME TypeOK, MainNext, NEW w \in Worker, RequestInv(w) PROVE RequestInv(w)'
  <1>1. UNCHANGED <<pc, path, alive, sent, did, clean>>
    BY DEF MainNext, Starting, CallStart, AlreadyStarted, RetainLibrary, StartFails,
           StartContext, SetRequestHandler, Announce, MarkStarted, CallWait, WaitEnds,
           Exit, CallStop, Join, EndStop
  <1>2. handle = "registered" => handle' = "registered"
    BY DEF MainNext, Starting, CallStart, AlreadyStarted, RetainLibrary, StartFails,
           StartContext, SetRequestHandler, Announce, MarkStarted, CallWait, WaitEnds,
           Exit, CallStop, BeginStop, Join, EndStop
  <1>3. UNCHANGED <<exc, lost>> \/ (~exc'[w] /\ alive[w])
    <2>1. CASE Join BY <2>1 DEF Join, RequestInv
    <2>2. CASE ~Join
      BY <2>2 DEF MainNext, Starting, CallStart, AlreadyStarted, RetainLibrary,
             StartFails, StartContext, SetRequestHandler, Announce, MarkStarted,
             CallWait, WaitEnds, Exit, CallStop, EndStop
    <2> QED BY <2>1, <2>2
  <1> QED BY <1>1, <1>2, <1>3 DEF RequestInv, CleanInv, Answered

-----------------------------------------------------------------------------

\* What every step of a worker has in common: the other requests stay as they
\* are, and but for a Stop so does the server.
Local(w) ==
    /\ UNCHANGED <<mainVars, handle, hooked, libRefs>>
    /\ lost \subseteq lost'
    /\ \A v \in Worker \ {w} :
          /\ pc'[v] = pc[v] /\ path'[v] = path[v] /\ alive'[v] = alive[v]
          /\ sent'[v] = sent[v] /\ exc'[v] = exc[v] /\ did'[v] = did[v]
          /\ clean'[v] = clean[v]

\* The requests of the other workers keep their part of the invariant.
LEMMA LocalStep ==
  ASSUME NEW w \in Worker, Local(w), NEW v \in Worker \ {w}, RequestInv(v)
  PROVE  RequestInv(v)'
  BY DEF Local, RequestInv, CleanInv, Answered

\* A step that leaves the server as it is and moves a worker that is neither
\* idle nor in Stop keeps the server's part of the invariant.
LEMMA QuietServer ==
  ASSUME ServerInv, NEW w \in Worker, pc[w] # "idle", pc[w] # "stopping",
         TypeOK, TypeOK', Local(w), UNCHANGED <<ctx, running, stopper>>
  PROVE  ServerInv'
  BY WebConstants DEF ServerInv, StopInv, LibraryInv, BusyInv, Local, TypeOK

\* A request arrives.
LEMMA AcceptStep ==
  ASSUME IInv, NEW w \in Worker, NEW p \in Path, Accept(w, p)
  PROVE  TypeOK' /\ ServerInv' /\ Local(w) /\ RequestInv(w)'
  <1>1. TypeOK' BY DEF Accept, IInv, TypeOK
  <1>2. Local(w) BY DEF Accept, Local, IInv, TypeOK
  <1>3. ServerInv'
    BY <1>2, WebConstants
    DEF Accept, ServerInv, IInv, StopInv, LibraryInv, BusyInv, TypeOK
  <1>4. RequestInv(w)'
    BY DEF Accept, IInv, TypeOK, RequestInv, CleanInv, Answered
  <1> QED BY <1>1, <1>2, <1>3, <1>4

\* The client goes away.
LEMMA LoseStep ==
  ASSUME IInv, NEW w \in Worker, LoseConnection(w)
  PROVE  TypeOK' /\ ServerInv' /\ Local(w) /\ RequestInv(w)'
  <1>1. TypeOK' BY DEF LoseConnection, IInv, TypeOK
  <1>2. Local(w) BY DEF LoseConnection, Local, IInv, TypeOK
  <1>3. ServerInv'
    BY <1>2, WebConstants
    DEF LoseConnection, ServerInv, IInv, StopInv, LibraryInv, BusyInv
  <1>4. RequestInv(w)'
    BY DEF LoseConnection, IInv, TypeOK, RequestInv, CleanInv, Answered
  <1> QED BY <1>1, <1>2, <1>3, <1>4

\* The steps of a worker that change nothing but its request.
OwnStep(w) ==
    \/ Enter(w) \/ FindRoute(w) \/ HandlerSends(w) \/ HandlerThrows(w)
    \/ HandlerReturns(w) \/ HandleCurrentError(w) \/ DispatcherReturns(w)
    \/ EndRequest(w)

\* They keep the types.
LEMMA OwnType == ASSUME TypeOK, NEW w \in Worker, OwnStep(w) PROVE TypeOK'
  <1> USE DEF TypeOK, Unchanged, SendThen
  <1>1. CASE Enter(w) BY <1>1 DEF Enter
  <1>2. CASE FindRoute(w) BY <1>2 DEF FindRoute
  <1>3. CASE HandlerSends(w) BY <1>3 DEF HandlerSends
  <1>4. CASE HandlerThrows(w) BY <1>4 DEF HandlerThrows
  <1>5. CASE HandlerReturns(w) BY <1>5 DEF HandlerReturns
  <1>6. CASE HandleCurrentError(w)
    <2>1. sent' \in [Worker -> {"nothing", "text", "file", "204", "404", "500"}]
      BY <1>6 DEF HandleCurrentError
    <2>2. exc' \in [Worker -> BOOLEAN] BY <1>6 DEF HandleCurrentError
    <2>3. pc' \in [Worker -> {"idle", "enter", "route", "handler", "stopping", "error",
                             "return", "end"}]
      BY <1>6 DEF HandleCurrentError
    <2>4. UNCHANGED <<mainVars, serverVars, stopper, path, alive, clean, lost, did>>
      BY <1>6 DEF HandleCurrentError
    <2> QED BY <2>1, <2>2, <2>3, <2>4
  <1>7. CASE DispatcherReturns(w) BY <1>7 DEF DispatcherReturns
  <1>8. CASE EndRequest(w) BY <1>8 DEF EndRequest, Path
  <1> QED BY <1>1, <1>2, <1>3, <1>4, <1>5, <1>6, <1>7, <1>8 DEF OwnStep

\* They are the steps of a worker that is in a request.
LEMMA OwnLocal ==
  ASSUME TypeOK, NEW w \in Worker, OwnStep(w)
  PROVE  /\ Local(w) /\ UNCHANGED <<ctx, running, stopper>>
         /\ pc[w] # "idle" /\ pc[w] # "stopping"
  <1> USE DEF TypeOK, Unchanged, SendThen, Local
  <1>1. CASE Enter(w) BY <1>1 DEF Enter
  <1>2. CASE FindRoute(w) BY <1>2 DEF FindRoute
  <1>3. CASE HandlerSends(w) BY <1>3 DEF HandlerSends
  <1>4. CASE HandlerThrows(w) BY <1>4 DEF HandlerThrows
  <1>5. CASE HandlerReturns(w) BY <1>5 DEF HandlerReturns
  <1>6. CASE HandleCurrentError(w) BY <1>6 DEF HandleCurrentError
  <1>7. CASE DispatcherReturns(w) BY <1>7 DEF DispatcherReturns
  <1>8. CASE EndRequest(w) BY <1>8 DEF EndRequest
  <1> QED BY <1>1, <1>2, <1>3, <1>4, <1>5, <1>6, <1>7, <1>8 DEF OwnStep

\* They answer the request as they should.
LEMMA OwnRequest ==
  ASSUME TypeOK, NEW w \in Worker, RequestInv(w), OwnStep(w)
  PROVE  RequestInv(w)'
  <1> USE DEF TypeOK, Unchanged, SendThen, CanSend, Replied, RequestInv, CleanInv,
              Answered
  <1>1. CASE Enter(w) BY <1>1 DEF Enter
  <1>2. CASE FindRoute(w) BY <1>2, WebConstants DEF FindRoute
  <1>3. CASE HandlerSends(w) BY <1>3 DEF HandlerSends
  <1>4. CASE HandlerThrows(w) BY <1>4 DEF HandlerThrows
  <1>5. CASE HandlerReturns(w) BY <1>5 DEF HandlerReturns
  <1>6. CASE HandleCurrentError(w) BY <1>6 DEF HandleCurrentError
  <1>7. CASE DispatcherReturns(w) BY <1>7 DEF DispatcherReturns
  <1>8. CASE EndRequest(w) BY <1>8, WebConstants DEF EndRequest
  <1> QED BY <1>1, <1>2, <1>3, <1>4, <1>5, <1>6, <1>7, <1>8 DEF OwnStep

\* A handler that calls Stop stays in it.
LEMMA StopsStep ==
  ASSUME IInv, NEW w \in Worker, HandlerStops(w)
  PROVE  TypeOK' /\ ServerInv' /\ Local(w) /\ RequestInv(w)'
  <1> USE DEF HandlerStops, BeginStop
  <1>1. TypeOK' BY DEF IInv, TypeOK
  <1>2. Local(w) BY DEF Local, IInv, TypeOK
  <1>3. ServerInv'
    BY WebConstants DEF ServerInv, IInv, StopInv, LibraryInv, BusyInv, TypeOK
  <1>4. RequestInv(w)' BY DEF IInv, TypeOK, RequestInv, CleanInv, Answered
  <1> QED BY <1>1, <1>2, <1>3, <1>4

\* A step of a worker keeps the invariant.
LEMMA WorkerStep ==
  ASSUME IInv, NEW w \in Worker,
         (\E p \in Path : Accept(w, p)) \/ LoseConnection(w) \/ Dispatch(w)
  PROVE  IInv'
  <1>1. TypeOK' /\ ServerInv' /\ Local(w) /\ RequestInv(w)'
    <2>1. CASE \E p \in Path : Accept(w, p) BY <2>1, AcceptStep
    <2>2. CASE LoseConnection(w) BY <2>2, LoseStep
    <2>3. CASE HandlerStops(w) BY <2>3, StopsStep
    <2>4. CASE OwnStep(w)
      <3>1. TypeOK /\ ServerInv /\ RequestInv(w) BY DEF IInv, ServerInv
      <3>2. TypeOK' BY <3>1, <2>4, OwnType
      <3>3. Local(w) /\ ServerInv' BY <3>1, <3>2, <2>4, OwnLocal, QuietServer
      <3>4. RequestInv(w)' BY <3>1, <2>4, OwnRequest
      <3> QED BY <3>2, <3>3, <3>4
    <2> QED BY <2>1, <2>2, <2>3, <2>4 DEF Dispatch, OwnStep
  <1>2. ASSUME NEW v \in Worker \ {w} PROVE RequestInv(v)'
    BY <1>1, LocalStep DEF IInv
  <1> QED BY <1>1, <1>2 DEF IInv, ServerInv

\* The server is started and stopped in order, and every request is on its
\* way to the answer it should get.
THEOREM Invariance == Spec => []IInv
  <1>1. IInv /\ [Next]_vars => IInv'
    <2> SUFFICES ASSUME IInv, [Next]_vars PROVE IInv'
      OBVIOUS
    <2>1. CASE MainNext
      <3>1. TypeOK' /\ ServerInv' BY <2>1, MainStep DEF IInv, ServerInv
      <3>2. ASSUME NEW w \in Worker PROVE RequestInv(w)'
        BY <2>1, MainFrame DEF IInv
      <3> QED BY <3>1, <3>2 DEF IInv, ServerInv
    <2>2. ASSUME NEW w \in Worker,
                 (\E p \in Path : Accept(w, p)) \/ LoseConnection(w) \/ Dispatch(w)
          PROVE  IInv'
      BY <2>2, WorkerStep
    <2>3. CASE UNCHANGED vars
      BY <2>3
      DEF vars, IInv, TypeOK, StopInv, LibraryInv, BusyInv, RequestInv, CleanInv,
          Answered
    <2> QED BY <2>1, <2>2, <2>3 DEF Next, MainNext
  <1> QED BY InitInv, <1>1, PTL DEF Spec

\* The state has the types it should: CivetWeb's library is never initialised
\* twice.
THEOREM TypeCorrect == Spec => []TypeOK
  <1>1. IInv => TypeOK BY DEF IInv
  <1> QED BY <1>1, Invariance, PTL

\* kn_web_library_retain and kn_web_library_release are paired with the
\* contexts, and no request runs without one.
THEOREM LibraryHolds == Spec => []LibraryHeld
  <1>1. IInv => LibraryHeld
    BY DEF IInv, LibraryInv, StopInv, BusyInv, LibraryHeld
  <1> QED BY <1>1, Invariance, PTL

\* The dispatcher and kn_web_dispatch answer every request between them.
THEOREM RequestsAnswered == Spec => []EveryRequestAnswered
  <1>1. IInv => EveryRequestAnswered BY DEF IInv, RequestInv, EveryRequestAnswered
  <1> QED BY <1>1, Invariance, PTL

\* A route handler decides the answer to a request that nothing of the past
\* stands in the way of.
THEOREM RoutesAnswered == Spec => []RouteAnswered
  <1>1. IInv => RouteAnswered
    BY DEF IInv, RequestInv, CleanInv, Answered, RouteAnswered
  <1> QED BY <1>1, Invariance, PTL

\* HandleCurrentError fails only when the client is gone.
THEOREM PendingAfterLoss == Spec => []PendingOnlyAfterLoss
  <1>1. IInv => PendingOnlyAfterLoss BY DEF IInv, RequestInv, PendingOnlyAfterLoss
  <1> QED BY <1>1, Invariance, PTL

-----------------------------------------------------------------------------
(* What liveness rests on *)

\* A worker in Stop is the one that stops the server: mg_stop waits for it.
DrainInv ==
    \A w \in Worker : pc[w] = "stopping" => stopper = w /\ ctx = "draining"

LEMMA DrainStep == IInv /\ DrainInv /\ [Next]_vars => DrainInv'
  <1> SUFFICES ASSUME IInv, DrainInv, [Next]_vars PROVE DrainInv'
    OBVIOUS
  <1> USE DEF DrainInv
  <1>0. ServerInv /\ TypeOK BY DEF IInv, ServerInv
  <1>1. CASE MainNext
    <2>1. UNCHANGED pc
      BY <1>1 DEF MainNext, Starting, CallStart, AlreadyStarted, RetainLibrary, StartFails,
                  StartContext, SetRequestHandler, Announce, MarkStarted, CallWait,
                  WaitEnds, Exit, CallStop, Join, EndStop
    <2>2. SUFFICES ASSUME NEW w \in Worker, pc[w] = "stopping"
                   PROVE  stopper' = stopper /\ ctx' = ctx
      BY <2>1
    <2>3. stopper = w /\ ctx = "draining" /\ pc[w] # "idle" /\ stopper # NoThread
      BY <2>2, WebConstants
    <2>4. main # "mg_start"
      BY <1>0, <2>3 DEF ServerInv, StopInv
    <2>5. ~Join /\ ~EndStop /\ ~StartContext
      BY <2>3, <2>4 DEF Join, EndStop, StartContext
    <2>6. \A t \in {Main, Task} : ~CallStop(t)
      BY <2>3 DEF CallStop, BeginStop
    <2> QED
      BY <1>1, <2>5, <2>6 DEF MainNext, Starting, CallStart, AlreadyStarted, RetainLibrary,
         StartFails, SetRequestHandler, Announce, MarkStarted, CallWait, WaitEnds, Exit
  <1>2. ASSUME NEW w \in Worker, \E p \in Path : Accept(w, p) PROVE DrainInv'
    BY <1>0, <1>2 DEF Accept, TypeOK
  <1>3. ASSUME NEW w \in Worker, LoseConnection(w) PROVE DrainInv'
    BY <1>3 DEF LoseConnection
  <1>4. ASSUME NEW w \in Worker, HandlerStops(w) PROVE DrainInv'
    <2>1. stopper = NoThread /\ NoThread \notin Worker
      BY <1>4, WebConstants DEF HandlerStops, BeginStop
    <2>2. ctx = "up"
      BY <1>0, <1>4 DEF HandlerStops, BeginStop, ServerInv, BusyInv, TypeOK
    <2> QED BY <1>0, <1>4, <2>1, <2>2 DEF HandlerStops, BeginStop, TypeOK
  <1>5. ASSUME NEW w \in Worker, OwnStep(w) PROVE DrainInv'
    <2>1. UNCHANGED <<ctx, stopper>> BY <1>0, <1>5, OwnLocal
    <2>2. \A v \in Worker : pc'[v] = "stopping" => pc[v] = "stopping"
      BY <1>0, <1>5 DEF OwnStep, Enter, FindRoute, HandlerSends, HandlerThrows, HandlerReturns,
         HandleCurrentError, DispatcherReturns, EndRequest, SendThen, TypeOK
    <2> QED BY <2>1, <2>2
  <1>6. CASE UNCHANGED vars BY <1>6 DEF vars
  <1> QED
    BY <1>1, <1>2, <1>3, <1>4, <1>5, <1>6 DEF Next, MainNext, Dispatch, OwnStep

\* A handler that calls Stop takes the server with it: the context drains for
\* ever, keeps its reference to the library and is never started anew.
StopsForGood == stopper \in Worker => UNCHANGED <<ctx, stopper, libRefs>>

\* What Wait polls for does not go away again before Wait has seen it.
StopSeen == main = "wait" /\ (ctx = "none" \/ ~running) =>
                main' # "wait" \/ ctx' = "none" \/ ~running'

\* At most one request is left behind by Stop, that of the handler that called
\* it: RequestsEnd excepts no more.
THEOREM OneRequestLost == Spec => []DrainInv
  <1>1. Init => DrainInv BY DEF Init, DrainInv
  <1> QED BY <1>1, DrainStep, Invariance, PTL DEF Spec

\* mg_stop called from a handler never returns.
THEOREM HandlerStopIsFinal == Spec => [][StopsForGood]_vars
  <1>1. IInv /\ [Next]_vars => [StopsForGood]_vars
    <2> SUFFICES ASSUME IInv, Next, stopper \in Worker PROVE UNCHANGED <<ctx, stopper, libRefs>>
      BY DEF StopsForGood
    <2>1. pc[stopper] = "stopping" /\ ctx = "draining" /\ stopper # NoThread /\ main # "mg_start"
      BY WebConstants DEF IInv, BusyInv, StopInv
    <2>2. ~\A w \in Worker : pc[w] = "idle" BY <2>1
    <2>3. CASE MainNext
      BY <2>1, <2>2, <2>3 DEF MainNext, Starting, CallStart, AlreadyStarted, RetainLibrary,
         StartFails, StartContext, SetRequestHandler, Announce, MarkStarted, CallWait,
         WaitEnds, Exit, CallStop, BeginStop, Join, EndStop
    <2>4. ASSUME NEW w \in Worker,
                 (\E p \in Path : Accept(w, p)) \/ LoseConnection(w) \/ Dispatch(w)
          PROVE  UNCHANGED <<ctx, stopper, libRefs>>
      BY <2>1, <2>4 DEF Accept, LoseConnection, Dispatch, Unchanged, Enter, FindRoute,
         HandlerSends, HandlerThrows, HandlerReturns, HandlerStops, BeginStop,
         HandleCurrentError, DispatcherReturns, EndRequest
    <2> QED BY <2>3, <2>4 DEF Next, MainNext
  <1> QED BY <1>1, Invariance, PTL DEF Spec

\* Wait cannot miss between two of its polls that the server has stopped, so
\* that fairness of its thread is all that StopEndsWait needs.
THEOREM WaitMissesNothing == Spec => [][StopSeen]_vars
  <1>1. [Next]_vars => [StopSeen]_vars
    <2> SUFFICES ASSUME Next, main = "wait", ctx = "none" \/ ~running, main' = "wait"
                 PROVE  ctx' = "none" \/ ~running'
      BY DEF StopSeen
    <2>1. CASE MainNext
      BY <2>1 DEF MainNext, Starting, CallStart, AlreadyStarted, RetainLibrary,
         StartFails, StartContext, SetRequestHandler, Announce, MarkStarted, CallWait,
         WaitEnds, Exit, CallStop, BeginStop, Join, EndStop
    <2>2. ASSUME NEW w \in Worker,
                 (\E p \in Path : Accept(w, p)) \/ LoseConnection(w) \/ Dispatch(w)
          PROVE  ctx' = "none" \/ ~running'
      BY <2>2 DEF Accept, LoseConnection, Dispatch, Unchanged, Enter, FindRoute,
         HandlerSends, HandlerThrows, HandlerReturns, HandlerStops, BeginStop,
         HandleCurrentError, DispatcherReturns, EndRequest
    <2> QED BY <2>1, <2>2 DEF Next, MainNext
  <1> QED BY <1>1, PTL DEF Spec
=============================================================================
