----------------------------- MODULE WebServer -----------------------------
(***************************************************************************)
(* IO.Web: the life of a Server (Server.kn) over the CivetWeb bridge       *)
(* (kn_web_civet.c), and the way of a request through a CivetWeb thread.   *)
(* A thread of CivetWeb runs generated code, so it has a g_exc_current of  *)
(* its own, which outlives the request.                                    *)
(*                                                                         *)
(* The programs considered refresh their routes before Start and have one  *)
(* Stop under way at a time; the code checks neither.                      *)
(***************************************************************************)
EXTENDS Naturals, FiniteSets

CONSTANTS
    Worker,      \* threads of the CivetWeb context
    Main,        \* the thread of Main: starts, waits and stops
    Task,        \* another Kinal thread, which may stop the server
    NoThread,
    Route,       \* the registered paths
    StopRoute,   \* those whose handler calls Stop
    Static,      \* a path under a static mount
    Unknown      \* any other path

ASSUME WebConstants ==
    /\ StopRoute \subseteq Route
    /\ {Static, Unknown} \cap Route = {} /\ Static # Unknown
    /\ {Main, Task, NoThread} \cap Worker = {}
    /\ Main # Task /\ NoThread \notin {Main, Task}

Path == Route \cup {Static, Unknown}

VARIABLES
    main,      \* where Main is in Start, Wait and Stop
    after,     \* what follows the Start it is in; run outside one
    handle,    \* Server.Handle, and whether RegisterServer has run
    started,   \* Server._Started
    ctx,       \* KnWebServer.ctx; draining while mg_stop runs
    hooked,    \* mg_set_request_handler has been called on ctx
    running,   \* KnWebServer.running
    libRefs,   \* g_kn_web_lib_refs
    stopper,   \* the thread in Stop
    pc,        \* where a worker is in its dispatch
    path,      \* the path of its request
    alive,     \* the connection of its request
    sent,      \* the response on that connection
    exc,       \* whether its g_exc_current is set
    did,       \* history: how the route handler ended
    clean,     \* history: nothing of the past stood in the way of this request
    lost       \* history: the workers of ctx that have lost a connection

serverVars  == <<handle, ctx, hooked, running, libRefs>>
mainVars    == <<main, after, started>>
requestVars == <<pc, path, alive, sent, exc, did, clean, lost>>
vars == <<mainVars, serverVars, stopper, requestVars>>

Up == main # "gone"

Init ==
    /\ main = "run" /\ after = "run" /\ started = FALSE
    /\ handle = "none" /\ ctx = "none" /\ hooked = FALSE
    /\ running = FALSE /\ libRefs = 0 /\ stopper = NoThread
    /\ pc = [w \in Worker |-> "idle"]
    /\ path = [w \in Worker |-> Unknown]
    /\ alive = [w \in Worker |-> TRUE]
    /\ sent = [w \in Worker |-> "nothing"]
    /\ exc = [w \in Worker |-> FALSE]
    /\ did = [w \in Worker |-> "nothing"]
    /\ clean = [w \in Worker |-> FALSE]
    /\ lost = {}

-----------------------------------------------------------------------------
(* Server.Start, Wait and Stop *)

\* EnsureHandle.  When configuring the new handle fails it throws and leaves
\* Handle set, so that the next call returns before RegisterServer.
CallStart(l) ==
    /\ main = "run"
    /\ \/ /\ handle = "none"
          /\ handle' = "unregistered"
          /\ UNCHANGED <<main, after>>
       \/ /\ handle' = IF handle = "none" THEN "registered" ELSE handle
          /\ main' = "start" /\ after' = l
    /\ UNCHANGED <<started, ctx, hooked, running, libRefs, stopper, requestVars>>

\* Start returns at once, or __kn_web_server_start finds a context.
AlreadyStarted ==
    /\ main = "start"
    /\ \/ started /\ main' = after /\ after' = "run"
       \/ ~started /\ ctx # "none" /\ main' = "mark" /\ UNCHANGED after
    /\ UNCHANGED <<started, serverVars, stopper, requestVars>>

RetainLibrary ==
    /\ main = "start"
    /\ ~started /\ ctx = "none"
    /\ libRefs' = libRefs + 1
    /\ main' = "mg_start"
    /\ UNCHANGED <<after, started, handle, ctx, hooked, running, stopper,
                   requestVars>>

\* mg_start returns null (the port is taken, say), and Start throws.
StartFails_Leaks ==
    /\ main = "mg_start"
    /\ main' = "run" /\ after' = "run"
    /\ UNCHANGED <<started, serverVars, stopper, requestVars>>

StartFails ==
    /\ main = "mg_start"
    /\ libRefs' = libRefs - 1
    /\ main' = "run" /\ after' = "run"
    /\ UNCHANGED <<started, handle, ctx, hooked, running, stopper,
                   requestVars>>

\* From here on the workers accept connections.
StartContext ==
    /\ main = "mg_start"
    /\ ctx' = "up"
    /\ hooked' = FALSE
    /\ main' = "hook"
    /\ UNCHANGED <<after, started, handle, running, libRefs, stopper,
                   requestVars>>

\* A Stop of a Task may have freed the context by now: then a null pointer has
\* no effect on CivetWeb, and a pointer read just before ends the process.
SetRequestHandler ==
    /\ main = "hook"
    /\ hooked' = (ctx # "none")
    /\ main' \in IF ctx = "none" THEN {"announce", "gone"} ELSE {"announce"}
    /\ UNCHANGED <<after, started, handle, ctx, running, libRefs, stopper,
                   requestVars>>

\* The flag is stored whatever has happened to the context.
Announce ==
    /\ main = "announce"
    /\ running' = TRUE
    /\ main' = "mark"
    /\ UNCHANGED <<after, started, handle, ctx, hooked, libRefs, stopper,
                   requestVars>>

MarkStarted ==
    /\ main = "mark"
    /\ started' = TRUE
    /\ main' = after /\ after' = "run"
    /\ UNCHANGED <<serverVars, stopper, requestVars>>

\* Mutant: Wait only looks at the context, which mg_stop keeps until it ends.
WaitEnds_Context ==
    /\ main = "wait"
    /\ ctx = "none"
    /\ main' = "run"
    /\ UNCHANGED <<after, started, serverVars, stopper, requestVars>>

\* Wait on a server that was started polls its context and its flag.
WaitEnds ==
    /\ main = "wait"
    /\ ctx = "none" \/ ~running
    /\ main' = "run"
    /\ UNCHANGED <<after, started, serverVars, stopper, requestVars>>

CallWait ==
    /\ main = "run" /\ started
    /\ main' = "wait"
    /\ UNCHANGED <<after, started, serverVars, stopper, requestVars>>

\* Main returns and the process ends, whatever the workers are doing.
Exit ==
    /\ main = "run"
    /\ main' = "gone"
    /\ UNCHANGED <<after, started, serverVars, stopper, requestVars>>

\* The native part of Stop up to mg_stop; without a context it has none.
BeginStop(t) ==
    /\ stopper = NoThread /\ ctx # "draining"
    /\ stopper' = t
    /\ IF ctx = "up" THEN running' = FALSE /\ ctx' = "draining"
                     ELSE UNCHANGED <<running, ctx>>
    /\ UNCHANGED <<handle, hooked, libRefs>>

\* A Task may stop the server at any time, also while Main is in Start.
CallStop(t) ==
    /\ Up
    /\ t = Main => main = "run"
    /\ BeginStop(t)
    /\ main' = IF t = Main THEN "stop" ELSE main
    /\ UNCHANGED <<after, started, requestVars>>

\* mg_stop returns once every worker has finished its request; a worker that
\* is in Stop itself never does.  Those of the next context are new threads,
\* which start without an exception.
Join ==
    /\ Up /\ ctx = "draining"
    /\ \A w \in Worker : pc[w] = "idle"
    /\ ctx' = "none"
    /\ hooked' = FALSE
    /\ libRefs' = libRefs - 1
    /\ exc' = [w \in Worker |-> FALSE]
    /\ lost' = {}
    /\ UNCHANGED <<mainVars, handle, running, stopper, pc, path, alive, sent, did,
                   clean>>

\* Stop returns. Main may be in another Start by then.
EndStop ==
    /\ Up /\ stopper # NoThread /\ ctx # "draining"
    /\ started' = FALSE
    /\ main' = IF stopper = Main THEN "run" ELSE main
    /\ stopper' = NoThread
    /\ UNCHANGED <<after, serverVars, requestVars>>

-----------------------------------------------------------------------------
(* kn_web_dispatch, __WebDispatchCurrent and DispatchCurrentRequest *)

GoTo(w, l) == pc' = [pc EXCEPT ![w] = l]

\* CivetWeb takes one response per request: a second one is refused, and so is
\* any on a connection that the client has closed.
CanSend(w) == alive[w] /\ sent[w] = "nothing"
Reply(w, r) == sent' = [sent EXCEPT ![w] = r]

\* KnWebRequestScope.replied.
Replied(w) == sent[w] # "nothing"

\* Response.Send throws when the bridge could not send.  (A handler that
\* catches this goes on, which here is a stutter.)
SendThen(w, r, l) ==
    IF CanSend(w) THEN Reply(w, r) /\ GoTo(w, l)
                  ELSE GoTo(w, "error") /\ UNCHANGED sent

\* A request arrives.  Before the handler is set CivetWeb answers it itself.
Accept(w, p) ==
    /\ Up /\ ctx = "up" /\ pc[w] = "idle"
    /\ path' = [path EXCEPT ![w] = p]
    /\ clean' = [clean EXCEPT ![w] = hooked /\ ~exc[w] /\ handle = "registered"]
    /\ Reply(w, IF hooked THEN "nothing" ELSE "404")
    /\ GoTo(w, IF hooked THEN "enter" ELSE "end")
    /\ UNCHANGED <<mainVars, serverVars, stopper, alive, exc, did, lost>>

\* The client goes away.
LoseConnection(w) ==
    /\ Up /\ pc[w] # "idle" /\ alive[w]
    /\ alive' = [alive EXCEPT ![w] = FALSE]
    /\ lost' = lost \cup {w}
    /\ UNCHANGED <<mainVars, serverVars, stopper, pc, path, sent, exc, did, clean>>

Unchanged == UNCHANGED <<mainVars, serverVars, stopper, path, alive, clean, lost>>

\* The dispatcher looks the server up; with an exception pending it returns at
\* the first call, and without the server it answers 500 and returns.
Enter(w) ==
    /\ Up /\ pc[w] = "enter"
    /\ IF exc[w] THEN GoTo(w, "return") /\ UNCHANGED sent
       ELSE IF handle = "registered" THEN GoTo(w, "route") /\ UNCHANGED sent
       ELSE GoTo(w, "return")
            /\ IF CanSend(w) THEN Reply(w, "500") ELSE UNCHANGED sent
    /\ Unchanged /\ UNCHANGED <<exc, did>>

FindRoute(w) ==
    /\ Up /\ pc[w] = "route"
    /\ CASE path[w] \in Route -> GoTo(w, "handler") /\ UNCHANGED sent
         [] path[w] = Static -> Reply(w, "file") /\ GoTo(w, "return")
         [] OTHER -> SendThen(w, "404", "return")
    /\ Unchanged /\ UNCHANGED <<exc, did>>

HandlerSends(w) ==
    /\ Up /\ pc[w] = "handler"
    /\ SendThen(w, "text", "handler")
    /\ Unchanged /\ UNCHANGED <<exc, did>>

HandlerThrows(w) ==
    /\ Up /\ pc[w] = "handler"
    /\ did' = [did EXCEPT ![w] = "threw"]
    /\ GoTo(w, "error")
    /\ Unchanged /\ UNCHANGED <<exc, sent>>

\* Mutant: a handler that has not replied is left to kn_web_dispatch.
HandlerReturns_Silent(w) ==
    /\ Up /\ pc[w] = "handler"
    /\ did' = [did EXCEPT ![w] = "returned"]
    /\ GoTo(w, "return") /\ UNCHANGED sent
    /\ Unchanged /\ UNCHANGED exc

HandlerReturns(w) ==
    /\ Up /\ pc[w] = "handler"
    /\ did' = [did EXCEPT ![w] = "returned"]
    /\ IF Replied(w) THEN GoTo(w, "return") /\ UNCHANGED sent
                     ELSE SendThen(w, "204", "return")
    /\ Unchanged /\ UNCHANGED exc

\* mg_stop on a thread of the context it stops waits for that thread.
HandlerStops(w) ==
    /\ Up /\ pc[w] = "handler" /\ path[w] \in StopRoute
    /\ BeginStop(w)
    /\ GoTo(w, "stopping")
    /\ UNCHANGED <<mainVars, path, alive, sent, exc, did, clean, lost>>

\* Mutant: the error page is sent whether or not a response was.
HandleCurrentError_Always(w) ==
    /\ Up /\ pc[w] = "error"
    /\ IF CanSend(w) THEN Reply(w, "500") /\ UNCHANGED exc
                     ELSE exc' = [exc EXCEPT ![w] = TRUE] /\ UNCHANGED sent
    /\ GoTo(w, "return")
    /\ Unchanged /\ UNCHANGED did

\* Mutant: a response that could not be sent is tried again.
HandleCurrentError_Retries(w) ==
    /\ Up /\ pc[w] = "error"
    /\ IF Replied(w) THEN UNCHANGED sent /\ GoTo(w, "return")
                     ELSE SendThen(w, "500", "return")
    /\ Unchanged /\ UNCHANGED <<exc, did>>

\* The Catch of the dispatcher.  An exception of its own has no Try around it
\* and stays pending on the thread: nothing in the bridge clears it.
HandleCurrentError(w) ==
    /\ Up /\ pc[w] = "error"
    /\ IF Replied(w) THEN UNCHANGED <<sent, exc>>
       ELSE IF CanSend(w) THEN Reply(w, "500") /\ UNCHANGED exc
       ELSE exc' = [exc EXCEPT ![w] = TRUE] /\ UNCHANGED sent
    /\ GoTo(w, "return")
    /\ Unchanged /\ UNCHANGED did

\* Mutant: what the dispatcher did not answer stays unanswered.
DispatcherReturns_Silent(w) ==
    /\ Up /\ pc[w] = "return"
    /\ GoTo(w, "end")
    /\ Unchanged /\ UNCHANGED <<exc, did, sent>>

\* kn_web_dispatch answers what the dispatcher has not.
DispatcherReturns(w) ==
    /\ Up /\ pc[w] = "return"
    /\ IF CanSend(w) THEN Reply(w, "404") ELSE UNCHANGED sent
    /\ GoTo(w, "end")
    /\ Unchanged /\ UNCHANGED <<exc, did>>

\* The request scope goes out of use, and the worker waits for the next request.
EndRequest(w) ==
    /\ Up /\ pc[w] = "end"
    /\ GoTo(w, "idle")
    /\ path' = [path EXCEPT ![w] = Unknown]
    /\ alive' = [alive EXCEPT ![w] = TRUE]
    /\ Reply(w, "nothing")
    /\ did' = [did EXCEPT ![w] = "nothing"]
    /\ clean' = [clean EXCEPT ![w] = FALSE]
    /\ UNCHANGED <<mainVars, serverVars, stopper, exc, lost>>

-----------------------------------------------------------------------------

Starting ==
    \/ AlreadyStarted \/ RetainLibrary \/ StartFails \/ StartContext
    \/ SetRequestHandler \/ Announce \/ MarkStarted

Dispatch(w) ==
    \/ Enter(w) \/ FindRoute(w)
    \/ HandlerSends(w) \/ HandlerThrows(w) \/ HandlerReturns(w) \/ HandlerStops(w)
    \/ HandleCurrentError(w) \/ DispatcherReturns(w) \/ EndRequest(w)

Next ==
    \/ \E l \in {"run", "wait"} : CallStart(l)
    \/ Starting \/ CallWait \/ WaitEnds \/ Exit
    \/ \E t \in {Main, Task} : CallStop(t)
    \/ Join \/ EndStop
    \/ \E w \in Worker : \/ \E p \in Path : Accept(w, p)
                         \/ LoseConnection(w)
                         \/ Dispatch(w)

Spec == Init /\ [][Next]_vars

\* Threads run on and handlers terminate.  Nobody has to call Start or Stop,
\* no client has to come, and none has to stay.
Fairness ==
    /\ WF_vars(Starting \/ WaitEnds)
    /\ WF_vars(Join \/ EndStop)
    /\ \A w \in Worker :
          WF_vars(\/ Enter(w) \/ FindRoute(w)
                  \/ HandlerThrows(w) \/ HandlerReturns(w) \/ HandlerStops(w)
                  \/ HandleCurrentError(w) \/ DispatcherReturns(w) \/ EndRequest(w))

FairSpec == Spec /\ Fairness
-----------------------------------------------------------------------------
(* Properties *)

\* The values the state takes.
TypeOK ==
    /\ main \in {"run", "start", "mg_start", "hook", "announce", "mark", "wait",
                "stop", "gone"}
    /\ after \in {"run", "wait"}
    /\ handle \in {"none", "unregistered", "registered"}
    /\ ctx \in {"none", "up", "draining"}
    /\ started \in BOOLEAN /\ hooked \in BOOLEAN /\ running \in BOOLEAN
    /\ libRefs \in {0, 1}
    /\ stopper \in Worker \cup {Main, Task, NoThread}
    /\ pc \in [Worker -> {"idle", "enter", "route", "handler", "stopping", "error",
                          "return", "end"}]
    /\ path \in [Worker -> Path]
    /\ sent \in [Worker -> {"nothing", "text", "file", "204", "404", "500"}]
    /\ alive \in [Worker -> BOOLEAN]
    /\ exc \in [Worker -> BOOLEAN]
    /\ clean \in [Worker -> BOOLEAN]
    /\ did \in [Worker -> {"nothing", "threw", "returned"}]
    /\ lost \subseteq Worker

\* A request that a registered handler should get is answered by what that
\* handler does, on a connection that holds, if no earlier request has left an
\* exception on its thread, Start went through EnsureHandle, and the handler
\* of the context was set: its response, 204 when it sent none, 500 when it
\* threw first.
RouteAnswered ==
    \A w \in Worker :
        pc[w] = "end" /\ path[w] \in Route /\ clean[w] /\ alive[w] =>
            \/ sent[w] = "text"
            \/ sent[w] = "204" /\ did[w] = "returned"
            \/ sent[w] = "500" /\ did[w] = "threw"

\* Every request on a connection that holds is answered, also one that finds
\* an exception of an earlier request.
EveryRequestAnswered ==
    \A w \in Worker : pc[w] = "end" /\ alive[w] => sent[w] # "nothing"

\* Only a connection that broke leaves an exception pending on its thread.
PendingOnlyAfterLoss == \A w \in Worker : exc[w] => w \in lost

\* The CivetWeb library is initialised exactly while a context exists or is
\* being made, whatever starts fail, and no request is under way without it.
LibraryHeld ==
    /\ libRefs = IF ctx # "none" \/ main = "mg_start" THEN 1 ELSE 0
    /\ libRefs = 0 => \A w \in Worker : pc[w] = "idle"

\* web.md: the attribute "marks a function as a route handler", so the
\* dispatcher of a registered server comes back from a request for the path
\* having answered it.  The code does not keep this: see the README.
RouteReached ==
    \A w \in Worker :
        pc[w] = "return" /\ path[w] \in Route /\ alive[w] /\ handle = "registered" =>
            Replied(w)

\* A Stop ends Wait: that of a handler while the flag it has cleared is clear,
\* as its mg_stop cannot return; that of a Task also when Start has stored over
\* its flag, as its mg_stop does return.
StopEndsWait ==
    (/\ main = "wait" /\ stopper # NoThread
     /\ ~running \/ (stopper = Task /\ ctx # "up")) ~> (main # "wait")

\* Every request comes to an end, except one whose handler stops the server.
RequestsEnd ==
    \A w \in Worker : pc[w] = "enter" ~> pc[w] \in {"idle", "stopping"} \/ ~Up
=============================================================================
