# A verification of Kinal in TLA+

Kinal is a compiled language: a compiler written in C (`apps/kinal`), a second one written in
Kinal (`apps/kinal-selfhost`), a native runtime in C (`libs/runtime`), a bytecode machine written in
Kinal (`apps/kinalvm`), a package library (`libs/std`) and a language server (`apps/kinal-lsp`).
This directory models the parts of it whose behaviour depends on an order of steps (threads, the
collector, exceptions, frames, hash tables, child processes, the Web server, the editor's messages to the language
server), checks them with TLC on small instances and proves the safety properties of all with TLAPS for every instance.

All paths below are relative to `src/`.

## 1. The parts of the system

| Part | Where | State it keeps | Operations | Hard part |
|---|---|---|---|---|
| Async tasks | `libs/runtime/src/kn_runtime.c` 1330-1690, `apps/kinal/src/codegen/kn_codegen_decl.inc` | `g_async_live_tasks`, a `KnAsyncTask` each (`done`, tag, payload, error, trace) | spawn, thread main, complete, fail, await, live count; the generated runner | threads, a compare-and-swap, plain fields published by `done`, failed spawns |
| Garbage collector | `kn_runtime.c` 4200-4560 | block list, index, mark stack, frame and global roots, lock, `collecting` flag | alloc, collect, push/pop frame, register roots | a stack-scanning collector that is safe only while no other thread runs Kinal code |
| Exceptions, native | `kn_runtime.c` 1700-1830, `codegen/kn_codegen_expr.inc` | per thread: current, last, two trace buffers | set, get, clear, push, trace; the code generated for Try, Catch, Throw and after every call | propagation is spread over all call sites; the trace is aliased by the error that is thrown |
| Bytecode machine | `apps/kinalvm/src/IO/Kinal/VM/*.kn` | frames with registers and handler stacks, current/last exception, pointers, arrays, objects, globals | one per instruction, 200 built-ins | handlers across frames, pointers into frames, stale current exception |
| KNC emitter | `apps/kinal/src/kn_knc.c` | code buffer, registers, loops and patches | one case per statement and expression | structured statements become jumps that must keep the handler stack balanced |
| Collections | `kn_runtime.c` 1906-2610 | open-addressed tables, growing arrays | set, fetch, remove, add, grow | removal in a probe chain, growth, a growth that fails |
| Module metadata registry | `kn_runtime.c` 2256-2470 | linked lists of module tables | register, query | stable order, duplicates |
| Process and file host | `kn_platform_host.c`, `kn_runtime.c` 1069-1325 | process handles (pid, done, exit code) | spawn, is-completed, wait with a timeout, exit code, close | a timeout against an exit; pids that are reused; handles that are shared or used after close |
| Web server | `kn_web_civet.c`, `libs/std/IO.Web` | handle, context, running flag, library references; per thread a request scope and the error state of generated code | start, wait, stop, dispatch, reply | callbacks on threads the collector does not know; clients that go away; a stop from a handler |
| HTTP client, JSON, UI, core library | `kn_request_civet.c`, `kn_json_cjson.c`, `libs/std` | handles of the C libraries | wrappers | ownership of handles |
| Kinal ports of GC, tasks, exceptions | `libs/std/IO.Kinal.Runtime` | as the C runtime | as the C runtime | as the C runtime |
| Lexer, parser, sema, HIR, codegen | `apps/kinal/src` | syntax trees, scopes, diagnostics | pure passes, one after the other | overload choice, return-flow, safety levels |
| Driver, packages, linker front end, formatter | `apps/kinal/src` | options, project files | command line | search order |
| Self-hosted compiler | `apps/kinal-selfhost` | as the C compiler | as the C compiler | as the C compiler |
| Language server | `apps/kinal-lsp/server` | open documents, an index of units per file, known units, a cache of declarations, the diagnostics last published | JSON-RPC messages and file events, one after the other | tables that must follow files which change while messages are on their way |
| Build and release scripts | `infra/scripts` | a release feed | scripts | none |

How they interact.  Generated code calls the runtime for every allocation, task and exception; after
each call it tests `__kn_exc_has`.  `__kn_async_task_spawn` counts a task in `g_async_live_tasks`
before it allocates it, and `__kn_gc_collect` returns at once while that counter is not 0: this is the
whole agreement between threads and collector.  The CivetWeb threads of `IO.Web` run Kinal handlers
and are outside that agreement.  An error that escapes from a task body is kept in the task and raised
again in the thread that awaits it.  A request of `IO.Web` runs on the thread state that the request before it left
behind, `g_exc_current` included.  The language server shares no code at run time with the rest: it reads files, and
hears of their changes from the editor.  The bytecode machine is a program of its own, with frames,
handlers and exceptions kept in Kinal objects; the emitter of the C compiler produces its input.

What makes each correct:

* tasks: settled once, awaited results complete and right, the counter covers every thread, awaits return;
* collector: runs alone, frees only garbage, leaves no garbage, nothing dangles;
* exceptions: natively the innermost Try of the call chain gets the exception, in the machine the innermost one whose
  Catch takes it; one that was handled is not raised again, the trace tells the path of the
  exception, an error that is thrown where it is made closes no cycle of causes;
* frames of the machine: armed handlers are exactly the Try blocks the program is in, pointers reach the
  frame they were made for;
* child processes: an answer is about the right child and true of it, no child is left unreaped, waits end;
* collections: a dictionary is a finite function, a list a sequence, a set a set;
* Web server: each request is answered once, by its route unless something of the past stands in the way; the library
  is held as long as it is needed; Wait ends with a Stop, unless Start stores over the flag of a handler's;
* language server: what it shows and answers is of the text in the editor, or of the file when it is not open.

`PROJECT.json` lists every part with its status, and under `hazards` the places where each can go wrong.

## 2. The modules

| Module | What it is |
|---|---|
| `TaskPromise` | what a task promises: one outcome, settled once, seen by every await |
| `AsyncTask` | tasks as the C code runs them; implements `TaskPromise` |
| `LiveTasks` | what tasks promise the collector: who is counted in `g_async_live_tasks`, and when; `AsyncTask` and the tasks of `Collector` implement it |
| `ChildProcess` | handles, pids and waits of child processes |
| `Collector` | mark and sweep against threads that are counted and threads that are not |
| `TryCatch` | what Try, Catch and Throw promise, over a stack of calls and blocks |
| `NativeExceptions` | the error state of one thread and the generated code; implements `TryCatch` |
| `VMFrames` | frames, handler stacks and pointers of the machine; implements `TryCatch` |
| `Dictionary` | what a dict promises: a finite function and its size |
| `HashTable` | the open-addressed table of dict and set; implements `Dictionary` |
| `WebServer` | start, wait and stop of a server against its requests, and the dispatch of a request |
| `LanguageServer` | the editor, its messages, and the tables of the language server |
| `MC*` | the same modules with a symmetry set for TLC |
| `*Proofs` | theorems and proofs |

### AsyncTask

A thread is named by the task it runs; `Main` is the first one.  One step is one access that another
thread can observe, so the steps of `__kn_async_task_complete` are: the compare-and-swap of `done` from 0
to 2 (`BeginFinish`, or `LoseFinish` when another call won), the plain stores (`StoreFields`), the
publishing store of 1 (`Publish`).  `__kn_async_task_run` is `CallAwait`, `Poll` (the loop sees 1), `Read`
(the plain reads and, for a fault, `__kn_exc_set_with_trace`), or `AwaitNull`.  `__kn_async_task_spawn` is
`SpawnCount` (the increment), `SpawnAlloc`, `SpawnCreate` or `SpawnFails` (the decrement and the null).
The rest of the thread is `RunnerFinish` (what the compiler generates at the end of a body), or, for an
entry in `Foreign` (a native function such as that of `IO.Async.Sleep`), any number up to `MaxFinish` of
finish calls (`ForeignFinish`) and a return; then `EntryDone` or `EntryUnfinished` and `Uncount`.
`known` are the tasks a thread can name: a program that keeps a task in a global or a field, for an older task to
find it there, is not modelled, and two tasks of such a program can wait for each other for ever.
`Exit` is the return of Main: the process ends with it.  The POSIX build is modelled; the Windows build
keeps a thread handle beside the same fields.  `body` and `got` are history.

### ChildProcess

`child` is the kernel's table: which handle or run a pid was forked for, until it is reaped and the pid is free for
the next child.  `proc` is the `KnAsyncProc` of a handle, `call` the call under way on it.  `Call` is the test of
`done` at the head of every function of `IO.Async` on a handle, `Reap` and `Fruitless` the two outcomes of
`waitpid`, `GiveUp` and `Sleep` the rest of the loop of Wait, `Deadline` the passing of its time.  Wait with 0, with a
time and with -1 are the operations `Poll`, `WaitFor` and `WaitForever`.  `RunFork` and `RunEnds` are
`kn_native_process_run`.  One call at a time is under way on a handle, and a handle is not used after its Close; the
code checks neither.  Calls on different handles, runs and children interleave.  Left out: null handles and failing
forks, which change nothing, the text of the last system error, and the platform's `CreateProcessA`, with which the
compiler runs one tool at a time.  `fate` outlives the child, and `answer` is history.

### Collector

`roots` stands for the words of the native stack and of the pushed frames of a thread that point to a block, `exc` for
its pending or last exception, `global` for a registered root, `field` for the one reference a block holds.  Addresses
are reused, so a block that is freed too early comes back as another one.  `__kn_gc_alloc` is `Alloc`, `AllocFails`
and `AllocCollects` (above the threshold, which is left nondeterministic); `__kn_gc_collect` is `Check` (the test
before the lock), `GiveUp` and `Begin` (the second test and the clearing of marks, under the lock), `MarkOwn`,
`MarkGlobals`, `Trace` one block at a time, `TraceDone`, `Free` one block at a time, `SweepDone`.  `Task` threads are
counted; `Worker` threads are those of CivetWeb, which `Serve` and `Reply` take in and out of Kinal code.  `Programs`
are the sets of threads a program may start: a thread that is in none counts as gone from the beginning, so that one
run has programs with `IO.Web` and programs without it. `AllCounted` says that the program is one of the latter; what
the counter promises is stated of those, the lock's promises of all.  Left out: sizes and the threshold, the sorted
index (that a word points into a block is what it computes), and conservative false roots, which only keep more.

### NativeExceptions

One thread: `frames` is the stack of functions, each with the Try and Catch blocks it is in and the type each Catch
declares; `current`, `last`, `trace` and `lastTrace` are the thread-local error state.  `mode` says whether generated
code runs statements (`run`), tests for an exception after a call (`returned`), takes one to the next Try (`unwind`), or
reports an uncaught error (`report`).  An error is made by `New` and kept, or by the Throw that throws it (`ThrowNew`:
also a string, which is wrapped in an error, and a runtime error).  Any error made so far may be thrown (`ThrowMade`),
for the first time or again, whether a Catch has bound it, a variable has kept it or it is somebody's Inner; `SetInner`
assigns any of them to the Inner of any other.  Both Throws are `emit_exc_set` with `link_error_inner_from_last`
(`Linked`): an empty Inner gets the pending error or the one handled last, unless that is the error itself.
`Continue` and `Propagate` are `maybe_propagate_exception`, once for each call on the way; `EnterCatch` is the block
generated for Catch, `ClearException` included; `LeaveFunction` the default return.

The trace buffer is counted in bytes as `__kn_exc_push` counts it (`Fits`, `Added`): `Length` is the length of each
function's name and `TraceSize` the 4096 of the code.  A name that does not fit is skipped, and a shorter one pushed
after it may fit again, so that the buffer is no prefix of the path.  What it is, is `Tells`: functions of the path in
their order, the throwing one first if it fits at all, and none missing but those for which there is no room.

The handler that runs is that of the innermost Try, whatever type its Catch declares.  `InnermostTryHandles` says that
the code implements `TryCatch` for handlers that take everything; `CatchTakesItsType` is what the language document says
of types, and a run of its own shows that the code does not keep it.

A chain of causes can be a cycle.  `relinked` are the errors that got their Inner later than by the Throw that made
them, by an assignment or because they were thrown after another error had been handled; `CausesEnd` says that there is
one in every cycle, so that a program whose errors are thrown where they are made, and which assigns no Inner, has an
end to each report.  `path`, `pathOf`, `thrown` and `relinked` are history: the functions the exception under way has
left, those of the exception caught last, the type of the value under way, and the errors just named.  The 3-argument
constructor, which would give an error its Inner, is refused by the compiler (below); a Throw of null is left out.

### VMFrames

`frames` is the used part of `Frames`.  A frame has the handlers (`PushHandler`, `PopHandler`) and, beside
them, the blocks the program counter is in, which the emitter knew when it produced the code.  `OpPushTry`,
`OpPopTry` and `OpJump` are what the emitter makes of the beginning and end of a Try and of jumps;
`PushCall` and `ReturnFromCurrent` are calls; `Catch` and `NoCatch` are the two ends of the loop of
`RaiseException`.  `NewFramePointer` makes a pointer to a local, which is the index of its frame;
`PointerFails` is the use of one `FrameAt` rejects, because its index is beyond the frames in use.  `JumpsOutOfTry`
says whether programs Break or Continue out of a Try; the defect this leads to is a run of its own, and the other runs
are about programs that do not; the proofs say what holds of both (section 4).  Left out: the text
of traces, `LastException` and the links to `Inner`, and the values in registers.

### HashTable

`dict` and `set` have the same code twice; the set has no values, and a `Clear` that dict has not.  `entries` is the
slot array, `Probe`, `Stops` and `EndsAt` are the search (`dict_find_slot`: which slot it ends at, slot 0 in a full
table), `Set` and `Store` are `__kn_dict_set` before and after the growth, `Remove` is `__kn_dict_remove` up to its
rehash, and a rehash is a loop of `Move` steps, one per slot, and `Install`.  `hash` is any function from keys to hash
codes.  `Failing` names the calls whose allocation may fail.  Fetch, Contains and Count read the table: `FindsStored`
and the refinement of `Dictionary` say what they return.

### WebServer

`main` is where the thread of Main is in `Server.Start` (`CallStart` is `EnsureHandle`; then `AlreadyStarted`, or
`RetainLibrary`, `StartContext` or `StartFails`, `SetRequestHandler`, `Announce`, `MarkStarted`: the statements of
`__kn_web_server_start` and of its caller that another thread can fall between), in `Wait` (`CallWait`, `WaitEnds`) and
in `Stop`; `after` is what it does when Start returns.  A Stop is `CallStop` (Main, or a Task at any time, also while
Main is in Start) or `HandlerStops` (a route handler): it clears `running` and enters `mg_stop` if it finds a context;
`Join` is the return of `mg_stop`, which waits for every worker and ends their threads; `EndStop` the rest.  A Stop
that falls between `mg_start` and the store of `running` may have freed the context by the time Start sets the handler on
it: `SetRequestHandler` then either has no effect (a null context) or ends the process (a pointer read just before).

A request is `Accept` (CivetWeb answers by itself while the handler is not set), `Enter` (`kn_web_dispatch` up to the
look-up of the server; with an exception pending on the thread generated code returns at its first call), `FindRoute`,
what the handler does (`HandlerSends`, `HandlerThrows`, `HandlerReturns`, `HandlerStops`), `HandleCurrentError` (the
Catch of `__WebDispatchCurrent`), `DispatcherReturns` (the 404 of `kn_web_dispatch` when nothing has replied) and
`EndRequest`.  `LoseConnection` is the client; after it a send fails, and `Response.Send` throws.  `exc` is the one
thing of a thread that `EndRequest` keeps, until the threads of the context end.  `did`, `clean` and `lost` are history.

The programs considered refresh their routes before Start, and have one Stop under way at a time.  The code checks
neither: two Stops at once would both call `mg_stop` on one context (a hazard in `PROJECT.json`).

### LanguageServer

The editor and other programs act on `disk`, `buffer`, `wish` and append to `queue`: `Open`, `Edit`, `Save`, `Close`,
`Configure`, `Write`, and `Watch`, the file event that comes some time after the change, or after several.  The server
takes one message at a time: `DidOpen`, `DidChange`, `DidSave`, `DidClose`, `DidChangeConfiguration`, `Deleted`,
`Changed` are the branches of its loop, `Request` is every question that fills tables on the way (completion, hover,
definition, references).  `Analyse` is `analyze_doc` with `update_unit_index_for_uri` and `publish_diags`; `LookUp` is
what any of the look-ups does to the tables: which files are found on disk (`Discoverable`), which are looked up again
by the name of their unit and whose declarations are read depends on the texts, so it is any choice.  `cfg` is
`g_cfg`: the language, which the labels follow, and the locale file, from which alone the texts of the diagnostics are
taken.  `Applied` is `apply_server_config`: a setting that is missing leaves what was there, "auto" counts as missing
and an unknown language as English, and a locale file is found for Chinese (`ZhLocale`) when there is none.  A
language alone does not take that file away again: after zh and en the labels are English and the texts Chinese.
`ShownFresh` therefore says what is asked for only of settings that name both (`Complete`), and of all others that
labels and texts are as the server is configured.  A text stands for the unit it declares; URIs are in the spelling of
`canonical_file_uri`; a batch of file events is a sequence of messages.  `left` is history: files closed with a text
that is not on disk.  Left out: contents of diagnostics and answers, message framing, project files, and the read-only
documents of the standard library.

## 3. The runs

| Run | Checks | Shows |
|---|---|---|
| `async` | `TypeOK`, `CollectorGate`, `FieldsRaceFree`, `AwaitYieldsBody`, `ImplementsPromise`, `AwaitReturns` | a generated task and a native entry that finishes itself or the other, once or never: the counter covers every thread, the plain fields have one writer and no early reader, a task is settled once, an await yields what the body ended with, and every await returns |
| `processes` | `AnswersTrue`, `ChildrenOwned`, `WaitsEnd` | two handles and a `ProcessRun` over two pids: every answer is true of the child the handle was made for although its pid may be another child by then, no child is left that nobody will reap, waits end |
| `gc` | `TypeOK`, `CollectsAlone`, `NoDanglingCounted`, `FreesOnlyGarbage`, `CollectsAllGarbage`, `OneCollector`, `NothingLinkedMeanwhile` | programs with two task threads and programs with an HTTP thread, over two addresses, cycles included.  Of the first: the collector is alone, frees nothing that is held and leaves nothing that is not.  Of both: one collector at a time, and a block list that does not grow under it |
| `native` | `TypeOK`, `NoStaleException`, `TraceIsPath`, `LastTraceIsPath`, `CausesEnd`, `InnermostTryHandles` | nested calls and blocks, errors kept and thrown later, assigned causes, awaits of faulted tasks, a trace buffer that skips a long name and takes a shorter one after it: exceptions go to the innermost Try, the traces tell their paths, and the Throw that makes an error closes no cycle of causes |
| `vm` | `TypeOK`, `HandlersAreOpenTries`, `ImplementsTryCatch` | the handler stacks stay those of the open Try blocks; the machine does what `TryCatch` promises |
| `table` | `TypeOK`, `FindsStored`, `ImplementsDictionary` | five keys, all choices of colliding and wrapping hash codes, growth that works or fails: every stored key is found, and the table is the finite function its calls describe |
| `web` | `TypeOK`, `RouteAnswered`, `EveryRequestAnswered`, `PendingOnlyAfterLoss`, `LibraryHeld`, `StopEndsWait`, `RequestsEnd` | two CivetWeb threads, Stops from Main, a Task and a handler, failing starts, clients that go away: what a request is answered, when the library is held, that Wait and requests end |
| `lsp` | `TypeOK`, `ShownFresh`, `DeclsFresh`, `IndexTracksDisk`, `UnitsKnown` | edits, saves, closes, changes of the settings and of files under the server: once it has caught up, everything it shows and remembers is current |

Runs that find the code and its documents apart (each names one property and is expected to violate it):

| Run | Property | What happens |
|---|---|---|
| `gc_web` | `NoDangling` | an HTTP thread holds a block it has just allocated; Main collects, does not scan that thread, and frees it |
| `native_types` | `CatchTakesItsType` | natively a Catch that declares string takes an IO.Error: the declared type has no say in which handler runs (`kn_codegen_expr.inc:6219` against `docs/language/exceptions.md:201`; `tests/common/io_error.kn:16` expects what the code does) |
| `vm_jump` | `HandlersAreOpenTries` | Break or Continue out of a Try leaves its handler armed |
| `web_stale` | `RouteReached` | a client goes away before its response; sending the error page throws too, outside of every Try; the exception stays on the CivetWeb thread, and no later request on that thread reaches its route |

More was met while reading, divergences nearly all, and no run checks it:

* awaiting the null task of a failed spawn returns at once with nothing (`kn_runtime.c:1578` against
  `docs/language/async.md:8`);
* `err.Trace` is empty inside the native handler that caught `err` (`kn_codegen_expr.inc:6214` against
  `exceptions.md:66`);
* a native error gets as `Inner` the error handled last, however long ago (`kn_codegen_expr.inc:1039` against
  `exceptions.md:65`); in the machine `Inner` stays null (`Context.kn:615` against
  `tests/common/exception_inner.kn:32`);
* an error that is already among the causes of the last one, and is thrown with an empty Inner, closes a cycle of
  causes: make `e2`, make `e1` with `e1.Inner = e2`, throw and catch `e1`, throw `e2`.  No error is thrown twice here;
  throwing one again, or an assignment, can close a cycle too.  The report of the uncaught error
  (`kn_codegen_expr.inc:4935`) then never ends, against `exceptions.md:202` ("Uncaught exceptions will terminate the
  program").  `CausesEnd` says how far this goes;
* the constructor with an Inner of `exceptions.md:83` is refused by the compiler, which knows one with at most two
  arguments (`kn_builtins.c:143`, `kn_sema_expr.inc:1011`);
* a pointer to a local of a finished call is accepted once another call is as deep (`Context.kn:765` against the
  message at 767);
* a Stop that clears `running` before Start stores 1 in it is undone by that store (`kn_web_civet.c:846`).  When a handler
  called it, served between `mg_start` and the store, its `mg_stop` does not return and a Wait that follows never ends:
  `StopEndsWait` speaks of a handler's Stop only while the flag is clear.  When another Kinal thread called it, `mg_stop`
  returns, Wait ends (`StopEndsWait`), and Start may meanwhile use the freed context (845).  Nothing says when a server
  may be stopped;
* two tasks that wait for one child process race in `waitpid`, and `IO.Async.Wait(h, -1)` may return false
  (`kn_runtime.c:1237` against `docs/language/async.md:137`);
* language server (`main.cpp`): after a change of the language from zh to en without a locale file the texts of the
  diagnostics stay Chinese (5079-5090, `kn_diag.c:553`); a file closed without saving stays in the index with the text
  that was thrown away (7864), which `Settled` excludes; a file event indexes the file even while it is open with
  another text (7794); the diagnostics of open documents that depend on a changed file are not published again (7774);
  events of one batch are indexed before `rebuild_known_units`, so that references in the second file to units of the
  first are not yet known (1455, 7794); a URI of another spelling than the canonical one hides the open text.

### Bounds

* Tasks: two threads beside Main are enough for every pair of roles (spawner and spawned, two finishers, finisher
  and reader); `MaxFinish` is 1, so that the native entry finishes a task once or never.  A value, an error and
  nothing tell a right result from a wrong one.
* Processes: three users (two handles, a run) of two pids, so that a pid that one has reaped goes to another; one
  number, which as an exit code and as a signal makes two statuses.
* Collector: two addresses suffice for reuse and for a cycle; symmetry permutes addresses and threads of a kind,
  which no action tells apart.
* Collector, programs: `{k1, k2}` is the one with tasks, `{w1}` the one with an HTTP thread.
* Native exceptions: three calls deep and two blocks open in all frames together (`MaxBlocks`) give a Try inside a Catch
  and exceptions that cross a call without a Try.  Two errors make a cycle of causes, two types a handler of the wrong
  one.  `TraceSize` is 17 and the names have 1 and 8 bytes: the long one fits once and not twice, and the short one fits
  where the long one has been skipped.
* Machine: three calls deep, four blocks open in all frames together (`MaxBlocks`), so that a Try in a Catch in
  a Try meets a call with a Try of its own.  `PointedAt` names the depths pointers are made for; 1 and 2, so that a
  pointer of the outer frame stays good while one of the inner goes stale.
* Table: five keys are the fewest that make a table of 8 grow; hash codes 7 and 8 collide, wrap and are neighbours at
  one size and not at the other.  No run fills a table: that there is room (`RoomLeft`) is proved instead.
* Web server: two workers, so that one request can be under way while another stops the server; one route, whose
  handler may stop it.  Starts and stops are not bounded.
* Language server: two files, so that the tables of one change while the other is looked up, two texts; settings that
  name a language alone, English with no locale file, or a locale file of the user's with "auto".  `MaxQueue` 2 lets two
  messages about one document, or an event and a message, be overtaken by a change; the proofs are for every
  length.

`MaxFrames`, `MaxBlocks`, `MaxFinish`, `MaxQueue` and `PointedAt` are bounds of the models, in the guards
of the actions; the proofs hold for every value of them.

### Fairness

`AsyncTask!FairSpec`: the operating system runs every thread (weak fairness of spawning, finishing, awaiting and of
the end of a thread), and a body that comes back to its statements again and again ends (strong fairness of
`RunnerFinish` and `ForeignReturn`: bodies terminate; a body that loops for ever makes its awaiter wait for ever,
by intent).  Nothing is assumed of Main, of a Throw, of a Spawn.

`ChildProcess!FairSpec`: a call under way goes on, and time passes (weak fairness of `Deadline`).  No child has to
end, and nobody has to call.

`WebServer!FairSpec`: threads run on and route handlers terminate (weak fairness of the thread of Main in Start and
Wait, of `Join` and `EndStop`, and of each thread that has a request).  Nobody has to call Start or Stop, no client
has to come, and none has to stay.  `StopEndsWait` is the point: a handler that calls Stop waits in `mg_stop` for its
own thread for ever, and Wait returns all the same because it polls the flag too.

## 4. The proofs

All are for every value of the constants.

* `AsyncTaskProofs`.  `IInv` adds to `TypeOK`: a task under construction has no thread (`SpawnInv`), a thread inside
  a call has a target (`TargetInv`), `done` is 2 exactly while one thread is between its compare-and-swap and its
  publishing store and 1 only for ever after (`DoneInv`), and the counter is the number of tasks that are being
  created or have a thread (`CountInv`).  `CollectorGate` is `CountInv` at 0, `FieldsRaceFree` follows from
  `DoneInv`.  `Refinement` proves `ImplementsPromise`: each step settles a task, observes one, or stutters.
  `AwaitsCannotDeadlock` is the part of `AwaitReturns` that needs no fairness: in any set of threads that wait, one
  waits for a task that a thread outside of the set is finishing or running.  What a thread knows of tasks is what it
  has spawned and what it was given when it was spawned, so that in any set of tasks one knows none of them
  (`RingInv`), and waits close no cycle; a task that nobody has finished has its thread still (`FinishInv`).
  `AwaitYields` needs one more invariant, `YieldInv`: as long as no native entry has finished a task, a task of a
  generated runner is finished by its own thread only, and on the way from the body to the fields to the awaiter what
  is carried is what the body ended with.
* `AsyncTaskProofs` and `CollectorProofs` together.  `AsyncTask` has the steps of a task in full and no heap,
  `Collector` a heap and tasks of three steps; `LiveTasks` is what they share.  `ImplementsLiveTasks` and
  `TasksAreLiveTasks` prove that both implement it, so that the tasks a collection is safe against are counted as
  those of the runtime are.
* `ChildProcessProofs`.  `IInv` is `TypeOK`, `ChildrenOwned` and `AnswersTrue` with what they need: a record says how
  the child of its handle ended (`RecordInv`), and a call goes on only while its handle waits, began before the child
  ended unless it has just seen it alive, and is late only in a Wait with a time (`CallInv`).  Both properties are
  needed for each other: a handle that waits owns its pid, so that what `waitpid` answers is about its own child, and
  it gives the pid up in the step that records the answer.  `HandlesFaithful` is an action property from the same
  invariant: a handle names one child from Spawn to Close, its record is final, and its memory is freed only when
  the child has ended.
* `CollectorProofs`.  With uncounted threads that run what the counter promises is false, as `gc_web` shows: the
  invariant and four theorems are about programs in which all threads are counted, and say so in their statements
  (`AllCounted`, which no step of such a program ends), with any `Worker`.  `IInv`: the counter is the number of
  counted threads (`CountInv`), a thread that is not running holds nothing, a collector is alone, everything held and
  every field of a block is in the block list (`HeapInv`), and during a collection the marks respect the phase, in the
  tri-colour sense (`MarkInv`: a marked block off the stack has its field marked).  From it `NothingDangles`,
  `OnlyGarbageIsFreed`, `RunsAlone`; `AllGarbageIsFreed` needs in addition that what is marked is reachable.  Four
  theorems hold with uncounted threads that run: `TypeCorrect`; `OneCollects` and `NothingLinked`, from `LockInv`, by
  which the collecting thread is the one that has the lock; and `TasksKeptOut`, from it and `CountInv`: no task runs
  or collects during a collection, as none is counted when it begins and none can be allocated before it ends.
* `NativeExceptionsProofs`.  `IInv`: an exception is pending while the stack unwinds and none while statements run, an
  exception under way has left a function (`PathInv`), the buffer tells its path, and until the exit the saved trace
  tells that of the exception caught last (`SavedInv`).  `PushedTells` is the heart of it: what a buffer tells stays
  true when another function is pushed, whether its name fits or is skipped, as room never grows. `CausesEndAlways`
  needs `CauseInv`: only errors that have been made are causes, pending or last, so that the Throw that makes an error
  gives a cause to one that is nobody's cause, and closes no cycle; any later cause is recorded in `relinked`.
  `InnermostTry` proves `InnermostTryHandles`: `PromiseView`, `UnwindView` and `ThrowView` say what the steps of
  `TryCatch` are when its stack is `StackOf(frames)`, and each action of the generated code is such a step or a
  stutter (`Continue`, `Propagate`, `ClearCall` and the report of causes are stutters).
* `VMFramesProofs`.  `IInv`: in every frame each open Try has a handler, and below any handler each Try around its own
  has one too, so that taking handlers from the end disarms none that stays open (`Covered`); in programs that do not
  jump out of a Try nothing else is armed, and the handlers are in the order of the blocks (`Armed`).
  The lemmas `PushGood`, `PopGood`, `JumpGood` and `CatchGood` say this for one frame; `CoversStays` and `CutArmed` are
  what they have in common.  `TypeCorrect` and two theorems hold of every
  program: `NoTryDisarmed`, that a jump leaves a handler too many and never one too few, and `UncaughtOnly`, that
  an exception ends the program only if no open Try takes it.  They bound the defect `vm_jump` shows: what is wrong
  after a jump is that a handler left behind may take an exception.  `HandlersRight` and `Refinement` are of
  programs that do not jump out of a Try.
  `Refinement` proves `ImplementsTryCatch` along the same views; `CatchersMatch` is the heart of it: by the invariant
  the handlers of a frame that match an exception are exactly those of the Try blocks that catch it, so that the last
  of them, which `RaiseException` takes, belongs to the innermost.
* `HashTableProofs`, under the assumption `Fits`: the rehash of a Remove does not fail, and where the growth of a Set
  may fail there are fewer keys than the smallest table has slots.  `IInv`: outside of a rehash the search for every
  stored key gets to its slot over slots that hold other keys (`Reached`), a rehash has copied what it has passed and
  nothing else (`CopyInv`), no key is stored twice, and `count` is the number of slots in use and leaves room for the
  next key. `InsertReached` is the heart of it: writing where a search ends keeps all others reached.  `Refinement`
  proves `ImplementsDictionary`.  Both parts of `Fits` are needed: after a failed rehash in `Remove` the hole stays
  and keys behind it are lost, and a `Set` that cannot grow the table goes on in the old one until that is full.  The
  `table` run is an instance of it.
* `WebServerProofs`.  `IInv`: one Stop at a time; that of a handler has a context to drain, and a context that is up is
  stopped by nobody or by a Task that found none (`StopInv`); one library reference exactly for a context
  (`LibraryInv`); no request without a context, and a handler that stops the server does not come back (`BusyInv`); and
  for each request how what was sent, how the handler ended and the connection fit together at every point of the
  dispatch (`RequestInv`, `CleanInv`).
  Three theorems are what its liveness rests on.  `WaitMissesNothing`: what Wait polls for does not go away while it
  waits.  `OneRequestLost` and `HandlerStopIsFinal` say what a Stop from a handler costs: its own request, no other, and
  the server for good.
* `LanguageServerProofs`.  `IInv`, over the messages on their way: the last event of a file tells whether it is there
  (`EventInv`), declarations in the cache are right or an event is due (`CacheInv`), so is the index (`IndexInv`), the
  last message about a document is what the editor has (`BufferInv`), a change comes while the document is open
  (`ChangeInv`), the last settings are those the editor sent last and, with none on their way, the configuration
  follows them when they are complete (`WishInv`), and what is shown is of the server's own text and configuration
  (`ShownInv`).  With nothing on its way each gives its theorem.

The assumptions on constants are the named ASSUMEs of the modules: sets of addresses, threads, handles and runs that do
not overlap, and markers (no block, no record, no pid) that are not among the values they stand beside.  Every
invariant and action property of the runs that pass is a theorem.  Model-checked only: liveness (`AwaitReturns`,
`WaitsEnd`, `StopEndsWait`, `RequestsEnd`), as temporal reasoning with fairness is out of the prover's reach.

Mutants: each property of a passing run has in `PROJECT.json` a changed definition, a plausible slip in the code,
under which TLC finds that property violated.  They are next to the definitions they replace.

## 5. Not modelled

* Lists of the native runtime, Keys and Values of a table: loops over an array with one test before each.
* The instructions of the machine on values, and register allocation and the encoding of instructions in the emitter:
  translations of one form into another, whose limits (registers in a byte, targets in 16 bits) are listed as hazards.
* The lexer, parser, semantic analysis, HIR and code generation: pure functions of syntax trees of unbounded size, of
  which small instances show little; the control flow of the generated code is in `NativeExceptions`.
* Files, the HTTP client, JSON and UI wrappers: calls of the operating system or of C libraries, with
  no state of their own between calls but a handle.
* The module registry: filled by one thread before Main runs, read-only afterwards.
* Temporary root frames that an exception skips: a leak of bookkeeping that nothing reads again.
* The ports of collector, tasks and exceptions in `IO.Kinal.Runtime`, and the self-hosted compiler: the same
  protocols and passes a second time, in Kinal.
* The driver, packages, linker front end, formatter, diagnostics and scripts: sequential reading of files and layout
  of text, where an error ends the program.
* Exhaustion of memory in the bookkeeping of the collector, and in a table that is full or that rehashes in `Remove`:
  no document says what is promised then.
