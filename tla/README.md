# A TLA+ model of asgiref

asgiref lets synchronous and asynchronous Python call each other. Its core is
the *bridge* of `asgiref/sync.py`: `sync_to_async` turns a function into an
awaitable that runs it on a thread, `async_to_sync` turns an awaitable function
into a call that blocks the calling thread, and the two nest in each other to
any depth. Around it are small libraries for ASGI servers and tests. This
directory models the bridge, the executor it idles in, the context managers and
the context-local storage that steer it, the WSGI adapter, the stateless server and
the test communicator with its timeouts, checks them with TLC and proves their
safety with TLAPS.

## Inventory

| Part (source) | State | Operations | Interacts with | Hard because |
|---|---|---|---|---|
| `CurrentThreadExecutor` (`current_thread_executor.py`) | queue, broken flag, owner thread, link to the executor that was current before | `__init__`, `run_until_future`, its `done()` callback, `submit` | made by `AsyncToSync.__call__`, fed by `SyncToAsync.__call__` through `run_in_executor` | lock, condition variable, a queue that closes while work arrives, a walk over executors that quit meanwhile |
| `AsyncToSync` (`sync.py` 186-406) | `executors.current` (a `Local`), `loop_thread_executors`, per call: `call_result`, `context` cell | `__call__`, `main_wrap` | posts to the parent loop, starts new loops, parks in the executor, registers with the caller's `task_context` | loops stop while a call is posted; contexts are copied between threads; the thread must run sync code while it waits |
| `SyncToAsync` (`sync.py` 409-604) | `threadlocal` (loop, `task_context`), `single_thread_executor`, `deadlock_context` | `__call__`, `thread_handler` | chooses a thread, sets the thread local `AsyncToSync` reads, cancels `AsyncToSync`'s task | a running function cannot be cancelled; the same thread must be reached however calls nest |
| `ThreadSensitiveContext`, `AsyncSingleThreadContext` (`sync.py` 90-183) | context variables, weak maps to executors | enter, exit | read by the two `__call__`s | exit joins a thread that may wait for the loop; inherited by tasks that outlive it |
| `Local` (`local.py`) | one context variable or thread local per object, tagged with a thread ident | get, set, delete, re-homing | `executors` is one | contexts inherited by unrelated threads |
| `StatelessServer` (`server.py`) | `application_instances` | create or reuse, reclaim, delete, checker, `arun` | applications are tasks; `handle()` is user code | the checker awaits in the middle of its scan |
| `timeout` (`timeout.py`) | task, timer handle, cancelled flag | enter, exit, timer | `ApplicationCommunicator` | timer and outside cancellation arrive together |
| `ApplicationCommunicator` (`testing.py`) | the application's task, two queues | send, receive, wait, stop | `timeout` | cancels and awaits what it tests |
| `WsgiToAsgi` (`wsgi.py`) | response started, start message, content length | request collection, `start_response`, response loop | both halves of the bridge | order of messages, limits on what is sent |
| `compatibility.py`, `typing.py`, factories | none | pure | | |

What makes each correct, in a sentence: an executor loses no work and no wakeup
and stops; sync code runs on the thread its documentation promises, with the
context it left behind; a cancellation reaches what has to be cancelled and
nobody walks away from a running function; every call returns; the server keeps
track of every application it started and of no more than its limit; a timed
call ends, leaves nothing running and says truly why it ended.

## Modules

| Module | Models | Used by |
|---|---|---|
| `CurrentThreadExecutor` | `current_thread_executor.py` | its run, `CurrentThreadExecutorProofs` |
| `ExecutorContract` | what a stack of executors promises, abstractly | instantiated by `CurrentThreadExecutor` |
| `CurrentThreadExecutorProofs` | theorems and proofs | `ExecutorContractProofs` |
| `ExecutorContractProofs` | the refinement of `ExecutorContract` | |
| `SyncBridge` | `AsyncToSync` and `SyncToAsync` composed with threads, tasks, loops and executors | `MCSyncBridge`, `SyncBridgeProofs` |
| `SyncBridgeProofs` | the bridge's main invariant: stacks, contexts, calls, `task_context` | `SyncBridgeThreadProofs` |
| `SyncBridgeThreadProofs` | which thread sync code is sent to, which executor is current | |
| `StatelessServer` | `server.py` | its runs, `StatelessServerProofs` |
| `Timeout` | `timeout.py`, as operators on a record | `Communicator` |
| `Communicator` | `testing.py` | its runs, `CommunicatorProofs` |
| `MCSyncBridge` | symmetry for TLC | the bridge's runs |
| `LocalStorage` | `local.py` and `_restore_context`, as operators on contexts | `ThreadContexts` |
| `ThreadContexts` | `ThreadSensitiveContext`, `AsyncSingleThreadContext` and `Local`, composed with tasks, threads and nested calls | `MCThreadContexts`, `ThreadContextsProofs` |
| `MCThreadContexts` | the programs TLC lets run | its run |
| `Wsgi` | `wsgi.py`, composed with what the bridge makes of cancellations and sends | its run, `WsgiProofs` |
| `HttpResponse` | what a server may see of one response, abstractly | instantiated by `Wsgi` |
| `StatelessServerProofs`, `CommunicatorProofs`, `WsgiProofs`, `ThreadContextsProofs` | theorems and proofs | |

### CurrentThreadExecutor

State: per executor `_work_thread`, `_old_executor`, `_work_items`, `_broken`
and where its owner is in `run_until_future` (`loop`, `work_item`); per thread
the stack of its executors and the `submit()` it is in (`sub_item`, `sub_at`);
per item the state of its `Future`. A step is a section under `_work_ready`, or
a call outside of it. The owner's loop is `RunUntilFuture`, `Wait`, `Break`,
`PopLeft` (its head, under the lock), `SkipCancelled`, `Start`, `Finish`
(`_WorkItem.run`). `Resolve` and `Done` are two steps because the future is
resolved first and its callback takes the lock afterwards. `submit()` is
`Submit` or `SubmitFromOwnThread`, then one `Enqueue`, `WalkUp` or `RaiseQuit`
per turn of its loop. A thread drives only its innermost executor, and submits
or makes a new one only while that one runs an item. `New` takes as
`_old_executor` *any* executor made before, or `None`, whichever thread made it:
more than the context propagation of the bridge produces, so what holds here
holds for the bridge. A spurious wakeup only repeats the test of the loop head.

`ExecutorContract` has no queue, lock or walk: items are offered, accepted by
one open executor or refused, run once or cancelled, and an executor may leave
only when it owes nothing. `ImplementsContract` states the refinement.

### SyncBridge

Tasks (`task`), invocations of `SyncToAsync.__call__` with their functions
(`scall`), invocations of `AsyncToSync.__call__` (`acall`), what each thread is
inside of (`stack`), `SyncToAsync.threadlocal` (`tlocal`), the event loops
(`loop`). An `acall` identifier also names the call's executor, its `main_wrap`
task and the loop it makes, if it makes one. A context is the pair of context
variables that steer the bridge: `executors.current` (`cur`) and
`deadlock_context` (`dead`). `_restore_context` copies these two.

- `SyncToAsync.__call__` to its first await: `CallOnParent`, `CallOnWorker`,
  `CallInPool`, `CallRefused`, one per way the executor is chosen.
- The thread: `ThreadHandler`, then user code, then `FunctionReturns`.
- From the await on: `AwaitReturns`; `CancelledAlone` and `CancelledWithChild`
  (the `except CancelledError` block, by whether `task_context` is empty),
  `JoinReturns`, `CancelledInJoin` (`await task`), `CancelledInDrain`
  (`await exec_coro`). All end with `Leave`, the `finally` block.
- `AsyncToSync.__call__`: `AsyncToSyncCall` up to the `is_running()` test,
  `CallSoonThreadsafe` (a separate step, because the loop may stop in between),
  `OnNewLoop`, `AsyncToSyncReturns` (the `finally` block and the result).
- `main_wrap`: `TaskStarts`, then user code, `TaskReturns` (off `task_context`,
  context captured), `SetResult` (a separate step: it wakes another thread).
- asyncio: `CreateTask`, `ExecCoroDone`, `ExecCoroCancelled`,
  `CancelledUnstarted`, `CancelledInCode`, `BeginClose`, `ResumeClose`, `EndClose`,
  `Close`; user code: `CreateUserTask`, `RunUserLoop`, `CancelTask` (any task, also a
  `main_wrap` from within, as a timeout does).

`asyncio.run` runs its loop several times: for the main task, then for the tasks it
cancels, the asynchronous generators and the default executor. Between these runs
`is_running()` is false although the loop will go on. The state `gap` is the one after
the main task; `SeenIdle` lets a call find the loop idle also in the later ones, that is
once the cancelled tasks are done. So a thread that calls `async_to_sync` while its
caller's loop shuts down may post to that loop or be given a new one.

Which calls user code makes is nondeterministic, and whether it passes on or
catches what a call raised. The `RuntimeError` of `AsyncToSync.__call__` on a
thread with a running loop is the guard that the top of the thread's stack is
sync code. Executors are taken at the level of `ExecutorContract`: an item goes
at once to the closest running executor of the chain.

### StatelessServer

`instances` are the instances in the dictionary and `added` numbers their
insertions, so that a `dict`'s order of iteration is the order of `added`; `future`
is the state of each application's task; `checker` is where `application_checker`
is and `todo` what it has yet to visit of its copy, `First` being the next. All runs on one loop, so a step is what happens
between two awaits: the checker's scan excludes other steps (`Free`) except
where it awaits `application_exception()`, and there only if that was overridden
to await something (`TRUE \in Suspends`). `Reclaimed` is the whole `while` loop: every instance of which at least
`MaxApplications` others are younger in the order in which
`delete_oldest_application_instance` would take them (`Rank`).

### Communicator and Timeout

Two tasks of one loop: the caller of the communicator (`pc`, `waiter` and its
`_must_cancel` as `must`) and the application (`future`, `cancelling`). A call is
an action up to its first await (`ReceiveOutput`, `Wait`, `ReceiveNothing`, or the
`...AtOnce` form when it does not suspend) and one action for each way it goes on.
What makes the races is `CancelCaller`, `Task.cancel`: it cancels a pending future,
or the awaited application *instead of the caller*, and sets `_must_cancel` only
if the awaited is already done. `Fire` is a timer, `OutsideCancel` any other code;
both may come at any turn. Each call has its own timeout record, because a zero
timeout's callback cannot be cancelled and runs after its call. Queues are
counters: nothing depends on what a message says. `outside` and `heard` are
history. The application is arbitrary: it sends, receives, catches a
`CancelledError` and goes on, returns, fails or ends cancelled. The `finally` block
of `wait` (lines 59-64) has no action: `await self.future` goes on only when the
application has ended, so the block finds it done (it is there for exceptions of
the timeout's own construction). A test's comment
(`tests/test_testing_extended.py`, on `test_wait_timeout_cancels_uncaught_app`)
has it that the block does the cancelling; it is the await that does.

### ThreadContexts and LocalStorage

A context is a function whose domain is the context variables that are set, so
`_restore_context` adds one context to another, the two `Local` variables re-homed
(`Restore`), and
`token.reset` takes a variable out of the domain. A `Local`'s variable holds an ident
and the data; `AsyncToSync.executors` and a `Local` of the program are two such
variables. A `thread_critical` `Local` keeps its attribute with the thread
(`thr[t].critical`) and, in async code, in a context variable that each thread makes
for itself (`CVar`).

`code` lists the pieces of code that have come to be (main coroutine, tasks, threads,
called functions and coroutines), each with its context, thread, loop and caller;
`thr` the threads made for them, with ident, `threadlocal.main_event_loop` and
whether their executor is shut. `SyncToAsyncCall` and `AsyncToSyncCall` choose the
thread as the code does (executor of the waiting sync code, executor of the context;
parent loop, own loop, shared thread); `Start` and `Return` carry the context there
and back. For `AsyncSingleThreadContext` the look into the map and its use are two
steps (`OnSharedThread`), because other threads may share the context; for
`ThreadSensitiveContext` they are one, on one loop. `AExit` pops, resets and leaves
the join to another thread (`pc` is `exit`, the loop goes on), `Exit` blocks
(`pc` is `block`, and nothing else runs on that thread). An end of a call and the
return of its caller are one step: nothing reads the context in between.

Calls nest here: tasks are created only on the main loop, by code no sync code waits
for. Cancellation of calls, tasks on loops that close and the single worker thread
are `SyncBridge`'s. `leaked`, `raced` and `via` are history.

### Wsgi

Two actors: the ASGI task (`task`) and the thread of `run_wsgi_app` (`thread`), which
sends each message through a task of its own (`send`) and waits for it. `Receive`
collects the body; `ThreadStarts` is `build_environ` and the 400 answer; the WSGI
application calls `start_response` (`StartResponse`, or the ways to be refused before
or half-way), yields, returns or raises in any order. `SendReturns` and `SendRaises`
are `main_wrap` around the server's `send()`; the thread goes on in the same step
(`Continue`). Cancellations are what `SyncToAsync.__call__` makes of them, in two steps
where it matters: `CancelShield` requests one, `RaisedAtShield` is the `CancelledError`
a turn of the loop later, and messages may end or begin in between. If one is being
sent then, the task cancels the send, awaits it (`join`) and then the thread (`final`);
else it leaves. Elsewhere nothing that happens in the turn between makes a difference
(`CancelLeaves`). Outputs are their lengths, `chunks` counts them. `wire` is the
sequence of messages sent; `produced` and `delivered` (the lengths yielded and sent,
all together), `halfway` and `hit` are history. `Sent`, the kinds of
all messages on the `wire`, is the variable of `HttpResponse`, so that a body before the
start message, a second start message or anything after the last one is no step of it.

## Runs

Passing runs:

| Run | Shows | Bounds |
|---|---|---|
| `CurrentThreadExecutor` | nothing stranded, no lost wakeup, each item in one place, closest executor, justified refusal; every submit settles, every call returns; implements the contract | 2 executors (nested, or a chain across threads), 2 items (two queued, or one queued while one runs), 2 threads; the safety part is proved for all sizes |
| `SyncBridge_nested` | same thread, contexts restored and captured in time, `task_context` exact, no function left behind but those with a loop of their own below them | 2 functions and 2 calls (sync in async in sync in async, below either kind of program), parent loop or forced new loop, 1 task or loop of the user's own (so that loops close with calls under way, and tasks with an empty context call), 1 cancellation by user code; the one that a closing loop adds meets the handling of the first, and the theorems hold for any number |
| `SyncBridge_live` | every `async_to_sync` call returns; executors and contexts are one's own | 3 functions (two of them compete for a thread, or nest one deeper), 2 calls, thread-sensitive or not, parent loop or forced new loop; as many pool threads as functions; no cancellation |
| `ThreadContexts` | one thread per context; an exit waits for the context's functions and returns although they may wait for its loop; `Local` data follows calls there and back and stays out of strangers' sight; everything ends | one program per concern (`MCPrograms`): 5 pieces of code for the managers (two tasks or threads in a context with a call each, or a call nested three deep), 3 or 4 for a `Local` (a thread that inherits from a thread that has ended, a call and a call within), 2 managers (nested, or one after the other), 2 writes, 2 attributes |
| `Wsgi` | the messages form a well-formed response of the declared length, the body stays open, the request ends | 2 request messages, 2 calls of `start_response`, 3 outputs of length 0 to 3 and a content-length 0 to 3 (cut off in the middle, at the end, before any), 2 cancellations |
| `StatelessServer` | one entry per scope, limit plus one, LRU, nothing lost but through a stale copy, ended applications removed | 3 scopes, 3 instances (reclaiming needs three scopes, re-creation two instances of one), limit 1, clock 0..1 (ties and orders) |
| `Communicator` | the application has ended after `wait()` or a timeout; no stray, lost or misreported cancellation but the one below; no hidden failure in a call that was not cancelled; `receive_nothing()` misses nothing; timed calls return | 4 calls of any kind with a `None`, zero or positive timeout (a leftover zero timer meets later calls), 2 messages, any number of outside cancellations |

Violation runs, each a disagreement between the code and its own words:

| Run | What happens |
|---|---|
| `SyncBridge_parked` | `is_running()` is true while `asyncio.run` shuts down; a callback posted then is never run, or its task is cancelled before it starts, and the thread stays parked |
| `SyncBridge_selfwait` | the `finally` block clears `deadlock_context` whatever it was before; a later call then deadlocks instead of being refused |
| `SyncBridge_stale` | `threadlocal.task_context` is not put back after a nested function; a cancellation misses the running child |
| `StatelessServer_limit` | with `max_applications` instances in the dictionary one more is added and none reclaimed: the test is `>` and comes before the insertion (line 103), while the docstring (lines 32-34) says that one is reclaimed to make space, and the test at `tests/test_server.py` 169 that 10 is the number with a limit of 10 |
| `StatelessServer_checker` | a cancelled application ends the checker and the server |

### Deviations

The passing properties are stated in the strongest form the code satisfies. Where
that is weaker than what one would expect, this is why:

- `SameThread` excepts tasks that call after the awaitable their loop was made
  for has ended: `new_loop_wrap` deletes the entry of `loop_thread_executors`
  (line 305) while `asyncio.run` still lets other tasks finish. A task without
  the bridge's context is then sent to the worker although the main thread is
  idling for it.
- `CurrentIsOwn` is checked without cancellations. A cancelled `sync_to_async`
  call copies back (line 571) the context of a function that may still be inside
  `async_to_sync`, and its caller goes on with that inner call's executor.
- `NeverLeftBehind` excepts functions that called async code with a loop of its own
  (`OwnLoop`): the task to be cancelled lives on another loop, awaiting it (line 558)
  raises `RuntimeError`, which replaces the `CancelledError` and leaves the function
  running with its future not cancelled. This takes `force_new_loop`, or a call that finds
  its caller's loop idle between two of the runs `asyncio.run` makes of it (line 311).
- The own-thread test of `submit()` looks only at the executor it is called on;
  the walk may continue to an executor of the submitting thread itself.
- `AtMostMaxPlusOne` is the limit the code does keep; `StatelessServer_limit` shows that
  it is not the documented one.
- `LostOnlyByStaleCopy`: the checker deletes by `scope_id` after an await, also
  when the entry holds a newer instance by then.
- `CancelsTold` excepts a timer that expires in the same call: the one
  `CancelledError` stands for both. It says nothing of `wait()`, which drops every
  `CancelledError` (line 56): it neither reports its timeout nor lets a
  cancellation of its caller through.
- `ErrorNotHidden` excepts, for `receive_output()`, a caller cancelled while it awaits the
  application it has just cancelled: line 115 drops the `CancelledError` that hides the
  failure. For `wait()` it excepts calls that their timer or other code has cancelled. If
  that comes after the application has failed, in the same turn of the loop for instance,
  the `CancelledError` takes the place of the application's exception and line 56 drops it:
  `wait()` returns as if nothing had failed, although it "returns any exceptions" (line 49).
- `OneThread` and `ExitWaits` except contexts for which two threads made an executor
  at once: the test and the insertion of lines 329-333 are not atomic, and one of the
  executors is forgotten. Only threads that inherited an `AsyncSingleThreadContext` can
  do that. Both also leave out what is sent after the exit: a task that inherited a
  `ThreadSensitiveContext` and calls afterwards gets a new executor (line 504) that
  nobody shuts down, and its function may run at the same time as one of the old.
- `Terminates` excepts `SelfWait`: in an `AsyncSingleThreadContext` an `async_to_sync`
  with `force_new_loop`, nested in another, queues behind the coroutine that waits for it.
- `Isolated` excepts two things that the comment at `local.py` 22-23 ("data merely
  inherited by an unrelated thread is never re-homed and so stays isolated") does not
  foresee. `_restore_context` re-homes storage without a look at its owner (line 66), so
  a thread that inherited a context sees the strange data after its first
  `async_to_sync`; and a new thread may get the ident of the thread, since ended, whose
  data it inherited.
- `LengthKept` excepts a `start_response` that fails at its content-length after an
  earlier one was accepted: `response_content_length` is reset (line 126) and
  `response_start` keeps the old header, so more bytes are sent than that allows.
- `BodyKeptOpen` excepts second cancellations and those whose `CancelledError` is not
  raised during a send: `__call__` ends, the body is closed while the WSGI application
  reads it, and its messages are still sent. A cancellation requested during a send is
  one of these if the message has been sent when it is raised, a turn of the loop later:
  `task_context` is empty by then (`sync.py` 555).
- Any `ValueError` of `build_environ`, a query string that is not ASCII for instance, is
  answered with "Too many duplicate headers" (`wsgi.py` 145-160).

Every deviation and every violation was reproduced with a small program on the
library itself; for the idle loop of `NeverLeftBehind` the program makes the gap between
two runs of the loop longer.

Deadlock checking is off everywhere: programs end, and user code need not call
anything. That nobody waits forever is what the liveness runs are for.

**Fairness.** Weak fairness of each thread's, task's, loop's and callback's own
steps: the operating system schedules threads, a running event loop runs its
ready callbacks. It includes that a sync function that calls nothing more
returns, that the awaited future is resolved and that user code awaiting nothing
ends, which is what callers owe the library; nothing forces user code to call,
submit, spawn or cancel. In `ThreadContexts` no step can be repeated for ever, so weak fairness of the
whole next-state relation is enough. In `Wsgi` the server's `send()` and the WSGI
application end; nothing makes the client send. In `StatelessServer` the checker's sleep and an
overridden `application_exception()` end. In `Communicator` an application may run
for ever until a `CancelledError` has reached it, and ends after that: without
this `wait()` and `receive_output()` have no bound, since they await it.

**Symmetry** of calls, tasks and pool threads is used in the safety runs of
`SyncBridge` only; it would be unsound for liveness.

## Proofs

Each theorem holds for every value of the constants that the module's named
assumption allows (`None` is nothing else, kinds of identifiers are disjoint, bounds
are natural numbers): any number of threads, calls, tasks, loops and messages, any
depth of nesting. Every invariant below is the strengthening that makes the property
inductive; one lemma per action shows that the action keeps it.

### CurrentThreadExecutorProofs, ExecutorContractProofs

- `TypeCorrect`: `TypeOK` is inductive.
- `NothingStranded`, `NoWakeupLost`: `QueueInv` adds to the two properties that
  an executor whose loop has not begun is not broken (`OpenAtFirst`); without it
  `done()` could precede the loop.
- `ItemsHeldOnce`: `ItemInv` adds what `submit()` knows of the item it carries
  (`SubmitInv`: it is `SUBMITTING`, and no two threads carry the same) and how
  the loop's position, `work_item` and the item's state agree (`HoldInv`), then
  splits the property into "at most one slot" and "some slot exactly while
  unsettled". Lemmas `PopSlots` and `AppendSlots` say how a queue operation
  moves slots.
- `SubmitReachesClosest`, `QuitIsJustified`: `ChainInv`. The chain of an executor
  is the least set closed under `_old_executor`, so it needs no recursion.
  `BornInv` says chains lead from constructed executors to constructed ones,
  hence a new executor changes nobody's chain (`ChainKept`); broken executors
  stay broken; so what a walk has passed stays passed (`ReachesKept`), and
  `WalkInv` says a walk under way has passed only executors that have quit.
- `ExecutorImplementsContract`: the refinement `ImplementsContract`. `HeldOnce` makes
  the executor that owes an item unique, so a step that moves no slot keeps the owner,
  and a step that moves one is the contract's step of the same name.

### SyncBridgeProofs

`InvHolds` is the base: `Inv` puts together

- `StackInv`: a thread is inside of frames and, between them, of calls and loops in
  turn, each once and on one thread. It is what lets a return find its caller;
- `ContextInv`: a frame has the executor it started with, or the call above it will
  put it back. `ExecutorIsRestored` is its case of the topmost frame;
- `AwaitInv`, `FunctionInv`, `LoopInv`: who awaits whom, and that loops are started
  before they are used;
- `CallInv`: the stages of an `async_to_sync` call. Its two least obvious parts are
  that the first task of a new loop is never cancelled before it starts, so that the
  loop cannot stop before `call_result` is set, and that `cell` is the task's context
  whenever `call_result` is set. `ContextIsKept` follows, together with
  `OnlyReturns`: nothing but `AsyncToSyncReturns` ends a call;
- `TaskContextInv` and `TaskContextLive`: `task_context` holds no task twice, so that
  `list.remove` leaves none behind (`RemoveFirstFacts`);
- `ParentInv` and `NeverLeftBehind`: a call that took its `task_context` from a function
  is on the loop of the function's caller, or was given a loop of its own. So the task
  that a cancelled call awaits is on its own loop (`ChildOnSameLoop`) and `await task`
  does not raise, unless the function is one of those `NeverLeftBehind` excepts, and
  remains one (`OwnLoopStays`). `NothingIsLeftBehind` has no hypothesis: it says that a
  loop of its own below it is the only way to leave a function behind, with
  `force_new_loop` or without.

Steps that change one object in harmless ways are dealt with at once (`QuietStep`). The
prover found that two guards of the `CASE` in `BeginClose` overlapped, which leaves the
value of the task to `CHOOSE`; they are disjoint now.

### SyncBridgeThreadProofs

- `CodeRunsInTheSameThread` has the hypothesis `Sensitive = {TRUE}`, that of the
  property itself. `ThreadInv` gives each loop the thread where its sync code belongs
  (`Home`) and says, of four kinds of objects, that they point there: the current
  executor of a task, the place a function was sent to together with its current
  executor, the executor a call has found current and the loop it is posted to, and the
  loop in the thread's threadlocal. None of the four is inductive alone, because
  contexts and loops are handed round in a circle: task, function, call, task.
  `ChainThread` shows that a walk over executors never leaves the thread, whatever the
  length of the chain. `Excused` are the two exceptions of `SameThread`.
- `ExecutorIsOwn` has the hypothesis `WaitsForFunctions`: no `sync_to_async` call is
  left while its function is running. Without it the property is false (Deviations);
  the theorem says that this is the only way to lose the executor. `OwnInv` follows the
  executor from the task to the functions it calls and back.
- `ExecutorIsOwnUncancelled` is the same without that hypothesis, for all programs that
  neither cancel nor create tasks (`MaxCancels = 0` and `Spawn = {}`, as in the run that
  checks `CurrentIsOwn`). There one piece of code runs at a time, so the tasks form a
  path p[1], ..., p[k] (`Path`): all but the last wait for a function that is running
  (`Deep`), and only the function of the innermost is on top of a stack. A task is on
  its own loop or on that of a task further out, so when the main task of a loop ends
  there is no other for `asyncio.run` to cancel (`NobodyToCancel`). Hence nothing raises
  `CancelledError` (`Uncancelled`), and a task leaves `sync_to_async` only when the
  function's future is done: `WaitsForFunctions` follows from `SoloInv`.

### StatelessServerProofs, CommunicatorProofs, WsgiProofs

- `StatelessServerProofs`: `MadeInv` makes the order of the dictionary total, so ranks
  are distinct and the `while` loop leaves at most `MaxApplications` instances
  (`LimitIsKept`, by cardinalities); `OldestIsReclaimed` is the action property on the
  same order. `CopyInv` says what the checker's copy still has in common with the
  dictionary, for `OnlyStaleCopyLoses`.
- `CommunicatorProofs`: one invariant for all its properties. `CancelInv` says who can
  have cancelled the caller at each place it waits; `CountInv` bounds the queue by
  what was put into it, so that a getter woken up finds its message. Lemmas state what
  entering, leaving and the callback do to a timeout object.
- `WsgiProofs`: `WireInv` ties the place of `run_wsgi_app` to what has been sent, which
  gives `WsgiImplementsResponse`, the refinement of `HttpResponse`; `DeclaredInv` and
  `LengthInv` carry the content-length from `start_response` to the last message;
  `TaskInv` says where the task can be
  after a single cancellation that was raised while a message was being sent.

### ThreadContextsProofs

The theorems are about every set of programs with any number of pieces of code, writes
and entries. The assumption on the constants is that a program has at least one piece of
code, its main coroutine, and that the bounds are natural numbers. `InvHolds` is the
base again; `Inv` puts together

- `TypeInv`, `RoomInv`: types, and that code between its look into
  `context_to_thread_executor` and the use of what it found (`Looking`) has room for
  the code it is about to make;
- `PlaceInv`: where code comes from and where it runs, which never changes. Sync and
  async code alternate along callers; async code is on its loop's thread; sync code is
  on the thread of the sync code two callers up or, if there is none, on one that is not
  a thread of the program's own;
- `StateInv`, `WaitInv`: contexts are well formed and name code that exists; who waits
  waits for exactly one call. `TypeCorrect` follows from these four;
- `CurrentInv`: `executors.current` is the sync code that waits, or will be put back by
  the `finally` that ends `AsyncToSync.__call__` (`sync.py`, line 346). It is what makes `PlaceInv` inductive, because
  `SyncToAsyncCall` chooses the thread by it;
- `ExecutorInv`, `EndedInv`, `ManagerInv`: an executor that is kept belongs to one
  context and is not shut; nothing is left on a thread that has ended; contexts name only
  managers that were entered;
- `ViaInv` with `OneThread`: what an open context has sent went to the executor it keeps,
  and so will what has looked that executor up. `ContextHasOneThread` is not inductive
  without it: the next call could be sent elsewhere;
- `ExitInv`: what a context that was left has sent and is not done is on the very thread
  that the exit joins, or the exit was cancelled. `ExitWaitsForAll` follows, since
  `shutdown(wait=True)` returns only when the thread has ended (`EndedInv`);
- `ViewInv`: data tagged with the ident that the code will see as its own (`Home`, the
  caller's before the code starts) was written by itself or its task's creators.
  `LocalIsIsolated` is its case of code that has started. It holds through
  `RestoreFacts`, by which only the two `Local` variables are tagged anew, and through
  the ghost `leaked`, which records when this makes foreign data visible;
- `SharedInv`: a call has the `Local`'s variable if its caller has, and before it starts
  with the same value. `LocalIsShared`, the action property, needs it when the call
  returns: `_restore_context` deletes no variable, so the caller sees what the call saw
  only because the caller has no variable that the call lacks. Steps in which no call
  starts or returns are dealt with at once (`Quiet`).

The exceptions in the statements (`raced`, `leaked`, a thread whose own context already
has the variable) are those of the properties that TLC checks.

### Only model-checked

Liveness (`EveryCallReturns`, `EveryRequestEnds`, `Terminates` and their like) is out
of the prover's reach. Every invariant and every action property of a passing run has a
theorem. Two theorems have a hypothesis on the constants, each that of the property or
of the run: `CodeRunsInTheSameThread` and `ExecutorIsOwnUncancelled`; `ExecutorIsOwn` has one on the behaviour.

## Not modelled

A user-supplied executor or `context=`, the process id test after a fork and the
passing of `exc_info`, in `sync.py`; `AsyncSingleThreadContext` entered in async code,
one `ThreadSensitiveContext` used from two loops at once, and the weak maps' removal of
executors whose context is garbage; in `wsgi.py` the contents of the environ and a
negative content-length; `timeout` outside a task, its
`remaining` and its use by other code than the communicator, nested in another
timeout for instance;
signature inspection (`compatibility.py`), types and factories (no state).
Exhaustion of the default executor's threads is excluded by giving the liveness
runs as many pool threads as functions.

## Plan

Done: a module for every part of the repository that has state of its own, and proofs
of all its safety properties. What could be added are the parts under "Not modelled"
that have state: `context=` shared by concurrent calls, and a default executor with
fewer threads than functions that wait.
