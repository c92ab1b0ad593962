------------------------------ MODULE SyncBridge ------------------------------
(***************************************************************************)
(* asgiref/sync.py: AsyncToSync and SyncToAsync, the two halves of the     *)
(* bridge between sync threads and event loops, composed with the threads, *)
(* loops, tasks and executors they run on.                                 *)
(*                                                                         *)
(* Async code (a task) may await sync_to_async(f)(): f runs on a thread.   *)
(* Sync code (a frame on a thread) may call async_to_sync(g)(): g runs as  *)
(* a task, on the loop the thread was entered from or on a new one, while  *)
(* the thread idles in a CurrentThreadExecutor and runs sync code for g.   *)
(* Calls nest freely; which calls user code makes is nondeterministic.     *)
(*                                                                         *)
(* A step of a task is what it does between two awaits; a step of a thread *)
(* is what it does between two places where another thread can interfere.  *)
(* Executors are taken at the level of ExecutorContract: an item goes to   *)
(* the closest executor of the chain that is still running.                *)
(***************************************************************************)
EXTENDS Naturals, SequencesExt

CONSTANTS
    SCall,          \* invocations of SyncToAsync.__call__
    ACall,          \* invocations of AsyncToSync.__call__; each also names its
                    \* main_wrap task, its CurrentThreadExecutor and, if it
                    \* makes one, its new event loop
    Spawn,          \* tasks made by user code: create_task, or asyncio.run
                    \* called by sync code; then also its loop
    Root,           \* the outermost frame (sync program) or task and loop
                    \* (async program)
    Main,           \* the thread of a sync program
    Worker,         \* the thread of SyncToAsync.single_thread_executor
    Pool,           \* threads of the loops' default executors
    DefaultExecutor,\* the default executor, as a place to queue work
    None,
    SyncProgram,    \* subset of BOOLEAN: is the outermost program sync?
    Sensitive,      \* the values of thread_sensitive in use
    ForceNewLoop,   \* the values of force_new_loop in use
    UserRun,        \* BOOLEAN: does sync code call asyncio.run itself?
    FreshContext,   \* BOOLEAN: does create_task start from an empty context?
    MaxCancels      \* bound on the cancellations requested by user code

ASSUME ConstantsAssumption ==
    /\ {UserRun, FreshContext} \subseteq BOOLEAN
    /\ SyncProgram \subseteq BOOLEAN
    /\ Sensitive \subseteq BOOLEAN
    /\ ForceNewLoop \subseteq BOOLEAN
    /\ MaxCancels \in Nat
    /\ Main # Worker
    /\ {Main, Worker} \cap Pool = {}
    /\ None \notin SCall \cup ACall \cup Spawn \cup {Root, Main, Worker} \cup Pool
                      \cup {DefaultExecutor}
    /\ SCall \cap (ACall \cup Spawn \cup {Root}) = {}
    /\ ACall \cap (Spawn \cup {Root}) = {}
    /\ Root \notin Spawn
    /\ {DefaultExecutor, Worker} \cap ACall = {}
    /\ DefaultExecutor # Worker

Task == ACall \cup Spawn \cup {Root}
Loop == ACall \cup Spawn \cup {Root}
Frame == SCall \cup {Root}
Thread == {Main, Worker} \cup Pool

VARIABLES
    task,       \* per task: [pc, loop, ctx, on, join, cancel, late, got]
    scall,      \* per sync frame: [pc, by, where, thr, ctx, cur0, tcx, fut, got]
    acall,      \* per async_to_sync call: [pc, thr, old, mode, lp, tc, cell, res]
    stack,      \* per thread: the frames, calls and loops it is inside of
    tlocal,     \* per thread: SyncToAsync.threadlocal, [loop, tc]
    loop,       \* per event loop: "off", "run", "gap", "closing", "stopped", "closed"
    cancels     \* cancellations requested so far

vars == <<task, scall, acall, stack, tlocal, loop, cancels>>

-----------------------------------------------------------------------------
(* Contexts: the two context variables whose value steers the bridge,      *)
(* AsyncToSync.executors.current and SyncToAsync.deadlock_context.          *)

Ctx == [cur : ACall \cup {None}, dead : BOOLEAN]
EmptyCtx == [cur |-> None, dead |-> FALSE]

\* How a call ended: normally, with CancelledError, or with a RuntimeError
\* that asgiref or asyncio raised.
Outcome == {"ok", "cancelled", "error"}

NoTask == [pc |-> "none", loop |-> None, ctx |-> EmptyCtx, on |-> None,
           join |-> None, cancel |-> FALSE, late |-> FALSE, got |-> "ok"]
NoSCall == [pc |-> "none", by |-> None, where |-> None, thr |-> None,
            ctx |-> EmptyCtx, cur0 |-> None, tcx |-> <<>>, fut |-> "pending",
            got |-> "ok"]
NoACall == [pc |-> "none", thr |-> None, old |-> None, mode |-> "none",
            lp |-> None, tc |-> None, cell |-> EmptyCtx, res |-> "none"]

Top(t) == IF stack[t] = <<>> THEN None ELSE stack[t][Len(stack[t])]
Pop(s) == SubSeq(s, 1, Len(s) - 1)

\* loop.is_running(): run_forever executes callbacks.  asyncio.run calls it for
\* the main task and, after a gap, again to shut the loop down.
IsRunning(l) == loop[l] \in {"run", "closing"}

\* The loop can run its next callback: it is running, and not in the middle of
\* the last callback of a main_wrap.
Turn(l) == IsRunning(l) /\ \A n \in Task : task[n].loop = l => task[n].pc # "ending"

\* The tasks cancelled when the shutdown began are done.
Gathered(l) ==
    \A n \in Task : task[n].loop = l => task[n].late \/ task[n].pc \in {"posted", "done"}

\* is_running() may be false.  The shutdown is itself up to three runs of the
\* loop: for the cancelled tasks, the async generators and the default executor;
\* between them another thread finds the loop idle though it will run again.
SeenIdle(l) == ~IsRunning(l) \/ (loop[l] = "closing" /\ Turn(l) /\ Gathered(l))

\* Thread t executes loop l itself, because a frame of t called asyncio.run.
Hosts(t, l) == l \in Spawn /\ \E k \in 1..Len(stack[t]) : stack[t][k] = l

\* The executor of call a quits when the future its thread waits for is done:
\* call_result on an existing loop, asyncio.run itself on a new one.
Broken(a) ==
    \/ acall[a].pc \in {"none", "returned"}
    \/ acall[a].mode = "main" /\ acall[a].res # "none"
    \/ acall[a].mode = "new" /\ loop[a] = "closed"

\* The executors CurrentThreadExecutor.submit can reach from a.
Chain(a) ==
    {x \in ACall :
        \A S \in SUBSET ACall :
            (a \in S /\ \A y \in S : acall[y].old # None => acall[y].old \in S)
            => x \in S}

\* The ones it may choose: running, and everything before them has quit.
Closest(a) ==
    {x \in Chain(a) : ~Broken(x) /\ \A y \in Chain(a) \ Chain(x) : Broken(y)}

\* loop_thread_executors[l], set while new_loop_wrap awaits.
LoopExecutor(l) ==
    IF l \in ACall /\ task[l].loop = l /\ task[l].pc \notin {"none", "created", "done"}
    THEN l ELSE None

-----------------------------------------------------------------------------

Init ==
    /\ \E sync \in SyncProgram :
          /\ task = [n \in Task |->
                IF n = Root /\ ~sync
                THEN [NoTask EXCEPT !.pc = "run", !.loop = Root] ELSE NoTask]
          /\ scall = [f \in Frame |->
                IF f = Root /\ sync
                THEN [NoSCall EXCEPT !.pc = "running", !.thr = Main] ELSE NoSCall]
          /\ stack = [t \in Thread |-> IF t = Main /\ sync THEN <<Root>> ELSE <<>>]
          /\ loop = [l \in Loop |-> IF l = Root /\ ~sync THEN "run" ELSE "off"]
    /\ acall = [a \in ACall |-> NoACall]
    /\ tlocal = [t \in Thread |-> [loop |-> None, tc |-> None]]
    /\ cancels = 0

-----------------------------------------------------------------------------
(* SyncToAsync.__call__, up to its first await. *)

\* Faulty: nothing is looked up by the running loop.
ParentExecutorFromContextOnly(n) == task[n].ctx.cur

\* The executor for thread-sensitive code: the current one of the context,
\* else the one of the running loop, else None.
ParentExecutor(n) ==
    IF task[n].ctx.cur # None THEN task[n].ctx.cur ELSE LoopExecutor(task[n].loop)

RunsCode(n) == task[n].pc = "run" /\ Turn(task[n].loop) /\ ~task[n].cancel

\* run_in_executor(w, ...) with a copy of the context c, then await.
Submitted(n, s, w, c) ==
    /\ scall' = [scall EXCEPT ![s] =
                   [NoSCall EXCEPT !.pc = "queued", !.by = n, !.where = w,
                                   !.ctx = c, !.cur0 = c.cur]]
    /\ task' = [task EXCEPT ![n].pc = "await", ![n].on = s, ![n].ctx = c]
    /\ UNCHANGED <<acall, stack, tlocal, loop, cancels>>

\* A parent sync thread is idling somewhere above: run the code there.
CallOnParent(n, s) ==
    /\ RunsCode(n)
    /\ scall[s].pc = "none"
    /\ TRUE \in Sensitive
    /\ ParentExecutor(n) # None
    /\ ~Hosts(acall[ParentExecutor(n)].thr, task[n].loop)
    /\ \E x \in Closest(ParentExecutor(n)) : Submitted(n, s, x, task[n].ctx)

\* No parent thread: use the one shared thread, and note so in the context.
CallOnWorker(n, s) ==
    /\ RunsCode(n)
    /\ scall[s].pc = "none"
    /\ TRUE \in Sensitive
    /\ ParentExecutor(n) = None
    /\ ~task[n].ctx.dead
    /\ Submitted(n, s, Worker, [task[n].ctx EXCEPT !.dead = TRUE])

\* thread_sensitive=False: the loop's default executor.
CallInPool(n, s) ==
    /\ RunsCode(n)
    /\ scall[s].pc = "none"
    /\ FALSE \in Sensitive
    /\ Submitted(n, s, DefaultExecutor, task[n].ctx)

\* RuntimeError: the single thread is in use in this context, or submit()
\* found its own thread, or every executor of the chain has quit.
CallRefused(n) ==
    /\ RunsCode(n)
    /\ TRUE \in Sensitive
    /\ \/ ParentExecutor(n) = None /\ task[n].ctx.dead
       \/ /\ ParentExecutor(n) # None
          /\ \/ Hosts(acall[ParentExecutor(n)].thr, task[n].loop)
             \/ Closest(ParentExecutor(n)) = {}
    /\ task' = [task EXCEPT ![n].got = "error"]
    /\ UNCHANGED <<scall, acall, stack, tlocal, loop, cancels>>

-----------------------------------------------------------------------------
(* The thread's side of SyncToAsync: thread_handler and the function.        *)

\* Faulty: a thread inside async_to_sync just blocks.
TakesOnlyWhenFree(t, w) ==
    \/ w = Worker /\ t = Worker /\ stack[t] = <<>>
    \/ w = DefaultExecutor /\ t \in Pool /\ stack[t] = <<>>

\* Thread t is the one executor w uses, and is free to take its next item.
Takes(t, w) ==
    \/ w \in ACall /\ Top(t) = w /\ acall[w].pc = "parked"
    \/ w = Worker /\ t = Worker /\ stack[t] = <<>>
    \/ w = DefaultExecutor /\ t \in Pool /\ stack[t] = <<>>

\* thread_handler points the threadlocal at the calling loop and at this
\* call's task_context; nothing puts the old values back afterwards.
ThreadHandler(t, s) ==
    /\ scall[s].pc = "queued"
    /\ Takes(t, scall[s].where)
    /\ tlocal' = [tlocal EXCEPT ![t] = [loop |-> task[scall[s].by].loop, tc |-> s]]
    /\ scall' = [scall EXCEPT ![s].pc = "running", ![s].thr = t]
    /\ stack' = [stack EXCEPT ![t] = Append(@, s)]
    /\ UNCHANGED <<task, acall, loop, cancels>>

\* The function ends: it passes on what its last async_to_sync call raised,
\* or catches it.
FunctionReturns(t, s, r) ==
    /\ Top(t) = s
    /\ r \in {"ok", scall[s].got}
    /\ scall' = [scall EXCEPT ![s].pc = "finished", ![s].got = r]
    /\ stack' = [stack EXCEPT ![t] = Pop(@)]
    /\ UNCHANGED <<task, acall, tlocal, loop, cancels>>

\* The concurrent Future tells exec_coro, through call_soon_threadsafe.
ExecCoroDone(s) ==
    /\ scall[s].pc = "finished"
    /\ scall[s].fut = "pending"
    /\ scall[s].by # None
    /\ Turn(task[scall[s].by].loop)
    /\ scall' = [scall EXCEPT ![s].fut = "done"]
    /\ UNCHANGED <<task, acall, stack, tlocal, loop, cancels>>

\* exec_coro.cancel() reaches the concurrent Future one callback later; it
\* only stops a function that no thread has picked up.
ExecCoroCancelled(s) ==
    /\ scall[s].pc = "queued"
    /\ scall[s].fut = "cancelled"
    /\ Turn(task[scall[s].by].loop)
    /\ scall' = [scall EXCEPT ![s].pc = "dropped"]
    /\ UNCHANGED <<task, acall, stack, tlocal, loop, cancels>>

-----------------------------------------------------------------------------
(* SyncToAsync.__call__, from its first await to its end.                    *)

\* The finally block: the function's context is copied back to the task and
\* the deadlock marker is cleared; user code goes on with outcome r.
Leave(n, r) ==
    [task[n] EXCEPT !.pc = "run", !.on = None, !.join = None, !.cancel = FALSE,
                    !.got = r, !.ctx = [cur |-> scall[task[n].on].ctx.cur,
                                        dead |-> FALSE]]

Fut(n) == scall[task[n].on].fut

\* "await shield(exec_coro)" raises CancelledError: the task is cancelled, or
\* the function itself raised it.
RaisedAtShield(n) ==
    /\ task[n].pc = "await"
    /\ Turn(task[n].loop)
    /\ task[n].cancel \/ (Fut(n) = "done" /\ scall[task[n].on].got = "cancelled")

\* It ends otherwise; or, after a cancellation, "await exec_coro" ends.
AwaitReturns(n) ==
    /\ task[n].pc \in {"await", "drain"}
    /\ Turn(task[n].loop)
    /\ ~task[n].cancel
    /\ ~RaisedAtShield(n)
    /\ Fut(n) = "done"
    /\ task' = [task EXCEPT ![n] = Leave(n, scall[task[n].on].got)]
    /\ UNCHANGED <<scall, acall, stack, tlocal, loop, cancels>>

\* Raise CancelledError; exec_coro is cancelled unless it is already done.
GiveUp(n) ==
    /\ scall' = [scall EXCEPT ![task[n].on].fut =
                   IF @ = "done" THEN "done" ELSE "cancelled"]
    /\ task' = [task EXCEPT ![n] = Leave(n, "cancelled")]
    /\ UNCHANGED <<acall, stack, tlocal, loop, cancels>>

\* CancelledError at the shield, and task_context is empty: nothing to cancel.
CancelledAlone(n) ==
    /\ RaisedAtShield(n)
    /\ scall[task[n].on].tcx = <<>>
    /\ GiveUp(n)

\* CancelledError at the shield, and the function has async code running: the
\* first task of task_context is cancelled and awaited.  Awaiting a task of
\* another loop raises RuntimeError instead.
CancelledWithChild(n) ==
    /\ RaisedAtShield(n)
    /\ scall[task[n].on].tcx # <<>>
    /\ LET m == Head(scall[task[n].on].tcx)
       IN  task' = [task EXCEPT
             ![m].cancel = TRUE,
             ![n] = IF task[m].loop = task[n].loop
                    THEN [@ EXCEPT !.pc = "join", !.join = m, !.cancel = FALSE]
                    ELSE Leave(n, "error")]
    /\ UNCHANGED <<scall, acall, stack, tlocal, loop, cancels>>

\* Faulty: the cancellation is raised without waiting for the function.
JoinRaises(n) ==
    /\ task[n].pc = "join"
    /\ Turn(task[n].loop)
    /\ ~task[n].cancel
    /\ task[task[n].join].pc = "done"
    /\ task' = [task EXCEPT ![n] = Leave(n, "cancelled")]
    /\ UNCHANGED <<scall, acall, stack, tlocal, loop, cancels>>

\* "await task" ends; the function decides what becomes of the cancellation.
JoinReturns(n) ==
    /\ task[n].pc = "join"
    /\ Turn(task[n].loop)
    /\ ~task[n].cancel
    /\ task[task[n].join].pc = "done"
    /\ task' = [task EXCEPT ![n] = IF Fut(n) = "done" THEN Leave(n, "cancelled")
                                   ELSE [@ EXCEPT !.pc = "drain", !.join = None]]
    /\ UNCHANGED <<scall, acall, stack, tlocal, loop, cancels>>

\* A second cancellation: Task.cancel passes it on to the task being awaited,
\* unless that one has just finished; then it ends the call.
CancelledInJoin(n) ==
    /\ task[n].pc = "join"
    /\ Turn(task[n].loop)
    /\ task[n].cancel
    /\ IF task[task[n].join].pc # "done"
       THEN /\ task' = [task EXCEPT ![task[n].join].cancel = TRUE,
                                    ![n].cancel = FALSE]
            /\ UNCHANGED <<scall, acall, stack, tlocal, loop, cancels>>
       ELSE GiveUp(n)

CancelledInDrain(n) ==
    /\ task[n].pc = "drain"
    /\ Turn(task[n].loop)
    /\ task[n].cancel
    /\ GiveUp(n)

-----------------------------------------------------------------------------
(* AsyncToSync.__call__ *)

\* "new_loop_wrap" is handed to asyncio.run on a thread of its own.
OnNewLoop(a, call) ==
    /\ acall' = [acall EXCEPT ![a] = [call EXCEPT !.pc = "parked", !.mode = "new",
                                                  !.lp = a]]
    /\ task' = [task EXCEPT ![a] = [NoTask EXCEPT !.pc = "created", !.loop = a,
                                                  !.ctx = call.cell]]
    /\ loop' = [loop EXCEPT ![a] = "run"]

\* The sync code of thread t calls async_to_sync: the parent loop and the
\* task_context come from the threadlocal, and a new executor becomes the
\* current one.  If the parent loop runs, the awaitable is about to be posted;
\* if it is idle at this moment, for good or not, a new loop is used.
AsyncToSyncCall(t, a, force) ==
    LET f == Top(t)
        parent == IF force THEN None ELSE tlocal[t].loop
        call == [NoACall EXCEPT !.thr = t, !.old = scall[f].ctx.cur,
                                !.tc = tlocal[t].tc,
                                !.cell = [scall[f].ctx EXCEPT !.cur = a]]
    IN  /\ f \in Frame
        /\ acall[a].pc = "none"
        /\ force \in ForceNewLoop
        /\ scall' = [scall EXCEPT ![f].ctx.cur = a]
        /\ stack' = [stack EXCEPT ![t] = Append(@, a)]
        /\ \/ /\ parent # None /\ IsRunning(parent)
              /\ acall' = [acall EXCEPT ![a] = [call EXCEPT !.pc = "posting",
                                                           !.lp = parent]]
              /\ UNCHANGED <<task, loop>>
           \/ /\ parent # None => SeenIdle(parent)
              /\ OnNewLoop(a, call)
        /\ UNCHANGED <<tlocal, cancels>>

\* call_soon_threadsafe: it raises if the loop was closed in the meantime,
\* and then a new loop is used; on a stopped loop it succeeds, and a callback
\* posted in the gap is the first to run when the shutdown goes on.
CallSoonThreadsafe(a) ==
    /\ acall[a].pc = "posting"
    /\ IF loop[acall[a].lp] = "closed"
       THEN OnNewLoop(a, acall[a])
       ELSE /\ acall' = [acall EXCEPT ![a].pc = "parked", ![a].mode = "main"]
            /\ task' = [task EXCEPT ![a] =
                          [NoTask EXCEPT !.pc = "posted", !.loop = acall[a].lp,
                                         !.ctx = acall[a].cell,
                                         !.late = (loop[acall[a].lp] = "gap")]]
            /\ UNCHANGED loop
    /\ UNCHANGED <<scall, stack, tlocal, cancels>>

\* Faulty: the old executor does not become current again.
ReturnsWithoutRestoring(t, a) ==
    LET f == stack[t][Len(stack[t]) - 1]
    IN  /\ Top(t) = a
        /\ a \in ACall
        /\ acall[a].pc = "parked"
        /\ Broken(a)
        /\ \A s \in SCall : ~(scall[s].pc = "queued" /\ scall[s].where = a)
        /\ acall' = [acall EXCEPT ![a].pc = "returned"]
        /\ scall' = [scall EXCEPT ![f].ctx = acall[a].cell, ![f].got = acall[a].res]
        /\ stack' = [stack EXCEPT ![t] = Pop(@)]
        /\ UNCHANGED <<task, tlocal, loop, cancels>>

\* Faulty: the call does not wait for its executor to quit.
ReturnsTooEarly(t, a) ==
    LET f == stack[t][Len(stack[t]) - 1]
    IN  /\ Top(t) = a
        /\ a \in ACall
        /\ acall[a].pc = "parked"
        /\ acall' = [acall EXCEPT ![a].pc = "returned"]
        /\ scall' = [scall EXCEPT ![f].ctx = [acall[a].cell EXCEPT !.cur = acall[a].old],
                                  ![f].got = acall[a].res]
        /\ stack' = [stack EXCEPT ![t] = Pop(@)]
        /\ UNCHANGED <<task, tlocal, loop, cancels>>

\* The executor has quit and its queue is empty: the context of the awaitable
\* is copied back, the old executor becomes current again, and __call__
\* returns or raises what call_result holds.
AsyncToSyncReturns(t, a) ==
    LET f == stack[t][Len(stack[t]) - 1]
    IN  /\ Top(t) = a
        /\ a \in ACall
        /\ acall[a].pc = "parked"
        /\ Broken(a)
        /\ \A s \in SCall : ~(scall[s].pc = "queued" /\ scall[s].where = a)
        /\ acall' = [acall EXCEPT ![a].pc = "returned"]
        /\ scall' = [scall EXCEPT ![f].ctx = [acall[a].cell EXCEPT !.cur = acall[a].old],
                                  ![f].got = acall[a].res]
        /\ stack' = [stack EXCEPT ![t] = Pop(@)]
        /\ UNCHANGED <<task, tlocal, loop, cancels>>

-----------------------------------------------------------------------------
(* Tasks: main_wrap and user code.                                           *)

\* The posted callback runs create_task.
CreateTask(a) ==
    /\ task[a].pc = "posted"
    /\ Turn(task[a].loop)
    /\ task' = [task EXCEPT ![a].pc = "created",
                            ![a].late = (loop[task[a].loop] = "closing")]
    /\ UNCHANGED <<scall, acall, stack, tlocal, loop, cancels>>

\* Faulty: the task stays on task_context.
StaysOnTaskContext(a) == scall

\* task_context.remove(current_task)
OffTaskContext(a) ==
    IF acall[a].tc = None THEN scall
    ELSE [scall EXCEPT ![acall[a].tc].tcx = RemoveFirst(@, a)]

\* A task's first step; main_wrap puts itself on the parent's task_context.
TaskStarts(n) ==
    /\ task[n].pc = "created"
    /\ Turn(task[n].loop)
    /\ ~task[n].cancel
    /\ task' = [task EXCEPT ![n].pc = "run"]
    /\ scall' = IF n \in ACall /\ acall[n].tc # None
                THEN [scall EXCEPT ![acall[n].tc].tcx = Append(@, n)] ELSE scall
    /\ UNCHANGED <<acall, stack, tlocal, loop, cancels>>

\* A task cancelled before its first step ends without running at all.
CancelledUnstarted(n) ==
    /\ task[n].pc = "created"
    /\ Turn(task[n].loop)
    /\ task[n].cancel
    /\ task' = [task EXCEPT ![n].pc = "done", ![n].got = "cancelled"]
    /\ UNCHANGED <<scall, acall, stack, tlocal, loop, cancels>>

\* User code awaiting something of its own gets the CancelledError.
CancelledInCode(n) ==
    /\ task[n].pc = "run"
    /\ Turn(task[n].loop)
    /\ task[n].cancel
    /\ task' = [task EXCEPT ![n].cancel = FALSE, ![n].got = "cancelled"]
    /\ UNCHANGED <<scall, acall, stack, tlocal, loop, cancels>>

\* Faulty: call_result is resolved before the context is captured.
TaskReturnsUncaptured(n, r) ==
    /\ task[n].pc = "run"
    /\ Turn(task[n].loop)
    /\ r \in {"ok", task[n].got}
    /\ task' = [task EXCEPT ![n].pc = IF n \in ACall THEN "ending" ELSE "done",
                            ![n].cancel = FALSE, ![n].got = r]
    /\ IF n \in ACall
       THEN /\ scall' = OffTaskContext(n)
            /\ acall' = [acall EXCEPT ![n].res = r]
       ELSE UNCHANGED <<scall, acall>>
    /\ UNCHANGED <<stack, tlocal, loop, cancels>>

\* A task's code ends.  main_wrap takes itself off task_context and captures
\* its context ...
TaskReturns(n, r) ==
    /\ task[n].pc = "run"
    /\ Turn(task[n].loop)
    /\ r \in {"ok", task[n].got}
    /\ task' = [task EXCEPT ![n].pc = IF n \in ACall THEN "ending" ELSE "done",
                            ![n].cancel = FALSE, ![n].got = r]
    /\ IF n \in ACall
       THEN /\ scall' = OffTaskContext(n)
            /\ acall' = [acall EXCEPT ![n].cell = task[n].ctx]
       ELSE UNCHANGED <<scall, acall>>
    /\ UNCHANGED <<stack, tlocal, loop, cancels>>

\* ... and only then resolves call_result, which lets the sync thread go on.
SetResult(a) ==
    /\ task[a].pc = "ending"
    /\ task' = [task EXCEPT ![a].pc = "done"]
    /\ acall' = [acall EXCEPT ![a].res = task[a].got]
    /\ UNCHANGED <<scall, stack, tlocal, loop, cancels>>

\* create_task by user code, with a copy of the context or an empty one.
CreateUserTask(n, m, fresh) ==
    /\ RunsCode(n)
    /\ task[m].pc = "none"
    /\ fresh => FreshContext
    /\ task' = [task EXCEPT ![m] =
                  [NoTask EXCEPT !.pc = "created", !.loop = task[n].loop,
                                 !.ctx = IF fresh THEN EmptyCtx ELSE task[n].ctx,
                                 !.late = (loop[task[n].loop] = "closing")]]
    /\ UNCHANGED <<scall, acall, stack, tlocal, loop, cancels>>

\* User code cancels a task: one it made, or, with a timeout, the one it runs
\* in; main_wrap has no other code to cancel it before its first step.
CancelTask(n) ==
    /\ cancels < MaxCancels
    /\ \/ task[n].pc \in {"run", "await", "join", "drain"}
       \/ task[n].pc = "created" /\ n \notin ACall
    /\ ~task[n].cancel
    /\ task' = [task EXCEPT ![n].cancel = TRUE]
    /\ cancels' = cancels + 1
    /\ UNCHANGED <<scall, acall, stack, tlocal, loop>>

-----------------------------------------------------------------------------
(* Event loops, as asyncio.run drives them.                                  *)

\* Sync code of thread t calls asyncio.run(m()) itself.
RunUserLoop(t, m) ==
    /\ UserRun
    /\ Top(t) \in Frame
    /\ task[m].pc = "none"
    /\ stack' = [stack EXCEPT ![t] = Append(@, m)]
    /\ loop' = [loop EXCEPT ![m] = "run"]
    /\ task' = [task EXCEPT ![m] = [NoTask EXCEPT !.pc = "created", !.loop = m,
                                                  !.ctx = scall[Top(t)].ctx]]
    /\ UNCHANGED <<scall, acall, tlocal, cancels>>

UserLoopReturns(t) ==
    /\ Top(t) \in Spawn
    /\ loop[Top(t)] = "closed"
    /\ stack' = [stack EXCEPT ![t] = Pop(@)]
    /\ scall' = [scall EXCEPT ![stack[t][Len(stack[t]) - 1]].got = task[Top(t)].got]
    /\ UNCHANGED <<task, acall, tlocal, loop, cancels>>

\* The main task is done: its run of the loop ends and every task of the loop
\* is cancelled (a callback that was posted before still runs and makes a task
\* that is not) ...
BeginClose(l) ==
    /\ loop[l] = "run"
    /\ Turn(l)
    /\ task[l].pc = "done"
    /\ loop' = [loop EXCEPT ![l] = "gap"]
    /\ task' = [n \in Task |->
                  CASE task[n].loop # l \/ task[n].pc = "done" -> task[n]
                    [] task[n].loop = l /\ task[n].pc = "posted" -> [task[n] EXCEPT !.late = TRUE]
                    [] OTHER -> [task[n] EXCEPT !.cancel = TRUE]]
    /\ UNCHANGED <<scall, acall, stack, tlocal, cancels>>

\* ... the loop runs again ...
ResumeClose(l) ==
    /\ loop[l] = "gap"
    /\ loop' = [loop EXCEPT ![l] = "closing"]
    /\ UNCHANGED <<task, scall, acall, stack, tlocal, cancels>>

\* ... until they have ended, the default executor is joined, and it stops.  A
\* task created after the cancellation is not waited for, and a callback posted
\* after it may come too late to run.
EndClose(l) ==
    /\ loop[l] = "closing"
    /\ Turn(l)
    /\ \A n \in Task : task[n].loop = l =>
                         IF task[n].late THEN task[n].pc # "posted"
                         ELSE task[n].pc \in {"posted", "done"}
    /\ \A s \in SCall : scall[s].where = DefaultExecutor /\ task[scall[s].by].loop = l
                          => scall[s].pc \notin {"queued", "running"}
    /\ loop' = [loop EXCEPT ![l] = "stopped"]
    /\ UNCHANGED <<task, scall, acall, stack, tlocal, cancels>>

Close(l) ==
    /\ loop[l] = "stopped"
    /\ loop' = [loop EXCEPT ![l] = "closed"]
    /\ UNCHANGED <<task, scall, acall, stack, tlocal, cancels>>
-----------------------------------------------------------------------------

\* What asgiref, asyncio and the executors do on their own.
TaskStep(n) ==
    \/ AwaitReturns(n) \/ CancelledAlone(n) \/ CancelledWithChild(n)
    \/ JoinReturns(n) \/ CancelledInJoin(n) \/ CancelledInDrain(n)
    \/ TaskStarts(n) \/ CancelledUnstarted(n) \/ CancelledInCode(n)
    \/ \E r \in Outcome : TaskReturns(n, r)

ThreadStep(t) ==
    \/ \E s \in SCall : ThreadHandler(t, s)
    \/ \E s \in Frame, r \in Outcome : FunctionReturns(t, s, r)
    \/ \E a \in ACall : AsyncToSyncReturns(t, a)
    \/ UserLoopReturns(t)

CallStep(a) == CallSoonThreadsafe(a) \/ CreateTask(a) \/ SetResult(a)

FutureStep(s) == ExecCoroDone(s) \/ ExecCoroCancelled(s)

LoopStep(l) == BeginClose(l) \/ ResumeClose(l) \/ EndClose(l) \/ Close(l)

\* What user code chooses to do.
AsyncCode(n) ==
    \/ \E s \in SCall : CallOnParent(n, s) \/ CallOnWorker(n, s) \/ CallInPool(n, s)
    \/ CallRefused(n)
    \/ \E m \in Spawn, fresh \in BOOLEAN : CreateUserTask(n, m, fresh)

SyncCode(t) ==
    \/ \E a \in ACall, force \in BOOLEAN : AsyncToSyncCall(t, a, force)
    \/ \E m \in Spawn : RunUserLoop(t, m)

Next ==
    \/ \E n \in Task : TaskStep(n) \/ AsyncCode(n)
    \/ \E t \in Thread : ThreadStep(t) \/ SyncCode(t)
    \/ \E a \in ACall : CallStep(a)
    \/ \E s \in SCall : FutureStep(s)
    \/ \E l \in Loop : LoopStep(l)
    \/ \E n \in Task : CancelTask(n)

Spec == Init /\ [][Next]_vars

\* Loops and threads are scheduled, and user code, when it calls nothing any
\* more, returns.
Fairness ==
    /\ \A n \in Task : WF_vars(TaskStep(n))
    /\ \A t \in Thread : WF_vars(ThreadStep(t))
    /\ \A a \in ACall : WF_vars(CallStep(a))
    /\ \A s \in SCall : WF_vars(FutureStep(s))
    /\ \A l \in Loop : WF_vars(LoopStep(l))

FairSpec == Spec /\ Fairness

-----------------------------------------------------------------------------
(* Properties. *)

TaskType ==
    [pc : {"none", "posted", "created", "run", "await", "join", "drain", "ending", "done"},
     loop : Loop \cup {None}, ctx : Ctx, on : SCall \cup {None},
     join : Task \cup {None}, cancel : BOOLEAN, late : BOOLEAN, got : Outcome]
SCallType ==
    [pc : {"none", "queued", "running", "finished", "dropped"}, by : Task \cup {None},
     where : ACall \cup {Worker, DefaultExecutor, None}, thr : Thread \cup {None},
     ctx : Ctx, cur0 : ACall \cup {None}, tcx : Seq(ACall),
     fut : {"pending", "done", "cancelled"}, got : Outcome]
ACallType ==
    [pc : {"none", "posting", "parked", "returned"}, thr : Thread \cup {None},
     old : ACall \cup {None}, mode : {"none", "main", "new"}, lp : Loop \cup {None},
     tc : SCall \cup {None}, cell : Ctx, res : Outcome \cup {"none"}]

\* Tasks, functions, calls, stacks, threadlocals and loops are what they can be.
TypeOK ==
    /\ task \in [Task -> TaskType]
    /\ scall \in [Frame -> SCallType]
    /\ acall \in [ACall -> ACallType]
    /\ stack \in [Thread -> Seq(Frame \cup ACall \cup Spawn)]
    /\ tlocal \in [Thread -> [loop : Loop \cup {None}, tc : SCall \cup {None}]]
    /\ loop \in [Loop -> {"off", "run", "gap", "closing", "stopped", "closed"}]
    /\ cancels \in 0..MaxCancels

\* The thread a function was sent to.
RunsAt(s) == IF scall[s].where \in ACall THEN acall[scall[s].where].thr
             ELSE scall[s].where

\* The thread of the sync code that task n runs for: the one that is parked for
\* it or for its loop, else the main thread of a sync program and the single
\* worker of an async one.
OuterThread(n) ==
    CASE n \in ACall -> acall[n].thr
      [] n \notin ACall /\ task[n].loop \in ACall -> acall[task[n].loop].thr
      [] OTHER -> IF loop[Root] = "off" THEN Main ELSE Worker

\* "the code will run in the same thread as any outer code": when every call is
\* thread-sensitive, sync code goes to the thread of the outer sync code,
\* however the calls nest, whichever loop the async code is on and whatever was
\* cancelled before.  Two exceptions.  A loop that sync code runs by itself has
\* no link to the outer code.  And a task without the bridge's context that
\* calls after the awaitable of its loop has ended finds no parent thread,
\* because loop_thread_executors has already lost the loop's entry.
SameThread ==
    Sensitive = {TRUE} =>
        \A s \in SCall :
            scall[s].pc # "none" =>
                LET l == task[scall[s].by].loop
                IN  \/ RunsAt(s) = OuterThread(scall[s].by)
                    \/ l \in Spawn
                    \/ l \in ACall /\ task[l].pc \in {"ending", "done"}

\* Once its async_to_sync calls have returned, sync code finds the current
\* executor it started with: copying the awaitable's context back never
\* leaves a finished executor behind.
CurrentRestored ==
    \A t \in Thread :
        Top(t) \in Frame => scall[Top(t)].ctx.cur = scall[Top(t)].cur0

\* Async code always finds the executor of the async_to_sync call it runs for
\* (none, for the outermost task), whatever its own sync_to_async calls did:
\* copying the function's context back never leaves a deeper executor behind.
CurrentIsOwn ==
    \A n \in ACall \cup {Root} :
        task[n].pc = "run" => task[n].ctx.cur = IF n = Root THEN None ELSE n

\* The context changes the awaitable made are the ones sync code goes on with:
\* the thread woken by call_result never reads the context too early.
ContextKept ==
    [][\A a \in ACall :
          acall[a].pc = "parked" /\ acall'[a].pc = "returned" =>
              \E t \in Thread :
                  /\ stack[t] = Append(stack'[t], a)
                  /\ scall'[stack'[t][Len(stack'[t])]].ctx.dead = task[a].ctx.dead]_vars

\* task_context holds only tasks that have started and not ended, so the
\* cancellation of a sync_to_async call is never spent on a finished task.
TaskContextLive ==
    \A s \in SCall : \A k \in 1..Len(scall[s].tcx) :
        task[scall[s].tcx[k]].pc \in {"run", "await", "join", "drain"}

\* Function s called async code that was given a loop of its own.
OwnLoop(s) == \E a \in ACall : acall[a].tc = s /\ acall[a].mode = "new"

\* A function that still runs, or waits to run, is being awaited by its caller
\* unless that caller was cancelled and cancelled the function's future: no
\* cancellation takes the caller past a function it could not stop.  Exception:
\* the function called async code that was given a loop of its own, by
\* force_new_loop or because the caller's loop was idle in its shutdown; the
\* cancelled caller cannot await a task of another loop, and leaves.
NeverLeftBehind ==
    \A s \in SCall :
        scall[s].pc \in {"queued", "running"} =>
            \/ task[scall[s].by].on = s
            \/ scall[s].fut = "cancelled"
            \/ OwnLoop(s)

\* The async code that function s waits for, directly.
ChildOf(s) ==
    {a \in ACall :
        /\ task[a].pc \in {"run", "await", "join", "drain"}
        /\ \E t \in Thread : \E k \in 1..(Len(stack[t]) - 1) :
               stack[t][k] = s /\ stack[t][k + 1] = a}

\* A cancelled sync_to_async call passes the cancellation on to the async code
\* its function is waiting for, and does not just walk away from it.
CancelReachesChild ==
    [][\A n \in Task :
          task[n].pc = "await" /\ task[n].cancel /\ task'[n].pc # "await" =>
              \A a \in ChildOf(task[n].on) : task'[a].cancel]_vars

\* async_to_sync is never left parked for a loop that will not run again.
NeverParkedForever ==
    \A a \in ACall :
        acall[a].pc = "parked" /\ acall[a].mode = "main" /\ acall[a].res = "none"
            => loop[acall[a].lp] \notin {"stopped", "closed"}

\* No sync code waits for a thread that is itself executing the loop of the
\* task that awaits it.
NoSelfWait ==
    \A s \in SCall :
        scall[s].pc = "queued" =>
            \A t \in Thread : Hosts(t, task[scall[s].by].loop) => RunsAt(s) # t

\* Every async_to_sync call returns.
EveryCallReturns ==
    \A a \in ACall : acall[a].pc # "none" ~> acall[a].pc = "returned"
=============================================================================
