------------------------ MODULE CurrentThreadExecutor ------------------------
(***************************************************************************)
(* asgiref/current_thread_executor.py: the executor on which a thread that *)
(* is parked in AsyncToSync.__call__ runs the thread-sensitive sync code   *)
(* of the async code it is waiting for.                                    *)
(*                                                                         *)
(* One executor is made per AsyncToSync call.  Each knows the executor     *)
(* that was current when it was made (_old_executor), and submit() walks   *)
(* up that chain to the closest executor that still accepts work.  An      *)
(* executor is driven by the thread that made it; work arrives from other  *)
(* threads.  One action is one section executed under the executor's       *)
(* _work_ready lock, or one call outside of it.                            *)
(***************************************************************************)
EXTENDS Naturals, Sequences

CONSTANTS
    Executor,   \* CurrentThreadExecutor objects
    Item,       \* _WorkItem objects, each with its Future
    Thread,     \* threads that drive executors or submit work
    None        \* Python's None

ASSUME NoneAssumption == None \notin Executor \cup Item \cup Thread

VARIABLES
    work_thread,    \* _work_thread of each executor, None before __init__
    old_executor,   \* _old_executor
    work_items,     \* _work_items, the queue
    broken,         \* _broken
    resolved,       \* is the future given to run_until_future resolved?
    loop,           \* where the owner is in run_until_future
    work_item,      \* the local variable work_item of run_until_future
    stack,          \* per thread: its executors, the innermost call last
    sub_item,       \* per thread: the item its submit() is placing
    sub_at,         \* per thread: the executor that submit() examines
    state,          \* state of each item's Future, and how submit() ended
    target          \* the executor submit() was called on

vars == <<work_thread, old_executor, work_items, broken, resolved, loop,
          work_item, stack, sub_item, sub_at, state, target>>

exec_vars == <<work_thread, old_executor, resolved, work_item, stack>>
sub_vars == <<sub_item, sub_at>>

-----------------------------------------------------------------------------

\* "unborn": not constructed.  "new": constructed, run_until_future not yet
\* called.  "check": about to take the lock at the head of the loop.
\* "wait": in Condition.wait.  "popped": holds a work item, lock released.
\* "busy": inside work_item.run.  "exit": run_until_future has returned.
LoopState == {"unborn", "new", "check", "wait", "popped", "busy", "exit"}

\* The states of a concurrent.futures.Future, plus: "NEW", no Future yet;
\* "SUBMITTING", known only to the submit() that is placing it;
\* "OWN_THREAD" and "QUIT", submit() raised RuntimeError.
ItemState == {"NEW", "SUBMITTING", "PENDING", "RUNNING", "CANCELLED",
              "CANCELLED_AND_NOTIFIED", "FINISHED", "OWN_THREAD", "QUIT"}

Born == {e \in Executor : loop[e] # "unborn"}

\* e is driven by the innermost frame of its thread.
Innermost(e) ==
    LET s == stack[work_thread[e]]
    IN  /\ s # <<>>
        /\ s[Len(s)] = e

\* Thread t is running user code: it is not inside submit(), and if it has
\* executors, the innermost one is running a work item.
RunsUserCode(t) ==
    /\ sub_item[t] = None
    /\ stack[t] # <<>> => loop[stack[t][Len(stack[t])]] = "busy"

\* Following _old_executor never leads out of S.
Closed(old, S) == \A y \in S : old[y] # None => old[y] \in S

\* The executors submit(e) may reach: the least set that contains e and is
\* closed under _old_executor.
ChainIn(old, e) ==
    {x \in Executor : \A S \in SUBSET Executor : e \in S /\ Closed(old, S) => x \in S}

Chain(e) == ChainIn(old_executor, e)

\* Condition.notify on e: the owner, if it waits, goes back to test its queue.
Notified(e) == IF loop[e] = "wait" THEN "check" ELSE loop[e]

-----------------------------------------------------------------------------
(* Faulty variants of the definitions below.  Each stands for a plausible   *)
(* mistake in the code; the runs check that a property notices it.          *)

\* done() forgets to notify.
SilentDone(e) ==
    /\ loop[e] \notin {"unborn", "new"}
    /\ resolved[e]
    /\ ~broken[e]
    /\ broken' = [broken EXCEPT ![e] = TRUE]
    /\ UNCHANGED <<exec_vars, loop, work_items, sub_vars, state, target>>

\* The loop stops as soon as the future is done, queued work or not.
BreakWithoutDraining(e) ==
    /\ loop[e] = "check"
    /\ Innermost(e)
    /\ broken[e]
    /\ loop' = [loop EXCEPT ![e] = "exit"]
    /\ stack' = [stack EXCEPT ![work_thread[e]] = SubSeq(@, 1, Len(@) - 1)]
    /\ UNCHANGED <<work_thread, old_executor, resolved, work_item, work_items,
                   broken, sub_vars, state, target>>

\* The head of the queue is run but not removed from it.
PeekLeft(e) ==
    /\ loop[e] = "check"
    /\ Innermost(e)
    /\ work_items[e] # <<>>
    /\ work_item' = [work_item EXCEPT ![e] = Head(work_items[e])]
    /\ loop' = [loop EXCEPT ![e] = "popped"]
    /\ UNCHANGED <<work_thread, old_executor, resolved, stack, work_items,
                   broken, sub_vars, state, target>>

\* The walk passes an executor that still runs.
WalkPastRunning(t) ==
    LET e == sub_at[t]
    IN  /\ sub_item[t] # None
        /\ old_executor[e] # None
        /\ sub_at' = [sub_at EXCEPT ![t] = old_executor[e]]
        /\ UNCHANGED <<exec_vars, work_items, broken, loop, sub_item, state,
                       target>>

\* submit() goes on with _old_executor without testing it for None.
WalkOffTheTop(t) ==
    LET e == sub_at[t]
    IN  /\ sub_item[t] # None
        /\ broken[e]
        /\ sub_at' = [sub_at EXCEPT ![t] = old_executor[e]]
        /\ UNCHANGED <<exec_vars, work_items, broken, loop, sub_item, state,
                       target>>

\* submit() gives up at the first executor that has quit.
RaiseAtFirstBroken(t) ==
    LET e == sub_at[t]
    IN  /\ sub_item[t] # None
        /\ broken[e]
        /\ state' = [state EXCEPT ![sub_item[t]] = "QUIT"]
        /\ sub_item' = [sub_item EXCEPT ![t] = None]
        /\ sub_at' = [sub_at EXCEPT ![t] = None]
        /\ UNCHANGED <<exec_vars, work_items, broken, loop, target>>

\* submit() appends whether or not the executor has quit.
EnqueueOnBroken(t) ==
    LET e == sub_at[t]
        i == sub_item[t]
    IN  /\ i # None
        /\ work_items' = [work_items EXCEPT ![e] = Append(@, i)]
        /\ loop' = [loop EXCEPT ![e] = Notified(e)]
        /\ state' = [state EXCEPT ![i] = "PENDING"]
        /\ sub_item' = [sub_item EXCEPT ![t] = None]
        /\ sub_at' = [sub_at EXCEPT ![t] = None]
        /\ UNCHANGED <<exec_vars, broken, target>>

-----------------------------------------------------------------------------

Init ==
    /\ work_thread = [e \in Executor |-> None]
    /\ old_executor = [e \in Executor |-> None]
    /\ work_items = [e \in Executor |-> <<>>]
    /\ broken = [e \in Executor |-> FALSE]
    /\ resolved = [e \in Executor |-> FALSE]
    /\ loop = [e \in Executor |-> "unborn"]
    /\ work_item = [e \in Executor |-> None]
    /\ stack = [t \in Thread |-> <<>>]
    /\ sub_item = [t \in Thread |-> None]
    /\ sub_at = [t \in Thread |-> None]
    /\ state = [i \in Item |-> "NEW"]
    /\ target = [i \in Item |-> None]

-----------------------------------------------------------------------------
(* The owner's side. *)

\* __init__, called by AsyncToSync.__call__ in thread t; the executor that is
\* current in t's context is any executor made before, or None.
New(t, e, old) ==
    /\ loop[e] = "unborn"
    /\ RunsUserCode(t)
    /\ old \in Born \cup {None}
    /\ work_thread' = [work_thread EXCEPT ![e] = t]
    /\ old_executor' = [old_executor EXCEPT ![e] = old]
    /\ loop' = [loop EXCEPT ![e] = "new"]
    /\ stack' = [stack EXCEPT ![t] = Append(@, e)]
    /\ UNCHANGED <<work_items, broken, resolved, work_item, sub_item, sub_at,
                   state, target>>

\* run_until_future up to its loop: add_done_callback calls done() at once
\* when the future is already resolved.
RunUntilFuture(e) ==
    /\ loop[e] = "new"
    /\ Innermost(e)
    /\ loop' = [loop EXCEPT ![e] = "check"]
    /\ broken' = [broken EXCEPT ![e] = resolved[e]]
    /\ UNCHANGED <<exec_vars, work_items, sub_vars, state, target>>

\* The future run_until_future waits for is resolved by another thread.
Resolve(e) ==
    /\ loop[e] \notin {"unborn", "exit"}
    /\ ~resolved[e]
    /\ resolved' = [resolved EXCEPT ![e] = TRUE]
    /\ UNCHANGED <<work_thread, old_executor, work_items, broken, loop,
                   work_item, stack, sub_item, sub_at, state, target>>

\* The resolving thread runs the callback done().
Done(e) ==
    /\ loop[e] \notin {"unborn", "new"}
    /\ resolved[e]
    /\ ~broken[e]
    /\ broken' = [broken EXCEPT ![e] = TRUE]
    /\ loop' = [loop EXCEPT ![e] = Notified(e)]
    /\ UNCHANGED <<exec_vars, work_items, sub_vars, state, target>>

\* The head of the loop, under the lock: nothing to do yet ...
Wait(e) ==
    /\ loop[e] = "check"
    /\ Innermost(e)
    /\ work_items[e] = <<>>
    /\ ~broken[e]
    /\ loop' = [loop EXCEPT ![e] = "wait"]
    /\ UNCHANGED <<exec_vars, work_items, broken, sub_vars, state, target>>

\* ... or nothing left to do, and run_until_future returns ...
Break(e) ==
    /\ loop[e] = "check"
    /\ Innermost(e)
    /\ work_items[e] = <<>>
    /\ broken[e]
    /\ loop' = [loop EXCEPT ![e] = "exit"]
    /\ stack' = [stack EXCEPT ![work_thread[e]] = SubSeq(@, 1, Len(@) - 1)]
    /\ UNCHANGED <<work_thread, old_executor, resolved, work_item, work_items,
                   broken, sub_vars, state, target>>

\* ... or the oldest item is taken off the queue.
PopLeft(e) ==
    /\ loop[e] = "check"
    /\ Innermost(e)
    /\ work_items[e] # <<>>
    /\ work_item' = [work_item EXCEPT ![e] = Head(work_items[e])]
    /\ work_items' = [work_items EXCEPT ![e] = Tail(@)]
    /\ loop' = [loop EXCEPT ![e] = "popped"]
    /\ UNCHANGED <<work_thread, old_executor, resolved, stack, broken,
                   sub_vars, state, target>>

\* _WorkItem.run of a Future that was cancelled while it was queued.
SkipCancelled(e) ==
    /\ loop[e] = "popped"
    /\ state[work_item[e]] = "CANCELLED"
    /\ state' = [state EXCEPT ![work_item[e]] = "CANCELLED_AND_NOTIFIED"]
    /\ work_item' = [work_item EXCEPT ![e] = None]
    /\ loop' = [loop EXCEPT ![e] = "check"]
    /\ UNCHANGED <<work_thread, old_executor, resolved, stack, work_items,
                   broken, sub_vars, target>>

\* _WorkItem.run calls fn.
Start(e) ==
    /\ loop[e] = "popped"
    /\ state[work_item[e]] = "PENDING"
    /\ state' = [state EXCEPT ![work_item[e]] = "RUNNING"]
    /\ loop' = [loop EXCEPT ![e] = "busy"]
    /\ UNCHANGED <<exec_vars, work_items, broken, sub_vars, target>>

\* fn returns or raises; either way the Future is finished and the loop goes on.
Finish(e) ==
    /\ loop[e] = "busy"
    /\ Innermost(e)
    /\ RunsUserCode(work_thread[e])
    /\ state' = [state EXCEPT ![work_item[e]] = "FINISHED"]
    /\ work_item' = [work_item EXCEPT ![e] = None]
    /\ loop' = [loop EXCEPT ![e] = "check"]
    /\ UNCHANGED <<work_thread, old_executor, resolved, stack, work_items,
                   broken, sub_vars, target>>

-----------------------------------------------------------------------------
(* The submitter's side. *)

\* submit() raises when it is called from the executor's own thread.
SubmitFromOwnThread(t, i, e) ==
    /\ state[i] = "NEW"
    /\ e \in Born
    /\ RunsUserCode(t)
    /\ work_thread[e] = t
    /\ state' = [state EXCEPT ![i] = "OWN_THREAD"]
    /\ target' = [target EXCEPT ![i] = e]
    /\ UNCHANGED <<exec_vars, work_items, broken, loop, sub_vars>>

\* submit() from any other thread makes the Future and starts the walk at e.
Submit(t, i, e) ==
    /\ state[i] = "NEW"
    /\ e \in Born
    /\ RunsUserCode(t)
    /\ work_thread[e] # t
    /\ state' = [state EXCEPT ![i] = "SUBMITTING"]
    /\ target' = [target EXCEPT ![i] = e]
    /\ sub_item' = [sub_item EXCEPT ![t] = i]
    /\ sub_at' = [sub_at EXCEPT ![t] = e]
    /\ UNCHANGED <<exec_vars, work_items, broken, loop>>

\* One turn of submit()'s loop: the executor still runs and takes the item ...
Enqueue(t) ==
    LET e == sub_at[t]
        i == sub_item[t]
    IN  /\ i # None
        /\ ~broken[e]
        /\ work_items' = [work_items EXCEPT ![e] = Append(@, i)]
        /\ loop' = [loop EXCEPT ![e] = Notified(e)]
        /\ state' = [state EXCEPT ![i] = "PENDING"]
        /\ sub_item' = [sub_item EXCEPT ![t] = None]
        /\ sub_at' = [sub_at EXCEPT ![t] = None]
        /\ UNCHANGED <<exec_vars, broken, target>>

\* ... or it has quit, and the walk goes on with the one before it ...
WalkUp(t) ==
    LET e == sub_at[t]
    IN  /\ sub_item[t] # None
        /\ broken[e]
        /\ old_executor[e] # None
        /\ sub_at' = [sub_at EXCEPT ![t] = old_executor[e]]
        /\ UNCHANGED <<exec_vars, work_items, broken, loop, sub_item, state,
                       target>>

\* ... or there is none before it, and submit() raises.
RaiseQuit(t) ==
    LET e == sub_at[t]
    IN  /\ sub_item[t] # None
        /\ broken[e]
        /\ old_executor[e] = None
        /\ state' = [state EXCEPT ![sub_item[t]] = "QUIT"]
        /\ sub_item' = [sub_item EXCEPT ![t] = None]
        /\ sub_at' = [sub_at EXCEPT ![t] = None]
        /\ UNCHANGED <<exec_vars, work_items, broken, loop, target>>

\* Future.cancel() by whoever holds the Future: only a pending one is
\* cancelled, a running one is not interrupted.
Cancel(i) ==
    /\ state[i] = "PENDING"
    /\ state' = [state EXCEPT ![i] = "CANCELLED"]
    /\ UNCHANGED <<exec_vars, work_items, broken, loop, sub_vars, target>>

-----------------------------------------------------------------------------

OwnerStep(e) ==
    \/ RunUntilFuture(e)
    \/ Wait(e)
    \/ Break(e)
    \/ PopLeft(e)
    \/ SkipCancelled(e)
    \/ Start(e)
    \/ Finish(e)

WalkStep(t) == Enqueue(t) \/ WalkUp(t) \/ RaiseQuit(t)

Next ==
    \/ \E e \in Executor : OwnerStep(e) \/ Resolve(e) \/ Done(e)
    \/ \E t \in Thread : WalkStep(t)
    \/ \E t \in Thread, e \in Executor, old \in Executor \cup {None} :
           New(t, e, old)
    \/ \E t \in Thread, i \in Item, e \in Executor :
           Submit(t, i, e) \/ SubmitFromOwnThread(t, i, e)
    \/ \E i \in Item : Cancel(i)

\* Threads are scheduled (OwnerStep without Finish, WalkStep, Done); the sync
\* functions return (Finish) and the awaited futures are resolved (Resolve),
\* which is what callers owe the executor.  Nobody has to submit or cancel.
Fairness ==
    /\ \A e \in Executor : WF_vars(OwnerStep(e)) /\ WF_vars(Resolve(e))
                           /\ WF_vars(Done(e))
    /\ \A t \in Thread : WF_vars(WalkStep(t))

Spec == Init /\ [][Next]_vars

FairSpec == Spec /\ Fairness

-----------------------------------------------------------------------------
(* Properties. *)

\* Every variable has its type, and a submit() under way examines an executor.
TypeOK ==
    /\ work_thread \in [Executor -> Thread \cup {None}]
    /\ old_executor \in [Executor -> Executor \cup {None}]
    /\ work_items \in [Executor -> Seq(Item)]
    /\ broken \in [Executor -> BOOLEAN]
    /\ resolved \in [Executor -> BOOLEAN]
    /\ loop \in [Executor -> LoopState]
    /\ work_item \in [Executor -> Item \cup {None}]
    /\ stack \in [Thread -> Seq(Executor)]
    /\ sub_item \in [Thread -> Item \cup {None}]
    /\ sub_at \in [Thread -> Executor \cup {None}]
    /\ state \in [Item -> ItemState]
    /\ target \in [Item -> Executor \cup {None}]
    /\ \A t \in Thread : (sub_item[t] = None) <=> (sub_at[t] = None)

\* run_until_future never returns, and never stays returned, with work in its
\* queue: an item appended while the future was being resolved is still run,
\* and nothing is appended after the last look at the queue.
NoStrandedWork ==
    \A e \in Executor : loop[e] = "exit" => broken[e] /\ work_items[e] = <<>>

\* The owner sleeps in Condition.wait only while there is neither work nor a
\* reason to stop: no notify is ever missed between its test and its wait.
NoLostWakeup ==
    \A e \in Executor : loop[e] = "wait" => ~broken[e] /\ work_items[e] = <<>>

\* Slot 0 of an executor is its work_item, slot k is work_items[k].
Slots(e) == 0..Len(work_items[e])
At(i, e, k) == IF k = 0 THEN work_item[e] = i ELSE work_items[e][k] = i

Held == {"PENDING", "RUNNING", "CANCELLED"}

\* An item whose Future is unsettled is in exactly one slot of exactly one
\* executor, so it is neither dropped nor run twice, and a settled or refused
\* item is in none: the queue, the loop and the Future never disagree.
HeldOnce ==
    \A i \in Item :
        /\ state[i] \in Held <=>
              \E e \in Executor : \E k \in Slots(e) : At(i, e, k)
        /\ \A e, f \in Executor : \A k \in Slots(e), l \in Slots(f) :
              At(i, e, k) /\ At(i, f, l) => e = f /\ k = l

\* Executor e is on the chain of i's target, and all before it have quit.
Reaches(i, e) ==
    /\ e \in Chain(target[i])
    /\ \A x \in Chain(target[i]) \ Chain(e) : broken[x]

\* "Walk up the CurrentThreadExecutor stack to find the closest one still
\* running": an item is held by an executor of its target's chain, and every
\* executor of the chain before that one had quit.
ClosestRunning ==
    \A i \in Item, e \in Executor : \A k \in Slots(e) :
        At(i, e, k) => Reaches(i, e)

\* submit() raises "already quit or is broken" only when every executor of
\* the chain has quit, although it looks at them one by one.
QuitOnlyIfChainBroken ==
    \A i \in Item :
        state[i] = "QUIT" => \A x \in Chain(target[i]) : broken[x]

\* Every submit() ends, and every accepted item is run or found cancelled.
Settled == {"CANCELLED_AND_NOTIFIED", "FINISHED"}
EverySubmitSettles ==
    \A i \in Item :
        state[i] = "SUBMITTING" ~> state[i] \in Settled \cup {"QUIT"}

\* run_until_future returns once its future is resolved, whatever is queued
\* and however deeply the items nest further calls.
EveryCallReturns ==
    \A e \in Executor : loop[e] = "new" ~> loop[e] = "exit"

-----------------------------------------------------------------------------
(* The executor implements ExecutorContract. *)

\* What the contract calls each state of a Future.
Status(st) ==
    CASE st = "NEW" -> "new"
      [] st = "SUBMITTING" -> "offered"
      [] st = "PENDING" -> "accepted"
      [] st = "RUNNING" -> "running"
      [] st = "CANCELLED" -> "cancelled"
      [] st \in Settled -> "settled"
      [] OTHER -> "refused"

Phase(e) ==
    IF loop[e] = "unborn" THEN "unborn"
    ELSE IF loop[e] = "exit" THEN "gone"
    ELSE IF broken[e] THEN "stopping" ELSE "open"

\* The executor that holds item i.
Holder(i) ==
    IF \E e \in Executor : \E k \in Slots(e) : At(i, e, k)
    THEN CHOOSE e \in Executor : \E k \in Slots(e) : At(i, e, k)
    ELSE None

Contract == INSTANCE ExecutorContract WITH
    phase <- [e \in Executor |-> Phase(e)],
    status <- [i \in Item |-> Status(state[i])],
    owner <- [i \in Item |-> Holder(i)]

\* Queue, lock, condition variable and walk together behave like the contract:
\* in particular an executor is gone only when it owes no item, and an item is
\* only ever accepted by an executor that is open at that moment.
ImplementsContract == Contract!Spec
=============================================================================
