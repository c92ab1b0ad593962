--------------------------- MODULE ThreadContexts ---------------------------
(***************************************************************************)
(* Code that runs in ThreadSensitiveContext and AsyncSingleThreadContext   *)
(* (asgiref/sync.py), and what it sees of a Local (asgiref/local.py), when *)
(* tasks and threads inherit contexts and calls carry them over the        *)
(* bridge.                                                                 *)
(*                                                                         *)
(* Pieces of code are numbered in the order in which they come to be: the  *)
(* main coroutine (1), tasks it creates, threads of the program's own,     *)
(* functions called with sync_to_async, coroutines called with             *)
(* async_to_sync.  A thread has the number of the code it was made for; an *)
(* event loop that of its first coroutine; a context manager that of the   *)
(* code that entered it.  0 is none.                                       *)
(*                                                                         *)
(* SyncBridge has the cancellation of calls, loops that stop, the worker   *)
(* for code in no context and pools.  Here calls nest, and a call that     *)
(* would use the worker is not made.                                       *)
(***************************************************************************)
EXTENDS Integers, Sequences, FiniteSetsExt, LocalStorage

CONSTANTS
    Programs,   \* what a program may use, and how much of it (see Program)
    MaxWrites,  \* bound on the operations on the Locals
    MaxEnters,  \* bound on the context managers
    Keys        \* attributes of the Local

\* codes: bound on the pieces of code.  uses: operations, and thread_inherit_context
\* (the flag of Python 3.14) and recycled (idents of threads that have ended).
Program == [codes : Nat \ {0}, uses : SUBSET {
    "local", "critical", "task", "thread", "enter", "cancel",
    "sync_to_async", "async_to_sync", "force_new_loop", "thread_inherit_context",
    "recycled"}]

ASSUME ContextsAssumption ==
    Programs \subseteq Program /\ {MaxWrites, MaxEnters} \subseteq Nat

VARIABLES
    code,       \* the pieces of code
    thr,        \* thr[n]: the thread made for code n, if one was
    program,    \* the member of Programs that runs
    writes,
    leaked,     \* history: code roots that were handed data of a stranger
    raced       \* history: contexts for which two executors were made at once

vars == <<code, thr, program, writes, leaked, raced>>

Executors == <<"executors", 0>>
Value     == <<"local", 0>>
TSC       == <<"thread_sensitive_context", 0>>
STC       == <<"async_single_thread_context", 0>>

\* root: the task or thread it is part of.  sees: the roots whose data it may see.
\* token: of the context manager it entered.  on: the thread of an executor it has
\* looked up or joins.  executor: context_to_thread_executor of the context it
\* entered.  old: old_executor.  via: history, the open context that chose its thread.
NewCode(caller, pc, thread, loop, ctx) ==
    [pc |-> pc, caller |-> caller, thread |-> thread, loop |-> loop, ctx |-> ctx,
     root |-> caller, sees |-> {}, token |-> "none", on |-> 0, executor |-> 0,
     old |-> 0, via |-> 0]

\* ident: get_ident().  main_event_loop: of SyncToAsync.threadlocal.  base: the
\* context it was started in, if its executor is shared.  shut: its executor takes
\* no more work.  critical: threading.local of the thread_critical Local.
NewThread(ident, base, shut) ==
    [ident |-> ident, main_event_loop |-> 0, base |-> base, shut |-> shut,
     ended |-> FALSE, critical |-> {}]

NoThread == NewThread(0, <<>>, FALSE)

Init ==
    /\ program \in Programs
    /\ code = <<[NewCode(0, "run", 1, 1, <<>>) EXCEPT !.root = 1, !.sees = {1}]>>
    /\ thr = <<NewThread(1, <<>>, FALSE)>>
    /\ writes = 0
    /\ leaked = {}
    /\ raced = {}

n == Len(code) + 1
Room == Len(code) + Cardinality({c \in DOMAIN code : code[c].pc = "look"}) < program.codes
Ident(c) == thr[code[c].thread].ident
Async(c) == code[c].loop # 0
On(t) == {c \in DOMAIN code : code[c].thread = t /\ code[c].pc # "done"}

\* Code runs unless its thread is blocked.
Runs(c) ==
    /\ code[c].pc = "run"
    /\ \A b \in On(code[c].thread) : code[b].pc # "block"

Does(op, c) == Runs(c) /\ op \in program.uses

\* executors.current as c sees it, or 0.
Current(ctx, ident) ==
    IF Has(ctx, Executors, ident, "current")
    THEN GetAttr(ctx, Executors, ident, "current") ELSE 0

Inherit == "thread_inherit_context" \in program.uses

\* The operating system gives a new thread the ident of none that is alive.
FreeIdents ==
    LET Of(ended) == {thr[t].ident : t \in {u \in DOMAIN thr : thr[u].ended = ended}}
    IN  {n} \cup {i \in Of(TRUE) \ Of(FALSE) : "recycled" \in program.uses}

\* Is data re-homed that was not the thread's own?
Foreign(ctx, ident) == Value \in DOMAIN ctx /\ ctx[Value].ident # ident
Leak(c, condition) == leaked' = IF condition THEN leaked \cup {code[c].root} ELSE leaked

-----------------------------------------------------------------------------
(* The Local *)

Writes(c, op) ==
    /\ Does(op, c)
    /\ writes < MaxWrites
    /\ writes' = writes + 1
    /\ UNCHANGED <<program, leaked, raced>>

SetValue(c, key) ==
    /\ Writes(c, "local")
    /\ code' = [code EXCEPT ![c].ctx = SetAttr(@, Value, Ident(c), key, code[c].root)]
    /\ UNCHANGED thr

DelValue(c, key) ==
    /\ Writes(c, "local")
    /\ Has(code[c].ctx, Value, Ident(c), key)
    /\ code' = [code EXCEPT ![c].ctx = DelAttr(@, Value, Ident(c), key)]
    /\ UNCHANGED thr

\* The attribute of the thread_critical Local, kept where _thread_critical_storage
\* says: with the thread, or in async code in the context too.
Critical(c) ==
    LET t == code[c].thread
    IN  IF Async(c) THEN CVarGet(code[c].ctx, t) ELSE thr[t].critical

\* It is set to the thread's number or, if set, deleted.
WriteCritical(c) ==
    /\ Writes(c, "critical")
    /\ LET t == code[c].thread
       IN  \E value \in {{t}} \cup {{} : v \in Critical(c)} :
              IF Async(c)
              THEN code' = [code EXCEPT ![c].ctx = CVarSet(@, t, value)] /\ UNCHANGED thr
              ELSE thr' = [thr EXCEPT ![t].critical = value] /\ UNCHANGED code

-----------------------------------------------------------------------------
(* Tasks and threads *)

\* asyncio.create_task on the main loop, by code that no sync code waits for.
CreateTask(c) ==
    /\ Does("task", c)
    /\ Room
    /\ code[c].loop = 1
    /\ Current(code[c].ctx, Ident(c)) = 0
    /\ code' = Append(code, [NewCode(0, "posted", 1, 1, code[c].ctx) EXCEPT
                                !.root = n, !.sees = code[c].sees \cup {n}])
    /\ thr' = Append(thr, NoThread)
    /\ leaked' = IF code[c].root \in leaked THEN leaked \cup {n} ELSE leaked
    /\ UNCHANGED <<program, writes, raced>>

\* threading.Thread(...).start().
StartThread(c) ==
    /\ Does("thread", c)
    /\ Room
    /\ \E ident \in FreeIdents :
          LET ctx == IF Inherit THEN code[c].ctx ELSE <<>>
          IN  /\ code' = Append(code, [NewCode(0, "run", n, 0, ctx) EXCEPT
                                          !.root = n, !.sees = {n}])
              /\ thr' = Append(thr, NewThread(ident, <<>>, FALSE))
              /\ leaked' = IF Value \in DOMAIN ctx /\ ctx[Value].ident = ident
                           THEN leaked \cup {n} ELSE leaked
    /\ UNCHANGED <<program, writes, raced>>

\* The last code of an executor that takes no more work has returned.
WorkerEnds(t) ==
    /\ thr[t].shut
    /\ ~thr[t].ended
    /\ On(t) = {}
    /\ thr' = [thr EXCEPT ![t].ended = TRUE]
    /\ UNCHANGED <<code, program, writes, leaked, raced>>

-----------------------------------------------------------------------------
(* Calls *)

Callee(c, pc, thread, loop, ctx) ==
    [NewCode(c, pc, thread, loop, ctx) EXCEPT !.root = code[c].root, !.sees = code[c].sees]

\* Does the context manager x hold its executor until an exit to come?
Open(x) == code[x].token = "outer"

\* Faulty: an executor is made and not put into context_to_thread_executor.
Kept(x, t) == code

\* context_to_thread_executor[x] = the executor with thread t.
Store(x, t) == [code EXCEPT ![x].executor = t]

\* The function is given to the executor of the sync code that waits further up, or
\* to that of the context, made if there is none.
SyncToAsyncCall(c) ==
    /\ Does("sync_to_async", c)
    /\ Async(c)
    /\ Room
    /\ LET ctx == code[c].ctx
           current == Current(ctx, Ident(c))
           x == ctx[TSC]
           Call(codes, f) == code' = Append([codes EXCEPT ![c].pc = "wait"], f)
           Via(f) == [f EXCEPT !.via = IF Open(x) THEN x ELSE 0]
       IN  \/ /\ current # 0
              /\ Call(code, [Callee(c, "posted", code[current].thread, 0, ctx) EXCEPT
                                !.via = code[current].via])
              /\ thr' = Append(thr, NoThread)
           \/ /\ current = 0
              /\ TSC \in DOMAIN ctx
              /\ code[x].executor # 0
              /\ Call(code, Via(Callee(c, "queued", code[x].executor, 0, ctx)))
              /\ thr' = Append(thr, NoThread)
           \/ /\ current = 0
              /\ TSC \in DOMAIN ctx
              /\ code[x].executor = 0
              /\ Call(Store(x, n), Via(Callee(c, "queued", n, 0, ctx)))
              /\ \E ident \in FreeIdents : thr' = Append(thr, NewThread(ident, <<>>, FALSE))
    /\ UNCHANGED <<program, writes, leaked, raced>>

\* Faulty: a loop that has stopped is taken for a running one.
Known(loop) == loop # 0

\* main_event_loop is not None and main_event_loop.is_running()
Running(loop) == loop # 0 /\ code[loop].pc # "done"

\* AsyncToSync.__call__ up to the choice of a loop: the parent loop, a new one on a
\* thread for this call alone, or one on the thread of the AsyncSingleThreadContext,
\* which is looked up here and used in OnSharedThread.
AsyncToSyncCall(c, force_new_loop) ==
    /\ Does("async_to_sync", c)
    /\ force_new_loop => "force_new_loop" \in program.uses
    /\ ~Async(c)
    /\ Room
    /\ LET ctx == SetAttr(code[c].ctx, Executors, Ident(c), "current", c)
           parent == IF force_new_loop THEN 0 ELSE thr[code[c].thread].main_event_loop
           at(pc) == [code EXCEPT ![c].pc = pc, ![c].ctx = ctx,
                                  ![c].old = Current(code[c].ctx, Ident(c))]
       IN  \/ /\ Running(parent)
              /\ code' = Append(at("wait"),
                                Callee(c, "posted", code[parent].thread, parent, ctx))
              /\ thr' = Append(thr, NoThread)
           \/ /\ ~Running(parent)
              /\ STC \notin DOMAIN ctx
              /\ code' = Append(at("wait"), Callee(c, "queued", n, n, ctx))
              /\ \E ident \in FreeIdents :
                    thr' = Append(thr, NewThread(ident, <<>>, TRUE))
           \/ /\ ~Running(parent)
              /\ STC \in DOMAIN ctx
              /\ code' = [at("look") EXCEPT ![c].on = code[ctx[STC]].executor]
              /\ UNCHANGED thr
    /\ UNCHANGED <<program, writes, leaked, raced>>

\* Another thread of the same context may have made an executor since, or have left
\* the context: then submit() raises a RuntimeError.
OnSharedThread(c) ==
    /\ code[c].pc = "look"
    /\ LET ctx == code[c].ctx
           x == ctx[STC]
           t == code[c].on
           Call(codes, thread) ==
               code' = Append([codes EXCEPT ![c].pc = "wait", ![c].on = 0],
                              [Callee(c, "queued", thread, n, ctx) EXCEPT
                                  !.via = IF Open(x) THEN x ELSE 0])
       IN  \/ /\ t = 0
              /\ Call(Store(x, n), n)
              /\ \E ident \in FreeIdents :
                    thr' = Append(thr, NewThread(ident, IF Inherit THEN ctx ELSE <<>>, FALSE))
              /\ UNCHANGED leaked
              /\ raced' = IF code[x].executor = 0 THEN raced ELSE raced \cup {x}
           \/ /\ t # 0
              /\ ~thr[t].shut
              /\ Call(code, t)
              /\ thr' = Append(thr, NoThread)
              /\ UNCHANGED <<leaked, raced>>
           \/ /\ t # 0
              /\ thr[t].shut
              /\ code' = [code EXCEPT ![c].pc = "run", ![c].on = 0,
                             ![c].ctx = SetAttr(Restore(ctx, ctx, Ident(c)), Executors,
                                                Ident(c), "current", code[c].old)]
              /\ Leak(c, Foreign(ctx, Ident(c)))
              /\ UNCHANGED <<thr, raced>>
    /\ UNCHANGED <<program, writes>>

\* An executor runs what it was given in order, one after the other; a loop, and the
\* executor of a thread that waits, have nothing else to do.  thread_handler and
\* run_child, or main_wrap, bring the context along.
Start(c) ==
    LET t == code[c].thread
        base == IF Async(c) THEN thr[t].base ELSE <<>>
        ctx == Restore(base, code[c].ctx, Ident(c))
        caller == code[c].caller
    IN  /\ \/ code[c].pc = "posted" /\ \A b \in On(t) : code[b].pc # "block"
           \/ code[c].pc = "queued" /\ \A b \in On(t) : code[b].pc = "queued" /\ c <= b
        /\ code' = [code EXCEPT ![c].pc = "run",
                                ![c].ctx = IF caller = 0 THEN @ ELSE ctx]
        /\ thr' = IF Async(c) THEN thr
                  ELSE [thr EXCEPT ![t].main_event_loop = code[caller].loop]
        /\ Leak(c, /\ caller # 0
                   /\ \/ Foreign(code[c].ctx, Ident(caller))
                      \/ /\ Value \in DOMAIN base \ DOMAIN code[c].ctx
                         /\ base[Value].ident = Ident(c))
        /\ UNCHANGED <<program, writes, raced>>

\* Code returns, once it has left its context managers, and what waits for it goes
\* on with its context.  The main coroutine is the last.
Return(c) ==
    LET caller == code[c].caller
        back == Restore(code[caller].ctx, code[c].ctx, Ident(caller))
    IN  /\ Runs(c)
        /\ code[c].token \in {"none", "left"}
        /\ c = 1 => \A d \in DOMAIN code \ {1} : code[d].pc = "done"
        /\ IF caller = 0
           THEN /\ code' = [code EXCEPT ![c].pc = "done", ![c].ctx = <<>>]
                /\ thr' = IF Async(c) THEN thr ELSE [thr EXCEPT ![c].ended = TRUE]
                /\ UNCHANGED leaked
           ELSE /\ code' = [code EXCEPT
                      ![c].pc = "done", ![c].ctx = <<>>,
                      ![caller].pc = "run",
                      ![caller].ctx =
                          IF Async(c)
                          THEN SetAttr(back, Executors, Ident(caller), "current",
                                       code[caller].old)
                          ELSE back]
                /\ UNCHANGED thr
                /\ Leak(c, Foreign(code[c].ctx, Ident(c)))
        /\ UNCHANGED <<program, writes, raced>>

-----------------------------------------------------------------------------
(* The context managers: ThreadSensitiveContext in async code, and            *)
(* AsyncSingleThreadContext in sync code.                                     *)

Manager(c) == IF Async(c) THEN TSC ELSE STC

\* Only the outermost sets the variable.
Enters(c) ==
    /\ Does("enter", c)
    /\ code[c].token = "none"
    /\ Cardinality({d \in DOMAIN code : code[d].token # "none"}) < MaxEnters
    /\ code' = IF Manager(c) \in DOMAIN code[c].ctx
               THEN [code EXCEPT ![c].token = "inner"]
               ELSE [code EXCEPT ![c].token = "outer", ![c].ctx = Set(@, Manager(c), c)]
    /\ UNCHANGED <<thr, program, writes, leaked, raced>>

AEnter(c) == Async(c) /\ Enters(c)
Enter(c) == ~Async(c) /\ Enters(c)

\* Faulty: a blocking shutdown() in __aexit__ too.
BlockingPc(c) == "block"

\* __aexit__ leaves the join to a thread and awaits that, __exit__ blocks its own.
JoinPc(c) == IF Async(c) THEN "exit" ELSE "block"

\* Pop, reset and shutdown.
Exits(c) ==
    /\ Runs(c)
    /\ LET t == code[c].executor
           unset == [var \in DOMAIN code[c].ctx \ {Manager(c)} |-> code[c].ctx[var]]
           left == [code EXCEPT ![c].token = "left", ![c].ctx = unset, ![c].executor = 0]
       IN  \/ /\ code[c].token = "inner"
              /\ code' = [code EXCEPT ![c].token = "left"]
              /\ UNCHANGED thr
           \/ /\ code[c].token = "outer"
              /\ t = 0
              /\ code' = left
              /\ UNCHANGED thr
           \/ /\ code[c].token = "outer"
              /\ t # 0
              /\ code' = [left EXCEPT ![c].pc = JoinPc(c), ![c].on = t]
              /\ thr' = [thr EXCEPT ![t].shut = TRUE]
    /\ UNCHANGED <<program, writes, leaked, raced>>

AExit(c) == Async(c) /\ Exits(c)
Exit(c) == ~Async(c) /\ Exits(c)

\* Faulty: shutdown(wait=False).
JoinedAtOnce(c) == TRUE

\* shutdown() has joined the thread.
Joined(c) == thr[code[c].on].ended

ExitReturns(c) ==
    /\ code[c].pc \in {"exit", "block"}
    /\ Joined(c)
    /\ code' = [code EXCEPT ![c].pc = "run"]
    /\ UNCHANGED <<thr, program, writes, leaked, raced>>

\* The task is cancelled while it awaits the join, which goes on without it; join()
\* drops the InvalidStateError.
ExitCancelled(c) ==
    /\ code[c].pc = "exit"
    /\ "cancel" \in program.uses
    /\ code' = [code EXCEPT ![c].pc = "run", ![c].on = 0]
    /\ UNCHANGED <<thr, program, writes, leaked, raced>>

-----------------------------------------------------------------------------

Next ==
    \/ \E c \in DOMAIN code :
          \/ \E key \in Keys : SetValue(c, key) \/ DelValue(c, key)
          \/ WriteCritical(c)
          \/ CreateTask(c) \/ StartThread(c)
          \/ SyncToAsyncCall(c)
          \/ \E force_new_loop \in BOOLEAN : AsyncToSyncCall(c, force_new_loop)
          \/ OnSharedThread(c) \/ Start(c) \/ Return(c)
          \/ AEnter(c) \/ Enter(c) \/ AExit(c) \/ Exit(c)
          \/ ExitReturns(c) \/ ExitCancelled(c)
    \/ \E t \in DOMAIN thr : WorkerEnds(t)

Spec == Init /\ [][Next]_vars

\* What can run does.  No step can be repeated for ever.
FairSpec == Spec /\ WF_vars(Next)

-----------------------------------------------------------------------------
(* Properties. *)

Pcs == {"posted", "queued", "run", "look", "wait", "exit", "block", "done"}

\* Types; who waits waits for one piece of code, and nothing is left to do on a
\* thread that has ended.
TypeOK ==
    /\ Len(code) \in 1..program.codes /\ Len(thr) = Len(code)
    /\ \A c \in DOMAIN code :
          /\ code[c].pc \in Pcs
          /\ {code[c].caller, code[c].loop, code[c].on, code[c].executor, code[c].old,
              code[c].via} \subseteq 0..Len(code)
          /\ {code[c].thread, code[c].root} \cup code[c].sees \subseteq DOMAIN code
          /\ code[c].token \in {"none", "outer", "inner", "left"}
          /\ DOMAIN code[c].ctx \subseteq {Executors, Value, TSC, STC}
                                       \cup {CVar(t) : t \in DOMAIN thr}
          /\ Cardinality({d \in DOMAIN code : code[d].caller = c /\ code[d].pc # "done"})
                = IF code[c].pc = "wait" THEN 1 ELSE 0
    /\ \A t \in DOMAIN thr :
          /\ {thr[t].ident, thr[t].main_event_loop} \subseteq 0..program.codes
          /\ {thr[t].shut, thr[t].ended} \subseteq BOOLEAN
          /\ thr[t].ended => On(t) = {}
    /\ program \in Programs /\ writes \in 0..MaxWrites
    /\ leaked \cup raced \subseteq DOMAIN code

\* All that a context sends to a thread between entry and exit, from whichever task
\* and however deep in calls and in contexts nested in it, goes to the same thread;
\* unless two threads made an executor for it at once.
OneThread ==
    \A c, d \in DOMAIN code :
        code[c].via = code[d].via /\ code[c].via \notin {0} \cup raced
            => code[c].thread = code[d].thread

\* After an exit that was not cancelled all that the context has sent to its thread
\* is done, with the same exception.
ExitWaits ==
    \A c, d \in DOMAIN code :
        /\ code[c].token = "left" /\ code[c].pc \notin {"exit", "block"}
        /\ code[c].on # 0 /\ c \notin raced
        /\ code[d].via = c
        => code[d].pc = "done"

View(c) == Data(code[c].ctx, Value, Ident(c))
Started(c) == code[c].pc \notin {"posted", "queued"}

\* "Data merely inherited by an unrelated thread ... stays isolated": code sees what
\* its own task or thread has written, or the task's creators; and of a
\* thread_critical Local what was written on its own thread.  The exceptions are
\* threads that got the ident of the one whose data they inherited, and those that
\* crossed the bridge with inherited data, which re-homes it.
Isolated ==
    \A c \in DOMAIN code : Started(c) =>
        /\ \A key \in DOMAIN View(c) :
              View(c)[key] \in code[c].sees \/ code[c].root \in leaked
        /\ Critical(c) \subseteq {code[c].thread}

\* A call sees of the Local what its caller sees, and when it returns the caller sees
\* what the call saw, deletions included, on whichever threads they run.
SharedAcross ==
    [][\A c \in DOMAIN code : code[c].caller # 0 =>
        LET caller == code[c].caller
        IN  /\ ~Started(c) /\ Started(c)' /\ ~Foreign(code[caller].ctx, Ident(caller))
                => View(c)' = View(caller) \/ Value \in DOMAIN thr[code[c].thread].base
            /\ code[c].pc = "run" /\ code'[c].pc = "done" /\ ~Foreign(code[c].ctx, Ident(c))
                => View(caller)' = View(c)]_vars

\* async_to_sync inside async_to_sync in one AsyncSingleThreadContext, with
\* force_new_loop: a coroutine queued behind the one that waits for it.
SelfWait ==
    \E c \in DOMAIN code : /\ code[c].pc = "queued" /\ Async(c)
                           /\ \E b \in On(code[c].thread) :
                                 code[b].pc = "wait" /\ code[b].root = code[c].root

\* Every call and every exit returns, though the thread an exit joins may wait for
\* the loop of the exit; unless a SelfWait occurs.
Terminates == <>(SelfWait \/ \A c \in DOMAIN code : code[c].pc = "done")
=============================================================================
