-------------------------- MODULE SyncBridgeProofs --------------------------
(***************************************************************************)
(* Proofs about the bridge, for any number of calls, tasks, loops, threads *)
(* and cancellations, and calls nested to any depth.                       *)
(***************************************************************************)
EXTENDS SyncBridge, TLAPS

-----------------------------------------------------------------------------
(* The inductive invariant. *)

Live == {"run", "await", "join", "drain"}

\* A thread is inside of frames and, between them, of async_to_sync calls and loops
\* in turn, each of them once and on one thread only.
StackInv ==
    \A t \in Thread :
        /\ stack[t] # <<>> => stack[t][1] \in Frame
        /\ \A k \in 1..(Len(stack[t]) - 1) : stack[t][k] \in Frame <=> stack[t][k + 1] \notin Frame
        /\ \A j, k \in 1..Len(stack[t]) : stack[t][j] = stack[t][k] => j = k
        /\ \A k \in 1..Len(stack[t]) :
              LET x == stack[t][k]
              IN  /\ x \in Frame => scall[x].pc = "running" /\ scall[x].thr = t
                  /\ x \in ACall => acall[x].pc \in {"posting", "parked"} /\ acall[x].thr = t
                  /\ x \in Spawn => task[x].pc # "none"

\* A function has the executor it started with, but for the time its async_to_sync
\* call is under way, and then that call will put it back.
ContextInv ==
    /\ \A s \in SCall : scall[s].pc = "queued" => scall[s].ctx.cur = scall[s].cur0
    /\ \A t \in Thread : \A k \in 1..Len(stack[t]) :
          stack[t][k] \in Frame =>
              IF k < Len(stack[t]) /\ stack[t][k + 1] \in ACall
              THEN acall[stack[t][k + 1]].old = scall[stack[t][k]].cur0
              ELSE scall[stack[t][k]].ctx.cur = scall[stack[t][k]].cur0

\* A task awaits a function exactly while it is inside sync_to_async, and joins
\* only a task that has started.
AwaitInv ==
    \A n \in Task :
        /\ task[n].pc \in {"await", "join", "drain"} <=> task[n].on # None
        /\ task[n].on # None =>
              scall[task[n].on].pc # "none" /\ scall[task[n].on].by = n
        /\ task[n].pc = "join" =>
              task[n].join # None /\ task[task[n].join].pc \in Live \cup {"ending", "done"}

\* A function that was called has a caller; its future is done only when it has ended.
FunctionInv ==
    \A s \in SCall :
        /\ scall[s].pc # "none" => scall[s].by # None /\ task[scall[s].by].pc # "none"
        /\ scall[s].fut = "done" => scall[s].pc = "finished"

\* A loop is used by tasks only once it has been started, and is started once.
LoopInv ==
    /\ \A n \in Task : task[n].pc # "none" => task[n].loop # None /\ loop[task[n].loop] # "off"
    /\ \A l \in ACall \cup Spawn : task[l].pc = "none" => loop[l] = "off"

\* The stages of an async_to_sync call.  On a new loop its task is the first one and
\* nobody cancels it before it starts, so the loop stops only after call_result is
\* set.  The context to go back to is that of the task whenever call_result is set.
CallOf(a) ==
    /\ acall[a].pc \in {"none", "posting"} <=> task[a].pc = "none"
    /\ acall[a].pc \in {"none", "posting"} <=> acall[a].mode = "none"
    /\ acall[a].pc = "posting" => acall[a].lp # None /\ loop[acall[a].lp] # "off"
    /\ acall[a].mode = "new" =>
          /\ task[a].loop = a
          /\ task[a].pc # "posted"
          /\ task[a].pc = "created" => ~task[a].cancel
          /\ task[a].pc = "done" => acall[a].res # "none"
          /\ loop[a] \in {"gap", "closing", "stopped", "closed"} => task[a].pc = "done"
    /\ acall[a].res # "none" => task[a].pc = "done"
    /\ task[a].pc \in {"posted", "created", "ending", "done"} =>
          acall[a].cell = task[a].ctx

CallInv == \A a \in ACall : CallOf(a)

\* task_context holds each task once, and only tasks that were given it.
TaskContextInv ==
    \A s \in SCall :
        /\ \A j, k \in 1..Len(scall[s].tcx) : scall[s].tcx[j] = scall[s].tcx[k] => j = k
        /\ \A k \in 1..Len(scall[s].tcx) : acall[scall[s].tcx[k]].tc = s

\* The threadlocal, and a call that took its task_context from there, belong to one
\* sync_to_async call: its loop is the parent loop, for async code posted there.
ParentInv ==
    /\ \A t \in Thread : tlocal[t].tc # None =>
          /\ scall[tlocal[t].tc].pc # "none"
          /\ tlocal[t].loop = task[scall[tlocal[t].tc].by].loop
    /\ \A a \in ACall : acall[a].tc # None =>
          /\ scall[acall[a].tc].pc # "none"
          /\ LET l == task[scall[acall[a].tc].by].loop
             IN  /\ acall[a].pc = "posting" => acall[a].lp = l
                 /\ acall[a].mode = "main" => task[a].loop = l

Inv ==
    /\ TypeOK /\ StackInv /\ ContextInv /\ AwaitInv /\ FunctionInv /\ LoopInv
    /\ CallInv /\ TaskContextInv /\ TaskContextLive /\ ParentInv
    /\ NeverLeftBehind
-----------------------------------------------------------------------------
(* Sequences. *)

\* Two sequences, one after the other.
LEMMA Concatenation ==
    ASSUME NEW S, NEW p \in Seq(S), NEW q \in Seq(S)
    PROVE  /\ p \o q \in Seq(S)
           /\ Len(p \o q) = Len(p) + Len(q)
           /\ \A i \in 1..(Len(p) + Len(q)) :
                 (p \o q)[i] = IF i <= Len(p) THEN p[i] ELSE q[i - Len(p)]
  OBVIOUS

\* list.remove takes the one occurrence of an element out.
LEMMA RemoveFirstFacts ==
    ASSUME NEW S, NEW s \in Seq(S), NEW k \in 1..Len(s),
           \A i, j \in 1..Len(s) : s[i] = s[j] => i = j
    PROVE  /\ RemoveFirst(s, s[k]) \in Seq(S)
           /\ Len(RemoveFirst(s, s[k])) = Len(s) - 1
           /\ \A i \in 1..(Len(s) - 1) :
                 RemoveFirst(s, s[k])[i] = IF i < k THEN s[i] ELSE s[i + 1]
  <1>1. SelectInSeq(s, LAMBDA v : v = s[k]) = k
    <2>1. {i \in 1..Len(s) : s[i] = s[k]} = {k}
      OBVIOUS
    <2>2. Min({k}) = k
      BY DEF Min
    <2> QED BY <2>1, <2>2 DEF SelectInSeq
  <1>2. RemoveFirst(s, s[k]) = SubSeq(s, 1, k - 1) \o SubSeq(s, k + 1, Len(s))
    BY <1>1 DEF RemoveFirst, RemoveAt
  <1>3. /\ SubSeq(s, 1, k - 1) \in Seq(S)
        /\ Len(SubSeq(s, 1, k - 1)) = k - 1
        /\ \A i \in 1..(k - 1) : SubSeq(s, 1, k - 1)[i] = s[i]
    OBVIOUS
  <1>4. /\ SubSeq(s, k + 1, Len(s)) \in Seq(S)
        /\ Len(SubSeq(s, k + 1, Len(s))) = Len(s) - k
        /\ \A i \in 1..(Len(s) - k) : SubSeq(s, k + 1, Len(s))[i] = s[k + i]
    OBVIOUS
  <1>5. PICK p \in Seq(S) : p = SubSeq(s, 1, k - 1)
    BY <1>3
  <1>6. PICK q \in Seq(S) : q = SubSeq(s, k + 1, Len(s))
    BY <1>4
  <1>7. /\ Len(p) = k - 1
        /\ \A i \in 1..(k - 1) : p[i] = s[i]
        /\ Len(q) = Len(s) - k
        /\ \A i \in 1..(Len(s) - k) : q[i] = s[k + i]
    BY <1>3, <1>4, <1>5, <1>6, Zenon
  <1>8. /\ p \o q \in Seq(S)
        /\ Len(p \o q) = Len(s) - 1
        /\ \A i \in 1..(Len(s) - 1) : (p \o q)[i] = IF i < k THEN s[i] ELSE s[i + 1]
    <2>1. /\ p \o q \in Seq(S)
          /\ Len(p \o q) = Len(p) + Len(q)
          /\ \A i \in 1..(Len(p) + Len(q)) :
                (p \o q)[i] = IF i <= Len(p) THEN p[i] ELSE q[i - Len(p)]
      BY Concatenation, Zenon
    <2>2. ASSUME NEW i \in 1..(Len(s) - 1), ~(i < k)
          PROVE  q[i - (k - 1)] = s[i + 1]
      <3>1. i - (k - 1) \in 1..(Len(s) - k) /\ k + (i - (k - 1)) = i + 1
        BY <2>2
      <3> QED  BY <1>7, <3>1
    <2> QED  BY <1>7, <2>1, <2>2
  <1>9. RemoveFirst(s, s[k]) = p \o q
    BY <1>2, <1>5, <1>6, Zenon
  <1> QED  BY <1>8, <1>9, Zenon

-----------------------------------------------------------------------------
(* Types. *)

\* What the fresh records are.
LEMMA RecordTypes ==
    /\ NoTask \in TaskType /\ NoSCall \in SCallType /\ NoACall \in ACallType
    /\ EmptyCtx \in Ctx
  <1>1. EmptyCtx \in Ctx
    BY DEF EmptyCtx, Ctx
  <1>2. <<>> \in Seq(ACall)
    OBVIOUS
  <1>3. NoTask \in TaskType
    BY <1>1 DEF NoTask, TaskType, Outcome
  <1>4. NoSCall \in SCallType
    BY <1>1, <1>2 DEF NoSCall, SCallType, Outcome
  <1>5. NoACall \in ACallType
    BY <1>1 DEF NoACall, ACallType
  <1> QED  BY <1>1, <1>3, <1>4, <1>5

-----------------------------------------------------------------------------
(* What no step undoes. *)

Started == Live \cup {"ending", "done"}
Waiting == {"await", "join", "drain"}

\* Tasks, functions, calls and loops are made once, and keep what they were made with.
Grows ==
    /\ \A n \in Task : task[n].pc # "none" =>
          task'[n].pc # "none" /\ task'[n].loop = task[n].loop
    /\ \A n \in Task : task[n].pc \in Started => task'[n].pc \in Started
    /\ \A f \in Frame : scall[f].pc # "none" =>
          /\ scall'[f].pc # "none"
          /\ scall'[f].by = scall[f].by /\ scall'[f].cur0 = scall[f].cur0
    /\ \A a \in ACall : acall[a].pc # "none" =>
          /\ acall'[a].pc # "none"
          /\ acall'[a].thr = acall[a].thr /\ acall'[a].old = acall[a].old
          /\ acall'[a].tc = acall[a].tc
          /\ acall[a].mode = "new" => acall'[a].mode = "new"
    /\ \A l \in Loop : loop[l] # "off" => loop'[l] # "off"

\* The caller of a function is a task, on a loop that has been started.
LEMMA CallerFacts ==
    ASSUME Inv, NEW s \in SCall, scall[s].pc # "none"
    PROVE  /\ scall[s].by \in Task /\ task[scall[s].by].pc # "none"
           /\ task[scall[s].by].loop \in Loop /\ loop[task[scall[s].by].loop] # "off"
  <1>1. scall[s] \in SCallType
    BY DEF Inv, TypeOK, Frame
  <1>2. scall[s].by \in Task /\ task[scall[s].by].pc # "none"
    BY <1>1 DEF Inv, FunctionInv, SCallType
  <1>3. task[scall[s].by] \in TaskType
    BY <1>2 DEF Inv, TypeOK
  <1> QED  BY <1>2, <1>3 DEF Inv, LoopInv, TaskType

\* The same after a step.
LEMMA CallerStays ==
    ASSUME Inv, Grows, NEW s \in SCall, scall[s].pc # "none"
    PROVE  /\ scall'[s].pc # "none" /\ scall'[s].by = scall[s].by
           /\ task'[scall[s].by].pc # "none"
           /\ task'[scall[s].by].loop = task[scall[s].by].loop
           /\ loop'[task[scall[s].by].loop] # "off"
  BY CallerFacts DEF Grows, Frame

\* StackInv where the stacks stay as they are.
LEMMA StackKept ==
    ASSUME Inv, Grows, TypeOK', stack' = stack,
           \A f \in Frame : scall[f].pc = "running" =>
              scall'[f].pc = "running" /\ scall'[f].thr = scall[f].thr,
           \A a \in ACall : acall[a].pc \in {"posting", "parked"} =>
              acall'[a].pc \in {"posting", "parked"}
    PROVE  StackInv'
  <1> SUFFICES ASSUME NEW t \in Thread, NEW k \in 1..Len(stack[t])
               PROVE  LET x == stack[t][k]
                      IN  /\ x \in Frame => scall'[x].pc = "running" /\ scall'[x].thr = t
                          /\ x \in ACall => acall'[x].pc \in {"posting", "parked"} /\ acall'[x].thr = t
                          /\ x \in Spawn => task'[x].pc # "none"
    BY DEF Inv, StackInv
  <1>1. PICK x : x = stack[t][k]
    OBVIOUS
  <1>2. /\ x \in Frame => scall[x].pc = "running" /\ scall[x].thr = t
        /\ x \in ACall => acall[x].pc \in {"posting", "parked"} /\ acall[x].thr = t
        /\ x \in Spawn => task[x].pc # "none"
    BY <1>1 DEF Inv, StackInv
  <1> QED  BY <1>1, <1>2 DEF Grows, Task

\* ContextInv where the stacks stay as they are.
LEMMA ContextStays ==
    ASSUME Inv, Grows, TypeOK', stack' = stack,
           \A f \in Frame : scall[f].pc = "running" => scall'[f].ctx.cur = scall[f].ctx.cur,
           \A s \in SCall : scall'[s].pc = "queued" => scall'[s].ctx.cur = scall'[s].cur0
    PROVE  ContextInv'
  <1> SUFFICES ASSUME NEW t \in Thread, NEW k \in 1..Len(stack[t]), stack[t][k] \in Frame
               PROVE  IF k < Len(stack[t]) /\ stack[t][k + 1] \in ACall
                      THEN acall'[stack[t][k + 1]].old = scall'[stack[t][k]].cur0
                      ELSE scall'[stack[t][k]].ctx.cur = scall'[stack[t][k]].cur0
    BY DEF ContextInv
  <1>1. scall[stack[t][k]].pc = "running"
    BY DEF Inv, StackInv
  <1>2. CASE k < Len(stack[t]) /\ stack[t][k + 1] \in ACall
    <2>1. k + 1 \in 1..Len(stack[t])
      BY <1>2 DEF Inv, TypeOK
    <2>2. acall[stack[t][k + 1]].pc \in {"posting", "parked"}
      BY <1>2, <2>1 DEF Inv, StackInv
    <2> QED  BY <1>1, <1>2, <2>2 DEF Grows, Inv, ContextInv
  <1>3. CASE ~(k < Len(stack[t]) /\ stack[t][k + 1] \in ACall)
    BY <1>1, <1>3 DEF Grows, Inv, ContextInv
  <1> QED  BY <1>2, <1>3

\* AwaitInv where a task goes on awaiting what it awaited, or what it has just called.
LEMMA AwaitKept ==
    ASSUME Inv, Grows, TypeOK',
           \A n \in Task :
              /\ task'[n].pc \in Waiting <=> task'[n].on # None
              /\ task'[n].on # None =>
                    \/ task'[n].on = task[n].on
                    \/ scall'[task'[n].on].pc # "none" /\ scall'[task'[n].on].by = n
              /\ task'[n].pc = "join" =>
                    \/ task[n].pc = "join" /\ task'[n].join = task[n].join
                    \/ task'[n].join # None /\ task[task'[n].join].pc \in Started
    PROVE  AwaitInv'
  <1> SUFFICES ASSUME NEW n \in Task
               PROVE  /\ task'[n].on # None =>
                           scall'[task'[n].on].pc # "none" /\ scall'[task'[n].on].by = n
                      /\ task'[n].pc = "join" =>
                           task'[n].join # None /\ task'[task'[n].join].pc \in Started
    BY DEF AwaitInv, Waiting, Started
  <1>1. task[n] \in TaskType /\ task'[n] \in TaskType
    BY DEF Inv, TypeOK
  <1>2. ASSUME task'[n].on # None
        PROVE  scall'[task'[n].on].pc # "none" /\ scall'[task'[n].on].by = n
    <2>1. CASE task'[n].on = task[n].on
      <3>1. task[n].on \in SCall
        BY <1>1, <1>2, <2>1 DEF TaskType
      <3>2. scall[task[n].on].pc # "none" /\ scall[task[n].on].by = n
        BY <1>2, <2>1 DEF Inv, AwaitInv
      <3> QED  BY <2>1, <3>1, <3>2 DEF Grows, Frame
    <2> QED  BY <1>2, <2>1
  <1>3. ASSUME task'[n].pc = "join"
        PROVE  task'[n].join # None /\ task'[task'[n].join].pc \in Started
    <2>1. task'[n].join # None /\ task[task'[n].join].pc \in Started
      BY <1>3 DEF Inv, AwaitInv, Started
    <2>2. task'[n].join \in Task
      BY <1>1, <2>1 DEF TaskType
    <2> QED  BY <2>1, <2>2 DEF Grows
  <1> QED  BY <1>2, <1>3

\* FunctionInv, for the functions that were called before.
LEMMA FunctionKept ==
    ASSUME Inv, Grows,
           \A s \in SCall :
              /\ scall[s].pc = "none" /\ scall'[s].pc # "none" =>
                    scall'[s].by # None /\ task'[scall'[s].by].pc # "none"
              /\ scall'[s].fut = "done" => scall'[s].pc = "finished"
    PROVE  FunctionInv'
  <1> SUFFICES ASSUME NEW s \in SCall, scall[s].pc # "none"
               PROVE  scall'[s].by # None /\ task'[scall'[s].by].pc # "none"
    BY DEF FunctionInv
  <1> QED  BY CallerStays, CallerFacts DEF Inv, FunctionInv

\* LoopInv, for the tasks that were made before.
LEMMA LoopKept ==
    ASSUME Inv, Grows,
           \A n \in Task : task[n].pc = "none" /\ task'[n].pc # "none" =>
              task'[n].loop # None /\ loop'[task'[n].loop] # "off",
           \A l \in ACall \cup Spawn : task'[l].pc = "none" => loop'[l] = loop[l]
    PROVE  LoopInv'
  <1>1. ASSUME NEW n \in Task, task[n].pc # "none"
        PROVE  task'[n].loop # None /\ loop'[task'[n].loop] # "off"
    <2>1. task[n].loop # None /\ loop[task[n].loop] # "off"
      BY <1>1 DEF Inv, LoopInv
    <2>2. task[n].loop \in Loop
      BY <2>1 DEF Inv, TypeOK, TaskType
    <2> QED  BY <1>1, <2>1, <2>2 DEF Grows
  <1>2. ASSUME NEW l \in ACall \cup Spawn, task'[l].pc = "none"
        PROVE  loop'[l] = "off"
    <2>1. task[l].pc = "none"
      BY <1>2 DEF Grows, Task
    <2> QED  BY <1>2, <2>1 DEF Inv, LoopInv
  <1> QED  BY <1>1, <1>2 DEF LoopInv

\* The tasks on a task_context are calls on their way.
LEMMA OnTaskContext ==
    ASSUME Inv, NEW s \in SCall, NEW k \in 1..Len(scall[s].tcx)
    PROVE  /\ scall[s].tcx[k] \in ACall
           /\ acall[scall[s].tcx[k]].pc # "none"
           /\ acall[scall[s].tcx[k]].tc = s
           /\ task[scall[s].tcx[k]].pc \in Live
  <1>1. scall[s].tcx \in Seq(ACall)
    BY DEF Inv, TypeOK, SCallType, Frame
  <1>2. scall[s].tcx[k] \in ACall
    BY <1>1
  <1>3. task[scall[s].tcx[k]].pc \in Live
    BY DEF Inv, TaskContextLive, Live
  <1> QED  BY <1>2, <1>3 DEF Inv, CallInv, CallOf, TaskContextInv, Live

\* TaskContextInv and TaskContextLive where no task_context changes.
LEMMA TaskContextKept ==
    ASSUME Inv, Grows,
           \A s \in SCall : scall'[s].tcx = scall[s].tcx,
           \A a \in ACall : task[a].pc \in Live => task'[a].pc \in Live
    PROVE  TaskContextInv' /\ TaskContextLive'
  <1>1. ASSUME NEW s \in SCall, NEW k \in 1..Len(scall[s].tcx)
        PROVE  acall'[scall[s].tcx[k]].tc = s /\ task'[scall[s].tcx[k]].pc \in Live
    BY OnTaskContext DEF Grows
  <1> QED  BY <1>1 DEF Inv, TaskContextInv, TaskContextLive, Live

\* ParentInv where threads and calls are given a sync_to_async call on its way.
LEMMA ParentGrows ==
    ASSUME Inv, Grows, TypeOK',
           \A t \in Thread :
              \/ tlocal'[t] = tlocal[t]
              \/ \E s \in SCall : /\ tlocal'[t].tc = s /\ scall[s].pc # "none"
                                  /\ tlocal'[t].loop = task[scall[s].by].loop,
           \A a \in ACall, s \in SCall : acall'[a].tc = s =>
              /\ scall[s].pc # "none"
              /\ acall'[a].pc = "posting" => acall'[a].lp = task[scall[s].by].loop
              /\ acall'[a].mode = "main" => task'[a].loop = task[scall[s].by].loop
    PROVE  ParentInv'
  <1>1. ASSUME NEW t \in Thread, tlocal'[t].tc # None
        PROVE  /\ scall'[tlocal'[t].tc].pc # "none"
               /\ tlocal'[t].loop = task'[scall'[tlocal'[t].tc].by].loop
    <2>1. PICK s \in SCall : s = tlocal'[t].tc
      BY <1>1 DEF TypeOK
    <2>2. scall[s].pc # "none" /\ tlocal'[t].loop = task[scall[s].by].loop
      BY <1>1, <2>1 DEF Inv, ParentInv
    <2> QED  BY <2>1, <2>2, CallerStays
  <1>2. ASSUME NEW a \in ACall, acall'[a].tc # None
        PROVE  /\ scall'[acall'[a].tc].pc # "none"
               /\ acall'[a].pc = "posting" =>
                     acall'[a].lp = task'[scall'[acall'[a].tc].by].loop
               /\ acall'[a].mode = "main" =>
                     task'[a].loop = task'[scall'[acall'[a].tc].by].loop
    <2>1. PICK s \in SCall : s = acall'[a].tc
      BY <1>2 DEF TypeOK, ACallType
    <2>2. PICK l : l = task[scall[s].by].loop
      OBVIOUS
    <2>3. /\ scall[s].pc # "none"
          /\ acall'[a].pc = "posting" => acall'[a].lp = l
          /\ acall'[a].mode = "main" => task'[a].loop = l
      BY <2>1, <2>2
    <2>4. /\ scall'[s].pc # "none" /\ scall'[s].by = scall[s].by
          /\ task'[scall[s].by].loop = l /\ l \in Loop /\ loop[l] # "off"
      BY <2>2, <2>3, CallerFacts, CallerStays
    <2> QED  BY <2>1, <2>3, <2>4
  <1> QED  BY <1>1, <1>2 DEF ParentInv

\* ParentInv where no call is made or posted.
LEMMA ParentKept ==
    ASSUME Inv, Grows, TypeOK',
           \A t \in Thread :
              \/ tlocal'[t] = tlocal[t]
              \/ \E s \in SCall : /\ tlocal'[t].tc = s /\ scall[s].pc # "none"
                                  /\ tlocal'[t].loop = task[scall[s].by].loop,
           \A a \in ACall : acall'[a].tc # None =>
              /\ acall'[a].tc = acall[a].tc /\ acall'[a].mode = acall[a].mode
              /\ acall'[a].pc = "posting" =>
                    acall[a].pc = "posting" /\ acall'[a].lp = acall[a].lp
    PROVE  ParentInv'
  <1>1. ASSUME NEW a \in ACall, NEW s \in SCall, acall'[a].tc = s
        PROVE  /\ scall[s].pc # "none"
               /\ acall'[a].pc = "posting" => acall'[a].lp = task[scall[s].by].loop
               /\ acall'[a].mode = "main" => task'[a].loop = task[scall[s].by].loop
    <2>1. /\ acall[a].tc = s /\ s # None /\ acall'[a].mode = acall[a].mode
          /\ acall'[a].pc = "posting" => acall[a].pc = "posting" /\ acall'[a].lp = acall[a].lp
      BY <1>1, ConstantsAssumption
    <2>2. acall[a].mode = "main" => task'[a].loop = task[a].loop
      BY DEF Grows, Inv, CallInv, CallOf, Task
    <2> QED  BY <2>1, <2>2 DEF Inv, ParentInv
  <1> QED  BY <1>1, ParentGrows

\* A function whose async code has a loop of its own keeps that.
LEMMA OwnLoopStays ==
    ASSUME Inv, Grows, NEW s \in SCall, OwnLoop(s)
    PROVE  OwnLoop(s)'
  <1>1. PICK a \in ACall : acall[a].tc = s /\ acall[a].mode = "new"
    BY DEF OwnLoop
  <1>2. acall[a].pc # "none"
    BY <1>1 DEF Inv, CallInv, CallOf
  <1> QED  BY <1>1, <1>2 DEF OwnLoop, Grows

\* NeverLeftBehind where every task goes on awaiting its function, or may leave it.
LEMMA LeftKept ==
    ASSUME Inv, Grows,
           \A s \in SCall :
              /\ scall'[s].pc \in {"queued", "running"} =>
                    \/ scall[s].pc \in {"queued", "running"}
                    \/ task'[scall'[s].by].on = s
              /\ scall[s].pc \in {"queued", "running"} /\ scall[s].fut = "cancelled" =>
                    scall'[s].fut = "cancelled",
           \A n \in Task, s \in SCall :
              task[n].on = s /\ scall'[s].pc \in {"queued", "running"} =>
                  task'[n].on = s \/ scall'[s].fut = "cancelled" \/ OwnLoop(s)
    PROVE  NeverLeftBehind'
  <1> SUFFICES ASSUME NEW s \in SCall, scall'[s].pc \in {"queued", "running"},
                      scall[s].pc \in {"queued", "running"}
               PROVE  task'[scall'[s].by].on = s \/ scall'[s].fut = "cancelled" \/ OwnLoop(s)'
    BY DEF NeverLeftBehind
  <1>1. scall[s].by \in Task /\ scall'[s].by = scall[s].by
    BY CallerFacts, CallerStays
  <1>2. task[scall[s].by].on = s \/ scall[s].fut = "cancelled" \/ OwnLoop(s)
    BY DEF Inv, NeverLeftBehind
  <1> QED  BY <1>1, <1>2, OwnLoopStays

-----------------------------------------------------------------------------
(* Steps that make nothing new: a task goes on or a loop winds down. *)

\* The task of a call goes on, but does not return.
CallGoesOn(a) ==
    /\ task'[a].pc = "posted" => task[a].pc = "posted"
    /\ task[a].pc = "done" => task'[a].pc = "done"
    /\ task'[a].pc \in {"posted", "created", "ending", "done"} =>
          task[a].pc \in {"posted", "created", "ending", "done"} /\ task'[a].ctx = task[a].ctx
    /\ acall[a].mode = "new" =>
          /\ task'[a].pc = "created" => ~task'[a].cancel
          /\ task'[a].pc = "done" => task[a].pc = "done"
          /\ loop'[a] \in {"gap", "closing", "stopped", "closed"} => task[a].pc = "done"

QuietTask(n) ==
    /\ task'[n].pc = "none" <=> task[n].pc = "none"
    /\ task'[n].loop = task[n].loop
    /\ task[n].pc \in Started => task'[n].pc \in Started
    /\ task[n].pc \in Live => task'[n].pc \in Live
    /\ task'[n].pc \in Waiting <=> task'[n].on # None
    /\ task'[n].on # None => task'[n].on = task[n].on
    /\ task'[n].pc = "join" =>
          \/ task[n].pc = "join" /\ task'[n].join = task[n].join
          \/ task'[n].join # None /\ task[task'[n].join].pc \in Started
    /\ n \in ACall => CallGoesOn(n)
    /\ task[n].on # None /\ task'[n].on = None =>
          \/ scall'[task[n].on].pc \notin {"queued", "running"}
          \/ scall'[task[n].on].fut = "cancelled"
          \/ OwnLoop(task[n].on)

QuietFunction(f) ==
    /\ scall'[f].pc = scall[f].pc \/ (scall[f].pc = "queued" /\ scall'[f].pc = "dropped")
    /\ scall'[f].by = scall[f].by /\ scall'[f].cur0 = scall[f].cur0
    /\ scall'[f].thr = scall[f].thr /\ scall'[f].ctx = scall[f].ctx
    /\ scall'[f].tcx = scall[f].tcx
    /\ scall'[f].fut = "done" => scall'[f].pc = "finished" \/ f = Root
    /\ scall[f].fut = "cancelled" => scall'[f].fut = "cancelled"

QuietLoop(l) == loop'[l] = "off" <=> loop[l] = "off"

LEMMA CallKept ==
    ASSUME Inv, Grows, NEW a \in ACall, acall'[a] = acall[a],
           task'[a].pc = "none" <=> task[a].pc = "none", CallGoesOn(a)
    PROVE  CallOf(a)'
  <1>1. CallOf(a)
    BY DEF Inv, CallInv
  <1>2. acall[a] \in ACallType /\ a \in Task
    BY DEF Inv, TypeOK, Task
  <1>3. acall[a].pc = "posting" => loop'[acall[a].lp] # "off"
    BY <1>1, <1>2 DEF CallOf, Grows, ACallType
  <1>4. acall[a].mode = "new" => task'[a].loop = a
    BY <1>1, <1>2 DEF CallOf, Grows
  <1> QED  BY <1>1, <1>2, <1>3, <1>4 DEF CallOf, CallGoesOn

LEMMA QuietStep ==
    ASSUME Inv, TypeOK', UNCHANGED <<acall, stack, tlocal>>,
           \A n \in Task : QuietTask(n), \A f \in Frame : QuietFunction(f),
           \A l \in Loop : QuietLoop(l)
    PROVE  Inv'
  <1>0. /\ SCall \subseteq Frame /\ Root \notin SCall
        /\ ACall \subseteq Task /\ Spawn \subseteq Task /\ Loop = Task
    BY ConstantsAssumption DEF Frame, Task, Loop
  <1>1. Grows
    BY DEF Grows, QuietTask, QuietFunction, QuietLoop
  <1>2. StackInv'
    BY <1>1, StackKept DEF QuietFunction
  <1>3. ContextInv'
    <2>1. \A s \in SCall : scall'[s].pc = "queued" => scall'[s].ctx.cur = scall'[s].cur0
      BY <1>0 DEF QuietFunction, Inv, ContextInv
    <2> QED  BY <1>1, <2>1, ContextStays DEF QuietFunction
  <1>4. AwaitInv'
    BY <1>1, AwaitKept DEF QuietTask
  <1>5. FunctionInv'
    BY <1>0, <1>1, FunctionKept DEF QuietFunction
  <1>6. LoopInv'
    <2>1. \A l \in ACall \cup Spawn : task'[l].pc = "none" => loop'[l] = loop[l]
      BY <1>0 DEF QuietTask, QuietLoop, Inv, LoopInv
    <2> QED  BY <1>1, <2>1, LoopKept DEF QuietTask
  <1>7. CallInv'
    BY <1>0, <1>1, CallKept DEF QuietTask, CallInv
  <1>8. TaskContextInv' /\ TaskContextLive'
    BY <1>0, <1>1, TaskContextKept DEF QuietTask, QuietFunction
  <1>9. ParentInv'
    BY <1>1, ParentKept
  <1>10. NeverLeftBehind'
    <2>1. \A s \in SCall :
              /\ scall'[s].pc \in {"queued", "running"} => scall[s].pc \in {"queued", "running"}
              /\ scall[s].fut = "cancelled" => scall'[s].fut = "cancelled"
      BY <1>0 DEF QuietFunction
    <2>2. \A n \in Task, s \in SCall :
              task[n].on = s /\ scall'[s].pc \in {"queued", "running"} =>
                  task'[n].on = s \/ scall'[s].fut = "cancelled" \/ OwnLoop(s)
      BY ConstantsAssumption DEF QuietTask
    <2> QED  BY <1>1, <2>1, <2>2, LeftKept
  <1> QED  BY <1>2, <1>3, <1>4, <1>5, <1>6, <1>7, <1>8, <1>9, <1>10 DEF Inv

\* What does not change is quiet.
LEMMA SameIsQuiet ==
    ASSUME Inv
    PROVE  /\ \A n \in Task :
                 task'[n] = task[n] /\ (n \in ACall => loop'[n] = loop[n]) => QuietTask(n)
           /\ \A f \in Frame : scall'[f] = scall[f] => QuietFunction(f)
           /\ \A l \in Loop : loop'[l] = loop[l] => QuietLoop(l)
  <1>1. ASSUME NEW n \in Task, task'[n] = task[n], n \in ACall => loop'[n] = loop[n]
        PROVE  QuietTask(n)
    <2>1. n \in ACall => CallGoesOn(n)
      BY <1>1 DEF CallGoesOn, Inv, CallInv, CallOf
    <2> QED  BY <1>1, <2>1 DEF QuietTask, Inv, AwaitInv, Waiting
  <1>2. ASSUME NEW f \in Frame, scall'[f] = scall[f]  PROVE QuietFunction(f)
    <2>1. f # Root => (scall[f].fut = "done" => scall[f].pc = "finished")
      BY DEF Inv, FunctionInv, Frame
    <2> QED  BY <1>2, <2>1 DEF QuietFunction
  <1> QED  BY <1>1, <1>2 DEF QuietLoop

LEMMA TaskChange ==
    ASSUME Inv, NEW n \in Task, NEW q \in TaskType, task' = [task EXCEPT ![n] = q]
    PROVE  /\ task' \in [Task -> TaskType]
           /\ task'[n] = q /\ \A x \in Task \ {n} : task'[x] = task[x]
  BY DEF Inv, TypeOK

\* A step of one task, on its own.
LEMMA QuietTaskStep ==
    ASSUME Inv, NEW n \in Task, NEW q \in TaskType, task' = [task EXCEPT ![n] = q],
           QuietTask(n), UNCHANGED <<scall, acall, stack, tlocal, loop>>,
           cancels' \in 0..MaxCancels
    PROVE  Inv'
  <1>1. TypeOK'
    BY TaskChange DEF Inv, TypeOK
  <1>2. \A x \in Task : QuietTask(x)
    BY TaskChange, SameIsQuiet
  <1> QED  BY <1>1, <1>2, SameIsQuiet, QuietStep

LEMMA LiveGoesOn ==
    ASSUME Inv, NEW a \in ACall, task[a].pc \in Live, task'[a].pc \in Live, loop' = loop
    PROVE  CallGoesOn(a)
  BY DEF CallGoesOn, Live, Inv, CallInv, CallOf

LEMMA CancelTaskStep ==
    ASSUME Inv, NEW n \in Task, CancelTask(n)
    PROVE  Inv'
  <1>1. PICK r \in TaskType : r = task[n]
    BY DEF Inv, TypeOK
  <1>2. PICK q \in TaskType : q = [r EXCEPT !.cancel = TRUE]
    BY DEF TaskType
  <1>3. task' = [task EXCEPT ![n] = q]
    BY <1>1, <1>2 DEF CancelTask
  <1>4. q.pc = r.pc /\ q.loop = r.loop /\ q.on = r.on /\ q.join = r.join
    BY <1>2 DEF TaskType
  <1>5. QuietTask(n)
    <2>1. task'[n] = q
      BY <1>3, TaskChange
    <2>2. n \in ACall => task[n].pc \in Live
      BY DEF CancelTask, Live
    <2>3. n \in ACall => CallGoesOn(n)
      BY <1>1, <1>4, <2>1, <2>2, LiveGoesOn DEF CancelTask
    <2> QED  BY <1>1, <1>4, <2>1, <2>3 DEF QuietTask, Inv, AwaitInv, Waiting
  <1>6. cancels' \in 0..MaxCancels
    BY ConstantsAssumption DEF CancelTask, Inv, TypeOK
  <1> QED  BY <1>3, <1>5, <1>6, QuietTaskStep DEF CancelTask

LEMMA CancelledInCodeStep ==
    ASSUME Inv, NEW n \in Task, CancelledInCode(n)
    PROVE  Inv'
  <1>1. PICK r \in TaskType : r = task[n]
    BY DEF Inv, TypeOK
  <1>2. PICK q \in TaskType : q = [r EXCEPT !.cancel = FALSE, !.got = "cancelled"]
    BY DEF TaskType, Outcome
  <1>3. task' = [task EXCEPT ![n] = q]
    BY <1>1, <1>2 DEF CancelledInCode
  <1>4. q.pc = "run" /\ r.pc = "run" /\ q.loop = r.loop /\ q.on = r.on
    BY <1>1, <1>2 DEF TaskType, CancelledInCode
  <1>5. n \in ACall => CallGoesOn(n)
    BY <1>1, <1>3, <1>4, TaskChange, LiveGoesOn DEF Live, CancelledInCode
  <1>6. QuietTask(n)
    BY <1>1, <1>3, <1>4, <1>5, TaskChange DEF QuietTask, Inv, AwaitInv, Waiting
  <1> QED  BY <1>3, <1>6, QuietTaskStep DEF CancelledInCode, Inv, TypeOK

LEMMA CallRefusedStep ==
    ASSUME Inv, NEW n \in Task, CallRefused(n)
    PROVE  Inv'
  <1>1. PICK r \in TaskType : r = task[n]
    BY DEF Inv, TypeOK
  <1>2. PICK q \in TaskType : q = [r EXCEPT !.got = "error"]
    BY DEF TaskType, Outcome
  <1>3. task' = [task EXCEPT ![n] = q]
    BY <1>1, <1>2 DEF CallRefused
  <1>4. q.pc = "run" /\ r.pc = "run" /\ q.loop = r.loop /\ q.on = r.on
    BY <1>1, <1>2 DEF TaskType, CallRefused, RunsCode
  <1>5. n \in ACall => CallGoesOn(n)
    BY <1>1, <1>3, <1>4, TaskChange, LiveGoesOn DEF Live, CallRefused
  <1>6. QuietTask(n)
    BY <1>1, <1>3, <1>4, <1>5, TaskChange DEF QuietTask, Inv, AwaitInv, Waiting
  <1> QED  BY <1>3, <1>6, QuietTaskStep DEF CallRefused, Inv, TypeOK

LEMMA CancelledUnstartedStep ==
    ASSUME Inv, NEW n \in Task, CancelledUnstarted(n)
    PROVE  Inv'
  <1>1. PICK r \in TaskType : r = task[n]
    BY DEF Inv, TypeOK
  <1>2. PICK q \in TaskType : q = [r EXCEPT !.pc = "done", !.got = "cancelled"]
    BY DEF TaskType, Outcome
  <1>3. task' = [task EXCEPT ![n] = q]
    BY <1>1, <1>2 DEF CancelledUnstarted
  <1>4. q.pc = "done" /\ r.pc = "created" /\ q.loop = r.loop /\ q.on = r.on /\ q.ctx = r.ctx
    BY <1>1, <1>2 DEF TaskType, CancelledUnstarted
  <1>5. ASSUME n \in ACall  PROVE CallGoesOn(n)
    <2>1. task[n].cancel /\ loop' = loop /\ task'[n] = q
      BY <1>3, TaskChange DEF CancelledUnstarted
    <2>2. CallOf(n)
      BY <1>5 DEF Inv, CallInv
    <2> QED  BY <1>1, <1>4, <2>1, <2>2 DEF CallGoesOn, CallOf
  <1>6. QuietTask(n)
    BY <1>1, <1>3, <1>4, <1>5, TaskChange DEF QuietTask, Inv, AwaitInv, Waiting, Started, Live
  <1> QED  BY <1>3, <1>6, QuietTaskStep DEF CancelledUnstarted, Inv, TypeOK

LEMMA CreateTaskStep ==
    ASSUME Inv, NEW a \in ACall, CreateTask(a)
    PROVE  Inv'
  <1>0. a \in Task
    BY DEF Task
  <1>1. PICK r \in TaskType : r = task[a]
    BY <1>0 DEF Inv, TypeOK
  <1>2. PICK late \in BOOLEAN : late = (loop[task[a].loop] = "closing")
    OBVIOUS
  <1>3. PICK q \in TaskType : q = [r EXCEPT !.pc = "created", !.late = late]
    BY DEF TaskType
  <1>4. task' = [task EXCEPT ![a] = q]
    BY <1>1, <1>2, <1>3, Zenon DEF CreateTask
  <1>5. /\ q.pc = "created" /\ r.pc = "posted" /\ q.loop = r.loop /\ q.on = r.on
        /\ q.ctx = r.ctx /\ q.cancel = r.cancel
    BY <1>1, <1>3 DEF TaskType, CreateTask
  <1>6. CallGoesOn(a)
    <2>1. task'[a] = q
      BY <1>0, <1>4, TaskChange
    <2>2. acall[a].mode # "new"
      BY <1>1, <1>5 DEF Inv, CallInv, CallOf
    <2> QED  BY <1>1, <1>5, <2>1, <2>2 DEF CallGoesOn
  <1>7. QuietTask(a)
    BY <1>0, <1>1, <1>4, <1>5, <1>6, TaskChange
       DEF QuietTask, Inv, AwaitInv, Waiting, Started, Live
  <1> QED  BY <1>0, <1>4, <1>7, QuietTaskStep DEF CreateTask, Inv, TypeOK

\* What a task that awaits has in hand, and what it goes on with.
LEMMA AwaitFacts ==
    ASSUME Inv, NEW n \in Task, task[n].pc \in Waiting
    PROVE  /\ task[n].on \in SCall /\ scall[task[n].on] \in SCallType
           /\ scall[task[n].on].pc # "none" /\ scall[task[n].on].by = n
           /\ Fut(n) = "done" => scall[task[n].on].pc = "finished"
  <1>1. task[n].on # None
    BY DEF Inv, AwaitInv, Waiting
  <1>2. task[n].on \in SCall
    BY <1>1 DEF Inv, TypeOK, TaskType
  <1> QED  BY <1>1, <1>2 DEF Inv, TypeOK, AwaitInv, FunctionInv, Fut, Frame

LEMMA LeaveFacts ==
    ASSUME Inv, NEW n \in Task, task[n].pc \in Waiting, NEW r \in Outcome
    PROVE  /\ Leave(n, r) \in TaskType
           /\ Leave(n, r).pc = "run" /\ Leave(n, r).on = None
           /\ Leave(n, r).loop = task[n].loop
  <1>1. PICK q \in TaskType : q = task[n]
    BY DEF Inv, TypeOK
  <1>2. PICK c \in Ctx : c = [cur |-> scall[task[n].on].ctx.cur, dead |-> FALSE]
    <2>1. scall[task[n].on] \in SCallType
      BY AwaitFacts
    <2> QED  BY <2>1 DEF SCallType, Ctx
  <1>3. Leave(n, r) = [q EXCEPT !.pc = "run", !.on = None, !.join = None,
                                !.cancel = FALSE, !.got = r, !.ctx = c]
    BY <1>1, <1>2, Zenon DEF Leave
  <1>4. [q EXCEPT !.pc = "run", !.on = None, !.join = None,
                  !.cancel = FALSE, !.got = r, !.ctx = c] \in TaskType
    BY DEF TaskType
  <1> QED  BY <1>1, <1>3, <1>4 DEF TaskType

\* Leaving is quiet where the function has ended, or may be left.
LEMMA LeaveIsQuiet ==
    ASSUME Inv, NEW n \in Task, task[n].pc \in Waiting, NEW r \in Outcome,
           task'[n] = Leave(n, r), loop' = loop,
           \/ scall'[task[n].on].pc \notin {"queued", "running"}
           \/ scall'[task[n].on].fut = "cancelled"
           \/ OwnLoop(task[n].on)
    PROVE  QuietTask(n)
  <1>1. task'[n].pc = "run" /\ task'[n].on = None /\ task'[n].loop = task[n].loop
    BY LeaveFacts
  <1>2. n \in ACall => CallGoesOn(n)
    BY <1>1, LiveGoesOn DEF Live, Waiting
  <1> QED  BY <1>1, <1>2 DEF QuietTask, Live, Waiting, Started

LEMMA AwaitReturnsStep ==
    ASSUME Inv, NEW n \in Task, AwaitReturns(n)
    PROVE  Inv'
  <1>1. task[n].pc \in Waiting
    BY DEF AwaitReturns, Waiting
  <1>2. PICK r \in Outcome : r = scall[task[n].on].got
    BY <1>1, AwaitFacts DEF SCallType
  <1>3. task' = [task EXCEPT ![n] = Leave(n, r)] /\ Leave(n, r) \in TaskType
    BY <1>1, <1>2, LeaveFacts DEF AwaitReturns
  <1>4. scall'[task[n].on].pc = "finished"
    BY <1>1, AwaitFacts DEF AwaitReturns
  <1>5. QuietTask(n)
    BY <1>1, <1>3, <1>4, TaskChange, LeaveIsQuiet DEF AwaitReturns
  <1> QED  BY <1>3, <1>5, QuietTaskStep DEF AwaitReturns, Inv, TypeOK

LEMMA GiveUpStep ==
    ASSUME Inv, NEW n \in Task, task[n].pc \in Waiting, GiveUp(n)
    PROVE  Inv'
  <1>1. PICK s \in SCall : s = task[n].on
    BY AwaitFacts
  <1>2. PICK r \in SCallType : r = scall[s]
    BY <1>1, AwaitFacts
  <1>3. PICK q \in SCallType :
           q = [r EXCEPT !.fut = IF r.fut = "done" THEN "done" ELSE "cancelled"]
    BY DEF SCallType
  <1>4. scall' = [scall EXCEPT ![s] = q]
    BY <1>1, <1>2, <1>3, Zenon DEF GiveUp
  <1>5. s \in Frame /\ scall' \in [Frame -> SCallType] /\ scall'[s] = q
        /\ \A f \in Frame \ {s} : scall'[f] = scall[f]
    BY <1>4 DEF Inv, TypeOK, Frame
  <1>6. /\ q.pc = r.pc /\ q.by = r.by /\ q.cur0 = r.cur0 /\ q.thr = r.thr
        /\ q.ctx = r.ctx /\ q.tcx = r.tcx
        /\ q.fut = "done" => r.fut = "done"
        /\ r.fut # "done" => q.fut = "cancelled"
    BY <1>3 DEF SCallType
  <1>7. r.fut = "done" => r.pc = "finished"
    BY <1>1, <1>2 DEF Inv, FunctionInv
  <1>8. \A f \in Frame : QuietFunction(f)
    <2>1. QuietFunction(s)
      BY <1>2, <1>5, <1>6, <1>7 DEF QuietFunction
    <2> QED  BY <1>5, <2>1, SameIsQuiet
  <1>9. task' = [task EXCEPT ![n] = Leave(n, "cancelled")] /\ Leave(n, "cancelled") \in TaskType
    BY LeaveFacts DEF GiveUp, Outcome
  <1>10. \A x \in Task : QuietTask(x)
    <2>1. task'[n] = Leave(n, "cancelled") /\ \A x \in Task \ {n} : task'[x] = task[x]
      BY <1>9, TaskChange
    <2>2. QuietTask(n)
      BY <1>1, <1>2, <1>5, <1>6, <1>7, <2>1, LeaveIsQuiet DEF GiveUp, Outcome
    <2>3. loop' = loop
      BY DEF GiveUp
    <2> QED  BY <2>1, <2>2, <2>3, SameIsQuiet
  <1>11. TypeOK'
    BY <1>5, <1>9, TaskChange DEF GiveUp, Inv, TypeOK
  <1>12. \A l \in Loop : QuietLoop(l)
    BY SameIsQuiet DEF GiveUp
  <1> QED  BY <1>8, <1>10, <1>11, <1>12, QuietStep DEF GiveUp

LEMMA JoinReturnsStep ==
    ASSUME Inv, NEW n \in Task, JoinReturns(n)
    PROVE  Inv'
  <1>1. task[n].pc \in Waiting
    BY DEF JoinReturns, Waiting
  <1>2. CASE Fut(n) = "done"
    <2>1. task' = [task EXCEPT ![n] = Leave(n, "cancelled")] /\ Leave(n, "cancelled") \in TaskType
      BY <1>1, <1>2, LeaveFacts DEF JoinReturns, Outcome
    <2>2. scall'[task[n].on].pc = "finished"
      BY <1>1, <1>2, AwaitFacts DEF JoinReturns
    <2>3. QuietTask(n)
      BY <1>1, <2>1, <2>2, TaskChange, LeaveIsQuiet DEF JoinReturns, Outcome
    <2> QED  BY <2>1, <2>3, QuietTaskStep DEF JoinReturns, Inv, TypeOK
  <1>3. CASE Fut(n) # "done"
    <2>1. PICK r \in TaskType : r = task[n]
      BY DEF Inv, TypeOK
    <2>2. PICK q \in TaskType : q = [r EXCEPT !.pc = "drain", !.join = None]
      BY DEF TaskType
    <2>3. task' = [task EXCEPT ![n] = q]
      BY <1>3, <2>1, <2>2 DEF JoinReturns
    <2>4. q.pc = "drain" /\ r.pc = "join" /\ q.loop = r.loop /\ q.on = r.on /\ task'[n] = q
      BY <2>1, <2>2, <2>3, TaskChange DEF TaskType, JoinReturns
    <2>5. n \in ACall => CallGoesOn(n)
      BY <2>1, <2>4, LiveGoesOn DEF Live, JoinReturns
    <2>6. QuietTask(n)
      BY <2>1, <2>4, <2>5 DEF QuietTask, Inv, AwaitInv, Waiting, Live, Started
    <2> QED  BY <2>3, <2>6, QuietTaskStep DEF JoinReturns, Inv, TypeOK
  <1> QED  BY <1>2, <1>3

\* Cancelling a task that has started is quiet.
LEMMA CancelIsQuiet ==
    ASSUME Inv, NEW m \in Task, task[m].pc \in Started,
           task'[m] = [task[m] EXCEPT !.cancel = TRUE], loop' = loop
    PROVE  task'[m] \in TaskType /\ QuietTask(m)
  <1>1. PICK r \in TaskType : r = task[m]
    BY DEF Inv, TypeOK
  <1>2. PICK q \in TaskType : q = [r EXCEPT !.cancel = TRUE]
    BY DEF TaskType
  <1>3. /\ task'[m] = q
        /\ q.pc = r.pc /\ q.loop = r.loop /\ q.on = r.on /\ q.join = r.join /\ q.ctx = r.ctx
    BY <1>1, <1>2 DEF TaskType
  <1>4. m \in ACall => CallGoesOn(m)
    BY <1>1, <1>3 DEF CallGoesOn, Started, Live, Inv, CallInv, CallOf
  <1> QED  BY <1>1, <1>3, <1>4 DEF QuietTask, Inv, AwaitInv, Waiting

LEMMA CancelledInJoinStep ==
    ASSUME Inv, NEW n \in Task, CancelledInJoin(n)
    PROVE  Inv'
  <1>1. task[n].pc = "join" /\ task[n].pc \in Waiting
    BY DEF CancelledInJoin, Waiting
  <1>2. CASE task[task[n].join].pc = "done"
    BY <1>1, <1>2, GiveUpStep DEF CancelledInJoin
  <1>3. CASE task[task[n].join].pc # "done"
    <2>1. PICK m \in Task : m = task[n].join /\ task[m].pc \in Started
      BY <1>1 DEF Inv, TypeOK, TaskType, AwaitInv, Started
    <2>2. PICK r \in TaskType : r = task[n]
      BY DEF Inv, TypeOK
    <2>3. task' = [task EXCEPT ![m].cancel = TRUE, ![n].cancel = FALSE]
      BY <1>3, <2>1 DEF CancelledInJoin
    <2>4. UNCHANGED <<scall, acall, stack, tlocal, loop, cancels>>
      BY <1>3 DEF CancelledInJoin
    <2>5. /\ task'[n].pc = r.pc /\ task'[n].loop = r.loop /\ task'[n].on = r.on
          /\ task'[n].join = r.join /\ task'[n] \in TaskType
      <3>1. PICK q \in TaskType : q = [r EXCEPT !.cancel = TRUE]
        BY DEF TaskType
      <3>2. /\ m = n => task'[n] = [q EXCEPT !.cancel = FALSE]
            /\ m # n => task'[n] = [r EXCEPT !.cancel = FALSE]
        BY <2>1, <2>2, <2>3, <3>1 DEF Inv, TypeOK
      <3>3. CASE m = n
        BY <3>1, <3>2, <3>3 DEF TaskType
      <3>4. CASE m # n
        BY <3>2, <3>4 DEF TaskType
      <3> QED  BY <3>3, <3>4
    <2>6. \A x \in Task \ {n} :
              task'[x] = IF x = m THEN [task[x] EXCEPT !.cancel = TRUE] ELSE task[x]
      BY <2>1, <2>3 DEF Inv, TypeOK
    <2>7. QuietTask(n)
      <3>1. n \in ACall => CallGoesOn(n)
        BY <1>1, <2>2, <2>4, <2>5, LiveGoesOn DEF Live
      <3> QED  BY <1>1, <2>2, <2>5, <3>1 DEF QuietTask, Inv, AwaitInv, Waiting
    <2>8. \A x \in Task \ {n} : task'[x] \in TaskType /\ QuietTask(x)
      <3>1. \A x \in Task \ {n, m} : task'[x] \in TaskType /\ QuietTask(x)
        BY <2>4, <2>6, SameIsQuiet DEF Inv, TypeOK
      <3>2. m # n => task'[m] \in TaskType /\ QuietTask(m)
        BY <2>1, <2>4, <2>6, CancelIsQuiet
      <3> QED  BY <3>1, <3>2
    <2>9. task' \in [Task -> TaskType]
      <3>1. \A x \in Task : task'[x] \in TaskType
        BY <2>5, <2>8
      <3> QED  BY <2>3, <3>1 DEF Inv, TypeOK
    <2>10. TypeOK'
      BY <2>4, <2>9 DEF Inv, TypeOK
    <2>11. \A x \in Task : QuietTask(x)
      BY <2>7, <2>8
    <2> QED  BY <2>4, <2>10, <2>11, SameIsQuiet, QuietStep
  <1> QED  BY <1>2, <1>3

\* The async code of a function is on the loop of the task that awaits the function,
\* or on a loop of its own.
LEMMA ChildOnSameLoop ==
    ASSUME Inv, NEW n \in Task, task[n].pc \in Waiting,
           NEW k \in 1..Len(scall[task[n].on].tcx), ~OwnLoop(task[n].on)
    PROVE  task[scall[task[n].on].tcx[k]].loop = task[n].loop
  <1>1. PICK s \in SCall : s = task[n].on /\ scall[s].by = n
    BY AwaitFacts
  <1>2. PICK m \in ACall : m = scall[s].tcx[k] /\ acall[m].tc = s /\ task[m].pc \in Live
    BY <1>1, OnTaskContext
  <1>3. acall[m].mode = "main"
    <2>1. acall[m].mode \in {"main", "new"}
      BY <1>2 DEF Inv, CallInv, CallOf, TypeOK, ACallType, Live
    <2> QED  BY <1>1, <1>2, <2>1 DEF OwnLoop
  <1>4. acall[m].tc # None
    BY <1>2, ConstantsAssumption
  <1>5. ParentInv
    BY DEF Inv
  <1>6. task[m].loop = task[scall[s].by].loop
    BY <1>2, <1>3, <1>4, <1>5, Zenon DEF ParentInv
  <1> QED  BY <1>1, <1>2, <1>6

LEMMA CancelledWithChildStep ==
    ASSUME Inv, NEW n \in Task, CancelledWithChild(n)
    PROVE  Inv'
  <1>1. task[n].pc = "await" /\ task[n].pc \in Waiting
    <2>1. RaisedAtShield(n)
      BY DEF CancelledWithChild
    <2> QED  BY <2>1 DEF RaisedAtShield, Waiting
  <1>2. PICK s \in SCall : s = task[n].on
    BY <1>1, AwaitFacts
  <1>3. PICK m \in ACall : m = scall[s].tcx[1] /\ task[m].pc \in Live /\ 1 \in 1..Len(scall[s].tcx)
    <2>1. scall[s].tcx \in Seq(ACall) /\ scall[s].tcx # <<>>
      BY <1>1, <1>2, AwaitFacts DEF SCallType, CancelledWithChild
    <2>2. 1 \in 1..Len(scall[s].tcx)
      BY <2>1
    <2> QED  BY <2>2, OnTaskContext
  <1>4. m \in Task /\ task[m].pc \in Started
    BY <1>3 DEF Task, Started
  <1>5. UNCHANGED <<scall, acall, stack, tlocal, loop, cancels>>
    BY DEF CancelledWithChild
  <1>6. task' = [task EXCEPT
             ![m].cancel = TRUE,
             ![n] = IF task[m].loop = task[n].loop
                    THEN [@ EXCEPT !.pc = "join", !.join = m, !.cancel = FALSE]
                    ELSE Leave(n, "error")]
    <2>1. Head(scall[task[n].on].tcx) = m
      BY <1>1, <1>2, <1>3, AwaitFacts DEF SCallType
    <2> QED  BY <2>1 DEF CancelledWithChild
  <1>7. \A x \in Task \ {n} :
            task'[x] = IF x = m THEN [task[x] EXCEPT !.cancel = TRUE] ELSE task[x]
    BY <1>4, <1>6 DEF Inv, TypeOK
  <1>8. task'[n] \in TaskType /\ QuietTask(n)
    <2>1. CASE task[m].loop = task[n].loop
      <3>1. PICK r \in TaskType : r = task[n]
        BY DEF Inv, TypeOK
      <3>2. PICK q \in TaskType : q = [r EXCEPT !.cancel = TRUE]
        BY DEF TaskType
      <3>3. task'[n] = [(IF m = n THEN q ELSE r) EXCEPT !.pc = "join", !.join = m, !.cancel = FALSE]
        BY <1>4, <1>6, <2>1, <3>1, <3>2 DEF Inv, TypeOK
      <3>4. /\ task'[n] \in TaskType
            /\ task'[n].pc = "join" /\ task'[n].join = m
            /\ task'[n].loop = r.loop /\ task'[n].on = r.on
        BY <1>4, <3>2, <3>3 DEF TaskType
      <3>5. n \in ACall => CallGoesOn(n)
        BY <1>1, <1>5, <3>4, LiveGoesOn DEF Live
      <3>6. m # None
        BY ConstantsAssumption
      <3> QED  BY <1>1, <1>2, <1>4, <3>1, <3>4, <3>5, <3>6, ConstantsAssumption
               DEF QuietTask, Inv, AwaitInv, Waiting, Live, Started
    <2>2. CASE task[m].loop # task[n].loop
      <3>1. task'[n] = Leave(n, "error")
        BY <1>4, <1>6, <2>2 DEF Inv, TypeOK
      <3>2. OwnLoop(task[n].on)
        BY <1>1, <1>2, <1>3, <2>2, ChildOnSameLoop
      <3> QED  BY <1>1, <1>5, <3>1, <3>2, LeaveFacts, LeaveIsQuiet DEF Outcome
    <2> QED  BY <2>1, <2>2
  <1>9. \A x \in Task \ {n} : task'[x] \in TaskType /\ QuietTask(x)
    <2>1. \A x \in Task \ {n, m} : task'[x] \in TaskType /\ QuietTask(x)
      BY <1>5, <1>7, SameIsQuiet DEF Inv, TypeOK
    <2>2. m # n => task'[m] \in TaskType /\ QuietTask(m)
      BY <1>4, <1>5, <1>7, CancelIsQuiet
    <2> QED  BY <2>1, <2>2
  <1>10. task' \in [Task -> TaskType]
    <2>1. \A x \in Task : task'[x] \in TaskType
      BY <1>8, <1>9
    <2> QED  BY <1>6, <2>1 DEF Inv, TypeOK
  <1>11. TypeOK'
    BY <1>5, <1>10 DEF Inv, TypeOK
  <1>12. \A x \in Task : QuietTask(x)
    BY <1>8, <1>9
  <1> QED  BY <1>5, <1>11, <1>12, SameIsQuiet, QuietStep

LEMMA FunctionChange ==
    ASSUME Inv, NEW f \in Frame, NEW q \in SCallType, scall' = [scall EXCEPT ![f] = q]
    PROVE  /\ scall' \in [Frame -> SCallType]
           /\ scall'[f] = q /\ \A x \in Frame \ {f} : scall'[x] = scall[x]
  BY DEF Inv, TypeOK

\* A step of one function's future, on its own.
LEMMA QuietFunctionStep ==
    ASSUME Inv, NEW f \in Frame, NEW q \in SCallType, scall' = [scall EXCEPT ![f] = q],
           QuietFunction(f), UNCHANGED <<task, acall, stack, tlocal, loop, cancels>>
    PROVE  Inv'
  <1>1. TypeOK'
    BY FunctionChange DEF Inv, TypeOK
  <1>2. \A x \in Frame : QuietFunction(x)
    BY FunctionChange, SameIsQuiet
  <1> QED  BY <1>1, <1>2, SameIsQuiet, QuietStep

LEMMA ExecCoroDoneStep ==
    ASSUME Inv, NEW s \in SCall, ExecCoroDone(s)
    PROVE  Inv'
  <1>1. PICK r \in SCallType : r = scall[s]
    BY DEF Inv, TypeOK, Frame
  <1>2. PICK q \in SCallType : q = [r EXCEPT !.fut = "done"]
    BY DEF SCallType
  <1>3. scall' = [scall EXCEPT ![s] = q] /\ s \in Frame
    BY <1>1, <1>2 DEF ExecCoroDone, Frame
  <1>4. /\ q.pc = "finished" /\ r.pc = "finished" /\ q.by = r.by /\ q.cur0 = r.cur0
        /\ q.thr = r.thr /\ q.ctx = r.ctx /\ q.tcx = r.tcx /\ r.fut = "pending"
    BY <1>1, <1>2 DEF SCallType, ExecCoroDone
  <1>5. scall'[s] = q
    BY <1>3, FunctionChange
  <1>6. QuietFunction(s)
    BY <1>1, <1>4, <1>5 DEF QuietFunction
  <1> QED  BY <1>3, <1>6, QuietFunctionStep DEF ExecCoroDone

LEMMA ExecCoroCancelledStep ==
    ASSUME Inv, NEW s \in SCall, ExecCoroCancelled(s)
    PROVE  Inv'
  <1>1. PICK r \in SCallType : r = scall[s]
    BY DEF Inv, TypeOK, Frame
  <1>2. PICK q \in SCallType : q = [r EXCEPT !.pc = "dropped"]
    BY DEF SCallType
  <1>3. scall' = [scall EXCEPT ![s] = q] /\ s \in Frame
    BY <1>1, <1>2 DEF ExecCoroCancelled, Frame
  <1>4. /\ q.pc = "dropped" /\ r.pc = "queued" /\ q.by = r.by /\ q.cur0 = r.cur0
        /\ q.thr = r.thr /\ q.ctx = r.ctx /\ q.tcx = r.tcx
        /\ q.fut = "cancelled" /\ r.fut = "cancelled"
    BY <1>1, <1>2 DEF SCallType, ExecCoroCancelled
  <1>5. scall'[s] = q
    BY <1>3, FunctionChange
  <1>6. QuietFunction(s)
    BY <1>1, <1>4, <1>5 DEF QuietFunction
  <1> QED  BY <1>3, <1>6, QuietFunctionStep DEF ExecCoroCancelled

\* The task of a new loop is the first to end.
LEMMA LoopEnds ==
    ASSUME Inv, NEW l \in Loop, NEW v \in {"closing", "stopped", "closed"},
           loop' = [loop EXCEPT ![l] = v], v = "closing" => loop[l] = "gap",
           loop[l] \in {"gap", "closing", "stopped"}, UNCHANGED <<task, scall, acall, stack, tlocal, cancels>>
    PROVE  Inv'
  <1>1. TypeOK'
    BY DEF Inv, TypeOK
  <1>2. /\ loop'[l] = v
        /\ \A x \in Loop \ {l} : loop'[x] = loop[x]
    BY DEF Inv, TypeOK
  <1>3. \A x \in Loop : QuietLoop(x)
    BY <1>2 DEF QuietLoop
  <1>4. \A n \in Task : QuietTask(n)
    <2>1. \A n \in Task \ {l} : QuietTask(n)
      BY <1>2, SameIsQuiet DEF Loop, Task
    <2>2. l \in ACall => CallGoesOn(l)
      BY DEF CallGoesOn, Inv, CallInv, CallOf
    <2>3. QuietTask(l)
      BY <2>2 DEF QuietTask, Inv, AwaitInv, Waiting, Loop, Task
    <2> QED  BY <2>1, <2>3
  <1> QED  BY <1>1, <1>3, <1>4, SameIsQuiet, QuietStep

LEMMA BeginCloseStep ==
    ASSUME Inv, NEW l \in Loop, BeginClose(l)
    PROVE  Inv'
  <1>1. /\ loop'[l] = "gap" /\ loop[l] = "run" /\ l \in Task
        /\ \A x \in Loop \ {l} : loop'[x] = loop[x]
        /\ loop' \in [Loop -> {"off", "run", "gap", "closing", "stopped", "closed"}]
        /\ task[l].pc = "done"
        /\ UNCHANGED <<scall, acall, stack, tlocal, cancels>>
    BY DEF BeginClose, Inv, TypeOK, Loop, Task
  <1>2. ASSUME NEW n \in Task
        PROVE  /\ task'[n] \in TaskType
               /\ task'[n].pc = task[n].pc /\ task'[n].loop = task[n].loop
               /\ task'[n].ctx = task[n].ctx /\ task'[n].on = task[n].on
               /\ task'[n].join = task[n].join
               /\ task[n].loop # l => task'[n] = task[n]
    <2>1. PICK r \in TaskType : r = task[n]
      BY DEF Inv, TypeOK
    <2>2. CASE task[n].loop # l \/ task[n].pc = "done"
      <3>1. task'[n] = r
        BY <2>1, <2>2 DEF BeginClose
      <3> QED  BY <2>1, <3>1
    <2>3. CASE task[n].loop = l /\ task[n].pc = "posted"
      <3>1. task'[n] = [r EXCEPT !.late = TRUE]
        BY <2>1, <2>3 DEF BeginClose
      <3> QED  BY <2>1, <2>3, <3>1 DEF TaskType
    <2>4. CASE task[n].loop = l /\ task[n].pc \notin {"done", "posted"}
      <3>1. task'[n] = [r EXCEPT !.cancel = TRUE]
        BY <2>1, <2>4 DEF BeginClose
      <3> QED  BY <2>1, <2>4, <3>1 DEF TaskType
    <2> QED  BY <2>2, <2>3, <2>4
  <1>3. TypeOK'
    <2>1. task' \in [Task -> TaskType]
      BY <1>2 DEF BeginClose
    <2> QED  BY <1>1, <2>1 DEF Inv, TypeOK
  <1>4. ASSUME NEW n \in Task  PROVE QuietTask(n)
    <2>1. ASSUME n \in ACall  PROVE CallGoesOn(n)
      <3>1. CallOf(n)
        BY <2>1 DEF Inv, CallInv
      <3>2. acall[n].mode = "new" /\ loop'[n] \in {"gap", "closing", "stopped", "closed"} =>
               task[n].pc = "done"
        BY <1>1, <3>1 DEF CallOf, Loop, Task
      <3>3. acall[n].mode = "new" /\ task[n].pc = "created" => ~task'[n].cancel
        BY <1>1, <1>2, <3>1 DEF CallOf
      <3> QED  BY <1>2, <3>1, <3>2, <3>3 DEF CallGoesOn, CallOf
    <2>2. task[n].pc \in Waiting <=> task[n].on # None
      BY DEF Inv, AwaitInv, Waiting
    <2> QED  BY <1>2, <2>1, <2>2 DEF QuietTask
  <1>5. \A x \in Loop : QuietLoop(x)
    BY <1>1 DEF QuietLoop
  <1> QED  BY <1>1, <1>3, <1>4, <1>5, SameIsQuiet, QuietStep

-----------------------------------------------------------------------------
(* Stacks: one frame, call or loop more, or one less. *)

LEMMA PopFacts ==
    ASSUME NEW S, NEW s \in Seq(S), s # <<>>
    PROVE  /\ Pop(s) \in Seq(S) /\ Len(Pop(s)) = Len(s) - 1 /\ Len(s) \in 1..Len(s)
           /\ \A k \in 1..(Len(s) - 1) : Pop(s)[k] = s[k]
  <1>1. Len(s) \in Nat /\ Len(s) >= 1
    OBVIOUS
  <1>2. Pop(s) \in Seq(S)
    BY <1>1 DEF Pop
  <1>3. Len(Pop(s)) = Len(s) - 1
    BY <1>1 DEF Pop
  <1>4. \A k \in 1..(Len(s) - 1) : Pop(s)[k] = s[k]
    BY <1>1 DEF Pop
  <1> QED  BY <1>1, <1>2, <1>3, <1>4

LEMMA AppendFacts ==
    ASSUME NEW S, NEW s \in Seq(S), NEW x \in S
    PROVE  /\ Append(s, x) \in Seq(S) /\ Len(Append(s, x)) = Len(s) + 1
           /\ Append(s, x)[Len(s) + 1] = x /\ Len(s) \in Nat
           /\ \A k \in 1..Len(s) : Append(s, x)[k] = s[k]
  OBVIOUS

\* A frame or a call is at one place of one stack only.
LEMMA OnceOnStack ==
    ASSUME Inv, NEW t \in Thread, NEW u \in Thread, NEW j \in 1..Len(stack[t]),
           NEW k \in 1..Len(stack[u]), stack[t][j] = stack[u][k],
           stack[t][j] \in Frame \cup ACall
    PROVE  t = u /\ j = k
  <1>1. t = u
    BY DEF Inv, StackInv
  <1> QED  BY <1>1 DEF Inv, StackInv

LEMMA StackPush ==
    ASSUME Inv, Grows, NEW t \in Thread, NEW x \in Frame \cup ACall \cup Spawn,
           stack' = [stack EXCEPT ![t] = Append(@, x)],
           \A k \in 1..Len(stack[t]) : stack[t][k] # x,
           IF stack[t] = <<>> THEN x \in Frame ELSE Top(t) \in Frame <=> x \notin Frame,
           x \in Frame => scall'[x].pc = "running" /\ scall'[x].thr = t,
           x \in ACall => acall'[x].pc \in {"posting", "parked"} /\ acall'[x].thr = t,
           x \in Spawn => task'[x].pc # "none",
           \A f \in Frame : scall[f].pc = "running" =>
              scall'[f].pc = "running" /\ scall'[f].thr = scall[f].thr,
           \A a \in ACall : acall[a].pc \in {"posting", "parked"} =>
              acall'[a].pc \in {"posting", "parked"}
    PROVE  StackInv'
  <1>1. ASSUME NEW u \in Thread, NEW k \in 1..Len(stack[u])
        PROVE  /\ stack[u][k] \in Frame =>
                     scall'[stack[u][k]].pc = "running" /\ scall'[stack[u][k]].thr = u
               /\ stack[u][k] \in ACall =>
                     /\ acall'[stack[u][k]].pc \in {"posting", "parked"}
                     /\ acall'[stack[u][k]].thr = u
               /\ stack[u][k] \in Spawn => task'[stack[u][k]].pc # "none"
    <2>1. PICK y : y = stack[u][k]
      OBVIOUS
    <2>2. /\ y \in Frame => scall[y].pc = "running" /\ scall[y].thr = u
          /\ y \in ACall => acall[y].pc \in {"posting", "parked"} /\ acall[y].thr = u
          /\ y \in Spawn => task[y].pc # "none"
      BY <2>1 DEF Inv, StackInv
    <2> QED  BY <2>1, <2>2 DEF Grows, Task
  <1>2. \A u \in Thread \ {t} : stack'[u] = stack[u]
    BY DEF Inv, TypeOK
  <1>3. PICK s \in Seq(Frame \cup ACall \cup Spawn) : s = stack[t]
    BY DEF Inv, TypeOK
  <1>4. PICK w \in Seq(Frame \cup ACall \cup Spawn) : w = Append(s, x)
    BY AppendFacts
  <1>5. stack'[t] = w
    BY <1>3, <1>4 DEF Inv, TypeOK
  <1>6. /\ Len(w) = Len(s) + 1 /\ w[Len(s) + 1] = x
        /\ \A k \in 1..Len(s) : w[k] = s[k]
    BY <1>4, AppendFacts
  <1>7. w # <<>> => w[1] \in Frame
    BY <1>3, <1>6 DEF Inv, StackInv
  <1>8. \A k \in 1..(Len(w) - 1) : w[k] \in Frame <=> w[k + 1] \notin Frame
    <2>1. ASSUME NEW k \in 1..(Len(s) - 1)  PROVE w[k] \in Frame <=> w[k + 1] \notin Frame
      <3>1. s[k] \in Frame <=> s[k + 1] \notin Frame
        BY <1>3 DEF Inv, StackInv
      <3>2. k \in 1..Len(s) /\ k + 1 \in 1..Len(s)
        OBVIOUS
      <3> QED  BY <1>6, <3>1, <3>2
    <2>2. s # <<>> => (w[Len(s)] \in Frame <=> w[Len(s) + 1] \notin Frame)
      BY <1>3, <1>6 DEF Top
    <2> QED  BY <1>6, <2>1, <2>2
  <1>9. \A j, k \in 1..Len(w) : w[j] = w[k] => j = k
    <2>1. \A j, k \in 1..Len(s) : s[j] = s[k] => j = k
      BY <1>3 DEF Inv, StackInv
    <2>2. \A k \in 1..Len(s) : s[k] # x
      BY <1>3
    <2> QED  BY <1>6, <2>1, <2>2
  <1>10. ASSUME NEW k \in 1..Len(w)
         PROVE  /\ w[k] \in Frame => scall'[w[k]].pc = "running" /\ scall'[w[k]].thr = t
                /\ w[k] \in ACall => acall'[w[k]].pc \in {"posting", "parked"} /\ acall'[w[k]].thr = t
                /\ w[k] \in Spawn => task'[w[k]].pc # "none"
    <2>1. CASE k \in 1..Len(s)
      BY <1>1, <1>3, <1>6, <2>1
    <2>2. CASE k = Len(s) + 1
      BY <1>6, <2>2
    <2> QED  BY <1>6, <2>1, <2>2
  <1>11. ASSUME NEW u \in Thread \ {t}
         PROVE  /\ stack[u] # <<>> => stack[u][1] \in Frame
                /\ \A k \in 1..(Len(stack[u]) - 1) : stack[u][k] \in Frame <=> stack[u][k + 1] \notin Frame
                /\ \A j, k \in 1..Len(stack[u]) : stack[u][j] = stack[u][k] => j = k
    BY DEF Inv, StackInv
  <1> SUFFICES ASSUME NEW u \in Thread
               PROVE  /\ stack'[u] # <<>> => stack'[u][1] \in Frame
                      /\ \A k \in 1..(Len(stack'[u]) - 1) :
                            stack'[u][k] \in Frame <=> stack'[u][k + 1] \notin Frame
                      /\ \A j, k \in 1..Len(stack'[u]) : stack'[u][j] = stack'[u][k] => j = k
                      /\ \A k \in 1..Len(stack'[u]) :
                            /\ stack'[u][k] \in Frame =>
                                  scall'[stack'[u][k]].pc = "running" /\ scall'[stack'[u][k]].thr = u
                            /\ stack'[u][k] \in ACall =>
                                  /\ acall'[stack'[u][k]].pc \in {"posting", "parked"}
                                  /\ acall'[stack'[u][k]].thr = u
                            /\ stack'[u][k] \in Spawn => task'[stack'[u][k]].pc # "none"
    BY Zenon DEF StackInv
  <1>12. CASE u = t
    <2>1. stack'[u] = w
      BY <1>5, <1>12
    <2>2. /\ stack'[u] # <<>> => stack'[u][1] \in Frame
          /\ \A k \in 1..(Len(stack'[u]) - 1) :
                stack'[u][k] \in Frame <=> stack'[u][k + 1] \notin Frame
      BY <1>7, <1>8, <2>1, Zenon
    <2>4. ASSUME NEW j \in 1..Len(stack'[u]), NEW k \in 1..Len(stack'[u]),
                 stack'[u][j] = stack'[u][k]
          PROVE  j = k
      <3>1. j \in 1..Len(w) /\ k \in 1..Len(w) /\ w[j] = w[k]
        BY <2>1, <2>4, Zenon
      <3> QED  BY <1>9, <3>1, Zenon
    <2>3. ASSUME NEW k \in 1..Len(stack'[u])
          PROVE  /\ stack'[u][k] \in Frame =>
                       scall'[stack'[u][k]].pc = "running" /\ scall'[stack'[u][k]].thr = u
                 /\ stack'[u][k] \in ACall =>
                       /\ acall'[stack'[u][k]].pc \in {"posting", "parked"}
                       /\ acall'[stack'[u][k]].thr = u
                 /\ stack'[u][k] \in Spawn => task'[stack'[u][k]].pc # "none"
      BY <1>10, <1>12, <2>1
    <2> QED  BY <2>2, <2>3, <2>4
  <1>13. CASE u # t
    BY <1>1, <1>2, <1>11, <1>13
  <1> QED  BY <1>12, <1>13

LEMMA StackPop ==
    ASSUME Inv, Grows, NEW t \in Thread, stack[t] # <<>>,
           stack' = [stack EXCEPT ![t] = Pop(@)],
           \A f \in Frame : scall[f].pc = "running" /\ f # Top(t) =>
              scall'[f].pc = "running" /\ scall'[f].thr = scall[f].thr,
           \A a \in ACall : acall[a].pc \in {"posting", "parked"} /\ a # Top(t) =>
              acall'[a].pc \in {"posting", "parked"}
    PROVE  StackInv'
  <1>1. PICK s \in Seq(Frame \cup ACall \cup Spawn) : s = stack[t]
    BY DEF Inv, TypeOK
  <1>2. PICK w \in Seq(Frame \cup ACall \cup Spawn) : w = Pop(s)
    BY <1>1, PopFacts
  <1>3. /\ stack'[t] = w /\ \A u \in Thread \ {t} : stack'[u] = stack[u]
    BY <1>1, <1>2 DEF Inv, TypeOK
  <1>4. /\ Len(w) = Len(s) - 1 /\ Len(s) \in 1..Len(s) /\ Top(t) = s[Len(s)]
        /\ \A k \in 1..Len(w) : w[k] = s[k]
    BY <1>1, <1>2, PopFacts DEF Top
  <1>5. ASSUME NEW u \in Thread, NEW k \in 1..Len(stack[u]), u = t => k # Len(s)
        PROVE  /\ stack[u][k] \in Frame =>
                     scall'[stack[u][k]].pc = "running" /\ scall'[stack[u][k]].thr = u
               /\ stack[u][k] \in ACall =>
                     /\ acall'[stack[u][k]].pc \in {"posting", "parked"}
                     /\ acall'[stack[u][k]].thr = u
               /\ stack[u][k] \in Spawn => task'[stack[u][k]].pc # "none"
    <2>1. PICK y : y = stack[u][k]
      OBVIOUS
    <2>2. /\ y \in Frame => scall[y].pc = "running" /\ scall[y].thr = u
          /\ y \in ACall => acall[y].pc \in {"posting", "parked"} /\ acall[y].thr = u
          /\ y \in Spawn => task[y].pc # "none"
      BY <2>1 DEF Inv, StackInv
    <2>3. y \in Frame \cup ACall => y # Top(t)
      BY <1>1, <1>4, <1>5, <2>1, OnceOnStack
    <2> QED  BY <2>1, <2>2, <2>3 DEF Grows, Task
  <1>6. ASSUME NEW k \in 1..Len(w)
        PROVE  /\ w[k] \in Frame => scall'[w[k]].pc = "running" /\ scall'[w[k]].thr = t
               /\ w[k] \in ACall => acall'[w[k]].pc \in {"posting", "parked"} /\ acall'[w[k]].thr = t
               /\ w[k] \in Spawn => task'[w[k]].pc # "none"
    <2>1. k \in 1..Len(stack[t]) /\ k # Len(s) /\ w[k] = stack[t][k]
      BY <1>1, <1>4
    <2> QED  BY <1>5, <2>1
  <1>7. /\ w # <<>> => w[1] \in Frame
        /\ \A k \in 1..(Len(w) - 1) : w[k] \in Frame <=> w[k + 1] \notin Frame
        /\ \A j, k \in 1..Len(w) : w[j] = w[k] => j = k
    <2>1. /\ s[1] \in Frame
          /\ \A k \in 1..(Len(s) - 1) : s[k] \in Frame <=> s[k + 1] \notin Frame
          /\ \A j, k \in 1..Len(s) : s[j] = s[k] => j = k
      BY <1>1 DEF Inv, StackInv
    <2>2. \A k \in 1..Len(w) : k \in 1..Len(s)
      BY <1>4
    <2>3. w # <<>> => w[1] = s[1]
      BY <1>4
    <2>4. ASSUME NEW k \in 1..(Len(w) - 1)  PROVE w[k] \in Frame <=> w[k + 1] \notin Frame
      <3>1. k \in 1..Len(w) /\ k + 1 \in 1..Len(w) /\ k \in 1..(Len(s) - 1)
        BY <1>4
      <3> QED  BY <1>4, <2>1, <3>1
    <2>5. ASSUME NEW j \in 1..Len(w), NEW k \in 1..Len(w), w[j] = w[k]  PROVE j = k
      BY <1>4, <2>1, <2>2, <2>5
    <2> QED  BY <2>1, <2>3, <2>4, <2>5
  <1>8. ASSUME NEW u \in Thread \ {t}
        PROVE  /\ stack[u] # <<>> => stack[u][1] \in Frame
               /\ \A k \in 1..(Len(stack[u]) - 1) : stack[u][k] \in Frame <=> stack[u][k + 1] \notin Frame
               /\ \A j, k \in 1..Len(stack[u]) : stack[u][j] = stack[u][k] => j = k
    BY DEF Inv, StackInv
  <1> QED  BY <1>3, <1>5, <1>6, <1>7, <1>8 DEF StackInv

\* What ContextInv says of one place of a stack.
LEMMA ContextAt ==
    ASSUME Inv, NEW t \in Thread, NEW k \in 1..Len(stack[t]), stack[t][k] \in Frame
    PROVE  /\ scall[stack[t][k]].pc = "running"
           /\ k < Len(stack[t]) /\ stack[t][k + 1] \in ACall =>
                 /\ acall[stack[t][k + 1]].old = scall[stack[t][k]].cur0
                 /\ acall[stack[t][k + 1]].pc # "none"
           /\ ~(k < Len(stack[t]) /\ stack[t][k + 1] \in ACall) =>
                 scall[stack[t][k]].ctx.cur = scall[stack[t][k]].cur0
  <1>1. scall[stack[t][k]].pc = "running"
    BY DEF Inv, StackInv
  <1>2. k < Len(stack[t]) => k + 1 \in 1..Len(stack[t])
    BY DEF Inv, TypeOK
  <1>3. k < Len(stack[t]) /\ stack[t][k + 1] \in ACall => acall[stack[t][k + 1]].pc # "none"
    BY <1>2 DEF Inv, StackInv
  <1> QED  BY <1>1, <1>3 DEF Inv, ContextInv

LEMMA ContextPush ==
    ASSUME Inv, Grows, NEW t \in Thread, NEW x \in Frame \cup ACall \cup Spawn,
           stack' = [stack EXCEPT ![t] = Append(@, x)],
           x \in Frame => scall'[x].ctx.cur = scall'[x].cur0,
           x \in ACall => acall'[x].old = scall[Top(t)].ctx.cur,
           stack[t] # <<>> => (Top(t) \in Frame <=> x \notin Frame),
           \A f \in Frame : scall[f].pc = "running" /\ ~(f = Top(t) /\ x \in ACall) =>
              scall'[f].ctx.cur = scall[f].ctx.cur,
           \A s \in SCall : scall'[s].pc = "queued" => scall'[s].ctx.cur = scall'[s].cur0
    PROVE  ContextInv'
  <1>1. PICK s \in Seq(Frame \cup ACall \cup Spawn) : s = stack[t]
    BY DEF Inv, TypeOK
  <1>2. PICK w \in Seq(Frame \cup ACall \cup Spawn) : w = Append(s, x)
    BY AppendFacts
  <1>3. stack'[t] = w /\ \A u \in Thread \ {t} : stack'[u] = stack[u]
    BY <1>1, <1>2 DEF Inv, TypeOK
  <1>4. /\ Len(w) = Len(s) + 1 /\ w[Len(s) + 1] = x /\ Len(s) \in Nat
        /\ \A k \in 1..Len(s) : w[k] = s[k]
    BY <1>2, AppendFacts
  <1>5. Len(s) # 0 => Len(s) \in 1..Len(s) /\ Top(t) = s[Len(s)] /\ stack[t] # <<>>
    BY <1>1, <1>4 DEF Top
  <1>6. ASSUME NEW u \in Thread, NEW k \in 1..Len(stack[u]), stack[u][k] \in Frame,
               ~(u = t /\ k = Len(s) /\ x \in ACall)
        PROVE  /\ k < Len(stack[u]) /\ stack[u][k + 1] \in ACall =>
                     acall'[stack[u][k + 1]].old = scall'[stack[u][k]].cur0
               /\ ~(k < Len(stack[u]) /\ stack[u][k + 1] \in ACall) =>
                     scall'[stack[u][k]].ctx.cur = scall'[stack[u][k]].cur0
    <2>1. PICK f \in Frame : f = stack[u][k]
      BY <1>6
    <2>2. /\ scall[f].pc = "running"
          /\ k < Len(stack[u]) /\ stack[u][k + 1] \in ACall =>
                acall[stack[u][k + 1]].old = scall[f].cur0 /\ acall[stack[u][k + 1]].pc # "none"
          /\ ~(k < Len(stack[u]) /\ stack[u][k + 1] \in ACall) => scall[f].ctx.cur = scall[f].cur0
      BY <2>1, ContextAt
    <2>3. ~(f = Top(t) /\ x \in ACall)
      <3>1. CASE Len(s) = 0
        <4>1. Top(t) = None
          BY <1>1, <3>1 DEF Top
        <4> QED  BY <4>1, ConstantsAssumption DEF Frame
      <3>2. CASE Len(s) # 0
        BY <1>1, <1>5, <1>6, <2>1, <3>2, OnceOnStack
      <3> QED  BY <3>1, <3>2
    <2> QED  BY <2>1, <2>2, <2>3 DEF Grows
  <1>7. ASSUME NEW k \in 1..Len(w), w[k] \in Frame
        PROVE  IF k < Len(w) /\ w[k + 1] \in ACall
               THEN acall'[w[k + 1]].old = scall'[w[k]].cur0
               ELSE scall'[w[k]].ctx.cur = scall'[w[k]].cur0
    <2>1. CASE k = Len(s) + 1
      BY <1>4, <1>7, <2>1
    <2>2. CASE k = Len(s)
      <3>1. k \in 1..Len(stack[t]) /\ stack[t][k] \in Frame /\ w[k] = stack[t][k]
            /\ w[k + 1] = x /\ k < Len(w) /\ ~(k < Len(stack[t])) /\ w[k] = Top(t)
        BY <1>1, <1>4, <1>5, <1>7, <2>2
      <3>2. CASE x \in ACall
        <4>1. PICK f \in Frame : f = stack[t][k] /\ f = Top(t)
          BY <3>1
        <4>2. scall[f].pc = "running" /\ scall[f].ctx.cur = scall[f].cur0
          BY <3>1, <4>1, ContextAt
        <4>3. scall'[f].cur0 = scall[f].cur0 /\ acall'[x].old = scall[f].ctx.cur
          BY <3>2, <4>1, <4>2 DEF Grows
        <4> QED  BY <3>1, <3>2, <4>1, <4>2, <4>3
      <3>3. CASE x \notin ACall
        BY <1>6, <3>1, <3>3
      <3> QED  BY <3>2, <3>3
    <2>3. CASE k < Len(s)
      <3>1. k \in 1..Len(stack[t]) /\ k + 1 \in 1..Len(s) /\ w[k] = stack[t][k]
            /\ w[k + 1] = stack[t][k + 1] /\ k < Len(w) /\ k < Len(stack[t]) /\ k # Len(s)
        BY <1>1, <1>4, <2>3
      <3> QED  BY <1>6, <1>7, <3>1
    <2> QED  BY <1>4, <2>1, <2>2, <2>3
  <1>8. ASSUME NEW u \in Thread, NEW k \in 1..Len(stack'[u]), stack'[u][k] \in Frame
        PROVE  IF k < Len(stack'[u]) /\ stack'[u][k + 1] \in ACall
               THEN acall'[stack'[u][k + 1]].old = scall'[stack'[u][k]].cur0
               ELSE scall'[stack'[u][k]].ctx.cur = scall'[stack'[u][k]].cur0
    <2>1. CASE u = t
      BY <1>3, <1>7, <1>8, <2>1
    <2>2. CASE u # t
      BY <1>3, <1>6, <1>8, <2>2
    <2> QED  BY <2>1, <2>2
  <1> QED  BY <1>8 DEF ContextInv

LEMMA ContextPop ==
    ASSUME Inv, Grows, NEW t \in Thread, stack[t] # <<>>,
           stack' = [stack EXCEPT ![t] = Pop(@)],
           Top(t) \in ACall =>
              scall'[stack[t][Len(stack[t]) - 1]].ctx.cur = acall[Top(t)].old,
           \A f \in Frame :
              scall[f].pc = "running" /\ ~(f = stack[t][Len(stack[t]) - 1] /\ Top(t) \in ACall) =>
                 scall'[f].ctx.cur = scall[f].ctx.cur,
           \A s \in SCall : scall'[s].pc = "queued" => scall'[s].ctx.cur = scall'[s].cur0
    PROVE  ContextInv'
  <1>1. PICK s \in Seq(Frame \cup ACall \cup Spawn) : s = stack[t]
    BY DEF Inv, TypeOK
  <1>2. PICK w \in Seq(Frame \cup ACall \cup Spawn) : w = Pop(s)
    BY <1>1, PopFacts
  <1>3. stack'[t] = w /\ \A u \in Thread \ {t} : stack'[u] = stack[u]
    BY <1>1, <1>2 DEF Inv, TypeOK
  <1>4. /\ Len(w) = Len(s) - 1 /\ Len(s) \in Nat /\ Len(s) >= 1 /\ Top(t) = s[Len(s)]
        /\ \A k \in 1..Len(w) : w[k] = s[k]
    BY <1>1, <1>2, PopFacts DEF Top
  <1>5. Top(t) \in ACall => Len(s) - 1 \in 1..Len(s)
    <2>1. Len(s) = 1 => Top(t) \in Frame
      BY <1>1, <1>4 DEF Inv, StackInv
    <2>2. Frame \cap ACall = {}
      BY ConstantsAssumption DEF Frame
    <2> QED  BY <1>4, <2>1, <2>2
  <1>6. ASSUME NEW u \in Thread, NEW k \in 1..Len(stack[u]), stack[u][k] \in Frame,
               ~(u = t /\ k = Len(s) - 1 /\ Top(t) \in ACall)
        PROVE  /\ k < Len(stack[u]) /\ stack[u][k + 1] \in ACall =>
                     acall'[stack[u][k + 1]].old = scall'[stack[u][k]].cur0
               /\ ~(k < Len(stack[u]) /\ stack[u][k + 1] \in ACall) =>
                     scall'[stack[u][k]].ctx.cur = scall'[stack[u][k]].cur0
    <2>1. PICK f \in Frame : f = stack[u][k]
      BY <1>6
    <2>2. /\ scall[f].pc = "running"
          /\ k < Len(stack[u]) /\ stack[u][k + 1] \in ACall =>
                acall[stack[u][k + 1]].old = scall[f].cur0 /\ acall[stack[u][k + 1]].pc # "none"
          /\ ~(k < Len(stack[u]) /\ stack[u][k + 1] \in ACall) => scall[f].ctx.cur = scall[f].cur0
      BY <2>1, ContextAt
    <2>3. ~(f = stack[t][Len(stack[t]) - 1] /\ Top(t) \in ACall)
      BY <1>1, <1>5, <1>6, <2>1, OnceOnStack
    <2> QED  BY <2>1, <2>2, <2>3 DEF Grows
  <1>7. ASSUME NEW k \in 1..Len(w), w[k] \in Frame
        PROVE  IF k < Len(w) /\ w[k + 1] \in ACall
               THEN acall'[w[k + 1]].old = scall'[w[k]].cur0
               ELSE scall'[w[k]].ctx.cur = scall'[w[k]].cur0
    <2>1. k \in 1..Len(stack[t]) /\ w[k] = stack[t][k] /\ k < Len(stack[t])
      BY <1>1, <1>4
    <2>2. CASE k = Len(w)
      <3>1. stack[t][k + 1] = Top(t) /\ k = Len(s) - 1 /\ ~(k < Len(w))
        BY <1>1, <1>4, <2>2
      <3>2. CASE Top(t) \in ACall
        <4>1. acall[Top(t)].old = scall[stack[t][k]].cur0 /\ scall[stack[t][k]].pc = "running"
          BY <1>7, <2>1, <3>1, <3>2, ContextAt
        <4>2. scall'[w[k]].ctx.cur = acall[Top(t)].old
          BY <1>1, <2>1, <3>1, <3>2
        <4> QED  BY <1>7, <2>1, <3>1, <4>1, <4>2 DEF Grows
      <3>3. CASE Top(t) \notin ACall
        BY <1>6, <1>7, <2>1, <3>1, <3>3
      <3> QED  BY <3>2, <3>3
    <2>3. CASE k < Len(w)
      <3>1. k + 1 \in 1..Len(w) /\ k # Len(s) - 1
        BY <1>4, <2>3
      <3>2. w[k + 1] = stack[t][k + 1]
        BY <1>1, <1>4, <3>1
      <3> QED  BY <1>6, <1>7, <2>1, <2>3, <3>1, <3>2
    <2> QED  BY <2>2, <2>3
  <1>8. ASSUME NEW u \in Thread, NEW k \in 1..Len(stack'[u]), stack'[u][k] \in Frame
        PROVE  IF k < Len(stack'[u]) /\ stack'[u][k + 1] \in ACall
               THEN acall'[stack'[u][k + 1]].old = scall'[stack'[u][k]].cur0
               ELSE scall'[stack'[u][k]].ctx.cur = scall'[stack'[u][k]].cur0
    <2>1. CASE u = t
      BY <1>3, <1>7, <1>8, <2>1
    <2>2. CASE u # t
      BY <1>3, <1>6, <1>8, <2>2
    <2> QED  BY <2>1, <2>2
  <1> QED  BY <1>8 DEF ContextInv

-----------------------------------------------------------------------------
(* SyncToAsync: a function is called, runs and ends. *)

LEMMA SubmittedStep ==
    ASSUME Inv, NEW n \in Task, NEW s \in SCall,
           NEW w \in ACall \cup {Worker, DefaultExecutor}, NEW c \in Ctx,
           task[n].pc = "run", scall[s].pc = "none", Submitted(n, s, w, c)
    PROVE  Inv'
  <1>0. s \in Frame /\ s # None /\ SCall \subseteq Frame /\ ACall \subseteq Task
    BY ConstantsAssumption DEF Frame, Task
  <1>1. PICK r \in TaskType : r = task[n]
    BY DEF Inv, TypeOK
  <1>2. PICK q \in TaskType : q = [r EXCEPT !.pc = "await", !.on = s, !.ctx = c]
    BY DEF TaskType
  <1>3. PICK u \in SCallType :
           u = [NoSCall EXCEPT !.pc = "queued", !.by = n, !.where = w, !.ctx = c, !.cur0 = c.cur]
    <2>1. NoSCall \in SCallType /\ c.cur \in ACall \cup {None}
      BY RecordTypes DEF Ctx
    <2>2. [NoSCall EXCEPT !.pc = "queued", !.by = n, !.where = w, !.ctx = c,
                          !.cur0 = c.cur] \in SCallType
      BY <2>1 DEF SCallType
    <2> QED  BY <2>2, Zenon
  <1>4. task' = [task EXCEPT ![n] = q]
    BY <1>1, <1>2 DEF Submitted
  <1>5. scall' = [scall EXCEPT ![s] = u]
    BY <1>3 DEF Submitted
  <1>6. UNCHANGED <<acall, stack, tlocal, loop, cancels>>
    BY DEF Submitted
  <1>7. /\ task'[n] = q /\ \A x \in Task \ {n} : task'[x] = task[x]
        /\ scall'[s] = u /\ \A f \in Frame \ {s} : scall'[f] = scall[f]
    BY <1>0, <1>4, <1>5, TaskChange, FunctionChange
  <1>8. /\ q.pc = "await" /\ r.pc = "run" /\ q.on = s /\ q.loop = r.loop /\ r.on = None
        /\ u.pc = "queued" /\ u.by = n /\ u.ctx.cur = u.cur0 /\ u.fut = "pending" /\ u.tcx = <<>>
    <2>1. q.pc = "await" /\ r.pc = "run" /\ q.on = s /\ q.loop = r.loop /\ r.on = None
      BY <1>1, <1>2 DEF TaskType, Inv, AwaitInv
    <2>2. u.pc = "queued" /\ u.by = n /\ u.ctx.cur = u.cur0 /\ u.fut = "pending" /\ u.tcx = <<>>
      BY <1>3 DEF NoSCall
    <2> QED  BY <2>1, <2>2
  <1>9. TypeOK'
    BY <1>0, <1>4, <1>5, <1>6, TaskChange, FunctionChange DEF Inv, TypeOK
  <1>10. Grows
    BY <1>0, <1>1, <1>6, <1>7, <1>8 DEF Grows, Started, Live
  <1>11. StackInv'
    BY <1>6, <1>7, <1>9, <1>10, StackKept
  <1>12. ContextInv'
    <2>1. \A x \in SCall : scall'[x].pc = "queued" => scall'[x].ctx.cur = scall'[x].cur0
      BY <1>0, <1>7, <1>8 DEF Inv, ContextInv
    <2> QED  BY <1>6, <1>7, <1>9, <1>10, <2>1, ContextStays
  <1>13. AwaitInv'
    <2>1. \A x \in Task \ {n} : task'[x].pc \in Waiting <=> task'[x].on # None
      <3>1. \A x \in Task : task[x].pc \in Waiting <=> task[x].on # None
        BY DEF Inv, AwaitInv, Waiting
      <3> QED  BY <1>7, <3>1
    <2>2. task'[n].pc \in Waiting /\ task'[n].on = s /\ task'[n].pc # "join"
      BY <1>7, <1>8 DEF Waiting
    <2>3. scall'[s].pc # "none" /\ scall'[s].by = n
      BY <1>7, <1>8
    <2> QED  BY <1>0, <1>7, <1>9, <1>10, <2>1, <2>2, <2>3, AwaitKept
  <1>14. FunctionInv'
    <2>1. \A x \in SCall \ {s} : scall'[x].fut = "done" => scall'[x].pc = "finished"
      BY <1>0, <1>7 DEF Inv, FunctionInv
    <2>2. scall'[s].by # None /\ task'[scall'[s].by].pc # "none" /\ scall'[s].fut # "done"
      BY <1>7, <1>8, ConstantsAssumption DEF Task
    <2> QED  BY <1>0, <1>7, <1>10, <2>1, <2>2, FunctionKept
  <1>15. LoopInv'
    BY <1>1, <1>6, <1>7, <1>8, <1>10, LoopKept
  <1>16. CallInv'
    <2>1. ASSUME NEW a \in ACall  PROVE CallGoesOn(a)
      <3>1. CASE a = n
        BY <1>1, <1>6, <1>7, <1>8, <3>1, LiveGoesOn DEF Live
      <3>2. CASE a # n
        BY <1>0, <1>6, <1>7, <3>2, SameIsQuiet DEF QuietTask
      <3> QED  BY <3>1, <3>2
    <2>2. \A a \in ACall : task'[a].pc = "none" <=> task[a].pc = "none"
      BY <1>0, <1>1, <1>7, <1>8
    <2> QED  BY <1>6, <1>10, <2>1, <2>2, CallKept DEF CallInv
  <1>17. TaskContextInv' /\ TaskContextLive'
    <2>1. scall[s].tcx = <<>>
      <3>1. scall[s].tcx \in Seq(ACall)
        <4>0. scall \in [Frame -> SCallType]
          BY DEF Inv, TypeOK
        <4>1. PICK v \in SCallType : v = scall[s]
          BY <1>0, <4>0
        <4>2. v.tcx \in Seq(ACall)
          BY DEF SCallType
        <4> QED  BY <4>1, <4>2
      <3>2. ASSUME NEW k \in 1..Len(scall[s].tcx)  PROVE FALSE
        <4>1. PICK a \in ACall : acall[a].tc = s
          BY OnTaskContext
        <4> QED  BY <1>0, <4>1 DEF Inv, ParentInv
      <3> QED  BY <3>1, <3>2
    <2>2. \A x \in SCall : scall'[x].tcx = scall[x].tcx
      BY <1>0, <1>7, <1>8, <2>1
    <2>3. \A a \in ACall : task[a].pc \in Live => task'[a].pc \in Live
      BY <1>0, <1>7, <1>8 DEF Live
    <2> QED  BY <1>10, <2>2, <2>3, TaskContextKept
  <1>18. ParentInv'
    BY <1>6, <1>9, <1>10, ParentKept
  <1>19. NeverLeftBehind'
    <2>1. \A x \in SCall :
              /\ scall'[x].pc \in {"queued", "running"} =>
                    \/ scall[x].pc \in {"queued", "running"}
                    \/ task'[scall'[x].by].on = x
              /\ scall[x].pc \in {"queued", "running"} /\ scall[x].fut = "cancelled" =>
                    scall'[x].fut = "cancelled"
      BY <1>0, <1>7, <1>8
    <2>2. \A m \in Task, x \in SCall :
              task[m].on = x /\ scall'[x].pc \in {"queued", "running"} =>
                  task'[m].on = x \/ scall'[x].fut = "cancelled" \/ OwnLoop(x)
      BY <1>1, <1>7, <1>8, ConstantsAssumption
    <2> QED  BY <1>10, <2>1, <2>2, LeftKept
  <1> QED  BY <1>9, <1>11, <1>12, <1>13, <1>14, <1>15, <1>16, <1>17, <1>18, <1>19 DEF Inv

\* A thread enters or leaves something: tasks, calls and loops are left alone.
LEMMA ThreadMoves ==
    ASSUME Inv, TypeOK', StackInv', ContextInv', UNCHANGED <<task, acall, loop>>,
           \A t \in Thread :
              \/ tlocal'[t] = tlocal[t]
              \/ \E s \in SCall : /\ tlocal'[t].tc = s /\ scall[s].pc # "none"
                                  /\ tlocal'[t].loop = task[scall[s].by].loop,
           \A f \in Frame : scall[f].pc # "none" =>
              /\ scall'[f].pc # "none"
              /\ scall'[f].by = scall[f].by /\ scall'[f].cur0 = scall[f].cur0,
           \A s \in SCall :
              /\ scall'[s].tcx = scall[s].tcx /\ scall'[s].fut = scall[s].fut
              /\ scall[s].pc = "none" => scall'[s].pc = "none"
              /\ scall[s].pc = "finished" => scall'[s].pc = "finished"
              /\ scall'[s].pc \in {"queued", "running"} => scall[s].pc \in {"queued", "running"}
    PROVE  Inv'
  <1>1. Grows
    BY DEF Grows
  <1>2. AwaitInv'
    BY <1>1, AwaitKept DEF Inv, AwaitInv, Waiting
  <1>3. FunctionInv'
    <2>1. \A s \in SCall : scall'[s].fut = "done" => scall'[s].pc = "finished"
      BY DEF Inv, FunctionInv
    <2> QED  BY <1>1, <2>1, FunctionKept
  <1>4. LoopInv'
    BY <1>1, LoopKept
  <1>5. CallInv'
    <2>1. \A a \in ACall : CallGoesOn(a)
      BY DEF CallGoesOn, Inv, CallInv, CallOf
    <2> QED  BY <1>1, <2>1, CallKept DEF CallInv
  <1>6. TaskContextInv' /\ TaskContextLive'
    BY <1>1, TaskContextKept
  <1>7. ParentInv'
    BY <1>1, ParentKept
  <1>8. NeverLeftBehind'
    BY <1>1, LeftKept
  <1> QED  BY <1>2, <1>3, <1>4, <1>5, <1>6, <1>7, <1>8 DEF Inv

LEMMA ThreadHandlerStep ==
    ASSUME Inv, NEW t \in Thread, NEW s \in SCall, ThreadHandler(t, s)
    PROVE  Inv'
  <1>0. s \in Frame /\ SCall \subseteq Frame
    BY DEF Frame
  <1>1. PICK r \in SCallType : r = scall[s]
    BY <1>0 DEF Inv, TypeOK
  <1>2. PICK q \in SCallType : q = [r EXCEPT !.pc = "running", !.thr = t]
    BY DEF SCallType
  <1>3. scall' = [scall EXCEPT ![s] = q]
    BY <1>1, <1>2 DEF ThreadHandler
  <1>4. scall'[s] = q /\ \A f \in Frame \ {s} : scall'[f] = scall[f]
    BY <1>0, <1>3, FunctionChange
  <1>5. /\ r.pc = "queued" /\ q.pc = "running" /\ q.thr = t /\ q.by = r.by /\ q.ctx = r.ctx
        /\ q.cur0 = r.cur0 /\ q.tcx = r.tcx /\ q.fut = r.fut
    BY <1>1, <1>2 DEF SCallType, ThreadHandler
  <1>6. UNCHANGED <<task, acall, loop, cancels>>
    BY DEF ThreadHandler
  <1>7. PICK l \in Loop : l = task[r.by].loop
    BY <1>1, <1>5, CallerFacts
  <1>8. /\ tlocal' = [tlocal EXCEPT ![t] = [loop |-> l, tc |-> s]]
        /\ stack' = [stack EXCEPT ![t] = Append(@, s)]
    BY <1>1, <1>7 DEF ThreadHandler
  <1>9. Grows
    BY <1>1, <1>4, <1>5, <1>6 DEF Grows
  <1>10. TypeOK'
    <2>1. stack' \in [Thread -> Seq(Frame \cup ACall \cup Spawn)]
      <3>1. Append(stack[t], s) \in Seq(Frame \cup ACall \cup Spawn)
        BY <1>0, AppendFacts DEF Inv, TypeOK
      <3> QED  BY <1>8, <3>1 DEF Inv, TypeOK
    <2>2. tlocal' \in [Thread -> [loop : Loop \cup {None}, tc : SCall \cup {None}]]
      BY <1>8 DEF Inv, TypeOK
    <2> QED  BY <1>0, <1>3, <1>6, <2>1, <2>2, FunctionChange DEF Inv, TypeOK
  <1>11. stack[t] # <<>> => Top(t) \notin Frame
    <2>1. Frame \cap ACall = {}
      BY ConstantsAssumption DEF Frame
    <2> QED  BY <2>1 DEF ThreadHandler, Takes
  <1>12. StackInv'
    <2>1. \A k \in 1..Len(stack[t]) : stack[t][k] # s
      BY <1>0, <1>1, <1>5 DEF Inv, StackInv
    <2>2. s \notin ACall /\ s \notin Spawn
      BY ConstantsAssumption
    <2>3. scall'[s].pc = "running" /\ scall'[s].thr = t
      BY <1>4, <1>5
    <2>4. \A f \in Frame : scall[f].pc = "running" =>
              scall'[f].pc = "running" /\ scall'[f].thr = scall[f].thr
      BY <1>1, <1>4, <1>5
    <2> QED  BY <1>0, <1>6, <1>8, <1>9, <1>11, <2>1, <2>2, <2>3, <2>4, StackPush
  <1>13. ContextInv'
    <2>1. s \notin ACall
      BY ConstantsAssumption
    <2>2. \A f \in Frame : scall'[f].ctx.cur = scall[f].ctx.cur
      BY <1>1, <1>4, <1>5
    <2>3. scall'[s].ctx.cur = scall'[s].cur0
      BY <1>1, <1>4, <1>5 DEF Inv, ContextInv
    <2>4. \A x \in SCall : scall'[x].pc = "queued" => scall'[x].ctx.cur = scall'[x].cur0
      BY <1>0, <1>4, <1>5 DEF Inv, ContextInv
    <2> QED  BY <1>0, <1>8, <1>9, <1>11, <2>1, <2>2, <2>3, <2>4, ContextPush
  <1>14. \A u \in Thread :
             \/ tlocal'[u] = tlocal[u]
             \/ \E x \in SCall : /\ tlocal'[u].tc = x /\ scall[x].pc # "none"
                                 /\ tlocal'[u].loop = task[scall[x].by].loop
    <2>1. \A u \in Thread \ {t} : tlocal'[u] = tlocal[u]
      BY <1>8 DEF Inv, TypeOK
    <2>2. tlocal'[t].tc = s /\ tlocal'[t].loop = l /\ l = task[scall[s].by].loop /\ scall[s].pc # "none"
      BY <1>1, <1>5, <1>7, <1>8 DEF Inv, TypeOK
    <2> QED  BY <2>1, <2>2
  <1>15. \A x \in SCall :
            /\ scall'[x].tcx = scall[x].tcx /\ scall'[x].fut = scall[x].fut
            /\ scall[x].pc = "none" => scall'[x].pc = "none"
            /\ scall[x].pc = "finished" => scall'[x].pc = "finished"
            /\ scall'[x].pc \in {"queued", "running"} => scall[x].pc \in {"queued", "running"}
    BY <1>0, <1>1, <1>4, <1>5
  <1> QED  BY <1>6, <1>9, <1>10, <1>12, <1>13, <1>14, <1>15, ThreadMoves DEF Grows

\* What is on top of a stack, and what is under it.
LEMMA TopFacts ==
    ASSUME Inv, NEW t \in Thread, Top(t) \in Frame \cup ACall \cup Spawn
    PROVE  /\ stack[t] # <<>> /\ Len(stack[t]) \in 1..Len(stack[t])
           /\ Top(t) = stack[t][Len(stack[t])]
           /\ Pop(stack[t]) \in Seq(Frame \cup ACall \cup Spawn)
           /\ Top(t) \in Frame => scall[Top(t)].pc = "running" /\ scall[Top(t)].thr = t
           /\ Top(t) \notin Frame =>
                 /\ Len(stack[t]) - 1 \in 1..Len(stack[t])
                 /\ stack[t][Len(stack[t]) - 1] \in Frame
                 /\ scall[stack[t][Len(stack[t]) - 1]].pc = "running"
  <1>1. stack[t] # <<>>
    BY ConstantsAssumption DEF Top, Frame
  <1>2. PICK s \in Seq(Frame \cup ACall \cup Spawn) : s = stack[t]
    BY DEF Inv, TypeOK
  <1>3. Len(s) \in Nat /\ Len(s) >= 1 /\ Top(t) = s[Len(s)] /\ Pop(s) \in Seq(Frame \cup ACall \cup Spawn)
    BY <1>1, <1>2, PopFacts DEF Top
  <1>4. Top(t) \in Frame => scall[Top(t)].pc = "running" /\ scall[Top(t)].thr = t
    BY <1>2, <1>3 DEF Inv, StackInv
  <1>5. ASSUME Top(t) \notin Frame
        PROVE  /\ Len(s) - 1 \in 1..Len(s)
               /\ s[Len(s) - 1] \in Frame
               /\ scall[s[Len(s) - 1]].pc = "running"
    <2>1. Len(s) # 1
      BY <1>1, <1>2, <1>3, <1>5 DEF Inv, StackInv
    <2>2. PICK k \in 1..Len(s) : k = Len(s) - 1 /\ k \in 1..(Len(s) - 1) /\ k + 1 = Len(s)
      <3>1. /\ Len(s) - 1 \in 1..Len(s) /\ Len(s) - 1 \in 1..(Len(s) - 1)
            /\ (Len(s) - 1) + 1 = Len(s)
        <4>1. \A m \in Nat : m >= 1 /\ m # 1 =>
                 m - 1 \in 1..m /\ m - 1 \in 1..(m - 1) /\ (m - 1) + 1 = m
          OBVIOUS
        <4> QED  BY <1>3, <2>1, <4>1, Zenon
      <3> QED  BY <3>1, Zenon
    <2>3. s[k] \in Frame
      BY <1>2, <1>3, <1>5, <2>2 DEF Inv, StackInv
    <2>4. scall[s[k]].pc = "running"
      BY <1>2, <2>2, <2>3 DEF Inv, StackInv
    <2> QED  BY <2>2, <2>3, <2>4
  <1> QED  BY <1>1, <1>2, <1>3, <1>4, <1>5

LEMMA FunctionReturnsStep ==
    ASSUME Inv, NEW t \in Thread, NEW s \in Frame, NEW g \in Outcome, FunctionReturns(t, s, g)
    PROVE  Inv'
  <1>0. SCall \subseteq Frame /\ Frame \cap ACall = {}
    BY ConstantsAssumption DEF Frame
  <1>1. PICK r \in SCallType : r = scall[s]
    BY <1>0 DEF Inv, TypeOK
  <1>2. PICK q \in SCallType : q = [r EXCEPT !.pc = "finished", !.got = g]
    BY DEF SCallType
  <1>3. scall' = [scall EXCEPT ![s] = q] /\ stack' = [stack EXCEPT ![t] = Pop(@)] /\ Top(t) = s
    BY <1>1, <1>2 DEF FunctionReturns
  <1>4. scall'[s] = q /\ \A f \in Frame \ {s} : scall'[f] = scall[f]
    BY <1>3, FunctionChange
  <1>5. /\ r.pc = "running" /\ q.pc = "finished" /\ q.by = r.by /\ q.ctx = r.ctx
        /\ q.cur0 = r.cur0 /\ q.tcx = r.tcx /\ q.fut = r.fut
    <2>1. r.pc = "running"
      BY <1>1, <1>3, TopFacts
    <2> QED  BY <1>2, <2>1 DEF SCallType
  <1>6. UNCHANGED <<task, acall, tlocal, loop, cancels>>
    BY DEF FunctionReturns
  <1>7. Grows
    BY <1>1, <1>4, <1>5, <1>6 DEF Grows
  <1>8. TypeOK'
    <2>1. stack' \in [Thread -> Seq(Frame \cup ACall \cup Spawn)]
      BY <1>3, TopFacts DEF Inv, TypeOK
    <2> QED  BY <1>3, <1>6, <2>1, FunctionChange DEF Inv, TypeOK
  <1>9. StackInv'
    BY <1>3, <1>4, <1>6, <1>7, TopFacts, StackPop
  <1>10. ContextInv'
    <2>1. \A f \in Frame : scall'[f].ctx.cur = scall[f].ctx.cur
      BY <1>1, <1>4, <1>5
    <2>2. \A x \in SCall : scall'[x].pc = "queued" => scall'[x].ctx.cur = scall'[x].cur0
      BY <1>0, <1>4, <1>5 DEF Inv, ContextInv
    <2>3. Top(t) \notin ACall /\ stack[t] # <<>>
      BY <1>0, <1>3, TopFacts
    <2> QED  BY <1>3, <1>7, <2>1, <2>2, <2>3, ContextPop
  <1>11. \A x \in SCall :
            /\ scall'[x].tcx = scall[x].tcx /\ scall'[x].fut = scall[x].fut
            /\ scall[x].pc = "none" => scall'[x].pc = "none"
            /\ scall[x].pc = "finished" => scall'[x].pc = "finished"
            /\ scall'[x].pc \in {"queued", "running"} => scall[x].pc \in {"queued", "running"}
    BY <1>0, <1>1, <1>4, <1>5
  <1> QED  BY <1>6, <1>7, <1>8, <1>9, <1>10, <1>11, ThreadMoves DEF Grows

LEMMA UserLoopReturnsStep ==
    ASSUME Inv, NEW t \in Thread, UserLoopReturns(t)
    PROVE  Inv'
  <1>0. SCall \subseteq Frame /\ Frame \cap ACall = {} /\ Top(t) \in Spawn /\ Top(t) \notin Frame
        /\ Top(t) \notin ACall /\ Top(t) \in Task
    BY ConstantsAssumption DEF Frame, UserLoopReturns, Task
  <1>1. PICK s \in Frame : s = stack[t][Len(stack[t]) - 1] /\ scall[s].pc = "running"
    BY <1>0, TopFacts
  <1>2. PICK r \in SCallType : r = scall[s]
    BY DEF Inv, TypeOK
  <1>3. PICK g \in Outcome : g = task[Top(t)].got
    BY <1>0 DEF Inv, TypeOK, TaskType
  <1>4. PICK q \in SCallType : q = [r EXCEPT !.got = g]
    BY DEF SCallType
  <1>5. scall' = [scall EXCEPT ![s] = q] /\ stack' = [stack EXCEPT ![t] = Pop(@)]
    BY <1>1, <1>2, <1>3, <1>4 DEF UserLoopReturns
  <1>6. scall'[s] = q /\ \A f \in Frame \ {s} : scall'[f] = scall[f]
    BY <1>5, FunctionChange
  <1>7. /\ r.pc = "running" /\ q.pc = "running" /\ q.by = r.by /\ q.ctx = r.ctx /\ q.thr = r.thr
        /\ q.cur0 = r.cur0 /\ q.tcx = r.tcx /\ q.fut = r.fut
    BY <1>1, <1>2, <1>4 DEF SCallType
  <1>8. UNCHANGED <<task, acall, tlocal, loop, cancels>>
    BY DEF UserLoopReturns
  <1>9. Grows
    BY <1>2, <1>6, <1>7, <1>8 DEF Grows
  <1>10. TypeOK'
    <2>1. stack' \in [Thread -> Seq(Frame \cup ACall \cup Spawn)]
      BY <1>0, <1>5, TopFacts DEF Inv, TypeOK
    <2> QED  BY <1>5, <1>8, <2>1, FunctionChange DEF Inv, TypeOK
  <1>11. StackInv'
    <2>1. \A f \in Frame : scall[f].pc = "running" =>
             scall'[f].pc = "running" /\ scall'[f].thr = scall[f].thr
      BY <1>2, <1>6, <1>7
    <2>2. stack[t] # <<>>
      BY <1>0, TopFacts
    <2> QED  BY <1>5, <1>8, <1>9, <2>1, <2>2, StackPop
  <1>12. ContextInv'
    <2>1. \A f \in Frame : scall'[f].ctx.cur = scall[f].ctx.cur
      BY <1>2, <1>6, <1>7
    <2>2. \A x \in SCall : scall'[x].pc = "queued" => scall'[x].ctx.cur = scall'[x].cur0
      BY <1>0, <1>6, <1>7 DEF Inv, ContextInv
    <2>3. stack[t] # <<>>
      BY <1>0, TopFacts
    <2> QED  BY <1>0, <1>5, <1>9, <2>1, <2>2, <2>3, ContextPop
  <1>13. \A x \in SCall :
            /\ scall'[x].tcx = scall[x].tcx /\ scall'[x].fut = scall[x].fut
            /\ scall[x].pc = "none" => scall'[x].pc = "none"
            /\ scall[x].pc = "finished" => scall'[x].pc = "finished"
            /\ scall'[x].pc \in {"queued", "running"} => scall[x].pc \in {"queued", "running"}
    BY <1>0, <1>2, <1>6, <1>7
  <1> QED  BY <1>8, <1>9, <1>10, <1>11, <1>12, <1>13, ThreadMoves DEF Grows

\* A context with another current executor or marker is still a context.
LEMMA CtxFacts ==
    ASSUME NEW c \in Ctx
    PROVE  /\ \A x \in ACall \cup {None} : [c EXCEPT !.cur = x] \in Ctx /\ [c EXCEPT !.cur = x].cur = x
           /\ [c EXCEPT !.dead = TRUE] \in Ctx /\ [c EXCEPT !.dead = TRUE].cur = c.cur
           /\ c.cur \in ACall \cup {None}
  BY DEF Ctx

LEMMA CallOnParentStep ==
    ASSUME Inv, NEW n \in Task, NEW s \in SCall, CallOnParent(n, s)
    PROVE  Inv'
  <1>1. PICK x \in Closest(ParentExecutor(n)) : Submitted(n, s, x, task[n].ctx)
    BY DEF CallOnParent
  <1>2. x \in ACall
    BY DEF Closest, Chain
  <1>3. task[n].ctx \in Ctx
    BY DEF Inv, TypeOK, TaskType
  <1>4. task[n].pc = "run" /\ scall[s].pc = "none"
    BY DEF CallOnParent, RunsCode
  <1> QED  BY <1>1, <1>2, <1>3, <1>4, SubmittedStep

LEMMA CallOnWorkerStep ==
    ASSUME Inv, NEW n \in Task, NEW s \in SCall, CallOnWorker(n, s)
    PROVE  Inv'
  <1>1. task[n].ctx \in Ctx
    BY DEF Inv, TypeOK, TaskType
  <1>2. PICK c \in Ctx : c = [task[n].ctx EXCEPT !.dead = TRUE]
    BY <1>1, CtxFacts
  <1>3. task[n].pc = "run" /\ scall[s].pc = "none" /\ Submitted(n, s, Worker, c)
    BY <1>2 DEF CallOnWorker, RunsCode
  <1> QED  BY <1>3, SubmittedStep

LEMMA CallInPoolStep ==
    ASSUME Inv, NEW n \in Task, NEW s \in SCall, CallInPool(n, s)
    PROVE  Inv'
  <1>1. task[n].ctx \in Ctx
    BY DEF Inv, TypeOK, TaskType
  <1>2. task[n].pc = "run" /\ scall[s].pc = "none" /\ Submitted(n, s, DefaultExecutor, task[n].ctx)
    BY DEF CallInPool, RunsCode
  <1> QED  BY <1>1, <1>2, SubmittedStep

-----------------------------------------------------------------------------
(* AsyncToSync: a call is made, posted and returns. *)

LEMMA CallChange ==
    ASSUME Inv, NEW a \in ACall, NEW q \in ACallType, acall' = [acall EXCEPT ![a] = q]
    PROVE  /\ acall' \in [ACall -> ACallType]
           /\ acall'[a] = q /\ \A x \in ACall \ {a} : acall'[x] = acall[x]
  BY DEF Inv, TypeOK

\* A thread is let go only after call_result is set, with the task's context in hand.
LEMMA BrokenHasResult ==
    ASSUME Inv, NEW a \in ACall, acall[a].pc = "parked", Broken(a)
    PROVE  acall[a].res \in Outcome /\ task[a].pc = "done" /\ acall[a].cell = task[a].ctx
  <1>1. acall[a] \in ACallType /\ CallOf(a)
    BY DEF Inv, TypeOK, CallInv
  <1>2. acall[a].res # "none"
    BY <1>1 DEF CallOf, Broken
  <1> QED  BY <1>1, <1>2 DEF CallOf, ACallType

LEMMA AsyncToSyncReturnsStep ==
    ASSUME Inv, NEW t \in Thread, NEW a \in ACall, AsyncToSyncReturns(t, a)
    PROVE  Inv'
  <1>0. /\ SCall \subseteq Frame /\ Top(t) = a /\ a \notin Frame /\ a \notin Spawn
        /\ acall[a].pc = "parked" /\ Broken(a)
    BY ConstantsAssumption DEF Frame, AsyncToSyncReturns
  <1>1. PICK s \in Frame : s = stack[t][Len(stack[t]) - 1] /\ scall[s].pc = "running"
    BY <1>0, TopFacts
  <1>2. PICK r \in SCallType : r = scall[s]
    BY DEF Inv, TypeOK
  <1>3. PICK u \in ACallType : u = acall[a]
    BY DEF Inv, TypeOK
  <1>4. PICK c \in Ctx : c = [u.cell EXCEPT !.cur = u.old] /\ c.cur = u.old
    <2>1. u.cell \in Ctx /\ u.old \in ACall \cup {None}
      BY DEF ACallType
    <2>2. [u.cell EXCEPT !.cur = u.old] \in Ctx /\ [u.cell EXCEPT !.cur = u.old].cur = u.old
      BY <2>1, CtxFacts, Zenon
    <2> QED  BY <2>2, Zenon
  <1>5. PICK g \in Outcome : g = u.res
    BY <1>0, <1>3, BrokenHasResult
  <1>6. PICK q \in SCallType : q = [r EXCEPT !.ctx = c, !.got = g]
    BY DEF SCallType
  <1>7. PICK v \in ACallType : v = [u EXCEPT !.pc = "returned"]
    BY DEF ACallType
  <1>8. /\ scall' = [scall EXCEPT ![s] = q] /\ stack' = [stack EXCEPT ![t] = Pop(@)]
        /\ acall' = [acall EXCEPT ![a] = v]
    BY <1>1, <1>2, <1>3, <1>4, <1>5, <1>6, <1>7 DEF AsyncToSyncReturns
  <1>9. /\ scall'[s] = q /\ \A f \in Frame \ {s} : scall'[f] = scall[f]
        /\ acall'[a] = v /\ \A x \in ACall \ {a} : acall'[x] = acall[x]
    BY <1>8, FunctionChange, CallChange
  <1>10. /\ r.pc = "running" /\ q.pc = "running" /\ q.by = r.by /\ q.thr = r.thr
         /\ q.cur0 = r.cur0 /\ q.tcx = r.tcx /\ q.fut = r.fut /\ q.ctx = c
    BY <1>1, <1>2, <1>6 DEF SCallType
  <1>11. /\ u.pc = "parked" /\ v.pc = "returned" /\ v.thr = u.thr /\ v.old = u.old /\ v.tc = u.tc
         /\ v.mode = u.mode /\ v.lp = u.lp /\ v.cell = u.cell /\ v.res = u.res
    BY <1>0, <1>3, <1>7 DEF ACallType
  <1>12. UNCHANGED <<task, tlocal, loop, cancels>>
    BY DEF AsyncToSyncReturns
  <1>13. Grows
    BY <1>2, <1>3, <1>9, <1>10, <1>11, <1>12 DEF Grows
  <1>14. TypeOK'
    <2>1. stack' \in [Thread -> Seq(Frame \cup ACall \cup Spawn)]
      BY <1>0, <1>8, TopFacts DEF Inv, TypeOK
    <2> QED  BY <1>8, <1>12, <2>1, FunctionChange, CallChange DEF Inv, TypeOK
  <1>15. StackInv'
    <2>1. \A f \in Frame : scall[f].pc = "running" =>
             scall'[f].pc = "running" /\ scall'[f].thr = scall[f].thr
      BY <1>2, <1>9, <1>10
    <2>2. stack[t] # <<>>
      BY <1>0, TopFacts
    <2> QED  BY <1>0, <1>8, <1>9, <1>13, <2>1, <2>2, StackPop
  <1>16. ContextInv'
    <2>1. \A f \in Frame \ {s} : scall'[f].ctx.cur = scall[f].ctx.cur
      BY <1>9
    <2>2. \A x \in SCall : scall'[x].pc = "queued" => scall'[x].ctx.cur = scall'[x].cur0
      BY <1>0, <1>9, <1>10 DEF Inv, ContextInv
    <2>3. stack[t] # <<>>
      BY <1>0, TopFacts
    <2>4. scall'[stack[t][Len(stack[t]) - 1]].ctx.cur = acall[Top(t)].old
      BY <1>0, <1>1, <1>3, <1>4, <1>9, <1>10
    <2> QED  BY <1>0, <1>1, <1>8, <1>13, <2>1, <2>2, <2>3, <2>4, ContextPop
  <1>17. AwaitInv'
    BY <1>12, <1>13, <1>14, AwaitKept DEF Inv, AwaitInv, Waiting
  <1>18. FunctionInv'
    <2>1. \A x \in SCall : scall'[x].fut = "done" => scall'[x].pc = "finished"
      BY <1>0, <1>2, <1>9, <1>10 DEF Inv, FunctionInv
    <2>2. \A x \in SCall : scall[x].pc = "none" => scall'[x].pc = "none"
      BY <1>0, <1>2, <1>9, <1>10
    <2> QED  BY <1>13, <2>1, <2>2, FunctionKept
  <1>19. LoopInv'
    BY <1>12, <1>13, LoopKept
  <1>20. CallInv'
    <2>1. ASSUME NEW x \in ACall \ {a}  PROVE CallOf(x)'
      <3>1. CallGoesOn(x)
        BY <1>12 DEF CallGoesOn, Inv, CallInv, CallOf
      <3> QED  BY <1>9, <1>12, <1>13, <3>1, CallKept
    <2>2. CallOf(a)'
      <3>1. CallOf(a)
        BY DEF Inv, CallInv
      <3> QED  BY <1>3, <1>9, <1>11, <1>12, <3>1 DEF CallOf
    <2> QED  BY <2>1, <2>2 DEF CallInv
  <1>21. TaskContextInv' /\ TaskContextLive'
    <2>1. \A x \in SCall : scall'[x].tcx = scall[x].tcx
      BY <1>0, <1>2, <1>9, <1>10
    <2> QED  BY <1>12, <1>13, <2>1, TaskContextKept
  <1>22. ParentInv'
    <2>1. \A x \in ACall :
              /\ acall'[x].tc = acall[x].tc /\ acall'[x].mode = acall[x].mode
              /\ acall'[x].pc = "posting" =>
                    acall[x].pc = "posting" /\ acall'[x].lp = acall[x].lp
      BY <1>3, <1>9, <1>11
    <2> QED  BY <1>12, <1>13, <1>14, <2>1, ParentKept
  <1>23. NeverLeftBehind'
    <2>1. \A x \in SCall : scall'[x].pc = scall[x].pc /\ scall'[x].fut = scall[x].fut
      BY <1>0, <1>2, <1>9, <1>10
    <2> QED  BY <1>12, <1>13, <2>1, LeftKept
  <1> QED  BY <1>14, <1>15, <1>16, <1>17, <1>18, <1>19, <1>20, <1>21, <1>22, <1>23 DEF Inv

\* A task is made, maybe with a loop of its own; the others go on as they are.
Made(m, q) ==
    /\ task' \in [Task -> TaskType] /\ task'[m] = q
    /\ \A n \in Task \ {m} : task'[n] = task[n]
    /\ \A l \in Loop : loop[l] # "off" => loop'[l] = loop[l]
    /\ \A n \in Task :
          /\ task'[n].pc \in Waiting <=> task'[n].on # None
          /\ task'[n].on = task[n].on
          /\ task'[n].pc = "join" => task[n].pc = "join" /\ task'[n].join = task[n].join
          /\ task[n].pc # "none" => task'[n] = task[n]
          /\ task[n].pc = "none" /\ task'[n].pc # "none" =>
                task'[n].loop # None /\ loop'[task'[n].loop] # "off"
    /\ \A l \in ACall \cup Spawn : task'[l].pc = "none" => loop'[l] = loop[l]
    /\ \A a \in ACall \ {m} : CallGoesOn(a) /\ (task'[a].pc = "none" <=> task[a].pc = "none")

LEMMA TaskIsMade ==
    ASSUME Inv, NEW m \in ACall \cup Spawn, task[m].pc = "none", NEW q \in TaskType,
           q.pc \in {"posted", "created"}, q.on = None, q.loop # None,
           task' = [task EXCEPT ![m] = q], loop'[q.loop] # "off",
           \A l \in Loop : loop'[l] = loop[l] \/ (l = m /\ loop'[l] = "run")
    PROVE  Made(m, q)
  <1>1. m \in Task /\ m \in Loop /\ ACall \subseteq Task /\ Spawn \subseteq Task /\ Loop = Task
    BY DEF Task, Loop
  <1>2. /\ task' \in [Task -> TaskType]
        /\ task'[m] = q /\ \A x \in Task \ {m} : task'[x] = task[x]
    BY <1>1, TaskChange
  <1>3. loop[m] = "off" /\ task[m].on = None
    BY <1>1 DEF Inv, LoopInv, AwaitInv
  <1>4. \A a \in ACall \ {m} : CallGoesOn(a) /\ (task'[a].pc = "none" <=> task[a].pc = "none")
    BY <1>1, <1>2, SameIsQuiet DEF QuietTask
  <1>5. \A n \in Task \ {m} : task'[n].pc \in Waiting <=> task'[n].on # None
    BY <1>2 DEF Inv, AwaitInv, Waiting
  <1>6. ~(task'[m].pc \in Waiting) /\ task'[m].on = None
    BY <1>2 DEF Waiting
  <1>7. \A l \in Loop : loop[l] # "off" => loop'[l] = loop[l]
    BY <1>3
  <1>8. \A l \in ACall \cup Spawn : task'[l].pc = "none" => loop'[l] = loop[l]
    BY <1>1, <1>2
  <1> QED  BY <1>1, <1>2, <1>3, <1>4, <1>5, <1>6, <1>7, <1>8 DEF Made

LEMMA CreateUserTaskStep ==
    ASSUME Inv, NEW n \in Task, NEW m \in Spawn, NEW fresh \in BOOLEAN, CreateUserTask(n, m, fresh)
    PROVE  Inv'
  <1>1. task[n].pc = "run" /\ task[n].loop # None /\ loop[task[n].loop] # "off" /\ task[n] \in TaskType
    BY DEF CreateUserTask, RunsCode, Inv, LoopInv, TypeOK
  <1>2. PICK late \in BOOLEAN : late = (loop[task[n].loop] = "closing")
    OBVIOUS
  <1>3. PICK c \in Ctx : c = IF fresh THEN EmptyCtx ELSE task[n].ctx
    BY <1>1, RecordTypes DEF TaskType
  <1>4. PICK l \in Loop : l = task[n].loop
    BY <1>1 DEF TaskType
  <1>5. NoTask \in TaskType
    BY RecordTypes
  <1>6. PICK q \in TaskType : q = [NoTask EXCEPT !.pc = "created", !.loop = l, !.ctx = c, !.late = late]
    BY <1>5 DEF TaskType
  <1>7. task' = [task EXCEPT ![m] = q]
    BY <1>2, <1>3, <1>4, <1>6, Zenon DEF CreateUserTask
  <1>8. q.pc = "created" /\ q.on = None /\ q.loop = l /\ l # None
    BY <1>1, <1>4, <1>6 DEF NoTask
  <1>9. /\ UNCHANGED <<scall, acall, stack, tlocal, loop, cancels>> /\ task[m].pc = "none"
        /\ m \in ACall \cup Spawn /\ m \notin ACall /\ loop'[l] # "off"
    BY <1>1, <1>4, ConstantsAssumption DEF CreateUserTask
  <1>10. Made(m, q)
    <2>1. /\ q.pc \in {"posted", "created"} /\ q.loop # None /\ loop'[q.loop] # "off"
          /\ \A x \in Loop : loop'[x] = loop[x] \/ (x = m /\ loop'[x] = "run")
      BY <1>8, <1>9
    <2> QED  BY <1>7, <1>8, <1>9, <2>1, TaskIsMade
  <1>11. TypeOK'
    BY <1>9, <1>10 DEF Inv, TypeOK, Made
  <1>12. Grows
    BY <1>9, <1>10 DEF Grows, Started, Live, Made
  <1>13. StackInv'
    BY <1>9, <1>11, <1>12, StackKept
  <1>14. ContextInv'
    BY <1>9, <1>11, <1>12, ContextStays DEF Inv, ContextInv
  <1>15. AwaitInv'
    BY <1>10, <1>11, <1>12, AwaitKept DEF Made
  <1>16. FunctionInv'
    BY <1>9, <1>12, FunctionKept DEF Inv, FunctionInv
  <1>17. LoopInv'
    BY <1>10, <1>12, LoopKept DEF Made
  <1>18. CallInv'
    BY <1>9, <1>10, <1>12, CallKept DEF CallInv, Made
  <1>19. TaskContextInv' /\ TaskContextLive'
    BY <1>9, <1>10, <1>12, TaskContextKept DEF Live, Task, Made
  <1>20. ParentInv'
    BY <1>9, <1>11, <1>12, ParentKept
  <1>21. NeverLeftBehind'
    BY <1>9, <1>10, <1>12, LeftKept DEF Made
  <1> QED  BY <1>11, <1>13, <1>14, <1>15, <1>16, <1>17, <1>18, <1>19, <1>20, <1>21 DEF Inv

LEMMA RunUserLoopStep ==
    ASSUME Inv, NEW t \in Thread, NEW m \in Spawn, RunUserLoop(t, m)
    PROVE  Inv'
  <1>0. m \in ACall \cup Spawn /\ m \notin ACall /\ m \notin Frame /\ m \in Loop /\ m # None
        /\ m \in Task
    BY ConstantsAssumption DEF Frame, Loop, Task
  <1>1. PICK f \in Frame : f = Top(t)
    BY DEF RunUserLoop
  <1>2. PICK c \in Ctx : c = scall[f].ctx
    BY DEF Inv, TypeOK, SCallType
  <1>3. NoTask \in TaskType
    BY RecordTypes
  <1>4. PICK q \in TaskType : q = [NoTask EXCEPT !.pc = "created", !.loop = m, !.ctx = c]
    BY <1>0, <1>3 DEF TaskType
  <1>5. /\ task' = [task EXCEPT ![m] = q] /\ task[m].pc = "none"
        /\ stack' = [stack EXCEPT ![t] = Append(@, m)] /\ loop' = [loop EXCEPT ![m] = "run"]
        /\ UNCHANGED <<scall, acall, tlocal, cancels>>
    BY <1>1, <1>2, <1>4 DEF RunUserLoop
  <1>6. q.pc = "created" /\ q.on = None /\ q.loop = m
    BY <1>4 DEF NoTask
  <1>7. loop'[m] = "run" /\ \A l \in Loop \ {m} : loop'[l] = loop[l]
    BY <1>0, <1>5 DEF Inv, TypeOK
  <1>10. Made(m, q)
    <2>1. /\ q.pc \in {"posted", "created"} /\ q.loop # None /\ loop'[q.loop] # "off"
          /\ \A x \in Loop : loop'[x] = loop[x] \/ (x = m /\ loop'[x] = "run")
      BY <1>0, <1>6, <1>7
    <2> QED  BY <1>0, <1>5, <1>6, <2>1, TaskIsMade
  <1>11. TypeOK'
    <2>1. Append(stack[t], m) \in Seq(Frame \cup ACall \cup Spawn)
      BY <1>0, AppendFacts DEF Inv, TypeOK
    <2>2. stack' \in [Thread -> Seq(Frame \cup ACall \cup Spawn)]
      BY <1>5, <2>1 DEF Inv, TypeOK
    <2>3. loop' \in [Loop -> {"off", "run", "gap", "closing", "stopped", "closed"}]
      BY <1>5 DEF Inv, TypeOK
    <2> QED  BY <1>5, <1>10, <2>2, <2>3 DEF Inv, TypeOK, Made
  <1>12. Grows
    BY <1>5, <1>10 DEF Grows, Started, Live, Made
  <1>13. StackInv'
    <2>1. \A k \in 1..Len(stack[t]) : stack[t][k] # m
      BY <1>5 DEF Inv, StackInv
    <2>2. stack[t] # <<>> /\ (Top(t) \in Frame <=> m \notin Frame)
      BY <1>0, <1>1, TopFacts
    <2>3. task'[m].pc # "none"
      BY <1>6, <1>10 DEF Made
    <2> QED  BY <1>0, <1>5, <1>12, <2>1, <2>2, <2>3, StackPush
  <1>14. ContextInv'
    <2>1. \A x \in SCall : scall'[x].pc = "queued" => scall'[x].ctx.cur = scall'[x].cur0
      BY <1>5 DEF Inv, ContextInv
    <2> QED  BY <1>0, <1>1, <1>5, <1>12, <2>1, ContextPush
  <1>15. AwaitInv'
    BY <1>10, <1>11, <1>12, AwaitKept DEF Made
  <1>16. FunctionInv'
    BY <1>5, <1>12, FunctionKept DEF Inv, FunctionInv
  <1>17. LoopInv'
    BY <1>10, <1>12, LoopKept DEF Made
  <1>18. CallInv'
    BY <1>0, <1>5, <1>10, <1>12, CallKept DEF CallInv, Made
  <1>19. TaskContextInv' /\ TaskContextLive'
    BY <1>5, <1>10, <1>12, TaskContextKept DEF Live, Task, Made
  <1>20. ParentInv'
    BY <1>5, <1>11, <1>12, ParentKept
  <1>21. NeverLeftBehind'
    BY <1>5, <1>10, <1>12, LeftKept DEF Made
  <1> QED  BY <1>11, <1>13, <1>14, <1>15, <1>16, <1>17, <1>18, <1>19, <1>20, <1>21 DEF Inv

\* The task of a call is made, and what is left to show of it is the call itself.
LEMMA CallIsMade ==
    ASSUME Inv, Grows, TypeOK', StackInv', ContextInv', NEW a \in ACall, NEW q, Made(a, q),
           q.pc \in {"posted", "created"}, tlocal' = tlocal, CallOf(a)',
           \A x \in ACall \ {a} : acall'[x] = acall[x],
           \A s \in SCall :
              /\ scall'[s].tcx = scall[s].tcx /\ scall'[s].fut = scall[s].fut
              /\ scall'[s].pc = scall[s].pc,
           \A s \in SCall : acall'[a].tc = s =>
              /\ scall[s].pc # "none" /\ acall'[a].pc # "posting"
              /\ acall'[a].mode = "main" => task'[a].loop = task[scall[s].by].loop
    PROVE  Inv'
  <1>1. AwaitInv'
    BY AwaitKept DEF Made
  <1>2. FunctionInv'
    <2>1. \A s \in SCall : scall[s].fut = "done" => scall[s].pc = "finished"
      BY DEF Inv, FunctionInv
    <2> QED  BY <2>1, FunctionKept
  <1>3. LoopInv'
    BY LoopKept DEF Made
  <1>4. CallInv'
    BY CallKept DEF CallInv, Made
  <1>5. TaskContextInv' /\ TaskContextLive'
    BY TaskContextKept DEF Live, Task, Made
  <1>6. ParentInv'
    <2>1. ASSUME NEW x \in ACall \ {a}, NEW s \in SCall, acall'[x].tc = s
          PROVE  /\ scall[s].pc # "none"
                 /\ acall'[x].pc = "posting" => acall'[x].lp = task[scall[s].by].loop
                 /\ acall'[x].mode = "main" => task'[x].loop = task[scall[s].by].loop
      <3>1. acall[x].tc = s /\ s # None /\ acall'[x] = acall[x] /\ task'[x] = task[x]
        BY <2>1, ConstantsAssumption DEF Made, Task
      <3>2. /\ scall[s].pc # "none"
            /\ acall[x].pc = "posting" => acall[x].lp = task[scall[s].by].loop
            /\ acall[x].mode = "main" => task[x].loop = task[scall[s].by].loop
        <4>1. ParentInv
          BY DEF Inv
        <4> QED  BY <3>1, <4>1, Zenon DEF ParentInv
      <3> QED  BY <3>1, <3>2
    <2> QED  BY <2>1, ParentGrows
  <1>7. NeverLeftBehind'
    BY LeftKept DEF Made
  <1> QED  BY <1>1, <1>2, <1>3, <1>4, <1>5, <1>6, <1>7 DEF Inv

\* A new loop: the call and its task.
LEMMA NewLoopFacts ==
    ASSUME Inv, NEW a \in ACall, NEW u \in ACallType, OnNewLoop(a, u), task[a].pc = "none",
           u.res = "none"
    PROVE  /\ acall' \in [ACall -> ACallType]
           /\ \A x \in ACall \ {a} : acall'[x] = acall[x]
           /\ acall'[a].thr = u.thr /\ acall'[a].old = u.old /\ acall'[a].tc = u.tc
           /\ acall'[a].pc = "parked" /\ acall'[a].mode = "new"
           /\ loop' \in [Loop -> {"off", "run", "gap", "closing", "stopped", "closed"}]
           /\ CallOf(a)'
           /\ \E q : Made(a, q) /\ q.pc \in {"posted", "created"}
  <1>0. a \in ACall \cup Spawn /\ a \in Loop /\ a # None /\ a \in Task
    BY ConstantsAssumption DEF Loop, Task
  <1>1. PICK v \in ACallType : v = [u EXCEPT !.pc = "parked", !.mode = "new", !.lp = a]
    BY <1>0 DEF ACallType
  <1>2. acall' = [acall EXCEPT ![a] = v] /\ loop' = [loop EXCEPT ![a] = "run"]
    BY <1>1 DEF OnNewLoop
  <1>3. /\ v.pc = "parked" /\ v.mode = "new" /\ v.thr = u.thr /\ v.old = u.old /\ v.tc = u.tc
        /\ v.cell = u.cell /\ v.res = u.res
    BY <1>1 DEF ACallType
  <1>4. PICK c \in Ctx : c = u.cell
    BY DEF ACallType
  <1>5. NoTask \in TaskType
    BY RecordTypes
  <1>6. PICK q \in TaskType : q = [NoTask EXCEPT !.pc = "created", !.loop = a, !.ctx = c]
    BY <1>0, <1>5 DEF TaskType
  <1>7. task' = [task EXCEPT ![a] = q]
    BY <1>4, <1>6 DEF OnNewLoop
  <1>8. q.pc = "created" /\ q.on = None /\ q.loop = a /\ q.ctx = c /\ q.cancel = FALSE
    BY <1>6 DEF NoTask
  <1>9. loop'[a] = "run" /\ \A l \in Loop \ {a} : loop'[l] = loop[l]
    BY <1>0, <1>2 DEF Inv, TypeOK
  <1>10. Made(a, q)
    <2>1. /\ q.pc \in {"posted", "created"} /\ q.loop # None /\ loop'[q.loop] # "off"
          /\ \A x \in Loop : loop'[x] = loop[x] \/ (x = a /\ loop'[x] = "run")
      BY <1>0, <1>8, <1>9
    <2> QED  BY <1>0, <1>7, <1>8, <2>1, TaskIsMade
  <1>11. acall'[a] = v /\ task'[a] = q
    BY <1>2, <1>10, CallChange DEF Made
  <1>12. CallOf(a)'
    BY <1>0, <1>3, <1>4, <1>8, <1>9, <1>11 DEF CallOf
  <1>13. loop' \in [Loop -> {"off", "run", "gap", "closing", "stopped", "closed"}]
    BY <1>2 DEF Inv, TypeOK
  <1>14. q.pc \in {"posted", "created"}
    BY <1>8
  <1>15. acall' \in [ACall -> ACallType] /\ \A x \in ACall \ {a} : acall'[x] = acall[x]
    BY <1>2, CallChange
  <1> QED  BY <1>3, <1>10, <1>11, <1>12, <1>13, <1>14, <1>15

LEMMA CallSoonThreadsafeStep ==
    ASSUME Inv, NEW a \in ACall, CallSoonThreadsafe(a)
    PROVE  Inv'
  <1>0. a \in ACall \cup Spawn /\ a \in Loop /\ a # None /\ a \in Task
    BY ConstantsAssumption DEF Loop, Task
  <1>1. PICK u \in ACallType : u = acall[a]
    BY DEF Inv, TypeOK
  <1>2. /\ u.pc = "posting" /\ task[a].pc = "none" /\ u.res = "none" /\ u.mode = "none"
        /\ u.lp # None /\ loop[u.lp] # "off"
    BY <1>1 DEF CallSoonThreadsafe, Inv, CallInv, CallOf
  <1>3. UNCHANGED <<scall, stack, tlocal, cancels>>
    BY DEF CallSoonThreadsafe
  <1>4. /\ acall' \in [ACall -> ACallType]
        /\ \A x \in ACall \ {a} : acall'[x] = acall[x]
        /\ acall'[a].thr = u.thr /\ acall'[a].old = u.old /\ acall'[a].tc = u.tc
        /\ acall'[a].pc = "parked" /\ acall'[a].mode \in {"main", "new"}
        /\ loop' \in [Loop -> {"off", "run", "gap", "closing", "stopped", "closed"}]
        /\ CallOf(a)'
        /\ \E q : Made(a, q) /\ q.pc \in {"posted", "created"}
        /\ acall'[a].mode = "main" => task'[a].loop = u.lp
    <2>1. CASE loop[u.lp] = "closed"
      <3>1. OnNewLoop(a, u)
        BY <1>1, <2>1 DEF CallSoonThreadsafe
      <3> QED  BY <1>2, <2>1, <3>1, NewLoopFacts
    <2>2. CASE loop[u.lp] # "closed"
      <3>1. PICK v \in ACallType : v = [u EXCEPT !.pc = "parked", !.mode = "main"]
        BY DEF ACallType
      <3>2. PICK c \in Ctx : c = u.cell
        BY DEF ACallType
      <3>3. NoTask \in TaskType /\ u.lp \in Loop
        BY <1>2, RecordTypes DEF ACallType
      <3>13. PICK late \in BOOLEAN : late = (loop[u.lp] = "gap")
        OBVIOUS
      <3>4. PICK q \in TaskType : q = [NoTask EXCEPT !.pc = "posted", !.loop = u.lp, !.ctx = c,
                                                    !.late = late]
        BY <3>3 DEF TaskType
      <3>5. acall' = [acall EXCEPT ![a] = v] /\ loop' = loop /\ task' = [task EXCEPT ![a] = q]
        BY <1>1, <2>2, <3>1, <3>2, <3>4, <3>13 DEF CallSoonThreadsafe
      <3>6. /\ v.pc = "parked" /\ v.mode = "main" /\ v.thr = u.thr /\ v.old = u.old /\ v.tc = u.tc
            /\ v.cell = u.cell /\ v.res = u.res
        BY <3>1 DEF ACallType
      <3>7. q.pc = "posted" /\ q.on = None /\ q.loop = u.lp /\ q.ctx = c
        BY <3>4 DEF NoTask
      <3>8. Made(a, q) /\ q.pc \in {"posted", "created"}
        <4>1. /\ q.pc \in {"posted", "created"} /\ q.loop # None /\ loop'[q.loop] # "off"
              /\ \A x \in Loop : loop'[x] = loop[x] \/ (x = a /\ loop'[x] = "run")
          BY <1>2, <3>5, <3>7
        <4> QED  BY <1>0, <1>2, <3>5, <3>7, <4>1, TaskIsMade
      <3>9. acall'[a] = v /\ task'[a] = q
        BY <3>5, <3>8, CallChange DEF Made
      <3>10. CallOf(a)'
        BY <1>0, <1>2, <3>2, <3>6, <3>7, <3>9 DEF CallOf
      <3>11. acall' \in [ACall -> ACallType] /\ \A x \in ACall \ {a} : acall'[x] = acall[x]
        BY <3>5, CallChange
      <3>12. loop' \in [Loop -> {"off", "run", "gap", "closing", "stopped", "closed"}]
        BY <3>5 DEF Inv, TypeOK
      <3> QED  BY <3>6, <3>7, <3>8, <3>9, <3>10, <3>11, <3>12
    <2> QED  BY <2>1, <2>2
  <1>5. PICK q : Made(a, q) /\ q.pc \in {"posted", "created"}
    BY <1>4
  <1>6. TypeOK'
    BY <1>3, <1>4, <1>5 DEF Inv, TypeOK, Made
  <1>7. Grows
    <2>1. \A x \in ACall : acall[x].pc # "none" =>
             /\ acall'[x].pc # "none"
             /\ acall'[x].thr = acall[x].thr /\ acall'[x].old = acall[x].old
             /\ acall'[x].tc = acall[x].tc
             /\ acall[x].mode = "new" => acall'[x].mode = "new"
      BY <1>1, <1>2, <1>4
    <2> QED  BY <1>3, <1>5, <2>1 DEF Grows, Started, Live, Made
  <1>8. StackInv'
    BY <1>3, <1>4, <1>6, <1>7, StackKept
  <1>9. ContextInv'
    BY <1>3, <1>6, <1>7, ContextStays DEF Inv, ContextInv
  <1>10. ASSUME NEW s \in SCall, acall'[a].tc = s
         PROVE  /\ scall[s].pc # "none" /\ acall'[a].pc # "posting"
                /\ acall'[a].mode = "main" => task'[a].loop = task[scall[s].by].loop
    <2>1. acall[a].tc = s /\ s # None /\ acall[a].pc = "posting"
      BY <1>1, <1>2, <1>4, <1>10, ConstantsAssumption
    <2>2. scall[s].pc # "none" /\ u.lp = task[scall[s].by].loop
      BY <1>1, <2>1 DEF Inv, ParentInv
    <2> QED  BY <1>4, <2>2
  <1> QED  BY <1>3, <1>4, <1>5, <1>6, <1>7, <1>8, <1>9, <1>10, CallIsMade

LEMMA AsyncToSyncCallStep ==
    ASSUME Inv, NEW t \in Thread, NEW a \in ACall, NEW force \in BOOLEAN,
           AsyncToSyncCall(t, a, force)
    PROVE  Inv'
  <1>0. /\ a \in ACall \cup Spawn /\ a \in Loop /\ a # None /\ a \in Task /\ a \notin Frame
        /\ a \notin Spawn /\ SCall \subseteq Frame /\ a \in Frame \cup ACall \cup Spawn
    BY ConstantsAssumption DEF Loop, Task, Frame
  <1>1. PICK f \in Frame : f = Top(t) /\ scall[f].pc = "running"
    BY TopFacts DEF AsyncToSyncCall
  <1>2. PICK r \in SCallType : r = scall[f]
    BY DEF Inv, TypeOK
  <1>3. r.ctx \in Ctx /\ r.ctx.cur \in ACall \cup {None}
    BY DEF SCallType, Ctx
  <1>4. PICK c \in Ctx : c = [r.ctx EXCEPT !.cur = a]
    <2>1. [r.ctx EXCEPT !.cur = a] \in Ctx
      BY <1>3, CtxFacts, Zenon
    <2> QED  BY <2>1, Zenon
  <1>5. PICK w \in SCallType : w = [r EXCEPT !.ctx = c]
    BY DEF SCallType
  <1>6. scall' = [scall EXCEPT ![f] = w]
    BY <1>1, <1>2, <1>4, <1>5 DEF AsyncToSyncCall
  <1>7. scall'[f] = w /\ \A x \in Frame \ {f} : scall'[x] = scall[x]
    BY <1>6, FunctionChange
  <1>8. /\ w.pc = r.pc /\ w.by = r.by /\ w.cur0 = r.cur0 /\ w.thr = r.thr
        /\ w.tcx = r.tcx /\ w.fut = r.fut
    BY <1>5 DEF SCallType
  <1>9. PICK tl \in [loop : Loop \cup {None}, tc : SCall \cup {None}] : tl = tlocal[t]
    BY DEF Inv, TypeOK
  <1>10. PICK u \in ACallType : u = [NoACall EXCEPT !.thr = t, !.old = r.ctx.cur, !.tc = tl.tc, !.cell = c]
    <2>1. NoACall \in ACallType
      BY RecordTypes
    <2> QED  BY <1>3, <2>1 DEF ACallType
  <1>11. u.thr = t /\ u.old = r.ctx.cur /\ u.tc = tl.tc /\ u.res = "none" /\ u.mode = "none"
    BY <1>10 DEF NoACall
  <1>12. /\ stack' = [stack EXCEPT ![t] = Append(@, a)] /\ UNCHANGED <<tlocal, cancels>>
         /\ acall[a].pc = "none" /\ force \in ForceNewLoop
    BY DEF AsyncToSyncCall
  <1>13. task[a].pc = "none" /\ loop[a] = "off"
    BY <1>0, <1>12 DEF Inv, CallInv, CallOf, LoopInv
  <1>14. PICK parent : parent = IF force THEN None ELSE tl.loop
    OBVIOUS
  <1>15. \A s \in SCall : tl.tc = s => scall[s].pc # "none" /\ tl.loop = task[scall[s].by].loop
    BY <1>9, ConstantsAssumption DEF Inv, ParentInv
  <1>16. \A s \in SCall :
            /\ scall'[s].tcx = scall[s].tcx /\ scall'[s].fut = scall[s].fut
            /\ scall'[s].pc = scall[s].pc
    BY <1>0, <1>2, <1>7, <1>8
  <1>17. \/ /\ parent # None /\ IsRunning(parent)
            /\ acall' = [acall EXCEPT ![a] = [u EXCEPT !.pc = "posting", !.lp = parent]]
            /\ UNCHANGED <<task, loop>>
         \/ OnNewLoop(a, u)
    BY <1>1, <1>2, <1>4, <1>9, <1>10, <1>14 DEF AsyncToSyncCall
  \* What both ways have in common.
  <1>18. ASSUME task' \in [Task -> TaskType], acall' \in [ACall -> ACallType],
                loop' \in [Loop -> {"off", "run", "gap", "closing", "stopped", "closed"}],
                \A x \in ACall \ {a} : acall'[x] = acall[x],
                acall'[a].thr = t, acall'[a].old = r.ctx.cur, acall'[a].pc \in {"posting", "parked"},
                \A n \in Task : task[n].pc # "none" => task'[n] = task[n],
                \A l \in Loop : loop[l] # "off" => loop'[l] = loop[l]
         PROVE  TypeOK' /\ Grows /\ StackInv' /\ ContextInv'
    <2>1. TypeOK'
      <3>1. Append(stack[t], a) \in Seq(Frame \cup ACall \cup Spawn)
        BY <1>0, AppendFacts DEF Inv, TypeOK
      <3>2. stack' \in [Thread -> Seq(Frame \cup ACall \cup Spawn)]
        BY <1>12, <3>1 DEF Inv, TypeOK
      <3> QED  BY <1>6, <1>12, <1>18, <3>2, FunctionChange DEF Inv, TypeOK
    <2>2. Grows
      <3>1. \A x \in Frame : scall[x].pc # "none" =>
               /\ scall'[x].pc # "none"
               /\ scall'[x].by = scall[x].by /\ scall'[x].cur0 = scall[x].cur0
        BY <1>2, <1>7, <1>8
      <3> QED  BY <1>12, <1>18, <3>1 DEF Grows, Started, Live
    <2>3. StackInv'
      <3>1. \A k \in 1..Len(stack[t]) : stack[t][k] # a
        BY <1>0, <1>12 DEF Inv, StackInv
      <3>2. stack[t] # <<>> /\ (Top(t) \in Frame <=> a \notin Frame)
        BY <1>0, <1>1, TopFacts
      <3>3. \A x \in Frame : scall[x].pc = "running" =>
               scall'[x].pc = "running" /\ scall'[x].thr = scall[x].thr
        BY <1>2, <1>7, <1>8
      <3> QED  BY <1>0, <1>12, <1>18, <2>2, <3>1, <3>2, <3>3, StackPush
    <2>4. ContextInv'
      <3>1. \A x \in SCall : scall'[x].pc = "queued" => scall'[x].ctx.cur = scall'[x].cur0
        BY <1>0, <1>1, <1>2, <1>7, <1>8 DEF Inv, ContextInv
      <3>2. acall'[a].old = scall[Top(t)].ctx.cur
        BY <1>1, <1>2, <1>18
      <3>3. \A x \in Frame : ~(x = Top(t) /\ a \in ACall) => scall'[x].ctx.cur = scall[x].ctx.cur
        BY <1>1, <1>7
      <3>4. Top(t) \in Frame <=> a \notin Frame
        BY <1>0, <1>1
      <3> QED  BY <1>0, <1>12, <2>2, <3>1, <3>2, <3>3, <3>4, ContextPush
    <2> QED  BY <2>1, <2>2, <2>3, <2>4
  <1>19. CASE /\ parent # None /\ IsRunning(parent)
              /\ acall' = [acall EXCEPT ![a] = [u EXCEPT !.pc = "posting", !.lp = parent]]
              /\ UNCHANGED <<task, loop>>
    <2>1. parent = tl.loop /\ parent \in Loop
      BY <1>14, <1>19
    <2>2. PICK v \in ACallType : v = [u EXCEPT !.pc = "posting", !.lp = parent]
      BY <2>1 DEF ACallType
    <2>3. acall' = [acall EXCEPT ![a] = v] /\ task' = task /\ loop' = loop
      BY <1>19, <2>2
    <2>4. /\ v.pc = "posting" /\ v.lp = parent /\ v.mode = "none" /\ v.thr = t /\ v.tc = tl.tc
          /\ v.old = r.ctx.cur /\ v.res = "none"
      BY <1>11, <2>2 DEF ACallType
    <2>5. /\ acall' \in [ACall -> ACallType] /\ acall'[a] = v
          /\ \A x \in ACall \ {a} : acall'[x] = acall[x]
      BY <2>3, CallChange
    <2>6. TypeOK' /\ Grows /\ StackInv' /\ ContextInv'
      <3>1. task' \in [Task -> TaskType] /\ loop' \in [Loop -> {"off", "run", "gap", "closing", "stopped", "closed"}]
        BY <2>3 DEF Inv, TypeOK
      <3> QED  BY <1>18, <2>3, <2>4, <2>5, <3>1
    <2>7. AwaitInv'
      BY <2>3, <2>6, AwaitKept DEF Inv, AwaitInv, Waiting
    <2>8. FunctionInv'
      <3>1. \A s \in SCall : scall[s].fut = "done" => scall[s].pc = "finished"
        BY DEF Inv, FunctionInv
      <3> QED  BY <1>16, <2>6, <3>1, FunctionKept
    <2>9. LoopInv'
      BY <2>3, <2>6, LoopKept
    <2>10. CallInv'
      <3>1. \A x \in ACall : CallGoesOn(x)
        BY <2>3 DEF CallGoesOn, Inv, CallInv, CallOf
      <3>2. loop[parent] # "off"
        BY <1>19 DEF IsRunning
      <3>3. CallOf(a)'
        BY <1>13, <1>19, <2>3, <2>4, <2>5, <3>2 DEF CallOf
      <3> QED  BY <2>3, <2>5, <2>6, <3>1, <3>3, CallKept DEF CallInv
    <2>11. TaskContextInv' /\ TaskContextLive'
      BY <1>16, <2>3, <2>6, TaskContextKept
    <2>12. ParentInv'
      <3>1. ASSUME NEW x \in ACall \ {a}, NEW s \in SCall, acall'[x].tc = s
            PROVE  /\ scall[s].pc # "none"
                   /\ acall'[x].pc = "posting" => acall'[x].lp = task[scall[s].by].loop
                   /\ acall'[x].mode = "main" => task'[x].loop = task[scall[s].by].loop
        <4>1. acall[x].tc = s /\ s # None /\ acall'[x] = acall[x] /\ task'[x] = task[x]
          BY <2>3, <2>5, <3>1, ConstantsAssumption
        <4> QED  BY <4>1 DEF Inv, ParentInv
      <3>2. ASSUME NEW s \in SCall, acall'[a].tc = s
            PROVE  /\ scall[s].pc # "none"
                   /\ acall'[a].lp = task[scall[s].by].loop
                   /\ acall'[a].mode = "none"
        BY <1>15, <2>1, <2>4, <2>5, <3>2
      <3> QED  BY <1>12, <2>6, <3>1, <3>2, ParentGrows
    <2>13. NeverLeftBehind'
      BY <1>16, <2>3, <2>6, LeftKept
    <2> QED  BY <2>6, <2>7, <2>8, <2>9, <2>10, <2>11, <2>12, <2>13 DEF Inv
  <1>20. CASE OnNewLoop(a, u)
    <2>2. /\ acall' \in [ACall -> ACallType]
          /\ \A x \in ACall \ {a} : acall'[x] = acall[x]
          /\ acall'[a].thr = t /\ acall'[a].old = r.ctx.cur /\ acall'[a].tc = tl.tc
          /\ acall'[a].pc = "parked" /\ acall'[a].mode = "new"
          /\ loop' \in [Loop -> {"off", "run", "gap", "closing", "stopped", "closed"}]
          /\ CallOf(a)'
          /\ \E q : Made(a, q) /\ q.pc \in {"posted", "created"}
      BY <1>11, <1>13, <1>20, NewLoopFacts
    <2>3. PICK q : Made(a, q) /\ q.pc \in {"posted", "created"}
      BY <2>2
    <2>4. TypeOK' /\ Grows /\ StackInv' /\ ContextInv'
      BY <1>18, <2>2, <2>3 DEF Made
    <2>5. ASSUME NEW s \in SCall, acall'[a].tc = s
          PROVE  /\ scall[s].pc # "none" /\ acall'[a].pc # "posting"
                 /\ acall'[a].mode = "main" => task'[a].loop = task[scall[s].by].loop
      BY <1>15, <2>2, <2>5
    <2> QED  BY <1>12, <1>16, <2>2, <2>3, <2>4, <2>5, CallIsMade
  <1> QED  BY <1>17, <1>19, <1>20

-----------------------------------------------------------------------------
(* The task of a call starts, ends and sets call_result. *)

\* Such a step leaves alone everything but the task, its call and a task_context.
LEMMA MainWrapStep ==
    ASSUME Inv, NEW n \in Task, NEW q \in TaskType, task' = [task EXCEPT ![n] = q],
           q.loop = task[n].loop, q.on = None, task[n].on = None,
           task[n].pc \in {"created", "run", "ending"}, q.pc \in {"run", "ending", "done"},
           UNCHANGED <<stack, tlocal, loop, cancels>>,
           acall' \in [ACall -> ACallType],
           \A x \in ACall :
              /\ acall'[x].pc = acall[x].pc /\ acall'[x].thr = acall[x].thr
              /\ acall'[x].old = acall[x].old /\ acall'[x].tc = acall[x].tc
              /\ acall'[x].mode = acall[x].mode /\ acall'[x].lp = acall[x].lp,
           \A x \in ACall \ {n} : acall'[x] = acall[x],
           n \in ACall => CallOf(n)',
           scall' \in [Frame -> SCallType],
           \A f \in Frame :
              /\ scall'[f].pc = scall[f].pc /\ scall'[f].by = scall[f].by
              /\ scall'[f].cur0 = scall[f].cur0 /\ scall'[f].thr = scall[f].thr
              /\ scall'[f].ctx = scall[f].ctx /\ scall'[f].fut = scall[f].fut,
           Grows => TaskContextInv' /\ TaskContextLive'
    PROVE  Inv'
  <1>0. SCall \subseteq Frame /\ ACall \subseteq Task
    BY DEF Frame, Task
  <1>1. task' \in [Task -> TaskType] /\ task'[n] = q /\ \A x \in Task \ {n} : task'[x] = task[x]
    BY TaskChange
  <1>2. TypeOK'
    BY <1>1 DEF Inv, TypeOK
  <1>3. Grows
    BY <1>1 DEF Grows, Started, Live
  <1>4. StackInv'
    BY <1>2, <1>3, StackKept
  <1>5. ContextInv'
    <2>1. \A s \in SCall : scall'[s].pc = "queued" => scall'[s].ctx.cur = scall'[s].cur0
      BY <1>0 DEF Inv, ContextInv
    <2> QED  BY <1>2, <1>3, <2>1, ContextStays
  <1>6. AwaitInv'
    <2>1. \A x \in Task \ {n} : task'[x].pc \in Waiting <=> task'[x].on # None
      BY <1>1 DEF Inv, AwaitInv, Waiting
    <2>2. task'[n].pc \notin Waiting /\ task'[n].on = None
      BY <1>1 DEF Waiting
    <2>3. \A x \in Task :
             /\ task'[x].on = task[x].on
             /\ task'[x].pc = "join" => task[x].pc = "join" /\ task'[x].join = task[x].join
      BY <1>1
    <2> QED  BY <1>2, <1>3, <2>1, <2>2, <2>3, AwaitKept
  <1>7. FunctionInv'
    <2>1. \A s \in SCall :
             /\ scall'[s].fut = "done" => scall'[s].pc = "finished"
             /\ scall[s].pc = "none" => scall'[s].pc = "none"
      BY <1>0 DEF Inv, FunctionInv
    <2> QED  BY <1>3, <2>1, FunctionKept
  <1>8. LoopInv'
    BY <1>1, <1>3, LoopKept
  <1>9. CallInv'
    <2>1. ASSUME NEW x \in ACall \ {n}  PROVE CallOf(x)'
      <3>1. CallGoesOn(x) /\ (task'[x].pc = "none" <=> task[x].pc = "none")
        BY <1>0, <1>1, SameIsQuiet DEF QuietTask
      <3> QED  BY <1>3, <3>1, CallKept
    <2> QED  BY <2>1 DEF CallInv
  <1>10. ParentInv'
    BY <1>2, <1>3, ParentKept
  <1>11. NeverLeftBehind'
    <2>1. \A s \in SCall : scall'[s].pc = scall[s].pc /\ scall'[s].fut = scall[s].fut
      BY <1>0
    <2>2. \A x \in Task : task'[x].on = task[x].on
      BY <1>1
    <2> QED  BY <1>3, <2>1, <2>2, LeftKept
  <1> QED  BY <1>2, <1>3, <1>4, <1>5, <1>6, <1>7, <1>8, <1>9, <1>10, <1>11 DEF Inv

LEMMA SetResultStep ==
    ASSUME Inv, NEW a \in ACall, SetResult(a)
    PROVE  Inv'
  <1>0. a \in Task
    BY DEF Task
  <1>1. PICK r \in TaskType : r = task[a]
    BY <1>0 DEF Inv, TypeOK
  <1>2. PICK q \in TaskType : q = [r EXCEPT !.pc = "done"]
    BY DEF TaskType
  <1>3. PICK u \in ACallType : u = acall[a]
    BY DEF Inv, TypeOK
  <1>4. r.got \in Outcome /\ r.got # "none"
    BY DEF TaskType, Outcome
  <1>5. PICK v \in ACallType : v = [u EXCEPT !.res = r.got]
    BY <1>4 DEF ACallType
  <1>6. task' = [task EXCEPT ![a] = q] /\ acall' = [acall EXCEPT ![a] = v]
    BY <1>1, <1>2, <1>3, <1>5 DEF SetResult
  <1>7. r.pc = "ending" /\ UNCHANGED <<scall, stack, tlocal, loop, cancels>>
    BY <1>1 DEF SetResult
  <1>8. q.pc = "done" /\ q.loop = r.loop /\ q.on = r.on /\ q.ctx = r.ctx
    BY <1>2 DEF TaskType
  <1>9. /\ v.pc = u.pc /\ v.thr = u.thr /\ v.old = u.old /\ v.tc = u.tc /\ v.mode = u.mode
        /\ v.lp = u.lp /\ v.cell = u.cell /\ v.res = r.got
    BY <1>5 DEF ACallType
  <1>10. /\ acall' \in [ACall -> ACallType] /\ acall'[a] = v /\ \A x \in ACall \ {a} : acall'[x] = acall[x]
         /\ task'[a] = q /\ \A x \in Task \ {a} : task'[x] = task[x]
    BY <1>0, <1>6, CallChange, TaskChange
  <1>11. r.on = None
    BY <1>0, <1>1, <1>7 DEF Inv, AwaitInv
  <1>12. CallOf(a)'
    <2>1. CallOf(a)
      BY DEF Inv, CallInv
    <2> QED  BY <1>1, <1>3, <1>4, <1>7, <1>8, <1>9, <1>10, <2>1 DEF CallOf
  <1>13. Grows => TaskContextInv' /\ TaskContextLive'
    <2>1. \A x \in ACall : task[x].pc \in Live => task'[x].pc \in Live
      BY <1>1, <1>7, <1>10 DEF Live, Task
    <2> QED  BY <1>7, <2>1, TaskContextKept
  <1>14. \A x \in ACall :
              /\ acall'[x].pc = acall[x].pc /\ acall'[x].thr = acall[x].thr
              /\ acall'[x].old = acall[x].old /\ acall'[x].tc = acall[x].tc
              /\ acall'[x].mode = acall[x].mode /\ acall'[x].lp = acall[x].lp
    BY <1>3, <1>9, <1>10
  <1>15. scall' \in [Frame -> SCallType]
    BY <1>7 DEF Inv, TypeOK
  <1>16. task[a].pc \in {"created", "run", "ending"} /\ q.pc \in {"run", "ending", "done"}
         /\ q.loop = task[a].loop /\ q.on = None /\ task[a].on = None
    BY <1>1, <1>7, <1>8, <1>11
  <1> QED  BY <1>0, <1>6, <1>7, <1>10, <1>12, <1>13, <1>14, <1>15, <1>16, MainWrapStep

\* A task_context that holds what it held, but for one task that is put there or taken away.
LEMMA TaskContextChange ==
    ASSUME Inv, Grows, NEW n \in Task, \A x \in Task \ {n} : task'[x] = task[x],
           \A s \in SCall :
              /\ \A j, k \in 1..Len(scall'[s].tcx) : scall'[s].tcx[j] = scall'[s].tcx[k] => j = k
              /\ \A k \in 1..Len(scall'[s].tcx) :
                    \/ /\ scall'[s].tcx[k] = n /\ n \in ACall
                       /\ acall[n].pc # "none" /\ acall[n].tc = s /\ task'[n].pc \in Live
                    \/ /\ scall'[s].tcx[k] # n
                       /\ \E j \in 1..Len(scall[s].tcx) : scall'[s].tcx[k] = scall[s].tcx[j]
    PROVE  TaskContextInv' /\ TaskContextLive'
  <1>0. ACall \subseteq Task
    BY DEF Task
  <1>1. ASSUME NEW s \in SCall, NEW k \in 1..Len(scall'[s].tcx)
        PROVE  acall'[scall'[s].tcx[k]].tc = s /\ task'[scall'[s].tcx[k]].pc \in Live
    <2>1. CASE scall'[s].tcx[k] = n
      <3>1. n \in ACall /\ acall[n].pc # "none" /\ acall[n].tc = s /\ task'[n].pc \in Live
        BY <2>1
      <3> QED  BY <2>1, <3>1 DEF Grows
    <2>2. CASE scall'[s].tcx[k] # n
      <3>1. PICK j \in 1..Len(scall[s].tcx) : scall'[s].tcx[k] = scall[s].tcx[j]
        BY <2>2
      <3>2. /\ scall[s].tcx[j] \in ACall /\ acall[scall[s].tcx[j]].pc # "none"
            /\ acall[scall[s].tcx[j]].tc = s /\ task[scall[s].tcx[j]].pc \in Live
        BY OnTaskContext
      <3> QED  BY <1>0, <2>2, <3>1, <3>2 DEF Grows
    <2> QED  BY <2>1, <2>2
  <1>2. TaskContextInv'
    BY <1>1 DEF TaskContextInv
  <1>3. TaskContextLive'
    BY <1>1 DEF TaskContextLive, Live
  <1> QED  BY <1>2, <1>3

LEMMA TaskStartsStep ==
    ASSUME Inv, NEW n \in Task, TaskStarts(n)
    PROVE  Inv'
  <1>0. SCall \subseteq Frame
    BY DEF Frame
  <1>1. PICK r \in TaskType : r = task[n]
    BY DEF Inv, TypeOK
  <1>2. PICK q \in TaskType : q = [r EXCEPT !.pc = "run"]
    BY DEF TaskType
  <1>3. task' = [task EXCEPT ![n] = q]
    BY <1>1, <1>2 DEF TaskStarts
  <1>4. r.pc = "created" /\ q.pc = "run" /\ q.loop = r.loop /\ q.on = r.on
    BY <1>1, <1>2 DEF TaskType, TaskStarts
  <1>5. task'[n] = q /\ \A x \in Task \ {n} : task'[x] = task[x]
    BY <1>3, TaskChange
  <1>6. r.on = None
    BY <1>1, <1>4 DEF Inv, AwaitInv
  <1>7. UNCHANGED <<acall, stack, tlocal, loop, cancels>>
    BY DEF TaskStarts
  <1>8. n \in ACall => CallOf(n)'
    <2>1. n \in ACall => CallOf(n) /\ acall[n] \in ACallType
      BY DEF Inv, CallInv, TypeOK
    <2> QED  BY <1>1, <1>4, <1>5, <1>7, <2>1 DEF CallOf
  <1>9. \A s \in SCall : \A k \in 1..Len(scall[s].tcx) : scall[s].tcx[k] # n
    BY <1>1, <1>4, OnTaskContext DEF Live
  <1>10. acall' \in [ACall -> ACallType]
    BY <1>7 DEF Inv, TypeOK
  <1>11. task[n].pc \in {"created", "run", "ending"} /\ q.pc \in {"run", "ending", "done"}
         /\ q.loop = task[n].loop /\ q.on = None /\ task[n].on = None
    BY <1>1, <1>4, <1>6
  <1>12. CASE ~(n \in ACall /\ acall[n].tc # None)
    <2>1. scall' = scall
      BY <1>12 DEF TaskStarts
    <2>2. scall' \in [Frame -> SCallType]
      BY <2>1 DEF Inv, TypeOK
    <2>3. Grows => TaskContextInv' /\ TaskContextLive'
      <3>1. \A x \in ACall : task[x].pc \in Live => task'[x].pc \in Live
        BY <1>1, <1>4, <1>5 DEF Live, Task
      <3> QED  BY <2>1, <3>1, TaskContextKept
    <2> QED  BY <1>3, <1>7, <1>8, <1>10, <1>11, <2>1, <2>2, <2>3, MainWrapStep
  <1>13. CASE n \in ACall /\ acall[n].tc # None
    <2>1. PICK s \in SCall : s = acall[n].tc
      BY <1>13 DEF Inv, TypeOK, ACallType
    <2>2. PICK u \in SCallType : u = scall[s]
      BY <1>0 DEF Inv, TypeOK
    <2>3. PICK p \in Seq(ACall) : p = Append(u.tcx, n)
      <3>1. u.tcx \in Seq(ACall)
        BY DEF SCallType
      <3>2. \A o \in Seq(ACall) : Append(o, n) \in Seq(ACall)
        BY <1>13
      <3> QED  BY <3>1, <3>2, Zenon
    <2>4. PICK v \in SCallType : v = [u EXCEPT !.tcx = p]
      BY DEF SCallType
    <2>5. scall' = [scall EXCEPT ![s] = v]
      BY <1>13, <2>1, <2>2, <2>3, <2>4 DEF TaskStarts
    <2>6. /\ v.pc = u.pc /\ v.by = u.by /\ v.cur0 = u.cur0 /\ v.thr = u.thr /\ v.ctx = u.ctx
          /\ v.fut = u.fut /\ v.tcx = p
      BY <2>4 DEF SCallType
    <2>7. /\ scall' \in [Frame -> SCallType] /\ scall'[s] = v
          /\ \A f \in Frame \ {s} : scall'[f] = scall[f]
      BY <1>0, <2>5, FunctionChange
    <2>8. \A f \in Frame :
              /\ scall'[f].pc = scall[f].pc /\ scall'[f].by = scall[f].by
              /\ scall'[f].cur0 = scall[f].cur0 /\ scall'[f].thr = scall[f].thr
              /\ scall'[f].ctx = scall[f].ctx /\ scall'[f].fut = scall[f].fut
      BY <2>2, <2>6, <2>7
    <2>9. u.tcx \in Seq(ACall)
      BY DEF SCallType
    <2>10. PICK o \in Seq(ACall) : o = u.tcx
      BY <2>9, Zenon
    <2>11. p = Append(o, n)
      BY <2>3, <2>10, Zenon
    <2>12. /\ Len(o) \in Nat /\ Len(p) = Len(o) + 1 /\ p[Len(o) + 1] = n
           /\ \A k \in 1..Len(o) : p[k] = o[k]
      BY <1>13, <2>11
    <2>13. /\ \A k \in 1..Len(o) : o[k] # n
           /\ \A j, k \in 1..Len(o) : o[j] = o[k] => j = k
      BY <1>9, <2>2, <2>10 DEF Inv, TaskContextInv
    <2>14. \A k \in 1..Len(p) : k \in 1..Len(o) \/ (k = Len(o) + 1 /\ p[k] = n)
      BY <2>12
    <2>15. \A j, k \in 1..Len(p) : p[j] = p[k] => j = k
      BY <2>12, <2>13, <2>14
    <2>16. acall[n].pc # "none"
      BY <1>1, <1>4, <1>13 DEF Inv, CallInv, CallOf
    <2>17. ASSUME NEW x \in SCall
           PROVE  /\ \A j, k \in 1..Len(scall'[x].tcx) : scall'[x].tcx[j] = scall'[x].tcx[k] => j = k
                  /\ \A k \in 1..Len(scall'[x].tcx) :
                        \/ /\ scall'[x].tcx[k] = n /\ n \in ACall
                           /\ acall[n].pc # "none" /\ acall[n].tc = x /\ task'[n].pc \in Live
                        \/ /\ scall'[x].tcx[k] # n
                           /\ \E j \in 1..Len(scall[x].tcx) : scall'[x].tcx[k] = scall[x].tcx[j]
      <3>1. CASE x = s
        <4>1. scall'[x].tcx = p /\ scall[x].tcx = o
          BY <2>2, <2>6, <2>7, <2>10, <3>1
        <4>2. task'[n].pc \in Live
          BY <1>4, <1>5 DEF Live
        <4>3. ASSUME NEW k \in 1..Len(p), k \in 1..Len(o)
              PROVE  p[k] # n /\ \E j \in 1..Len(o) : p[k] = o[j]
          BY <2>12, <2>13, <4>3
        <4> QED  BY <1>13, <2>1, <2>14, <2>15, <2>16, <3>1, <4>1, <4>2, <4>3
      <3>2. CASE x # s
        <4>1. scall'[x] = scall[x]
          BY <1>0, <2>7, <3>2
        <4> QED  BY <1>9, <4>1 DEF Inv, TaskContextInv
      <3> QED  BY <3>1, <3>2
    <2>18. Grows => TaskContextInv' /\ TaskContextLive'
      BY <1>5, <2>17, TaskContextChange
    <2> QED  BY <1>3, <1>7, <1>8, <1>10, <1>11, <2>7, <2>8, <2>18, MainWrapStep
  <1> QED  BY <1>12, <1>13

\* What list.remove leaves of a task_context: each task once, and not the one removed.
LEMMA RemoveFirstLeaves ==
    ASSUME NEW S, NEW s \in Seq(S), NEW e,
           \A i, j \in 1..Len(s) : s[i] = s[j] => i = j
    PROVE  /\ RemoveFirst(s, e) \in Seq(S)
           /\ \A i, j \in 1..Len(RemoveFirst(s, e)) :
                 RemoveFirst(s, e)[i] = RemoveFirst(s, e)[j] => i = j
           /\ \A i \in 1..Len(RemoveFirst(s, e)) :
                 RemoveFirst(s, e)[i] # e /\ \E j \in 1..Len(s) : RemoveFirst(s, e)[i] = s[j]
  <1>1. CASE ~\E i \in 1..Len(s) : s[i] = e
    <2>1. RemoveFirst(s, e) = s
      BY <1>1 DEF RemoveFirst
    <2> QED  BY <1>1, <2>1
  <1>2. CASE \E i \in 1..Len(s) : s[i] = e
    <2>1. PICK k \in 1..Len(s) : s[k] = e
      BY <1>2
    <2>2. /\ RemoveFirst(s, s[k]) \in Seq(S)
          /\ Len(RemoveFirst(s, s[k])) = Len(s) - 1
          /\ \A i \in 1..(Len(s) - 1) :
                RemoveFirst(s, s[k])[i] = IF i < k THEN s[i] ELSE s[i + 1]
      BY RemoveFirstFacts
    <2>3. PICK p \in Seq(S) : p = RemoveFirst(s, e)
      BY <2>1, <2>2, Zenon
    <2>4. /\ Len(p) = Len(s) - 1
          /\ \A i \in 1..(Len(s) - 1) : p[i] = IF i < k THEN s[i] ELSE s[i + 1]
      BY <2>1, <2>2, <2>3, Zenon
    <2>5. ASSUME NEW i \in 1..Len(p)
          PROVE  \E m \in 1..Len(s) : m = (IF i < k THEN i ELSE i + 1) /\ m # k /\ p[i] = s[m]
      BY <2>4
    <2>6. \A i \in 1..Len(p) : p[i] # e /\ \E m \in 1..Len(s) : p[i] = s[m]
      BY <2>1, <2>5
    <2>7. ASSUME NEW i \in 1..Len(p), NEW j \in 1..Len(p), p[i] = p[j]  PROVE i = j
      <3>1. PICK m \in 1..Len(s) : m = (IF i < k THEN i ELSE i + 1) /\ p[i] = s[m]
        BY <2>5
      <3>2. PICK l \in 1..Len(s) : l = (IF j < k THEN j ELSE j + 1) /\ p[j] = s[l]
        BY <2>5
      <3>3. m = l
        BY <2>7, <3>1, <3>2
      <3> QED  BY <3>1, <3>2, <3>3
    <2> QED  BY <2>3, <2>6, <2>7, Zenon
  <1> QED  BY <1>1, <1>2

LEMMA TaskReturnsStep ==
    ASSUME Inv, NEW n \in Task, NEW g \in Outcome, TaskReturns(n, g)
    PROVE  Inv'
  <1>0. SCall \subseteq Frame
    BY DEF Frame
  <1>1. PICK r \in TaskType : r = task[n]
    BY DEF Inv, TypeOK
  <1>2. PICK q \in TaskType :
           q = [r EXCEPT !.pc = IF n \in ACall THEN "ending" ELSE "done", !.cancel = FALSE, !.got = g]
    BY DEF TaskType
  <1>3. task' = [task EXCEPT ![n] = q]
    BY <1>1, <1>2 DEF TaskReturns
  <1>4. /\ r.pc = "run" /\ q.pc = (IF n \in ACall THEN "ending" ELSE "done")
        /\ q.loop = r.loop /\ q.on = r.on /\ q.ctx = r.ctx
    BY <1>1, <1>2 DEF TaskType, TaskReturns
  <1>5. task'[n] = q /\ \A x \in Task \ {n} : task'[x] = task[x]
    BY <1>3, TaskChange
  <1>6. r.on = None
    BY <1>1, <1>4 DEF Inv, AwaitInv
  <1>7. UNCHANGED <<stack, tlocal, loop, cancels>>
    BY DEF TaskReturns
  <1>8. task[n].pc \in {"created", "run", "ending"} /\ q.pc \in {"run", "ending", "done"}
        /\ q.loop = task[n].loop /\ q.on = None /\ task[n].on = None
    BY <1>1, <1>4, <1>6
  <1>9. CASE n \notin ACall
    <2>1. scall' = scall /\ acall' = acall
      BY <1>9 DEF TaskReturns
    <2>2. scall' \in [Frame -> SCallType] /\ acall' \in [ACall -> ACallType]
      BY <2>1 DEF Inv, TypeOK
    <2>3. Grows => TaskContextInv' /\ TaskContextLive'
      <3>1. \A x \in ACall : task[x].pc \in Live => task'[x].pc \in Live
        BY <1>5, <1>9 DEF Task
      <3> QED  BY <2>1, <3>1, TaskContextKept
    <2> QED  BY <1>3, <1>7, <1>8, <1>9, <2>1, <2>2, <2>3, MainWrapStep
  <1>10. CASE n \in ACall
    <2>1. PICK u \in ACallType : u = acall[n]
      BY <1>10 DEF Inv, TypeOK
    <2>2. PICK v \in ACallType : v = [u EXCEPT !.cell = r.ctx]
      BY DEF ACallType, TaskType
    <2>3. acall' = [acall EXCEPT ![n] = v]
      BY <1>1, <1>10, <2>1, <2>2 DEF TaskReturns
    <2>4. /\ v.pc = u.pc /\ v.thr = u.thr /\ v.old = u.old /\ v.tc = u.tc /\ v.mode = u.mode
          /\ v.lp = u.lp /\ v.res = u.res /\ v.cell = r.ctx
      BY <2>2 DEF ACallType
    <2>5. /\ acall' \in [ACall -> ACallType] /\ acall'[n] = v
          /\ \A x \in ACall \ {n} : acall'[x] = acall[x]
      BY <1>10, <2>3, CallChange
    <2>6. \A x \in ACall :
              /\ acall'[x].pc = acall[x].pc /\ acall'[x].thr = acall[x].thr
              /\ acall'[x].old = acall[x].old /\ acall'[x].tc = acall[x].tc
              /\ acall'[x].mode = acall[x].mode /\ acall'[x].lp = acall[x].lp
      BY <2>1, <2>4, <2>5
    <2>7. CallOf(n)'
      <3>1. CallOf(n)
        BY <1>10 DEF Inv, CallInv
      <3> QED  BY <1>1, <1>4, <1>5, <1>7, <1>10, <2>1, <2>4, <2>5, <3>1 DEF CallOf
    <2>8. scall' = OffTaskContext(n)
      BY <1>10 DEF TaskReturns
    <2>9. \A s \in SCall : \A k \in 1..Len(scall[s].tcx) : scall[s].tcx[k] = n => s = u.tc
      BY <2>1, OnTaskContext
    <2>10. \A s \in SCall : \A j, k \in 1..Len(scall[s].tcx) :
              scall[s].tcx[j] = scall[s].tcx[k] => j = k
      BY DEF Inv, TaskContextInv
    <2>11. CASE u.tc = None
      <3>1. scall' = scall
        BY <2>1, <2>8, <2>11 DEF OffTaskContext
      <3>2. scall' \in [Frame -> SCallType]
        BY <3>1 DEF Inv, TypeOK
      <3>3. ASSUME NEW s \in SCall, NEW k \in 1..Len(scall[s].tcx)  PROVE scall[s].tcx[k] # n
        BY <2>9, <2>11, ConstantsAssumption
      <3>4. Grows => TaskContextInv' /\ TaskContextLive'
        BY <1>5, <2>10, <3>1, <3>3, TaskContextChange
      <3> QED  BY <1>3, <1>7, <1>8, <2>5, <2>6, <2>7, <3>1, <3>2, <3>4, MainWrapStep
    <2>12. CASE u.tc # None
      <3>1. PICK s \in SCall : s = u.tc
        BY <2>12 DEF ACallType
      <3>2. PICK w \in SCallType : w = scall[s]
        BY <1>0 DEF Inv, TypeOK
      <3>3. PICK o \in Seq(ACall) : o = w.tcx
        BY DEF SCallType
      <3>4. \A j, k \in 1..Len(o) : o[j] = o[k] => j = k
        BY <2>10, <3>2, <3>3
      <3>5. /\ RemoveFirst(o, n) \in Seq(ACall)
            /\ \A i, j \in 1..Len(RemoveFirst(o, n)) :
                  RemoveFirst(o, n)[i] = RemoveFirst(o, n)[j] => i = j
            /\ \A i \in 1..Len(RemoveFirst(o, n)) :
                  RemoveFirst(o, n)[i] # n /\ \E j \in 1..Len(o) : RemoveFirst(o, n)[i] = o[j]
        BY <3>4, RemoveFirstLeaves
      <3>6. PICK p \in Seq(ACall) : p = RemoveFirst(o, n)
        BY <3>5, Zenon
      <3>7. /\ \A i, j \in 1..Len(p) : p[i] = p[j] => i = j
            /\ \A i \in 1..Len(p) : p[i] # n /\ \E j \in 1..Len(o) : p[i] = o[j]
        BY <3>5, <3>6, Zenon
      <3>8. PICK z \in SCallType : z = [w EXCEPT !.tcx = p]
        BY DEF SCallType
      <3>9. scall' = [scall EXCEPT ![s] = z]
        BY <2>1, <2>8, <2>12, <3>1, <3>2, <3>3, <3>6, <3>8 DEF OffTaskContext
      <3>10. /\ z.pc = w.pc /\ z.by = w.by /\ z.cur0 = w.cur0 /\ z.thr = w.thr /\ z.ctx = w.ctx
             /\ z.fut = w.fut /\ z.tcx = p
        BY <3>8 DEF SCallType
      <3>11. /\ scall' \in [Frame -> SCallType] /\ scall'[s] = z
             /\ \A f \in Frame \ {s} : scall'[f] = scall[f]
        BY <1>0, <3>9, FunctionChange
      <3>12. \A f \in Frame :
                /\ scall'[f].pc = scall[f].pc /\ scall'[f].by = scall[f].by
                /\ scall'[f].cur0 = scall[f].cur0 /\ scall'[f].thr = scall[f].thr
                /\ scall'[f].ctx = scall[f].ctx /\ scall'[f].fut = scall[f].fut
        BY <3>2, <3>10, <3>11
      <3>13. ASSUME NEW x \in SCall
             PROVE  /\ \A j, k \in 1..Len(scall'[x].tcx) : scall'[x].tcx[j] = scall'[x].tcx[k] => j = k
                    /\ \A k \in 1..Len(scall'[x].tcx) :
                          /\ scall'[x].tcx[k] # n
                          /\ \E j \in 1..Len(scall[x].tcx) : scall'[x].tcx[k] = scall[x].tcx[j]
        <4>1. CASE x = s
          <5>1. scall'[x].tcx = p /\ scall[x].tcx = o
            BY <3>2, <3>3, <3>10, <3>11, <4>1
          <5> QED  BY <3>7, <5>1, Zenon
        <4>2. CASE x # s
          <5>1. scall'[x] = scall[x]
            BY <1>0, <3>11, <4>2
          <5> QED  BY <2>9, <2>10, <3>1, <4>2, <5>1
        <4> QED  BY <4>1, <4>2
      <3>14. Grows => TaskContextInv' /\ TaskContextLive'
        BY <1>5, <3>13, TaskContextChange
      <3> QED  BY <1>3, <1>7, <1>8, <2>5, <2>6, <2>7, <3>11, <3>12, <3>14, MainWrapStep
    <2> QED  BY <2>11, <2>12
  <1> QED  BY <1>9, <1>10

-----------------------------------------------------------------------------
(* The invariant holds in every reachable state. *)

\* At the start there is one frame, or one task on its loop.
LEMMA InitInv ==
    ASSUME Init
    PROVE  Inv
  <1>0. /\ SCall \subseteq Frame /\ Root \in Frame /\ Root \notin SCall /\ Root \notin ACall
        /\ Root \in Task /\ Root \notin Spawn /\ Task = Loop /\ Main \in Thread /\ Root # None
        /\ ACall \subseteq Task /\ Spawn \subseteq Task
    BY ConstantsAssumption DEF Frame, Task, Loop, Thread
  <1>1. PICK sync \in BOOLEAN :
          /\ task = [n \in Task |->
                IF n = Root /\ ~sync
                THEN [NoTask EXCEPT !.pc = "run", !.loop = Root] ELSE NoTask]
          /\ scall = [f \in Frame |->
                IF f = Root /\ sync
                THEN [NoSCall EXCEPT !.pc = "running", !.thr = Main] ELSE NoSCall]
          /\ stack = [t \in Thread |-> IF t = Main /\ sync THEN <<Root>> ELSE <<>>]
          /\ loop = [l \in Loop |-> IF l = Root /\ ~sync THEN "run" ELSE "off"]
    BY ConstantsAssumption, Zenon DEF Init
  <1>2. PICK r \in TaskType : r = [NoTask EXCEPT !.pc = "run", !.loop = Root]
    <2>1. PICK n \in TaskType : n = NoTask
      BY RecordTypes
    <2> QED  BY <1>0, <2>1 DEF TaskType
  <1>3. r.pc = "run" /\ r.loop = Root /\ r.on = None
    BY <1>2 DEF NoTask
  <1>4. PICK u \in SCallType : u = [NoSCall EXCEPT !.pc = "running", !.thr = Main]
    <2>1. PICK n \in SCallType : n = NoSCall
      BY RecordTypes
    <2> QED  BY <1>0, <2>1 DEF SCallType
  <1>5. u.pc = "running" /\ u.thr = Main /\ u.ctx = EmptyCtx /\ u.cur0 = None
    BY <1>4 DEF NoSCall
  <1>6. NoTask.pc = "none" /\ NoTask.on = None
    BY DEF NoTask
  <1>7. NoSCall.pc = "none" /\ NoSCall.fut = "pending" /\ NoSCall.tcx = <<>>
    BY DEF NoSCall
  <1>8. NoACall.pc = "none" /\ NoACall.mode = "none" /\ NoACall.res = "none" /\ NoACall.tc = None
    BY DEF NoACall
  <1>9. \A n \in Task : task[n] = (IF n = Root /\ ~sync THEN r ELSE NoTask)
    BY <1>1, <1>2, Zenon
  <1>10. \A f \in Frame : scall[f] = (IF f = Root /\ sync THEN u ELSE NoSCall)
    BY <1>1, <1>4, Zenon
  <1>11. \A t \in Thread : stack[t] = IF t = Main /\ sync THEN <<Root>> ELSE <<>>
    BY <1>1, Zenon
  <1>12. \A l \in Loop : loop[l] = IF l = Root /\ ~sync THEN "run" ELSE "off"
    BY <1>1, Zenon
  <1>13. /\ \A a \in ACall : acall[a] = NoACall
         /\ \A t \in Thread : tlocal[t].tc = None
         /\ cancels = 0
    BY DEF Init
  <1>14. TypeOK
    <2>1. task \in [Task -> TaskType]
      BY <1>1, <1>2, RecordTypes, Zenon
    <2>2. scall \in [Frame -> SCallType]
      BY <1>1, <1>4, RecordTypes, Zenon
    <2>3. acall \in [ACall -> ACallType]
      BY RecordTypes DEF Init
    <2>4. stack \in [Thread -> Seq(Frame \cup ACall \cup Spawn)]
      <3>1. <<Root>> \in Seq(Frame \cup ACall \cup Spawn) /\ <<>> \in Seq(Frame \cup ACall \cup Spawn)
        BY <1>0
      <3> QED  BY <1>1, <3>1, Zenon
    <2>5. tlocal \in [Thread -> [loop : Loop \cup {None}, tc : SCall \cup {None}]]
      BY DEF Init
    <2>6. loop \in [Loop -> {"off", "run", "gap", "closing", "stopped", "closed"}]
      BY <1>1
    <2>7. cancels \in 0..MaxCancels
      BY <1>13, ConstantsAssumption
    <2> QED  BY <2>1, <2>2, <2>3, <2>4, <2>5, <2>6, <2>7 DEF TypeOK
  <1>15. \A t \in Thread : \A k \in 1..Len(stack[t]) :
            sync /\ t = Main /\ k = 1 /\ Len(stack[t]) = 1 /\ stack[t][k] = Root
    <2>1. Len(<<>>) = 0 /\ Len(<<Root>>) = 1 /\ <<Root>>[1] = Root
      OBVIOUS
    <2>2. ASSUME NEW t \in Thread, NEW k \in 1..Len(stack[t])
          PROVE  sync /\ t = Main /\ k = 1 /\ Len(stack[t]) = 1 /\ stack[t][k] = Root
      <3>1. CASE sync /\ t = Main
        <4>1. stack[t] = <<Root>>
          BY <1>11, <3>1, Zenon
        <4>2. k \in 1..1 /\ Len(stack[t]) = 1 /\ stack[t][1] = Root
          BY <2>1, <2>2, <4>1, Zenon
        <4>3. k = 1
          BY <4>2
        <4> QED  BY <3>1, <4>2, <4>3, Zenon
      <3>2. CASE ~(sync /\ t = Main)
        BY <1>11, <2>1, <2>2, <3>2
      <3> QED  BY <3>1, <3>2, Zenon
    <2> QED  BY <2>2
  <1>16. StackInv
    <2> SUFFICES ASSUME NEW t \in Thread
                 PROVE  /\ stack[t] # <<>> => stack[t][1] \in Frame
                        /\ \A k \in 1..(Len(stack[t]) - 1) :
                              stack[t][k] \in Frame <=> stack[t][k + 1] \notin Frame
                        /\ \A j, k \in 1..Len(stack[t]) : stack[t][j] = stack[t][k] => j = k
                        /\ \A k \in 1..Len(stack[t]) :
                              LET x == stack[t][k]
                              IN  /\ x \in Frame => scall[x].pc = "running" /\ scall[x].thr = t
                                  /\ x \in ACall => acall[x].pc \in {"posting", "parked"} /\ acall[x].thr = t
                                  /\ x \in Spawn => task[x].pc # "none"
      BY DEF StackInv
    <2>1. Len(stack[t]) \in Nat /\ (stack[t] # <<>> => 1 \in 1..Len(stack[t]))
      BY <1>14 DEF TypeOK
    <2>2. \A k \in 1..(Len(stack[t]) - 1) : k \in 1..Len(stack[t]) /\ Len(stack[t]) # 1
      <3>1. \A m \in Nat : \A k \in 1..(m - 1) : k \in 1..m /\ m # 1
        OBVIOUS
      <3> QED  BY <2>1, <3>1, Zenon
    <2>3. stack[t] # <<>> => stack[t][1] \in Frame
      BY <1>0, <1>15, <2>1
    <2>4. ASSUME NEW k \in 1..Len(stack[t])
          PROVE  LET x == stack[t][k]
                 IN  /\ x \in Frame => scall[x].pc = "running" /\ scall[x].thr = t
                     /\ x \in ACall => acall[x].pc \in {"posting", "parked"} /\ acall[x].thr = t
                     /\ x \in Spawn => task[x].pc # "none"
      <3>1. sync /\ t = Main /\ stack[t][k] = Root
        BY <1>15
      <3>2. scall[Root] = u
        BY <1>0, <1>10, <3>1
      <3> QED  BY <1>0, <1>5, <3>1, <3>2
    <2> QED  BY <1>15, <2>2, <2>3, <2>4
  <1>17. ContextInv
    <2>1. \A s \in SCall : scall[s].pc # "queued"
      BY <1>0, <1>7, <1>10
    <2>2. ASSUME NEW t \in Thread, NEW k \in 1..Len(stack[t])
          PROVE  ~(k < Len(stack[t])) /\ scall[stack[t][k]].ctx.cur = scall[stack[t][k]].cur0
      <3>1. sync /\ stack[t][k] = Root /\ ~(k < Len(stack[t]))
        BY <1>15
      <3>2. scall[Root] = u
        BY <1>0, <1>10, <3>1
      <3>3. EmptyCtx.cur = None
        BY DEF EmptyCtx
      <3> QED  BY <1>5, <3>1, <3>2, <3>3
    <2> QED  BY <2>1, <2>2 DEF ContextInv
  <1>18. AwaitInv
    <2>1. \A n \in Task : task[n].on = None /\ task[n].pc \in {"none", "run"}
      BY <1>3, <1>6, <1>9
    <2> QED  BY <2>1 DEF AwaitInv
  <1>19. FunctionInv
    <2>1. \A s \in SCall : scall[s].pc = "none" /\ scall[s].fut # "done"
      BY <1>0, <1>7, <1>10
    <2> QED  BY <2>1 DEF FunctionInv
  <1>20. LoopInv
    <2>1. ASSUME NEW n \in Task, task[n].pc # "none"
          PROVE  task[n].loop # None /\ loop[task[n].loop] # "off"
      <3>1. n = Root /\ ~sync /\ task[n] = r
        BY <1>6, <1>9, <2>1
      <3> QED  BY <1>0, <1>3, <1>12, <3>1
    <2>2. \A l \in ACall \cup Spawn : loop[l] = "off"
      BY <1>0, <1>12
    <2> QED  BY <2>1, <2>2 DEF LoopInv
  <1>21. CallInv
    <2>1. ASSUME NEW a \in ACall  PROVE CallOf(a)
      <3>1. task[a] = NoTask /\ acall[a] = NoACall
        BY <1>0, <1>9, <1>13
      <3> QED  BY <1>6, <1>8, <3>1 DEF CallOf
    <2> QED  BY <2>1 DEF CallInv
  <1>22. TaskContextInv /\ TaskContextLive
    <2>1. ASSUME NEW s \in SCall  PROVE \A k \in 1..Len(scall[s].tcx) : FALSE
      <3>1. scall[s].tcx = <<>>
        BY <1>0, <1>7, <1>10
      <3> QED  BY <3>1
    <2> QED  BY <2>1 DEF TaskContextInv, TaskContextLive
  <1>23. ParentInv
    BY <1>8, <1>13 DEF ParentInv
  <1>24. NeverLeftBehind
    <2>1. \A s \in SCall : scall[s].pc = "none"
      BY <1>0, <1>7, <1>10
    <2> QED  BY <2>1 DEF NeverLeftBehind
  <1> QED  BY <1>14, <1>16, <1>17, <1>18, <1>19, <1>20, <1>21, <1>22, <1>23, <1>24 DEF Inv

LEMMA NextInv ==
    ASSUME Inv, [Next]_vars
    PROVE  Inv'
  <1>1. ASSUME NEW n \in Task, TaskStep(n)  PROVE Inv'
    <2>1. CASE CancelledAlone(n)
      <3>1. task[n].pc \in Waiting /\ GiveUp(n)
        BY <2>1 DEF CancelledAlone, RaisedAtShield, Waiting
      <3> QED  BY <3>1, GiveUpStep
    <2>2. CASE CancelledInDrain(n)
      <3>1. task[n].pc \in Waiting /\ GiveUp(n)
        BY <2>2 DEF CancelledInDrain, Waiting
      <3> QED  BY <3>1, GiveUpStep
    <2> QED  BY <1>1, <2>1, <2>2, AwaitReturnsStep, CancelledWithChildStep, JoinReturnsStep,
                CancelledInJoinStep, TaskStartsStep, CancelledUnstartedStep, CancelledInCodeStep,
                TaskReturnsStep DEF TaskStep
  <1>2. ASSUME NEW n \in Task, AsyncCode(n)  PROVE Inv'
    BY <1>2, CallOnParentStep, CallOnWorkerStep, CallInPoolStep, CallRefusedStep,
       CreateUserTaskStep DEF AsyncCode
  <1>3. ASSUME NEW t \in Thread, ThreadStep(t)  PROVE Inv'
    BY <1>3, ThreadHandlerStep, FunctionReturnsStep, AsyncToSyncReturnsStep,
       UserLoopReturnsStep DEF ThreadStep
  <1>4. ASSUME NEW t \in Thread, SyncCode(t)  PROVE Inv'
    BY <1>4, AsyncToSyncCallStep, RunUserLoopStep DEF SyncCode
  <1>5. ASSUME NEW a \in ACall, CallStep(a)  PROVE Inv'
    BY <1>5, CallSoonThreadsafeStep, CreateTaskStep, SetResultStep DEF CallStep
  <1>6. ASSUME NEW s \in SCall, FutureStep(s)  PROVE Inv'
    BY <1>6, ExecCoroDoneStep, ExecCoroCancelledStep DEF FutureStep
  <1>7. ASSUME NEW l \in Loop, LoopStep(l)  PROVE Inv'
    <2>1. CASE EndClose(l)
      BY <2>1, LoopEnds DEF EndClose
    <2>2. CASE Close(l)
      BY <2>2, LoopEnds DEF Close
    <2>3. CASE ResumeClose(l)
      BY <2>3, LoopEnds DEF ResumeClose
    <2> QED  BY <1>7, <2>1, <2>2, <2>3, BeginCloseStep DEF LoopStep
  <1>8. ASSUME NEW n \in Task, CancelTask(n)  PROVE Inv'
    BY <1>8, CancelTaskStep
  <1>9. CASE UNCHANGED vars
    <2>1. UNCHANGED <<task, scall, acall, stack, tlocal, loop, cancels>>
      BY <1>9 DEF vars
    <2>2. TypeOK'
      BY <2>1 DEF Inv, TypeOK
    <2> QED  BY <2>1, <2>2, SameIsQuiet, QuietStep
  <1> QED  BY <1>1, <1>2, <1>3, <1>4, <1>5, <1>6, <1>7, <1>8, <1>9, Zenon DEF Next

\* The invariant above holds of AsyncToSync.__call__, SyncToAsync.__call__, main_wrap
\* and thread_handler, however they interleave.
THEOREM InvHolds == Spec => []Inv
  <1>1. Init => Inv
    BY InitInv
  <1>2. Inv /\ [Next]_vars => Inv'
    BY NextInv
  <1> QED  BY <1>1, <1>2, PTL DEF Spec

\* Tasks, calls, functions, stacks and threadlocals only hold what they can hold:
\* the bridge never files a task, an executor or a loop in another one's place.
THEOREM TypeCorrect == Spec => []TypeOK
  <1>1. Inv => TypeOK
    BY DEF Inv
  <1> QED  BY InvHolds, <1>1, PTL

\* main_wrap puts a task on task_context when it starts and takes it off when it ends,
\* so SyncToAsync.__call__ never cancels and awaits one that is finished or was never
\* started, whatever was cancelled, on whichever loop, in whatever order.
THEOREM TaskContextIsLive == Spec => []TaskContextLive
  <1>1. Inv => TaskContextLive
    BY DEF Inv
  <1> QED  BY InvHolds, <1>1, PTL

\* When AsyncToSync.__call__ has returned, its caller finds the current executor it
\* started with, at any depth of nesting.
THEOREM ExecutorIsRestored == Spec => []CurrentRestored
  <1>1. ASSUME Inv  PROVE CurrentRestored
    <2> SUFFICES ASSUME NEW t \in Thread, Top(t) \in Frame
                 PROVE  scall[Top(t)].ctx.cur = scall[Top(t)].cur0
      BY DEF CurrentRestored
    <2>1. Len(stack[t]) \in 1..Len(stack[t]) /\ Top(t) = stack[t][Len(stack[t])]
      BY <1>1, TopFacts
    <2>2. ~(Len(stack[t]) < Len(stack[t]))
      BY <2>1
    <2> QED  BY <1>1, <2>1, <2>2 DEF Inv, ContextInv
  <1> QED  BY InvHolds, <1>1, PTL

\* SyncToAsync.__call__ leaves a function that is queued or running only after it has
\* cancelled the function's future, or if the function's async code has a loop of its
\* own: no other cancellation takes the caller past a function it did not try to stop,
\* while the loop runs, is shut down and however often the caller is cancelled.
THEOREM NothingIsLeftBehind == Spec => []NeverLeftBehind
  <1>1. Inv => NeverLeftBehind
    BY DEF Inv
  <1> QED  BY InvHolds, <1>1, PTL

-----------------------------------------------------------------------------
(* The context sync code goes on with. *)

\* A call that is parked returns by AsyncToSyncReturns only.
LEMMA OnlyReturns ==
    ASSUME Inv, [Next]_vars, NEW a \in ACall, acall[a].pc = "parked", acall'[a].pc = "returned"
    PROVE  \E t \in Thread : AsyncToSyncReturns(t, a)
  <1>1. acall' # acall
    OBVIOUS
  <1>2. acall \in [ACall -> ACallType]
    BY DEF Inv, TypeOK
  <1>3. ASSUME NEW n \in Task, TaskStep(n) \/ AsyncCode(n)  PROVE acall'[a].pc = acall[a].pc
    <2>1. CASE \E r \in Outcome : TaskReturns(n, r)
      <3>1. PICK r \in Outcome : TaskReturns(n, r)
        BY <2>1
      <3>2. acall' = acall \/ acall' = [acall EXCEPT ![n].cell = task[n].ctx]
        BY <3>1 DEF TaskReturns
      <3> QED  BY <1>2, <3>2 DEF ACallType
    <2>2. CASE ~\E r \in Outcome : TaskReturns(n, r)
      BY <1>1, <1>3, <2>2
         DEF TaskStep, AsyncCode, AwaitReturns, CancelledAlone, CancelledWithChild, JoinReturns,
             CancelledInJoin, CancelledInDrain, TaskStarts, CancelledUnstarted, CancelledInCode,
             GiveUp, CallOnParent, CallOnWorker, CallInPool, CallRefused, CreateUserTask, Submitted
    <2> QED  BY <2>1, <2>2
  <1>4. ASSUME NEW t \in Thread, ThreadStep(t)  PROVE AsyncToSyncReturns(t, a)
    <2>1. PICK b \in ACall : AsyncToSyncReturns(t, b)
      BY <1>1, <1>4 DEF ThreadStep, ThreadHandler, FunctionReturns, UserLoopReturns
    <2>2. acall' = [acall EXCEPT ![b].pc = "returned"]
      BY <2>1 DEF AsyncToSyncReturns
    <2>3. b = a
      BY <1>2, <2>2
    <2> QED  BY <2>1, <2>3
  <1>5. ASSUME NEW t \in Thread, SyncCode(t)  PROVE acall'[a] = acall[a]
    <2>1. PICK b \in ACall, force \in BOOLEAN : AsyncToSyncCall(t, b, force)
      BY <1>1, <1>5 DEF SyncCode, RunUserLoop
    <2>2. acall[b].pc = "none" /\ \E u : acall' = [acall EXCEPT ![b] = u]
      BY <2>1, Zenon DEF AsyncToSyncCall, OnNewLoop
    <2> QED  BY <1>2, <2>2
  <1>6. ASSUME NEW b \in ACall, CallStep(b)  PROVE acall'[a].pc = acall[a].pc
    <2>1. CASE CreateTask(b)
      BY <2>1 DEF CreateTask
    <2>2. CASE SetResult(b)
      <3>1. acall' = [acall EXCEPT ![b].res = task[b].got]
        BY <2>2 DEF SetResult
      <3> QED  BY <1>2, <3>1 DEF ACallType
    <2>3. CASE CallSoonThreadsafe(b)
      <3>1. acall[b].pc = "posting" /\ \E u : acall' = [acall EXCEPT ![b] = u]
        BY <2>3, Zenon DEF CallSoonThreadsafe, OnNewLoop
      <3> QED  BY <1>2, <3>1
    <2> QED  BY <1>6, <2>1, <2>2, <2>3 DEF CallStep
  <1>7. ASSUME NEW s \in SCall, FutureStep(s)  PROVE FALSE
    BY <1>1, <1>7 DEF FutureStep, ExecCoroDone, ExecCoroCancelled
  <1>8. ASSUME NEW l \in Loop, LoopStep(l)  PROVE FALSE
    BY <1>1, <1>8 DEF LoopStep, BeginClose, ResumeClose, EndClose, Close
  <1>9. ASSUME NEW n \in Task, CancelTask(n)  PROVE FALSE
    BY <1>1, <1>9 DEF CancelTask
  <1>10. ~UNCHANGED vars
    BY <1>1 DEF vars
  <1> QED  BY <1>3, <1>4, <1>5, <1>6, <1>7, <1>8, <1>9, <1>10 DEF Next

\* __call__ returns with the context main_wrap captured, of its own call.
LEMMA ReturnsWithContext ==
    ASSUME Inv, NEW t \in Thread, NEW a \in ACall, AsyncToSyncReturns(t, a)
    PROVE  /\ stack[t] = Append(stack'[t], a)
           /\ scall'[stack'[t][Len(stack'[t])]].ctx.dead = task[a].ctx.dead
  <1>0. Top(t) = a /\ a \notin Frame /\ acall[a].pc = "parked" /\ Broken(a)
    BY ConstantsAssumption DEF Frame, AsyncToSyncReturns
  <1>1. PICK s \in Seq(Frame \cup ACall \cup Spawn) : s = stack[t]
    BY DEF Inv, TypeOK
  <1>2. /\ s # <<>> /\ Len(s) \in 1..Len(s) /\ a = s[Len(s)]
        /\ Len(s) - 1 \in 1..Len(s) /\ s[Len(s) - 1] \in Frame
    BY <1>0, <1>1, TopFacts
  <1>3. stack'[t] = Pop(s)
    BY <1>1 DEF AsyncToSyncReturns, Inv, TypeOK
  <1>4. PICK p \in Seq(Frame \cup ACall \cup Spawn) :
           p = Pop(s) /\ Len(p) = Len(s) - 1 /\ \A k \in 1..(Len(s) - 1) : p[k] = s[k]
    BY <1>2, PopFacts
  <1>5. s = Append(p, a)
    BY <1>2, <1>4
  <1>6. p[Len(p)] = s[Len(s) - 1]
    BY <1>2, <1>4
  <1>7. PICK f \in Frame : f = s[Len(s) - 1]
    BY <1>2
  <1>8. PICK u \in SCallType : u = scall[f]
    BY DEF Inv, TypeOK
  <1>9. PICK c \in Ctx : c = acall[a].cell /\ c = task[a].ctx
    BY <1>0, BrokenHasResult DEF Inv, TypeOK, ACallType
  <1>10. PICK o \in ACall \cup {None} : o = acall[a].old
    BY DEF Inv, TypeOK, ACallType
  <1>11. PICK d \in Ctx : d = [c EXCEPT !.cur = o] /\ d.dead = c.dead
    <2>1. [c EXCEPT !.cur = o] \in Ctx
      BY DEF Ctx
    <2>2. [c EXCEPT !.cur = o].dead = c.dead
      BY DEF Ctx
    <2> QED  BY <2>1, <2>2, Zenon
  <1>12. scall' = [scall EXCEPT ![f].ctx = d, ![f].got = acall[a].res]
    BY <1>1, <1>7, <1>9, <1>10, <1>11, Zenon DEF AsyncToSyncReturns
  <1>13. scall'[f] = [u EXCEPT !.ctx = d, !.got = acall[a].res]
    BY <1>8, <1>12 DEF Inv, TypeOK
  <1>14. scall'[f].ctx = d
    BY <1>13 DEF SCallType
  <1>15. scall'[f].ctx.dead = task[a].ctx.dead
    BY <1>9, <1>11, <1>14, Zenon
  <1>16. stack'[t] = p
    BY <1>3, <1>4, Zenon
  <1>17. stack'[t][Len(stack'[t])] = f
    BY <1>6, <1>7, <1>16, Zenon
  <1>18. stack[t] = Append(stack'[t], a)
    BY <1>1, <1>5, <1>16, Zenon
  <1> QED  BY <1>15, <1>17, <1>18, Zenon

\* The thread that AsyncToSync.__call__ wakes up never reads the awaitable's context
\* before main_wrap has written it, whether call_result or the end of the new loop's
\* thread lets it go.
THEOREM ContextIsKept == Spec => ContextKept
  <1>1. ASSUME Inv, [Next]_vars
        PROVE  [\A a \in ACall :
                  acall[a].pc = "parked" /\ acall'[a].pc = "returned" =>
                      \E t \in Thread :
                          /\ stack[t] = Append(stack'[t], a)
                          /\ scall'[stack'[t][Len(stack'[t])]].ctx.dead = task[a].ctx.dead]_vars
    <2> SUFFICES ASSUME NEW a \in ACall, acall[a].pc = "parked", acall'[a].pc = "returned"
                 PROVE  \E t \in Thread :
                          /\ stack[t] = Append(stack'[t], a)
                          /\ scall'[stack'[t][Len(stack'[t])]].ctx.dead = task[a].ctx.dead
      OBVIOUS
    <2>1. PICK t \in Thread : AsyncToSyncReturns(t, a)
      BY <1>1, OnlyReturns
    <2> QED  BY <1>1, <2>1, ReturnsWithContext
  <1> QED  BY InvHolds, <1>1, PTL DEF Spec, ContextKept

=============================================================================
