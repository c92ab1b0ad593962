------------------------ MODULE SyncBridgeThreadProofs ------------------------
(***************************************************************************)
(* Proofs about which thread the bridge sends sync code to, and which      *)
(* executor async code finds current, at any depth of nesting.             *)
(***************************************************************************)
EXTENDS SyncBridgeProofs

-----------------------------------------------------------------------------
(* The inductive invariant, for thread-sensitive calls. *)

Ended == {"ending", "done"}

\* The thread where the sync code of loop l belongs: that of the call that made the
\* loop, else that of the program.
Home(l) == IF l \in ACall THEN acall[l].thr
           ELSE IF loop[Root] = "off" THEN Main ELSE Worker

\* The loops without a link to the outer sync code.
Excused(l) == l \in Spawn \/ (l \in ACall /\ task[l].pc \in Ended)

At(l, t) == t = Home(l) \/ Excused(l)

\* A loop that a call made, and whose first task has begun.
Begun(l) == l \in ACall => acall[l].mode = "new" /\ task[l].pc \in Started

\* Executor x is one of thread t.
IsOf(x, t) == acall[x].pc # "none" /\ acall[x].thr = t

\* Executor x is one of the thread where the sync code of loop l belongs.
BelongsTo(x, l) == acall[x].pc # "none" /\ At(l, acall[x].thr)

\* The thread of a frame.
Place(f) == IF f = Root THEN Main ELSE RunsAt(f)

\* The current executor of a task is one of the thread its sync code belongs to, and
\* the task of a call always has one.
TaskThread(n) ==
    task[n].pc # "none" =>
        /\ n \in ACall => task[n].ctx.cur # None
        /\ task[n].ctx.cur # None => BelongsTo(task[n].ctx.cur, task[n].loop)
        /\ IF task[n].loop = n /\ n \in ACall THEN acall[n].mode = "new"
           ELSE Begun(task[n].loop)

\* The current executor of a function is one of the thread it was sent to, and that
\* is where the sync code of its caller's loop belongs.
FunctionThread(f) ==
    scall[f].pc # "none" =>
        /\ scall[f].thr \in {None, Place(f)}
        /\ scall[f].ctx.cur # None => IsOf(scall[f].ctx.cur, Place(f))
        /\ f # Root =>
              /\ \/ scall[f].where = Worker
                 \/ scall[f].where \in ACall /\ acall[scall[f].where].pc # "none"
              /\ At(task[scall[f].by].loop, RunsAt(f))
              /\ task[scall[f].by].pc \in Started
              /\ scall[f].by \in ACall => scall[f].ctx.cur # None /\ scall[f].cur0 # None

\* The executor a call found current is one of the same thread, and so is the loop
\* the call is posted to.
CallThread(a) ==
    acall[a].pc # "none" =>
        /\ acall[a].old # None => IsOf(acall[a].old, acall[a].thr)
        /\ acall[a].pc = "posting" =>
              acall[a].cell.cur = a /\ At(acall[a].lp, acall[a].thr) /\ Begun(acall[a].lp)
        /\ acall[a].mode = "main" => At(task[a].loop, acall[a].thr)

\* The threadlocal of a thread names a loop whose sync code belongs there.
LocalThread(t) == tlocal[t].loop # None => At(tlocal[t].loop, t) /\ Begun(tlocal[t].loop)

ThreadInv ==
    /\ \A n \in Task : TaskThread(n)
    /\ \A f \in Frame : FunctionThread(f)
    /\ \A a \in ACall : CallThread(a)
    /\ \A t \in Thread : LocalThread(t)

-----------------------------------------------------------------------------
(* What no step undoes, of the threads. *)

Settled ==
    /\ Grows
    /\ \A a \in ACall : task[a].pc \in Ended => task'[a].pc \in Ended
    /\ \A a \in ACall : acall[a].mode = "new" => acall'[a].mode = "new"
    /\ loop'[Root] = "off" <=> loop[Root] = "off"
    /\ \A f \in Frame : scall[f].pc # "none" => scall'[f].where = scall[f].where

LEMMA AtStays ==
    ASSUME Settled, NEW l, NEW t, At(l, t), l \in ACall => acall[l].pc # "none"
    PROVE  At(l, t)'
  <1>1. Home(l)' = Home(l)
    BY DEF Settled, Grows, Home
  <1>2. Excused(l) => Excused(l)'
    BY DEF Settled, Excused
  <1> QED  BY <1>1, <1>2 DEF At

LEMMA BegunStays ==
    ASSUME Inv, Settled, NEW l, Begun(l)
    PROVE  Begun(l)' /\ (l \in ACall => acall[l].pc # "none")
  <1>1. l \in ACall => acall[l].pc # "none"
    BY DEF Begun, Inv, CallInv, CallOf
  <1>2. Begun(l)'
    BY DEF Begun, Settled, Grows, Task
  <1> QED  BY <1>1, <1>2

LEMMA IsOfStays ==
    ASSUME Settled, NEW x \in ACall, NEW t, IsOf(x, t)
    PROVE  IsOf(x, t)'
  BY DEF IsOf, Settled, Grows

LEMMA BelongsStays ==
    ASSUME Settled, NEW x \in ACall, NEW l, BelongsTo(x, l), l \in ACall => acall[l].pc # "none"
    PROVE  BelongsTo(x, l)'
  <1>1. PICK t : t = acall[x].thr
    OBVIOUS
  <1>2. At(l, t)'
    BY <1>1, AtStays DEF BelongsTo
  <1>3. acall'[x].pc # "none" /\ acall'[x].thr = t
    BY <1>1 DEF BelongsTo, Settled, Grows
  <1> QED  BY <1>2, <1>3 DEF BelongsTo, At, Home, Excused

LEMMA PlaceStays ==
    ASSUME Inv, Settled, NEW f \in Frame, scall[f].pc # "none", FunctionThread(f)
    PROVE  Place(f)' = Place(f) /\ (f # Root => RunsAt(f)' = RunsAt(f))
  <1>1. f # Root => RunsAt(f)' = RunsAt(f)
    <2>1. scall'[f].where = scall[f].where
      BY DEF Settled
    <2>2. f # Root /\ scall[f].where \in ACall => acall'[scall[f].where].thr = acall[scall[f].where].thr
      BY ConstantsAssumption DEF FunctionThread, Settled, Grows
    <2> QED  BY <2>1, <2>2 DEF RunsAt
  <1> QED  BY <1>1 DEF Place

\* A task's loop is a call's own, or begun.
LEMMA LoopOfTask ==
    ASSUME Inv, NEW n \in Task, task[n].pc # "none", TaskThread(n)
    PROVE  task[n].loop \in ACall => acall[task[n].loop].pc # "none" /\ acall[task[n].loop].mode = "new"
  BY DEF TaskThread, Begun, Inv, CallInv, CallOf

LEMMA TaskThreadStays ==
    ASSUME Inv, Settled, NEW n \in Task, task[n].pc # "none", TaskThread(n),
           task'[n].ctx.cur = task[n].ctx.cur
    PROVE  TaskThread(n)'
  <1>1. task'[n].loop = task[n].loop
    BY DEF Settled, Grows
  <1>2. ASSUME task[n].ctx.cur # None
        PROVE  BelongsTo(task[n].ctx.cur, task[n].loop)'
    <2>1. PICK x \in ACall : x = task[n].ctx.cur
      BY <1>2 DEF Inv, TypeOK, TaskType, Ctx
    <2>2. PICK l : l = task[n].loop
      OBVIOUS
    <2>3. BelongsTo(x, l) /\ (l \in ACall => acall[l].pc # "none")
      BY <1>2, <2>1, <2>2, LoopOfTask DEF TaskThread
    <2>4. BelongsTo(x, l)'
      BY <2>3, BelongsStays
    <2> QED  BY <1>1, <2>1, <2>2, <2>4 DEF BelongsTo, At, Home, Excused
  <1>3. IF task[n].loop = n /\ n \in ACall THEN acall'[n].mode = "new"
        ELSE task[n].loop \in ACall => acall'[task[n].loop].mode = "new" /\ task'[task[n].loop].pc \in Started
    BY DEF TaskThread, Begun, Settled, Grows, Task
  <1> QED  BY <1>1, <1>2, <1>3 DEF TaskThread, Begun

LEMMA FunctionThreadStays ==
    ASSUME Inv, ThreadInv, Settled, NEW f \in Frame, scall[f].pc # "none",
           scall'[f].ctx.cur = scall[f].ctx.cur, scall'[f].thr = scall[f].thr
    PROVE  FunctionThread(f)'
  <1>0. FunctionThread(f) /\ Place(f)' = Place(f) /\ (f # Root => RunsAt(f)' = RunsAt(f))
    BY PlaceStays DEF ThreadInv
  <1>1. scall'[f].by = scall[f].by /\ scall'[f].cur0 = scall[f].cur0 /\ scall'[f].where = scall[f].where
    BY DEF Settled, Grows
  <1>2. scall[f].ctx.cur # None => IsOf(scall[f].ctx.cur, Place(f))'
    <2>1. scall[f].ctx.cur # None => scall[f].ctx.cur \in ACall
      BY DEF Inv, TypeOK, SCallType, Ctx
    <2> QED  BY <1>0, <2>1 DEF FunctionThread, IsOf, Settled, Grows
  <1>3. ASSUME f # Root
        PROVE  /\ At(task[scall[f].by].loop, RunsAt(f))'
               /\ task'[scall[f].by].pc \in Started
               /\ \/ scall[f].where = Worker
                  \/ scall[f].where \in ACall /\ acall'[scall[f].where].pc # "none"
    <2>1. f \in SCall
      BY <1>3 DEF Frame
    <2>2. PICK n \in Task : n = scall[f].by /\ task[n].pc # "none" /\ task'[n].loop = task[n].loop
      BY <2>1, CallerFacts, CallerStays DEF Settled
    <2>3. PICK l : l = task[n].loop
      OBVIOUS
    <2>4. l \in ACall => acall[l].pc # "none"
      BY <2>2, <2>3, LoopOfTask DEF ThreadInv
    <2>5. PICK p : p = RunsAt(f)
      OBVIOUS
    <2>6. At(l, p)
      BY <1>0, <1>3, <2>2, <2>3, <2>5 DEF FunctionThread
    <2>7. At(l, p)'
      BY <2>4, <2>6, AtStays
    <2>8. At(task[scall[f].by].loop, RunsAt(f))'
      BY <1>0, <1>1, <1>3, <2>2, <2>3, <2>5, <2>7 DEF At, Home, Excused
    <2>9. task'[scall[f].by].pc \in Started
      BY <1>0, <1>3, <2>2 DEF FunctionThread, Settled, Grows
    <2> QED  BY <1>0, <1>3, <2>8, <2>9 DEF FunctionThread, Settled, Grows
  <1> QED  BY <1>0, <1>1, <1>2, <1>3 DEF FunctionThread

LEMMA CallThreadStays ==
    ASSUME Inv, ThreadInv, Settled, NEW a \in ACall, acall[a].pc # "none",
           acall'[a].pc = "posting" =>
              acall[a].pc = "posting" /\ acall'[a].lp = acall[a].lp /\ acall'[a].cell = acall[a].cell,
           acall'[a].mode = "main" => acall[a].mode = "main"
    PROVE  CallThread(a)'
  <1>0. CallThread(a) /\ acall[a] \in ACallType /\ a \in Task
    BY DEF ThreadInv, Inv, TypeOK, Task
  <1>1. acall'[a].thr = acall[a].thr /\ acall'[a].old = acall[a].old
    BY DEF Settled, Grows
  <1>2. acall[a].old # None => IsOf(acall[a].old, acall[a].thr)'
    <2>1. acall[a].old # None => acall[a].old \in ACall
      BY <1>0 DEF ACallType
    <2> QED  BY <1>0, <1>1, <2>1 DEF CallThread, IsOf, Settled, Grows
  <1>3. ASSUME acall'[a].pc = "posting"
        PROVE  acall'[a].cell.cur = a /\ At(acall[a].lp, acall[a].thr)' /\ Begun(acall[a].lp)'
    <2>1. PICK l, t : l = acall[a].lp /\ t = acall[a].thr
      OBVIOUS
    <2>2. At(l, t) /\ Begun(l) /\ acall[a].cell.cur = a
      BY <1>0, <1>3, <2>1 DEF CallThread
    <2>3. At(l, t)' /\ Begun(l)'
      BY <2>2, AtStays, BegunStays
    <2> QED  BY <1>1, <1>3, <2>1, <2>2, <2>3 DEF At, Begun, Home, Excused
  <1>4. ASSUME acall'[a].mode = "main"  PROVE At(task[a].loop, acall[a].thr)'
    <2>1. task[a].pc # "none"
      BY <1>0, <1>4 DEF Inv, CallInv, CallOf
    <2>2. PICK l, t : l = task[a].loop /\ t = acall[a].thr
      OBVIOUS
    <2>3. l \in ACall => acall[l].pc # "none"
      BY <1>0, <2>1, <2>2, LoopOfTask DEF ThreadInv
    <2>4. At(l, t)
      BY <1>0, <1>4, <2>2 DEF CallThread
    <2>5. At(l, t)'
      BY <2>3, <2>4, AtStays
    <2>6. task'[a].loop = l
      BY <1>0, <2>1, <2>2 DEF Settled, Grows
    <2> QED  BY <1>1, <2>2, <2>5, <2>6 DEF At, Home, Excused
  <1> QED  BY <1>1, <1>2, <1>3, <1>4 DEF CallThread

LEMMA LocalThreadStays ==
    ASSUME Inv, ThreadInv, Settled, NEW t \in Thread, tlocal'[t].loop = tlocal[t].loop
    PROVE  LocalThread(t)'
  <1>1. PICK l : l = tlocal[t].loop
    OBVIOUS
  <1>2. l # None => At(l, t) /\ Begun(l)
    BY <1>1 DEF ThreadInv, LocalThread
  <1>3. l # None => At(l, t)' /\ Begun(l)'
    BY <1>2, AtStays, BegunStays
  <1> QED  BY <1>1, <1>3 DEF LocalThread, At, Begun, Home, Excused

-----------------------------------------------------------------------------
(* Steps that send nothing anywhere. *)

\* A task goes on with its context, or with that of the function it leaves.
CalmTask(n) ==
    /\ task'[n].pc = "none" <=> task[n].pc = "none"
    /\ task'[n].loop = task[n].loop
    /\ task[n].pc \in Started => task'[n].pc \in Started
    /\ task[n].pc \in Ended => task'[n].pc \in Ended
    /\ \/ task'[n].ctx.cur = task[n].ctx.cur
       \/ /\ task[n].pc \in Waiting /\ task'[n].on = None
          /\ task'[n].ctx.cur = scall[task[n].on].ctx.cur

\* A function ends only with the executor it started with.
CalmFunction(f) ==
    /\ scall'[f].pc = "none" <=> scall[f].pc = "none"
    /\ scall'[f].by = scall[f].by /\ scall'[f].cur0 = scall[f].cur0
    /\ scall'[f].where = scall[f].where /\ scall'[f].thr = scall[f].thr
    /\ scall'[f].ctx = scall[f].ctx
    /\ scall'[f].pc = scall[f].pc \/ scall[f].ctx.cur = scall[f].cur0

CalmCall(a) ==
    /\ acall'[a].pc = acall[a].pc /\ acall'[a].thr = acall[a].thr
    /\ acall'[a].old = acall[a].old /\ acall'[a].tc = acall[a].tc
    /\ acall'[a].mode = acall[a].mode /\ acall'[a].lp = acall[a].lp
    /\ acall[a].pc = "posting" => acall'[a].cell = acall[a].cell

CalmLoop(l) == loop'[l] = "off" <=> loop[l] = "off"

Calm ==
    /\ \A n \in Task : CalmTask(n)
    /\ \A f \in Frame : CalmFunction(f)
    /\ \A a \in ACall : CalmCall(a)
    /\ \A l \in Loop : CalmLoop(l)
    /\ tlocal' = tlocal

LEMMA SameIsCalm ==
    /\ \A n \in Task : task'[n] = task[n] => CalmTask(n)
    /\ \A f \in Frame : scall'[f] = scall[f] => CalmFunction(f)
    /\ \A a \in ACall : acall'[a] = acall[a] => CalmCall(a)
    /\ \A l \in Loop : loop'[l] = loop[l] => CalmLoop(l)
  BY DEF CalmTask, CalmFunction, CalmCall, CalmLoop

\* The context a task takes from the function it leaves is of the right thread.
LEMMA LeavingThread ==
    ASSUME Inv, ThreadInv, NEW n \in Task, task[n].pc \in Waiting
    PROVE  /\ n \in ACall => scall[task[n].on].ctx.cur # None
           /\ scall[task[n].on].ctx.cur # None =>
                 scall[task[n].on].ctx.cur \in ACall /\ BelongsTo(scall[task[n].on].ctx.cur, task[n].loop)
  <1>1. PICK s \in SCall : s = task[n].on /\ scall[s].pc # "none" /\ scall[s].by = n
    BY AwaitFacts
  <1>2. s \in Frame /\ s # Root
    BY ConstantsAssumption DEF Frame
  <1>3. FunctionThread(s)
    BY <1>2 DEF ThreadInv
  <1>4. n \in ACall => scall[s].ctx.cur # None
    BY <1>1, <1>2, <1>3 DEF FunctionThread
  <1>5. scall[s].ctx.cur # None => BelongsTo(scall[s].ctx.cur, task[n].loop)
    BY <1>1, <1>2, <1>3 DEF FunctionThread, Place, IsOf, BelongsTo
  <1>6. scall[s].ctx.cur # None => scall[s].ctx.cur \in ACall
    BY <1>2 DEF Inv, TypeOK, SCallType, Ctx
  <1> QED  BY <1>1, <1>4, <1>5, <1>6

\* What is calm settles.
LEMMA CalmSettles ==
    ASSUME Calm
    PROVE  Settled
  <1>1. Grows
    BY DEF Calm, CalmTask, CalmFunction, CalmCall, CalmLoop, Grows
  <1> QED  BY <1>1 DEF Settled, Calm, CalmTask, CalmFunction, CalmCall, CalmLoop, Task, Loop

LEMMA CalmTaskStays ==
    ASSUME Inv, ThreadInv, Settled, NEW n \in Task, CalmTask(n)
    PROVE  TaskThread(n)'
  <1>1. CASE task[n].pc = "none"
    BY <1>1 DEF CalmTask, TaskThread
  <1>2. CASE task[n].pc # "none" /\ task'[n].ctx.cur = task[n].ctx.cur
    BY <1>2, TaskThreadStays DEF ThreadInv
  <1>3. CASE task[n].pc \in Waiting /\ task'[n].ctx.cur = scall[task[n].on].ctx.cur
    <2>1. PICK x : x = task'[n].ctx.cur
      OBVIOUS
    <2>2. PICK l : l = task[n].loop
      OBVIOUS
    <2>3. task[n].pc # "none" /\ TaskThread(n) /\ task'[n].loop = l
      BY <1>3, <2>2 DEF Waiting, ThreadInv, CalmTask
    <2>4. /\ n \in ACall => x # None
          /\ x # None => x \in ACall /\ BelongsTo(x, l)
          /\ l \in ACall => acall[l].pc # "none"
      BY <1>3, <2>1, <2>2, <2>3, LeavingThread, LoopOfTask
    <2>5. x # None => BelongsTo(x, l)'
      BY <2>4, BelongsStays
    <2>6. x # None => BelongsTo(task[n].ctx.cur, task[n].loop)'
      BY <2>1, <2>3, <2>5 DEF BelongsTo, At, Home, Excused
    <2>7. IF l = n /\ n \in ACall THEN acall'[n].mode = "new"
          ELSE l \in ACall => acall'[l].mode = "new" /\ task'[l].pc \in Started
      BY <2>2, <2>3 DEF TaskThread, Begun, Settled, Grows, Task
    <2> QED  BY <2>1, <2>3, <2>4, <2>6, <2>7 DEF TaskThread, Begun
  <1> QED  BY <1>1, <1>2, <1>3 DEF CalmTask

LEMMA CalmFunctionStays ==
    ASSUME Inv, ThreadInv, Settled, NEW f \in Frame, CalmFunction(f)
    PROVE  FunctionThread(f)'
  <1>1. CASE scall[f].pc = "none"
    BY <1>1 DEF CalmFunction, FunctionThread
  <1>2. CASE scall[f].pc # "none"
    BY <1>2, FunctionThreadStays DEF CalmFunction
  <1> QED  BY <1>1, <1>2

LEMMA CalmCallStays ==
    ASSUME Inv, ThreadInv, Settled, NEW a \in ACall, CalmCall(a)
    PROVE  CallThread(a)'
  <1>1. CASE acall[a].pc = "none"
    BY <1>1 DEF CalmCall, CallThread
  <1>2. CASE acall[a].pc # "none"
    BY <1>2, CallThreadStays DEF CalmCall
  <1> QED  BY <1>1, <1>2

LEMMA CalmStep ==
    ASSUME Inv, ThreadInv, Calm
    PROVE  ThreadInv'
  <1>1. Settled
    BY CalmSettles
  <1>2. \A n \in Task : TaskThread(n)'
    BY <1>1, CalmTaskStays DEF Calm
  <1>3. \A f \in Frame : FunctionThread(f)'
    BY <1>1, CalmFunctionStays DEF Calm
  <1>4. \A a \in ACall : CallThread(a)'
    BY <1>1, CalmCallStays DEF Calm
  <1>5. \A t \in Thread : LocalThread(t)'
    BY <1>1, LocalThreadStays DEF Calm
  <1> QED  BY <1>2, <1>3, <1>4, <1>5 DEF ThreadInv

-----------------------------------------------------------------------------
(* Which steps these are. *)

\* One task goes on by itself.
LEMMA OneTaskIsCalm ==
    ASSUME Inv, NEW n \in Task, NEW q, task' = [task EXCEPT ![n] = q],
           task'[n] = q => CalmTask(n), UNCHANGED <<scall, acall, tlocal, loop>>
    PROVE  Calm
  <1>1. \A x \in Task : CalmTask(x)
    <2>1. task'[n] = q /\ \A x \in Task \ {n} : task'[x] = task[x]
      BY DEF Inv, TypeOK
    <2> QED  BY <2>1, SameIsCalm
  <1> QED  BY <1>1, SameIsCalm DEF Calm

\* The one that leaves a function.
LEMMA LeaveIsCalm ==
    ASSUME Inv, NEW n \in Task, task[n].pc \in Waiting, NEW r \in Outcome, task'[n] = Leave(n, r)
    PROVE  CalmTask(n)
  <1>1. task'[n].pc = "run" /\ task'[n].on = None /\ task'[n].loop = task[n].loop
    BY LeaveFacts
  <1>2. task'[n].ctx.cur = scall[task[n].on].ctx.cur
    <2>1. PICK q \in TaskType : q = task[n]
      BY DEF Inv, TypeOK
    <2>2. PICK c : c = scall[task[n].on].ctx.cur
      OBVIOUS
    <2>3. PICK d : d = [cur |-> c, dead |-> FALSE]
      OBVIOUS
    <2>4. task'[n] = [q EXCEPT !.pc = "run", !.on = None, !.join = None,
                               !.cancel = FALSE, !.got = r, !.ctx = d]
      BY <2>1, <2>2, <2>3, Zenon DEF Leave
    <2>5. task'[n].ctx = d
      BY <2>4 DEF TaskType
    <2>6. d.cur = c
      BY <2>3
    <2> QED  BY <2>2, <2>5, <2>6
  <1> QED  BY <1>1, <1>2 DEF CalmTask, Waiting, Started, Live, Ended

\* A task is changed in ways that do not matter here.
LEMMA FieldsAreCalm ==
    ASSUME Inv, NEW n \in Task,
           task'[n].pc = task[n].pc \/ (task[n].pc \notin {"none"} \cup Ended /\ task'[n].pc \in Started)
              \/ (task[n].pc = "ending" /\ task'[n].pc = "done")
              \/ (task[n].pc = "posted" /\ task'[n].pc = "created"),
           task'[n].loop = task[n].loop, task'[n].ctx = task[n].ctx
    PROVE  CalmTask(n)
  BY DEF CalmTask, Started, Live, Ended

LEMMA OneTaskGoesOn ==
    ASSUME Inv, NEW n \in Task, NEW q, task' = [task EXCEPT ![n] = q],
           q.pc = task[n].pc \/ (task[n].pc \notin {"none"} \cup Ended /\ q.pc \in Started)
              \/ (task[n].pc = "posted" /\ q.pc = "created"),
           q.loop = task[n].loop, q.ctx = task[n].ctx, UNCHANGED <<scall, acall, tlocal, loop>>
    PROVE  Calm
  <1>1. task'[n] = q => CalmTask(n)
    BY FieldsAreCalm
  <1> QED  BY <1>1, OneTaskIsCalm

LEMMA SimpleTaskStepsAreCalm ==
    ASSUME Inv, NEW n \in Task,
           \/ CancelledInCode(n) \/ CallRefused(n) \/ CancelledUnstarted(n)
           \/ CreateTask(n) \/ CancelTask(n)
    PROVE  Calm
  <1>1. PICK r \in TaskType : r = task[n]
    BY DEF Inv, TypeOK
  <1>2. UNCHANGED <<scall, acall, tlocal, loop>>
    BY DEF CancelledInCode, CallRefused, CancelledUnstarted, CreateTask, CancelTask
  <1>3. CASE CancelledInCode(n)
    <2>1. PICK q : q = [r EXCEPT !.cancel = FALSE, !.got = "cancelled"]
      OBVIOUS
    <2>2. q.loop = r.loop /\ q.ctx = r.ctx /\ q.pc = r.pc
      BY <2>1 DEF TaskType
    <2>3. task' = [task EXCEPT ![n] = q]
      BY <1>1, <1>3, <2>1 DEF CancelledInCode
    <2> QED  BY <1>1, <1>2, <2>2, <2>3, OneTaskGoesOn
  <1>4. CASE CallRefused(n)
    <2>1. PICK q : q = [r EXCEPT !.got = "error"]
      OBVIOUS
    <2>2. q.loop = r.loop /\ q.ctx = r.ctx /\ q.pc = r.pc
      BY <2>1 DEF TaskType
    <2>3. task' = [task EXCEPT ![n] = q]
      BY <1>1, <1>4, <2>1 DEF CallRefused
    <2> QED  BY <1>1, <1>2, <2>2, <2>3, OneTaskGoesOn
  <1>5. CASE CancelledUnstarted(n)
    <2>1. PICK q : q = [r EXCEPT !.pc = "done", !.got = "cancelled"]
      OBVIOUS
    <2>2. q.loop = r.loop /\ q.ctx = r.ctx /\ q.pc = "done"
      BY <2>1 DEF TaskType
    <2>3. task' = [task EXCEPT ![n] = q] /\ r.pc = "created"
      BY <1>1, <1>5, <2>1 DEF CancelledUnstarted
    <2> QED  BY <1>1, <1>2, <2>2, <2>3, OneTaskGoesOn DEF Ended, Started
  <1>6. CASE CancelTask(n)
    <2>1. PICK q : q = [r EXCEPT !.cancel = TRUE]
      OBVIOUS
    <2>2. q.loop = r.loop /\ q.ctx = r.ctx /\ q.pc = r.pc
      BY <2>1 DEF TaskType
    <2>3. task' = [task EXCEPT ![n] = q]
      BY <1>1, <1>6, <2>1 DEF CancelTask
    <2> QED  BY <1>1, <1>2, <2>2, <2>3, OneTaskGoesOn
  <1>7. CASE CreateTask(n)
    <2>1. PICK b : b = (loop[task[n].loop] = "closing")
      OBVIOUS
    <2>2. PICK q : q = [r EXCEPT !.pc = "created", !.late = b]
      OBVIOUS
    <2>3. q.loop = r.loop /\ q.ctx = r.ctx /\ q.pc = "created"
      BY <2>2 DEF TaskType
    <2>4. task' = [task EXCEPT ![n] = q] /\ r.pc = "posted"
      BY <1>1, <1>7, <2>1, <2>2 DEF CreateTask
    <2> QED  BY <1>1, <1>2, <2>3, <2>4, OneTaskGoesOn
  <1> QED  BY <1>3, <1>4, <1>5, <1>6, <1>7

LEMMA AwaitReturnsIsCalm ==
    ASSUME Inv, NEW n \in Task, AwaitReturns(n)
    PROVE  Calm
  <1>1. task[n].pc \in Waiting
    BY DEF AwaitReturns, Waiting
  <1>2. PICK r \in Outcome : r = scall[task[n].on].got
    BY <1>1, AwaitFacts DEF SCallType
  <1>3. task' = [task EXCEPT ![n] = Leave(n, r)] /\ UNCHANGED <<scall, acall, tlocal, loop>>
    BY <1>2 DEF AwaitReturns
  <1>4. task'[n] = Leave(n, r) => CalmTask(n)
    BY <1>1, LeaveIsCalm
  <1> QED  BY <1>3, <1>4, OneTaskIsCalm

LEMMA JoinReturnsIsCalm ==
    ASSUME Inv, NEW n \in Task, JoinReturns(n)
    PROVE  Calm
  <1>1. task[n].pc = "join" /\ task[n].pc \in Waiting /\ UNCHANGED <<scall, acall, tlocal, loop>>
    BY DEF JoinReturns, Waiting
  <1>2. CASE Fut(n) = "done"
    <2>1. task' = [task EXCEPT ![n] = Leave(n, "cancelled")]
      BY <1>2 DEF JoinReturns
    <2>2. task'[n] = Leave(n, "cancelled") => CalmTask(n)
      BY <1>1, LeaveIsCalm DEF Outcome
    <2> QED  BY <1>1, <2>1, <2>2, OneTaskIsCalm
  <1>3. CASE Fut(n) # "done"
    <2>1. PICK r \in TaskType : r = task[n]
      BY DEF Inv, TypeOK
    <2>2. PICK q : q = [r EXCEPT !.pc = "drain", !.join = None]
      OBVIOUS
    <2>3. task' = [task EXCEPT ![n] = q]
      BY <1>3, <2>1, <2>2 DEF JoinReturns
    <2>4. q.pc = "drain" /\ q.loop = r.loop /\ q.ctx = r.ctx
      BY <2>2 DEF TaskType
    <2>5. task'[n] = q => CalmTask(n)
      BY <1>1, <2>1, <2>4, FieldsAreCalm DEF Ended, Started, Live
    <2> QED  BY <1>1, <2>3, <2>5, OneTaskIsCalm
  <1> QED  BY <1>2, <1>3

LEMMA GiveUpIsCalm ==
    ASSUME Inv, NEW n \in Task, task[n].pc \in Waiting, GiveUp(n)
    PROVE  Calm
  <1>1. PICK s \in SCall : s = task[n].on
    BY AwaitFacts
  <1>2. s \in Frame
    BY DEF Frame
  <1>3. PICK r \in SCallType : r = scall[s]
    BY <1>2 DEF Inv, TypeOK
  <1>4. PICK q : q = [r EXCEPT !.fut = IF r.fut = "done" THEN "done" ELSE "cancelled"]
    OBVIOUS
  <1>5. scall' = [scall EXCEPT ![s] = q]
    BY <1>1, <1>3, <1>4, Zenon DEF GiveUp
  <1>6. scall'[s] = q /\ \A f \in Frame \ {s} : scall'[f] = scall[f]
    BY <1>2, <1>5 DEF Inv, TypeOK
  <1>7. /\ q.pc = r.pc /\ q.by = r.by /\ q.cur0 = r.cur0 /\ q.thr = r.thr /\ q.ctx = r.ctx
        /\ q.where = r.where
    BY <1>4 DEF SCallType
  <1>8. \A f \in Frame : CalmFunction(f)
    <2>1. CalmFunction(s)
      BY <1>3, <1>6, <1>7 DEF CalmFunction
    <2> QED  BY <1>6, <2>1, SameIsCalm
  <1>9. task'[n] = Leave(n, "cancelled") /\ \A x \in Task \ {n} : task'[x] = task[x]
    BY DEF GiveUp, Inv, TypeOK
  <1>10. \A x \in Task : CalmTask(x)
    BY <1>9, LeaveIsCalm, SameIsCalm DEF Outcome
  <1>11. UNCHANGED <<acall, tlocal, loop>>
    BY DEF GiveUp
  <1> QED  BY <1>8, <1>10, <1>11, SameIsCalm DEF Calm

\* A task that is told to cancel is calm.
LEMMA CancelIsCalm ==
    ASSUME Inv, NEW n \in Task, task'[n] = [task[n] EXCEPT !.cancel = TRUE]
    PROVE  CalmTask(n)
  <1>1. PICK r \in TaskType : r = task[n]
    BY DEF Inv, TypeOK
  <1>2. task'[n].pc = r.pc /\ task'[n].loop = r.loop /\ task'[n].ctx = r.ctx
    BY <1>1 DEF TaskType
  <1> QED  BY <1>1, <1>2, FieldsAreCalm

LEMMA CancelledWithChildIsCalm ==
    ASSUME Inv, NEW n \in Task, CancelledWithChild(n)
    PROVE  Calm
  <1>1. task[n].pc = "await" /\ task[n].pc \in Waiting
    <2>1. RaisedAtShield(n)
      BY DEF CancelledWithChild
    <2> QED  BY <2>1 DEF RaisedAtShield, Waiting
  <1>2. UNCHANGED <<scall, acall, tlocal, loop>>
    BY DEF CancelledWithChild
  <1>3. PICK m \in ACall : m = Head(scall[task[n].on].tcx)
    <2>1. scall[task[n].on].tcx \in Seq(ACall) /\ scall[task[n].on].tcx # <<>>
      BY <1>1, AwaitFacts DEF SCallType, CancelledWithChild
    <2> QED  BY <2>1
  <1>4. m \in Task
    BY DEF Task
  <1>5. task' = [task EXCEPT
             ![m].cancel = TRUE,
             ![n] = IF task[m].loop = task[n].loop
                    THEN [@ EXCEPT !.pc = "join", !.join = m, !.cancel = FALSE]
                    ELSE Leave(n, "error")]
    BY <1>3 DEF CancelledWithChild
  <1>6. \A x \in Task \ {n} :
            task'[x] = IF x = m THEN [task[x] EXCEPT !.cancel = TRUE] ELSE task[x]
    BY <1>4, <1>5 DEF Inv, TypeOK
  <1>7. CalmTask(n)
    <2>1. CASE task[m].loop = task[n].loop
      <3>1. PICK r \in TaskType : r = task[n]
        BY DEF Inv, TypeOK
      <3>2. PICK q \in TaskType : q = [r EXCEPT !.cancel = TRUE]
        BY DEF TaskType
      <3>3. task'[n] = [(IF m = n THEN q ELSE r) EXCEPT !.pc = "join", !.join = m, !.cancel = FALSE]
        BY <1>4, <1>5, <2>1, <3>1, <3>2 DEF Inv, TypeOK
      <3>4. task'[n].pc = "join" /\ task'[n].loop = r.loop /\ task'[n].ctx = r.ctx
        BY <1>4, <3>2, <3>3 DEF TaskType
      <3> QED  BY <1>1, <3>1, <3>4, FieldsAreCalm DEF Ended, Started, Live
    <2>2. CASE task[m].loop # task[n].loop
      <3>1. task'[n] = Leave(n, "error")
        BY <1>4, <1>5, <2>2 DEF Inv, TypeOK
      <3> QED  BY <1>1, <3>1, LeaveIsCalm DEF Outcome
    <2> QED  BY <2>1, <2>2
  <1>8. \A x \in Task : CalmTask(x)
    BY <1>4, <1>6, <1>7, SameIsCalm, CancelIsCalm
  <1> QED  BY <1>2, <1>8, SameIsCalm DEF Calm

LEMMA CancelledInJoinIsCalm ==
    ASSUME Inv, NEW n \in Task, CancelledInJoin(n)
    PROVE  Calm
  <1>1. task[n].pc \in Waiting
    BY DEF CancelledInJoin, Waiting
  <1>2. CASE task[task[n].join].pc = "done"
    BY <1>1, <1>2, GiveUpIsCalm DEF CancelledInJoin
  <1>3. CASE task[task[n].join].pc # "done"
    <2>1. UNCHANGED <<scall, acall, tlocal, loop>>
      BY <1>3 DEF CancelledInJoin
    <2>2. PICK m : m = task[n].join
      OBVIOUS
    <2>3. task' = [task EXCEPT ![m].cancel = TRUE, ![n].cancel = FALSE]
      BY <1>3, <2>2 DEF CancelledInJoin
    <2>4. \A x \in Task \ {n} :
              task'[x] = IF x = m THEN [task[x] EXCEPT !.cancel = TRUE] ELSE task[x]
      BY <2>3 DEF Inv, TypeOK
    <2>5. CalmTask(n)
      <3>1. PICK r \in TaskType : r = task[n]
        BY DEF Inv, TypeOK
      <3>2. PICK q \in TaskType : q = [r EXCEPT !.cancel = TRUE]
        BY DEF TaskType
      <3>3. task'[n] = [(IF m = n THEN q ELSE r) EXCEPT !.cancel = FALSE]
        BY <2>3, <3>1, <3>2 DEF Inv, TypeOK
      <3>4. task'[n].pc = r.pc /\ task'[n].loop = r.loop /\ task'[n].ctx = r.ctx
        BY <3>2, <3>3 DEF TaskType
      <3> QED  BY <3>1, <3>4, FieldsAreCalm
    <2>6. \A x \in Task : CalmTask(x)
      BY <2>4, <2>5, SameIsCalm, CancelIsCalm
    <2> QED  BY <2>1, <2>6, SameIsCalm DEF Calm
  <1> QED  BY <1>2, <1>3

\* A function ends, or its future does.
LEMMA OneFunctionIsCalm ==
    ASSUME Inv, NEW f \in Frame, NEW q, scall' = [scall EXCEPT ![f] = q],
           q.by = scall[f].by, q.cur0 = scall[f].cur0, q.where = scall[f].where,
           q.thr = scall[f].thr, q.ctx = scall[f].ctx,
           \/ q.pc = scall[f].pc
           \/ scall[f].pc # "none" /\ q.pc # "none" /\ scall[f].ctx.cur = scall[f].cur0,
           UNCHANGED <<task, acall, tlocal, loop>>
    PROVE  Calm
  <1>1. scall'[f] = q /\ \A x \in Frame \ {f} : scall'[x] = scall[x]
    BY DEF Inv, TypeOK
  <1>2. CalmFunction(f)
    BY <1>1 DEF CalmFunction
  <1>3. \A x \in Frame : CalmFunction(x)
    BY <1>1, <1>2, SameIsCalm
  <1> QED  BY <1>3, SameIsCalm DEF Calm

LEMMA FunctionReturnsIsCalm ==
    ASSUME Inv, NEW t \in Thread, NEW f \in Frame, NEW g \in Outcome, FunctionReturns(t, f, g)
    PROVE  Calm
  <1>1. Top(t) = f /\ UNCHANGED <<task, acall, tlocal, loop>>
    BY DEF FunctionReturns
  <1>2. scall[f].pc = "running" /\ scall[f].ctx.cur = scall[f].cur0
    <2>1. /\ Len(stack[t]) \in 1..Len(stack[t]) /\ f = stack[t][Len(stack[t])]
          /\ scall[f].pc = "running"
      BY <1>1, TopFacts
    <2>2. ~(Len(stack[t]) < Len(stack[t]))
      BY <2>1
    <2> QED  BY <2>1, <2>2 DEF Inv, ContextInv
  <1>3. PICK r \in SCallType : r = scall[f]
    BY DEF Inv, TypeOK
  <1>4. PICK q : q = [r EXCEPT !.pc = "finished", !.got = g]
    OBVIOUS
  <1>5. /\ q.by = r.by /\ q.cur0 = r.cur0 /\ q.where = r.where /\ q.thr = r.thr /\ q.ctx = r.ctx
        /\ q.pc = "finished"
    BY <1>4 DEF SCallType
  <1>6. scall' = [scall EXCEPT ![f] = q]
    BY <1>3, <1>4 DEF FunctionReturns
  <1> QED  BY <1>1, <1>2, <1>3, <1>5, <1>6, OneFunctionIsCalm

LEMMA FutureStepIsCalm ==
    ASSUME Inv, NEW s \in SCall, FutureStep(s)
    PROVE  Calm
  <1>1. s \in Frame
    BY DEF Frame
  <1>2. PICK r \in SCallType : r = scall[s]
    BY <1>1 DEF Inv, TypeOK
  <1>3. UNCHANGED <<task, acall, tlocal, loop>>
    BY DEF FutureStep, ExecCoroDone, ExecCoroCancelled
  <1>4. CASE ExecCoroDone(s)
    <2>1. PICK q : q = [r EXCEPT !.fut = "done"]
      OBVIOUS
    <2>2. /\ q.by = r.by /\ q.cur0 = r.cur0 /\ q.where = r.where /\ q.thr = r.thr /\ q.ctx = r.ctx
          /\ q.pc = r.pc
      BY <2>1 DEF SCallType
    <2>3. scall' = [scall EXCEPT ![s] = q]
      BY <1>2, <1>4, <2>1 DEF ExecCoroDone
    <2> QED  BY <1>1, <1>2, <1>3, <2>2, <2>3, OneFunctionIsCalm
  <1>5. CASE ExecCoroCancelled(s)
    <2>1. PICK q : q = [r EXCEPT !.pc = "dropped"]
      OBVIOUS
    <2>2. /\ q.by = r.by /\ q.cur0 = r.cur0 /\ q.where = r.where /\ q.thr = r.thr /\ q.ctx = r.ctx
          /\ q.pc = "dropped"
      BY <2>1 DEF SCallType
    <2>3. scall' = [scall EXCEPT ![s] = q] /\ r.pc = "queued"
      BY <1>2, <1>5, <2>1 DEF ExecCoroCancelled
    <2>4. scall[s].ctx.cur = scall[s].cur0
      BY <1>2, <2>3 DEF Inv, ContextInv
    <2> QED  BY <1>1, <1>2, <1>3, <2>2, <2>3, <2>4, OneFunctionIsCalm
  <1> QED  BY <1>4, <1>5 DEF FutureStep

LEMMA UserLoopReturnsIsCalm ==
    ASSUME Inv, NEW t \in Thread, UserLoopReturns(t)
    PROVE  Calm
  <1>1. Top(t) \in Spawn /\ Top(t) \notin Frame /\ UNCHANGED <<task, acall, tlocal, loop>>
    BY ConstantsAssumption DEF UserLoopReturns, Frame
  <1>2. PICK f \in Frame : f = stack[t][Len(stack[t]) - 1]
    BY <1>1, TopFacts
  <1>3. PICK r \in SCallType : r = scall[f]
    BY DEF Inv, TypeOK
  <1>4. PICK g : g = task[Top(t)].got
    OBVIOUS
  <1>5. PICK q : q = [r EXCEPT !.got = g]
    OBVIOUS
  <1>6. /\ q.by = r.by /\ q.cur0 = r.cur0 /\ q.where = r.where /\ q.thr = r.thr /\ q.ctx = r.ctx
        /\ q.pc = r.pc
    BY <1>5 DEF SCallType
  <1>7. scall' = [scall EXCEPT ![f] = q]
    BY <1>2, <1>3, <1>4, <1>5 DEF UserLoopReturns
  <1> QED  BY <1>1, <1>3, <1>6, <1>7, OneFunctionIsCalm

\* main_wrap starts and ends: a task goes on, and its task_context and call change.
LEMMA MainWrapIsCalm ==
    ASSUME Inv, NEW n \in Task, NEW q, task' = [task EXCEPT ![n] = q],
           q.loop = task[n].loop, q.ctx = task[n].ctx,
           \/ task[n].pc \notin {"none"} \cup Ended /\ q.pc \in Started
           \/ task[n].pc = "ending" /\ q.pc = "done",
           \A f \in Frame : CalmFunction(f), \A a \in ACall : CalmCall(a),
           UNCHANGED <<tlocal, loop>>
    PROVE  Calm
  <1>1. task'[n] = q /\ \A x \in Task \ {n} : task'[x] = task[x]
    BY DEF Inv, TypeOK
  <1>2. CalmTask(n)
    BY <1>1, FieldsAreCalm
  <1>3. \A x \in Task : CalmTask(x)
    BY <1>1, <1>2, SameIsCalm
  <1> QED  BY <1>3, SameIsCalm DEF Calm

\* A task_context may change.
LEMMA TaskContextIsCalm ==
    ASSUME Inv, NEW x, NEW o, scall' = scall \/ scall' = [scall EXCEPT ![x].tcx = o]
    PROVE  \A f \in Frame : CalmFunction(f)
  <1>1. ASSUME NEW f \in Frame  PROVE CalmFunction(f)
    <2>1. CASE scall'[f] = scall[f]
      BY <2>1, SameIsCalm
    <2>2. CASE scall'[f] = [scall[f] EXCEPT !.tcx = o]
      <3>1. PICK r \in SCallType : r = scall[f]
        BY DEF Inv, TypeOK
      <3>2. PICK q : q = [r EXCEPT !.tcx = o]
        OBVIOUS
      <3>3. /\ q.by = r.by /\ q.cur0 = r.cur0 /\ q.where = r.where /\ q.thr = r.thr /\ q.ctx = r.ctx
            /\ q.pc = r.pc
        BY <3>2 DEF SCallType
      <3>4. scall'[f] = q
        BY <2>2, <3>1, <3>2
      <3> QED  BY <3>1, <3>3, <3>4 DEF CalmFunction
    <2> QED  BY <2>1, <2>2 DEF Inv, TypeOK
  <1> QED  BY <1>1

LEMMA TaskStartsIsCalm ==
    ASSUME Inv, NEW n \in Task, TaskStarts(n)
    PROVE  Calm
  <1>1. PICK r \in TaskType : r = task[n]
    BY DEF Inv, TypeOK
  <1>2. PICK q : q = [r EXCEPT !.pc = "run"]
    OBVIOUS
  <1>3. task' = [task EXCEPT ![n] = q] /\ r.pc = "created" /\ UNCHANGED <<acall, tlocal, loop>>
    BY <1>1, <1>2 DEF TaskStarts
  <1>4. q.loop = r.loop /\ q.ctx = r.ctx /\ q.pc = "run"
    BY <1>2 DEF TaskType
  <1>5. \E x, o : scall' = scall \/ scall' = [scall EXCEPT ![x].tcx = o]
    BY Zenon DEF TaskStarts
  <1>6. \A f \in Frame : CalmFunction(f)
    BY <1>5, TaskContextIsCalm
  <1>7. r.pc \notin {"none"} \cup Ended /\ q.pc \in Started
    BY <1>3, <1>4 DEF Ended, Started, Live
  <1> QED  BY <1>1, <1>3, <1>4, <1>6, <1>7, SameIsCalm, MainWrapIsCalm

LEMMA TaskReturnsIsCalm ==
    ASSUME Inv, NEW n \in Task, NEW g \in Outcome, TaskReturns(n, g)
    PROVE  Calm
  <1>1. PICK r \in TaskType : r = task[n]
    BY DEF Inv, TypeOK
  <1>2. PICK q : q = [r EXCEPT !.pc = IF n \in ACall THEN "ending" ELSE "done",
                               !.cancel = FALSE, !.got = g]
    OBVIOUS
  <1>3. task' = [task EXCEPT ![n] = q] /\ r.pc = "run" /\ UNCHANGED <<tlocal, loop>>
    BY <1>1, <1>2 DEF TaskReturns
  <1>4. q.loop = r.loop /\ q.ctx = r.ctx /\ q.pc \in Ended
    BY <1>2 DEF TaskType, Ended
  <1>5. \E x, o : scall' = scall \/ scall' = [scall EXCEPT ![x].tcx = o]
    BY Zenon DEF TaskReturns, OffTaskContext
  <1>6. \A f \in Frame : CalmFunction(f)
    BY <1>5, TaskContextIsCalm
  <1>7. r.pc \notin {"none"} \cup Ended /\ q.pc \in Started
    BY <1>3, <1>4 DEF Ended, Started, Live
  <1>8. \A a \in ACall : CalmCall(a)
    <2>1. CASE n \in ACall
      <3>1. PICK u \in ACallType : u = acall[n]
        BY <2>1 DEF Inv, TypeOK
      <3>2. PICK v : v = [u EXCEPT !.cell = r.ctx]
        OBVIOUS
      <3>3. acall' = [acall EXCEPT ![n] = v]
        BY <1>1, <2>1, <3>1, <3>2 DEF TaskReturns
      <3>4. acall'[n] = v /\ \A a \in ACall \ {n} : acall'[a] = acall[a]
        BY <2>1, <3>3 DEF Inv, TypeOK
      <3>5. /\ v.pc = u.pc /\ v.thr = u.thr /\ v.old = u.old /\ v.tc = u.tc
            /\ v.mode = u.mode /\ v.lp = u.lp
        BY <3>2 DEF ACallType
      <3>6. u.pc # "posting"
        BY <1>1, <1>3, <2>1, <3>1 DEF Inv, CallInv, CallOf
      <3>7. CalmCall(n)
        BY <3>1, <3>4, <3>5, <3>6 DEF CalmCall
      <3> QED  BY <3>4, <3>7, SameIsCalm
    <2>2. CASE n \notin ACall
      BY <2>2, SameIsCalm DEF TaskReturns
    <2> QED  BY <2>1, <2>2
  <1> QED  BY <1>1, <1>3, <1>4, <1>6, <1>7, <1>8, MainWrapIsCalm

LEMMA SetResultIsCalm ==
    ASSUME Inv, NEW n \in ACall, SetResult(n)
    PROVE  Calm
  <1>0. n \in Task
    BY DEF Task
  <1>1. PICK r \in TaskType : r = task[n]
    BY <1>0 DEF Inv, TypeOK
  <1>2. PICK q : q = [r EXCEPT !.pc = "done"]
    OBVIOUS
  <1>3. /\ task' = [task EXCEPT ![n] = q] /\ r.pc = "ending"
        /\ UNCHANGED <<scall, tlocal, loop>>
    BY <1>1, <1>2 DEF SetResult
  <1>4. q.loop = r.loop /\ q.ctx = r.ctx /\ q.pc = "done"
    BY <1>2 DEF TaskType
  <1>5. PICK u \in ACallType : u = acall[n]
    BY DEF Inv, TypeOK
  <1>6. PICK v : v = [u EXCEPT !.res = r.got]
    OBVIOUS
  <1>7. acall' = [acall EXCEPT ![n] = v]
    BY <1>1, <1>5, <1>6 DEF SetResult
  <1>8. acall'[n] = v /\ \A a \in ACall \ {n} : acall'[a] = acall[a]
    BY <1>7 DEF Inv, TypeOK
  <1>9. /\ v.pc = u.pc /\ v.thr = u.thr /\ v.old = u.old /\ v.tc = u.tc
        /\ v.mode = u.mode /\ v.lp = u.lp /\ v.cell = u.cell
    BY <1>6 DEF ACallType
  <1>10. \A a \in ACall : CalmCall(a)
    <2>1. CalmCall(n)
      BY <1>5, <1>8, <1>9 DEF CalmCall
    <2> QED  BY <1>8, <2>1, SameIsCalm
  <1> QED  BY <1>0, <1>1, <1>3, <1>4, <1>10, SameIsCalm, MainWrapIsCalm

LEMMA LoopStepIsCalm ==
    ASSUME Inv, NEW l \in Loop, LoopStep(l)
    PROVE  Calm
  <1>1. UNCHANGED <<scall, acall, tlocal>>
    BY DEF LoopStep, BeginClose, ResumeClose, EndClose, Close
  <1>2. \A x \in Loop : CalmLoop(x)
    <2>1. CASE BeginClose(l)
      BY <2>1 DEF BeginClose, CalmLoop, Inv, TypeOK
    <2>2. CASE EndClose(l)
      BY <2>2 DEF EndClose, CalmLoop, Inv, TypeOK
    <2>3. CASE Close(l)
      BY <2>3 DEF Close, CalmLoop, Inv, TypeOK
    <2>4. CASE ResumeClose(l)
      BY <2>4 DEF ResumeClose, CalmLoop, Inv, TypeOK
    <2> QED  BY <2>1, <2>2, <2>3, <2>4 DEF LoopStep
  <1>3. \A n \in Task : CalmTask(n)
    <2>1. CASE ~BeginClose(l)
      BY <2>1, SameIsCalm DEF LoopStep, ResumeClose, EndClose, Close
    <2>2. ASSUME BeginClose(l), NEW n \in Task  PROVE CalmTask(n)
      <3>1. \/ task'[n] = task[n]
            \/ task'[n] = [task[n] EXCEPT !.late = TRUE]
            \/ task'[n] = [task[n] EXCEPT !.cancel = TRUE]
        <4>1. task'[n] = (CASE task[n].loop # l \/ task[n].pc = "done" -> task[n]
                            [] task[n].loop = l /\ task[n].pc = "posted" -> [task[n] EXCEPT !.late = TRUE]
                            [] OTHER -> [task[n] EXCEPT !.cancel = TRUE])
          BY <2>2 DEF BeginClose
        <4> QED  BY <4>1
      <3>2. CASE task'[n] = [task[n] EXCEPT !.late = TRUE]
        <4>1. PICK r \in TaskType : r = task[n]
          BY DEF Inv, TypeOK
        <4>2. task'[n].pc = r.pc /\ task'[n].loop = r.loop /\ task'[n].ctx = r.ctx
          BY <3>2, <4>1 DEF TaskType
        <4> QED  BY <4>1, <4>2, FieldsAreCalm
      <3> QED  BY <3>1, <3>2, CancelIsCalm, SameIsCalm
    <2> QED  BY <2>1, <2>2
  <1> QED  BY <1>1, <1>2, <1>3, SameIsCalm DEF Calm

-----------------------------------------------------------------------------
(* What the other steps send, and where. *)

LEMMA SubmittedEffect ==
    ASSUME Inv, NEW n \in Task, NEW s \in SCall, NEW w, NEW c \in Ctx,
           task[n].pc = "run", scall[s].pc = "none", Submitted(n, s, w, c),
           c.cur = task[n].ctx.cur
    PROVE  /\ UNCHANGED <<acall, tlocal, loop>>
           /\ \A x \in Task : CalmTask(x)
           /\ task'[n].pc = "await" /\ task'[n].loop = task[n].loop
           /\ \A f \in Frame \ {s} : CalmFunction(f)
           /\ scall'[s].pc = "queued" /\ scall'[s].by = n /\ scall'[s].where = w
           /\ scall'[s].thr = None /\ scall'[s].ctx = c /\ scall'[s].cur0 = c.cur
  <1>0. s \in Frame
    BY DEF Frame
  <1>1. PICK r \in TaskType : r = task[n]
    BY DEF Inv, TypeOK
  <1>2. PICK q : q = [r EXCEPT !.pc = "await", !.on = s, !.ctx = c]
    OBVIOUS
  <1>3. PICK u : u = [NoSCall EXCEPT !.pc = "queued", !.by = n, !.where = w, !.ctx = c, !.cur0 = c.cur]
    OBVIOUS
  <1>4. task' = [task EXCEPT ![n] = q] /\ scall' = [scall EXCEPT ![s] = u]
        /\ UNCHANGED <<acall, tlocal, loop>>
    BY <1>1, <1>2, <1>3 DEF Submitted
  <1>5. /\ task'[n] = q /\ \A x \in Task \ {n} : task'[x] = task[x]
        /\ scall'[s] = u /\ \A f \in Frame \ {s} : scall'[f] = scall[f]
    BY <1>0, <1>4 DEF Inv, TypeOK
  <1>6. q.pc = "await" /\ q.loop = r.loop /\ q.ctx = c
    BY <1>2 DEF TaskType
  <1>7. /\ u.pc = "queued" /\ u.by = n /\ u.where = w /\ u.thr = None /\ u.ctx = c
        /\ u.cur0 = c.cur
    BY <1>3 DEF NoSCall
  <1>8. CalmTask(n)
    BY <1>1, <1>5, <1>6 DEF CalmTask, Started, Live, Ended
  <1>9. \A x \in Task : CalmTask(x)
    BY <1>5, <1>8, SameIsCalm
  <1> QED  BY <1>1, <1>4, <1>5, <1>6, <1>7, <1>9, SameIsCalm

LEMMA CreateUserTaskEffect ==
    ASSUME Inv, NEW n \in Task, NEW m \in Spawn, NEW fresh \in BOOLEAN, CreateUserTask(n, m, fresh)
    PROVE  /\ UNCHANGED <<scall, acall, tlocal, loop>>
           /\ \A x \in Task \ {m} : CalmTask(x)
           /\ task[m].pc = "none" /\ task[n].pc = "run"
           /\ task'[m].pc = "created" /\ task'[m].loop = task[n].loop
           /\ task'[m].ctx.cur \in {None, task[n].ctx.cur}
  <1>0. m \in Task
    BY DEF Task
  <1>1. PICK c : c = IF fresh THEN EmptyCtx ELSE task[n].ctx
    OBVIOUS
  <1>2. PICK b : b = (loop[task[n].loop] = "closing")
    OBVIOUS
  <1>3. PICK l : l = task[n].loop
    OBVIOUS
  <1>4. PICK q : q = [NoTask EXCEPT !.pc = "created", !.loop = l, !.ctx = c, !.late = b]
    OBVIOUS
  <1>5. /\ task' = [task EXCEPT ![m] = q] /\ UNCHANGED <<scall, acall, tlocal, loop>>
        /\ task[m].pc = "none" /\ task[n].pc = "run"
    BY <1>1, <1>2, <1>3, <1>4, Zenon DEF CreateUserTask, RunsCode
  <1>6. q.pc = "created" /\ q.loop = l /\ q.ctx = c
    BY <1>4 DEF NoTask
  <1>7. task'[m] = q /\ \A x \in Task \ {m} : task'[x] = task[x]
    BY <1>0, <1>5 DEF Inv, TypeOK
  <1>8. c.cur \in {None, task[n].ctx.cur}
    <2>1. EmptyCtx.cur = None
      BY DEF EmptyCtx
    <2> QED  BY <1>1, <2>1
  <1> QED  BY <1>3, <1>5, <1>6, <1>7, <1>8, SameIsCalm

LEMMA ThreadHandlerEffect ==
    ASSUME Inv, NEW t \in Thread, NEW s \in SCall, ThreadHandler(t, s)
    PROVE  /\ UNCHANGED <<task, acall, loop>>
           /\ \A f \in Frame \ {s} : CalmFunction(f)
           /\ scall[s].pc = "queued" /\ scall'[s].pc = "running" /\ scall'[s].thr = t
           /\ scall'[s].by = scall[s].by /\ scall'[s].where = scall[s].where
           /\ scall'[s].ctx = scall[s].ctx /\ scall'[s].cur0 = scall[s].cur0
           /\ \A u \in Thread \ {t} : tlocal'[u] = tlocal[u]
           /\ tlocal'[t].loop = task[scall[s].by].loop
  <1>0. s \in Frame
    BY DEF Frame
  <1>1. PICK r \in SCallType : r = scall[s]
    BY <1>0 DEF Inv, TypeOK
  <1>2. PICK q : q = [r EXCEPT !.pc = "running", !.thr = t]
    OBVIOUS
  <1>3. /\ scall' = [scall EXCEPT ![s] = q] /\ r.pc = "queued" /\ UNCHANGED <<task, acall, loop>>
    BY <1>1, <1>2 DEF ThreadHandler
  <1>4. /\ q.pc = "running" /\ q.thr = t /\ q.by = r.by /\ q.where = r.where /\ q.ctx = r.ctx
        /\ q.cur0 = r.cur0
    BY <1>2 DEF SCallType
  <1>5. scall'[s] = q /\ \A f \in Frame \ {s} : scall'[f] = scall[f]
    BY <1>0, <1>3 DEF Inv, TypeOK
  <1>6. \A u \in Thread \ {t} : tlocal'[u] = tlocal[u]
    BY DEF ThreadHandler, Inv, TypeOK
  <1>7. tlocal'[t].loop = task[scall[s].by].loop
    BY DEF ThreadHandler, Inv, TypeOK
  <1> QED  BY <1>1, <1>3, <1>4, <1>5, <1>6, <1>7, SameIsCalm

LEMMA AsyncToSyncReturnsEffect ==
    ASSUME Inv, NEW t \in Thread, NEW a \in ACall, AsyncToSyncReturns(t, a)
    PROVE  \E f \in Frame :
              /\ UNCHANGED <<task, tlocal, loop>>
              /\ \A x \in ACall \ {a} : CalmCall(x)
              /\ acall[a].pc = "parked" /\ acall'[a].pc = "returned"
              /\ acall'[a].thr = acall[a].thr /\ acall'[a].old = acall[a].old
              /\ acall'[a].tc = acall[a].tc /\ acall'[a].mode = acall[a].mode
              /\ acall[a].thr = t /\ scall[f].thr = t /\ acall[a].old = scall[f].cur0
              /\ \A g \in Frame \ {f} : CalmFunction(g)
              /\ scall[f].pc = "running" /\ scall'[f].pc = "running"
              /\ scall'[f].thr = scall[f].thr /\ scall'[f].by = scall[f].by
              /\ scall'[f].where = scall[f].where /\ scall'[f].cur0 = scall[f].cur0
              /\ scall'[f].ctx.cur = acall[a].old
  <1>0. Top(t) = a /\ a \notin Frame /\ acall[a].pc = "parked"
    BY ConstantsAssumption DEF Frame, AsyncToSyncReturns
  <1>1. PICK k \in 1..Len(stack[t]) : k = Len(stack[t]) - 1 /\ stack[t][k] \in Frame
    BY <1>0, TopFacts
  <1>2. k < Len(stack[t]) /\ k + 1 = Len(stack[t]) /\ Len(stack[t]) \in 1..Len(stack[t])
    BY <1>0, <1>1, TopFacts DEF Inv, TypeOK
  <1>3. stack[t][k + 1] = a
    BY <1>0, <1>2, TopFacts
  <1>4. PICK f \in Frame : f = stack[t][k]
    BY <1>1
  <1>5. acall[a].old = scall[f].cur0
    BY <1>1, <1>2, <1>3, <1>4, ContextAt
  <1>6. scall[f].pc = "running" /\ scall[f].thr = t
    BY <1>1, <1>4 DEF Inv, StackInv
  <1>7. acall[a].thr = t
    BY <1>2, <1>3 DEF Inv, StackInv
  <1>8. PICK u \in ACallType : u = acall[a]
    BY DEF Inv, TypeOK
  <1>9. PICK v : v = [u EXCEPT !.pc = "returned"]
    OBVIOUS
  <1>10. PICK r \in SCallType : r = scall[f]
    BY DEF Inv, TypeOK
  <1>11. PICK c : c = [u.cell EXCEPT !.cur = u.old] /\ c.cur = u.old
    <2>1. u.cell \in Ctx /\ u.old \in ACall \cup {None}
      BY DEF ACallType
    <2>2. [u.cell EXCEPT !.cur = u.old].cur = u.old
      BY <2>1, CtxFacts, Zenon
    <2> QED  BY <2>2, Zenon
  <1>12. PICK q : q = [r EXCEPT !.ctx = c, !.got = u.res]
    OBVIOUS
  <1>13. /\ acall' = [acall EXCEPT ![a] = v] /\ scall' = [scall EXCEPT ![f] = q]
         /\ UNCHANGED <<task, tlocal, loop>>
    BY <1>1, <1>4, <1>8, <1>9, <1>10, <1>11, <1>12 DEF AsyncToSyncReturns
  <1>14. /\ q.pc = r.pc /\ q.thr = r.thr /\ q.by = r.by /\ q.where = r.where /\ q.cur0 = r.cur0
         /\ q.ctx = c
    BY <1>12 DEF SCallType
  <1>15. /\ v.pc = "returned" /\ v.thr = u.thr /\ v.old = u.old /\ v.tc = u.tc /\ v.mode = u.mode
    BY <1>9 DEF ACallType
  <1>16. /\ acall'[a] = v /\ \A x \in ACall \ {a} : acall'[x] = acall[x]
         /\ scall'[f] = q /\ \A g \in Frame \ {f} : scall'[g] = scall[g]
    BY <1>13 DEF Inv, TypeOK
  <1>17. /\ \A x \in ACall \ {a} : CalmCall(x)
         /\ \A g \in Frame \ {f} : CalmFunction(g)
    BY <1>16, SameIsCalm
  <1>18. /\ acall'[a].pc = "returned" /\ acall'[a].thr = acall[a].thr
         /\ acall'[a].old = acall[a].old /\ acall'[a].tc = acall[a].tc
         /\ acall'[a].mode = acall[a].mode
    BY <1>8, <1>15, <1>16
  <1>19. /\ scall'[f].pc = "running" /\ scall'[f].thr = scall[f].thr /\ scall'[f].by = scall[f].by
         /\ scall'[f].where = scall[f].where /\ scall'[f].cur0 = scall[f].cur0
         /\ scall'[f].ctx.cur = acall[a].old
    BY <1>6, <1>8, <1>10, <1>11, <1>14, <1>16
  <1> QED  BY <1>0, <1>5, <1>6, <1>7, <1>13, <1>17, <1>18, <1>19, Zenon

LEMMA RunUserLoopEffect ==
    ASSUME Inv, NEW t \in Thread, NEW m \in Spawn, RunUserLoop(t, m)
    PROVE  /\ UNCHANGED <<scall, acall, tlocal>>
           /\ \A x \in Task \ {m} : CalmTask(x)
           /\ \A l \in Loop \ {m} : loop'[l] = loop[l]
           /\ task[m].pc = "none" /\ task'[m].pc = "created" /\ task'[m].loop = m
           /\ loop[m] = "off" /\ loop'[m] = "run"
           /\ Top(t) \in Frame /\ scall[Top(t)].pc = "running"
           /\ task'[m].ctx.cur = scall[Top(t)].ctx.cur
  <1>0. m \in Task /\ m \in Loop
    BY DEF Task, Loop
  <1>1. PICK c : c = scall[Top(t)].ctx
    OBVIOUS
  <1>2. PICK q : q = [NoTask EXCEPT !.pc = "created", !.loop = m, !.ctx = c]
    OBVIOUS
  <1>3. /\ task' = [task EXCEPT ![m] = q] /\ UNCHANGED <<scall, acall, tlocal>>
        /\ task[m].pc = "none" /\ Top(t) \in Frame /\ loop' = [loop EXCEPT ![m] = "run"]
    BY <1>1, <1>2, Zenon DEF RunUserLoop
  <1>4. q.pc = "created" /\ q.loop = m /\ q.ctx = c
    BY <1>2 DEF NoTask
  <1>5. /\ task'[m] = q /\ \A x \in Task \ {m} : task'[x] = task[x]
        /\ loop'[m] = "run" /\ \A l \in Loop \ {m} : loop'[l] = loop[l]
    BY <1>0, <1>3 DEF Inv, TypeOK
  <1>6. loop[m] = "off" /\ scall[Top(t)].pc = "running"
    BY <1>3, TopFacts DEF Inv, LoopInv
  <1> QED  BY <1>1, <1>3, <1>4, <1>5, <1>6, SameIsCalm

\* The task of call a is made on loop l, with the context of the call.
TaskMade(a, l) ==
    /\ task[a].pc = "none" /\ task'[a].pc \in {"posted", "created"} /\ task'[a].loop = l
    /\ task'[a].ctx = acall'[a].cell
    /\ \A x \in Task \ {a} : task'[x] = task[x]

\* ... on a loop of its own.
LoopMade(a) ==
    /\ TaskMade(a, a)
    /\ acall'[a].pc = "parked" /\ acall'[a].mode = "new"
    /\ loop[a] = "off" /\ loop'[a] = "run"
    /\ \A l \in Loop \ {a} : loop'[l] = loop[l]

LEMMA OnNewLoopEffect ==
    ASSUME Inv, NEW a \in ACall, NEW u \in ACallType, OnNewLoop(a, u), task[a].pc = "none"
    PROVE  /\ LoopMade(a)
           /\ \A x \in ACall \ {a} : acall'[x] = acall[x]
           /\ acall'[a].thr = u.thr /\ acall'[a].old = u.old /\ acall'[a].tc = u.tc
           /\ acall'[a].cell = u.cell
  <1>0. a \in ACall \cup Spawn /\ a \in Loop /\ a \in Task
    BY DEF Loop, Task
  <1>1. PICK v : v = [u EXCEPT !.pc = "parked", !.mode = "new", !.lp = a]
    OBVIOUS
  <1>2. PICK c : c = u.cell
    OBVIOUS
  <1>3. PICK q : q = [NoTask EXCEPT !.pc = "created", !.loop = a, !.ctx = c]
    OBVIOUS
  <1>4. /\ acall' = [acall EXCEPT ![a] = v] /\ loop' = [loop EXCEPT ![a] = "run"]
        /\ task' = [task EXCEPT ![a] = q]
    BY <1>1, <1>2, <1>3 DEF OnNewLoop
  <1>5. /\ v.pc = "parked" /\ v.mode = "new" /\ v.thr = u.thr /\ v.old = u.old /\ v.tc = u.tc
        /\ v.cell = u.cell
    BY <1>1 DEF ACallType
  <1>6. q.pc = "created" /\ q.loop = a /\ q.ctx = c
    BY <1>3 DEF NoTask
  <1>7. /\ acall'[a] = v /\ \A x \in ACall \ {a} : acall'[x] = acall[x]
        /\ task'[a] = q /\ \A x \in Task \ {a} : task'[x] = task[x]
        /\ loop'[a] = "run" /\ \A l \in Loop \ {a} : loop'[l] = loop[l]
    BY <1>0, <1>4 DEF Inv, TypeOK
  <1>8. loop[a] = "off"
    BY <1>0 DEF Inv, LoopInv
  <1> QED  BY <1>2, <1>5, <1>6, <1>7, <1>8 DEF LoopMade, TaskMade

LEMMA CallSoonThreadsafeEffect ==
    ASSUME Inv, NEW a \in ACall, CallSoonThreadsafe(a)
    PROVE  /\ UNCHANGED <<scall, tlocal>>
           /\ \A x \in ACall \ {a} : acall'[x] = acall[x]
           /\ acall[a].pc = "posting"
           /\ acall'[a].thr = acall[a].thr /\ acall'[a].old = acall[a].old
           /\ acall'[a].tc = acall[a].tc /\ acall'[a].cell = acall[a].cell
           /\ \/ LoopMade(a)
              \/ /\ TaskMade(a, acall[a].lp) /\ loop' = loop
                 /\ acall'[a].pc = "parked" /\ acall'[a].mode = "main"
  <1>0. a \in Task
    BY DEF Task
  <1>1. PICK u \in ACallType : u = acall[a]
    BY DEF Inv, TypeOK
  <1>2. u.pc = "posting" /\ task[a].pc = "none" /\ UNCHANGED <<scall, tlocal>>
    BY <1>1 DEF CallSoonThreadsafe, Inv, CallInv, CallOf
  <1>3. CASE loop[acall[a].lp] = "closed"
    <2>1. OnNewLoop(a, u)
      BY <1>1, <1>3 DEF CallSoonThreadsafe
    <2> QED  BY <1>1, <1>2, <2>1, OnNewLoopEffect
  <1>4. CASE loop[acall[a].lp] # "closed"
    <2>1. PICK v : v = [u EXCEPT !.pc = "parked", !.mode = "main"]
      OBVIOUS
    <2>2. PICK c, l, late : c = u.cell /\ l = u.lp /\ late = (loop[u.lp] = "gap")
      OBVIOUS
    <2>3. PICK q : q = [NoTask EXCEPT !.pc = "posted", !.loop = l, !.ctx = c, !.late = late]
      OBVIOUS
    <2>4. acall' = [acall EXCEPT ![a] = v] /\ task' = [task EXCEPT ![a] = q] /\ loop' = loop
      BY <1>1, <1>4, <2>1, <2>2, <2>3 DEF CallSoonThreadsafe
    <2>5. /\ v.pc = "parked" /\ v.mode = "main" /\ v.thr = u.thr /\ v.old = u.old /\ v.tc = u.tc
          /\ v.cell = u.cell
      BY <2>1 DEF ACallType
    <2>6. q.pc = "posted" /\ q.loop = l /\ q.ctx = c
      BY <2>3 DEF NoTask
    <2>7. /\ acall'[a] = v /\ \A x \in ACall \ {a} : acall'[x] = acall[x]
          /\ task'[a] = q /\ \A x \in Task \ {a} : task'[x] = task[x]
      BY <1>0, <2>4 DEF Inv, TypeOK
    <2> QED  BY <1>1, <1>2, <2>2, <2>4, <2>5, <2>6, <2>7 DEF TaskMade
  <1> QED  BY <1>3, <1>4

LEMMA AsyncToSyncCallEffect ==
    ASSUME Inv, NEW t \in Thread, NEW a \in ACall, NEW force \in BOOLEAN,
           AsyncToSyncCall(t, a, force)
    PROVE  /\ tlocal' = tlocal
           /\ Top(t) \in Frame /\ scall[Top(t)].pc = "running" /\ scall[Top(t)].thr = t
           /\ scall'[Top(t)].pc = "running" /\ scall'[Top(t)].thr = t
           /\ scall'[Top(t)].by = scall[Top(t)].by /\ scall'[Top(t)].where = scall[Top(t)].where
           /\ scall'[Top(t)].cur0 = scall[Top(t)].cur0 /\ scall'[Top(t)].ctx.cur = a
           /\ \A g \in Frame \ {Top(t)} : scall'[g] = scall[g]
           /\ \A x \in ACall \ {a} : acall'[x] = acall[x]
           /\ acall[a].pc = "none" /\ acall'[a].pc # "none" /\ acall'[a].thr = t
           /\ acall'[a].old = scall[Top(t)].ctx.cur /\ acall'[a].cell.cur = a
           /\ \/ LoopMade(a)
              \/ /\ acall'[a].pc = "posting" /\ acall'[a].mode = "none"
                 /\ tlocal[t].loop # None /\ acall'[a].lp = tlocal[t].loop
                 /\ UNCHANGED <<task, loop>>
  <1>0. a \in Task
    BY DEF Task
  <1>1. PICK f \in Frame : f = Top(t) /\ scall[f].pc = "running" /\ scall[f].thr = t
    BY TopFacts DEF AsyncToSyncCall
  <1>2. PICK r \in SCallType : r = scall[f]
    BY DEF Inv, TypeOK
  <1>3. r.ctx \in Ctx /\ r.ctx.cur \in ACall \cup {None}
    BY DEF SCallType, Ctx
  <1>4. PICK c \in Ctx : c = [r.ctx EXCEPT !.cur = a] /\ c.cur = a
    <2>1. [r.ctx EXCEPT !.cur = a] \in Ctx /\ [r.ctx EXCEPT !.cur = a].cur = a
      BY <1>3, CtxFacts, Zenon
    <2> QED  BY <2>1, Zenon
  <1>5. PICK w : w = [r EXCEPT !.ctx = c]
    OBVIOUS
  <1>6. scall' = [scall EXCEPT ![f] = w]
    BY <1>1, <1>2, <1>4, <1>5 DEF AsyncToSyncCall
  <1>7. scall'[f] = w /\ \A x \in Frame \ {f} : scall'[x] = scall[x]
    BY <1>6 DEF Inv, TypeOK
  <1>8. /\ w.pc = r.pc /\ w.by = r.by /\ w.cur0 = r.cur0 /\ w.thr = r.thr /\ w.where = r.where
        /\ w.ctx = c
    BY <1>5 DEF SCallType
  <1>9. PICK tl \in [loop : Loop \cup {None}, tc : SCall \cup {None}] : tl = tlocal[t]
    BY DEF Inv, TypeOK
  <1>10. PICK u \in ACallType : u = [NoACall EXCEPT !.thr = t, !.old = r.ctx.cur, !.tc = tl.tc, !.cell = c]
    <2>1. NoACall \in ACallType
      BY RecordTypes
    <2> QED  BY <1>3, <2>1 DEF ACallType
  <1>11. u.thr = t /\ u.old = r.ctx.cur /\ u.mode = "none" /\ u.cell = c
    BY <1>10 DEF NoACall
  <1>12. acall[a].pc = "none" /\ tlocal' = tlocal
    BY DEF AsyncToSyncCall
  <1>13. task[a].pc = "none"
    BY <1>0, <1>12 DEF Inv, CallInv, CallOf
  <1>14. PICK parent : parent = IF force THEN None ELSE tl.loop
    OBVIOUS
  <1>15. \/ /\ parent # None
            /\ acall' = [acall EXCEPT ![a] = [u EXCEPT !.pc = "posting", !.lp = parent]]
            /\ UNCHANGED <<task, loop>>
         \/ OnNewLoop(a, u)
    BY <1>1, <1>2, <1>4, <1>9, <1>10, <1>14 DEF AsyncToSyncCall
  <1>16. /\ \A x \in ACall \ {a} : acall'[x] = acall[x]
         /\ acall'[a].pc # "none" /\ acall'[a].thr = t
         /\ acall'[a].old = r.ctx.cur /\ acall'[a].cell = c
         /\ \/ LoopMade(a)
            \/ /\ acall'[a].pc = "posting" /\ acall'[a].mode = "none"
               /\ tl.loop # None /\ acall'[a].lp = tl.loop
               /\ UNCHANGED <<task, loop>>
    <2>1. CASE /\ parent # None
               /\ acall' = [acall EXCEPT ![a] = [u EXCEPT !.pc = "posting", !.lp = parent]]
               /\ UNCHANGED <<task, loop>>
      <3>1. PICK v : v = [u EXCEPT !.pc = "posting", !.lp = parent]
        OBVIOUS
      <3>2. acall' = [acall EXCEPT ![a] = v] /\ UNCHANGED <<task, loop>>
        BY <2>1, <3>1
      <3>3. acall'[a] = v /\ \A x \in ACall \ {a} : acall'[x] = acall[x]
        BY <3>2 DEF Inv, TypeOK
      <3>4. /\ v.pc = "posting" /\ v.lp = parent /\ v.mode = u.mode /\ v.thr = u.thr /\ v.old = u.old
            /\ v.cell = u.cell
        BY <3>1 DEF ACallType
      <3>5. parent = tl.loop
        BY <1>14, <2>1
      <3> QED  BY <1>11, <2>1, <3>2, <3>3, <3>4, <3>5
    <2>2. CASE OnNewLoop(a, u)
      BY <1>11, <1>13, <2>2, OnNewLoopEffect DEF LoopMade
    <2> QED  BY <1>15, <2>1, <2>2
  <1>17. /\ scall'[f].pc = "running" /\ scall'[f].thr = t /\ scall'[f].by = scall[f].by
         /\ scall'[f].where = scall[f].where /\ scall'[f].cur0 = scall[f].cur0
         /\ scall'[f].ctx.cur = a
    BY <1>1, <1>2, <1>4, <1>7, <1>8
  <1>18. acall'[a].old = scall[f].ctx.cur /\ acall'[a].cell.cur = a
    BY <1>2, <1>4, <1>16
  <1> QED  BY <1>1, <1>7, <1>9, <1>12, <1>16, <1>17, <1>18, Zenon

-----------------------------------------------------------------------------
(* Where they send it. *)

\* A function sent to a thread where the sync code of its caller's loop belongs.
LEMMA SubmittedThread ==
    ASSUME Inv, ThreadInv, NEW n \in Task, NEW s \in SCall, NEW w, NEW c \in Ctx,
           task[n].pc = "run", scall[s].pc = "none", Submitted(n, s, w, c),
           c.cur = task[n].ctx.cur, NEW p,
           (w = Worker /\ p = Worker) \/ (w \in ACall /\ IsOf(w, p)),
           At(task[n].loop, p), c.cur # None => IsOf(c.cur, p)
    PROVE  ThreadInv'
  <1>1. /\ UNCHANGED <<acall, tlocal, loop>>
        /\ \A x \in Task : CalmTask(x)
        /\ task'[n].pc = "await" /\ task'[n].loop = task[n].loop
        /\ \A f \in Frame \ {s} : CalmFunction(f)
        /\ scall'[s].pc = "queued" /\ scall'[s].by = n /\ scall'[s].where = w
        /\ scall'[s].thr = None /\ scall'[s].ctx = c /\ scall'[s].cur0 = c.cur
    BY SubmittedEffect
  <1>2. \A a \in ACall : CalmCall(a)
    BY <1>1, SameIsCalm
  <1>3. Settled
    <2>1. Grows
      BY <1>1 DEF CalmTask, CalmFunction, Grows
    <2> QED  BY <1>1, <2>1 DEF Settled, CalmTask, CalmFunction, Task
  <1>4. \A x \in Task : TaskThread(x)'
    BY <1>1, <1>3, CalmTaskStays
  <1>5. \A a \in ACall : CallThread(a)'
    BY <1>2, <1>3, CalmCallStays
  <1>6. \A t \in Thread : LocalThread(t)'
    BY <1>1, <1>3, LocalThreadStays
  <1>7. \A f \in Frame \ {s} : FunctionThread(f)'
    BY <1>1, <1>3, CalmFunctionStays
  <1>8. FunctionThread(s)'
    <2>1. s # Root
      BY ConstantsAssumption
    <2>2. TaskThread(n) /\ task[n].pc # "none"
      BY DEF ThreadInv
    <2>3. n \in ACall => c.cur # None
      BY <2>2 DEF TaskThread
    <2>4. RunsAt(s)' = p
      BY <1>1, ConstantsAssumption DEF RunsAt, IsOf
    <2>5. PICK l : l = task[n].loop
      OBVIOUS
    <2>6. At(l, p)'
      BY <1>3, <2>2, <2>5, LoopOfTask, AtStays
    <2>7. At(task[scall[s].by].loop, RunsAt(s))'
      BY <1>1, <2>4, <2>5, <2>6 DEF At, Home, Excused
    <2>8. c.cur # None => IsOf(c.cur, p)'
      BY <1>1 DEF IsOf
    <2>9. w = Worker \/ (w \in ACall /\ acall'[w].pc # "none")
      BY <1>1 DEF IsOf
    <2>10. task'[n].pc \in Started
      BY <1>1 DEF Started, Live
    <2>11. Place(s)' = p
      BY <2>1, <2>4 DEF Place
    <2>12. scall'[s].ctx.cur # None => IsOf(scall[s].ctx.cur, Place(s))'
      BY <1>1, <2>8, <2>11 DEF IsOf
    <2> QED  BY <1>1, <2>1, <2>3, <2>7, <2>9, <2>10, <2>12 DEF FunctionThread
  <1> QED  BY <1>4, <1>5, <1>6, <1>7, <1>8 DEF ThreadInv

\* Every executor that a chain reaches is one of the same thread.
LEMMA ChainThread ==
    ASSUME Inv, ThreadInv, NEW e \in ACall, acall[e].pc # "none", NEW x \in Chain(e)
    PROVE  x \in ACall /\ IsOf(x, acall[e].thr)
  <1>1. PICK t : t = acall[e].thr
    OBVIOUS
  <1>2. PICK S \in SUBSET ACall : S = {y \in ACall : IsOf(y, t)}
    OBVIOUS
  <1>3. e \in S
    BY <1>1, <1>2 DEF IsOf
  <1>4. ASSUME NEW y \in S, acall[y].old # None  PROVE acall[y].old \in S
    <2>1. y \in ACall /\ acall[y].pc # "none" /\ acall[y].thr = t
      BY <1>2, <1>4 DEF IsOf
    <2>2. CallThread(y) /\ acall[y].old \in ACall
      BY <1>4, <2>1 DEF ThreadInv, Inv, TypeOK, ACallType
    <2> QED  BY <1>2, <1>4, <2>1, <2>2 DEF CallThread
  <1>5. x \in S
    BY <1>3, <1>4 DEF Chain
  <1> QED  BY <1>1, <1>2, <1>5

LEMMA CallOnParentThread ==
    ASSUME Inv, ThreadInv, NEW n \in Task, NEW s \in SCall, CallOnParent(n, s)
    PROVE  ThreadInv'
  <1>1. PICK e : e = ParentExecutor(n)
    OBVIOUS
  <1>2. PICK x \in Closest(e) : Submitted(n, s, x, task[n].ctx)
    BY <1>1 DEF CallOnParent
  <1>3. task[n].pc = "run" /\ scall[s].pc = "none" /\ e # None
    BY <1>1 DEF CallOnParent, RunsCode
  <1>4. TaskThread(n) /\ task[n].ctx \in Ctx /\ task[n].ctx.cur \in ACall \cup {None}
    BY DEF ThreadInv, Inv, TypeOK, TaskType, Ctx
  <1>5. e \in ACall /\ acall[e].pc # "none" /\ At(task[n].loop, acall[e].thr)
    <2>1. CASE task[n].ctx.cur # None
      <3>1. e = task[n].ctx.cur
        BY <1>1, <2>1 DEF ParentExecutor
      <3> QED  BY <1>3, <1>4, <2>1, <3>1 DEF TaskThread, BelongsTo
    <2>2. CASE task[n].ctx.cur = None
      <3>1. e = LoopExecutor(task[n].loop)
        BY <1>1, <2>2 DEF ParentExecutor
      <3>2. e \in ACall /\ e = task[n].loop
        BY <1>3, <3>1 DEF LoopExecutor
      <3>3. acall[e].pc # "none"
        BY <1>3, <1>4, <3>2, LoopOfTask
      <3> QED  BY <3>2, <3>3 DEF At, Home
    <2> QED  BY <2>1, <2>2
  <1>6. PICK p : p = acall[e].thr
    OBVIOUS
  <1>7. x \in ACall /\ IsOf(x, p)
    BY <1>5, <1>6, ChainThread DEF Closest
  <1>8. task[n].ctx.cur # None => IsOf(task[n].ctx.cur, p)
    <2>1. task[n].ctx.cur # None => e = task[n].ctx.cur
      BY <1>1 DEF ParentExecutor
    <2> QED  BY <1>5, <1>6, <2>1 DEF IsOf
  <1> QED  BY <1>2, <1>3, <1>4, <1>5, <1>6, <1>7, <1>8, SubmittedThread

LEMMA CallOnWorkerThread ==
    ASSUME Inv, ThreadInv, NEW n \in Task, NEW s \in SCall, CallOnWorker(n, s)
    PROVE  ThreadInv'
  <1>1. PICK d \in Ctx : d = task[n].ctx
    BY DEF Inv, TypeOK, TaskType
  <1>2. PICK c \in Ctx : c = [d EXCEPT !.dead = TRUE] /\ c.cur = d.cur
    <2>1. [d EXCEPT !.dead = TRUE] \in Ctx /\ [d EXCEPT !.dead = TRUE].cur = d.cur
      BY CtxFacts, Zenon
    <2> QED  BY <2>1, Zenon
  <1>3. Submitted(n, s, Worker, c)
    BY <1>1, <1>2 DEF CallOnWorker
  <1>4. task[n].pc = "run" /\ scall[s].pc = "none" /\ ParentExecutor(n) = None
    BY DEF CallOnWorker, RunsCode
  <1>5. d.cur = None /\ LoopExecutor(task[n].loop) = None
    BY <1>1, <1>4 DEF ParentExecutor
  <1>6. TaskThread(n) /\ task[n].loop \in Loop /\ loop[task[n].loop] # "off"
    BY <1>4 DEF ThreadInv, Inv, TypeOK, TaskType, LoopInv
  <1>7. n \notin ACall
    BY <1>1, <1>4, <1>5, <1>6 DEF TaskThread
  <1>8. PICK l \in Loop : l = task[n].loop
    BY <1>6
  <1>9. At(l, Worker)
    <2>1. CASE l = Root
      BY <1>6, <1>8, <2>1, ConstantsAssumption DEF At, Home
    <2>2. CASE l \in Spawn
      BY <2>2 DEF At, Excused
    <2>3. CASE l \in ACall
      <3>1. acall[l].mode = "new" /\ task[l].pc \in Started
        BY <1>4, <1>6, <1>7, <1>8, <2>3 DEF TaskThread, Begun
      <3>2. task[l].loop = l
        BY <2>3, <3>1 DEF Inv, CallInv, CallOf
      <3>3. task[l].pc = "done"
        BY <1>5, <1>8, <2>3, <3>1, <3>2, ConstantsAssumption DEF LoopExecutor, Started, Live
      <3> QED  BY <2>3, <3>3 DEF At, Excused, Ended
    <2> QED  BY <2>1, <2>2, <2>3 DEF Loop
  <1> QED  BY <1>1, <1>2, <1>3, <1>4, <1>5, <1>8, <1>9, SubmittedThread

\* A thread takes only what was sent to it, and notes the loop that sent it.
LEMMA ThreadHandlerThread ==
    ASSUME Inv, ThreadInv, NEW t \in Thread, NEW s \in SCall, ThreadHandler(t, s)
    PROVE  ThreadInv'
  <1>1. /\ UNCHANGED <<task, acall, loop>>
        /\ \A f \in Frame \ {s} : CalmFunction(f)
        /\ scall[s].pc = "queued" /\ scall'[s].pc = "running" /\ scall'[s].thr = t
        /\ scall'[s].by = scall[s].by /\ scall'[s].where = scall[s].where
        /\ scall'[s].ctx = scall[s].ctx /\ scall'[s].cur0 = scall[s].cur0
        /\ \A u \in Thread \ {t} : tlocal'[u] = tlocal[u]
        /\ tlocal'[t].loop = task[scall[s].by].loop
    BY ThreadHandlerEffect
  <1>2. s \in Frame /\ s # Root /\ FunctionThread(s)
    BY ConstantsAssumption DEF Frame, ThreadInv
  <1>3. RunsAt(s) = t
    <2>1. CASE scall[s].where \in ACall
      <3>1. Top(t) = scall[s].where
        BY <2>1, ConstantsAssumption DEF ThreadHandler, Takes
      <3>2. Len(stack[t]) \in 1..Len(stack[t]) /\ stack[t][Len(stack[t])] = scall[s].where
        BY <2>1, <3>1, TopFacts
      <3>3. acall[scall[s].where].thr = t
        BY <2>1, <3>2 DEF Inv, StackInv
      <3> QED  BY <2>1, <3>3 DEF RunsAt
    <2>2. CASE scall[s].where = Worker
      BY <2>2, ConstantsAssumption DEF ThreadHandler, Takes, RunsAt
    <2> QED  BY <1>1, <1>2, <2>1, <2>2 DEF FunctionThread
  <1>4. /\ \A x \in Task : CalmTask(x)
        /\ \A a \in ACall : CalmCall(a)
    BY <1>1, SameIsCalm
  <1>5. Settled
    <2>1. Grows
      BY <1>1, <1>2 DEF CalmFunction, Grows
    <2> QED  BY <1>1, <1>2, <2>1 DEF Settled, CalmFunction
  <1>6. \A x \in Task : TaskThread(x)'
    BY <1>4, <1>5, CalmTaskStays
  <1>7. \A a \in ACall : CallThread(a)'
    BY <1>4, <1>5, CalmCallStays
  <1>8. \A f \in Frame \ {s} : FunctionThread(f)'
    BY <1>1, <1>5, CalmFunctionStays
  <1>9. FunctionThread(s)'
    BY <1>1, <1>2, <1>3 DEF FunctionThread, Place, RunsAt, At, Home, Excused, IsOf
  <1>10. \A u \in Thread \ {t} : LocalThread(u)'
    BY <1>1, <1>5, LocalThreadStays
  <1>11. LocalThread(t)'
    <2>1. PICK n \in Task : n = scall[s].by /\ task[n].pc # "none"
      BY <1>1, CallerFacts
    <2>2. PICK l : l = task[n].loop
      OBVIOUS
    <2>3. At(l, t) /\ task[n].pc \in Started
      BY <1>1, <1>2, <1>3, <2>1, <2>2 DEF FunctionThread
    <2>4. Begun(l)
      BY <2>1, <2>2, <2>3 DEF ThreadInv, TaskThread, Begun
    <2>5. At(l, t)' /\ Begun(l)'
      BY <1>5, <2>3, <2>4, AtStays, BegunStays
    <2> QED  BY <1>1, <2>1, <2>2, <2>5 DEF LocalThread, At, Begun, Home, Excused
  <1> QED  BY <1>6, <1>7, <1>8, <1>9, <1>10, <1>11 DEF ThreadInv

\* The executor that becomes current again is one of the same thread.
LEMMA AsyncToSyncReturnsThread ==
    ASSUME Inv, ThreadInv, NEW t \in Thread, NEW a \in ACall, AsyncToSyncReturns(t, a)
    PROVE  ThreadInv'
  <1>1. PICK f \in Frame :
              /\ UNCHANGED <<task, tlocal, loop>>
              /\ \A x \in ACall \ {a} : CalmCall(x)
              /\ acall[a].pc = "parked" /\ acall'[a].pc = "returned"
              /\ acall'[a].thr = acall[a].thr /\ acall'[a].old = acall[a].old
              /\ acall'[a].tc = acall[a].tc /\ acall'[a].mode = acall[a].mode
              /\ acall[a].thr = t /\ scall[f].thr = t /\ acall[a].old = scall[f].cur0
              /\ \A g \in Frame \ {f} : CalmFunction(g)
              /\ scall[f].pc = "running" /\ scall'[f].pc = "running"
              /\ scall'[f].thr = scall[f].thr /\ scall'[f].by = scall[f].by
              /\ scall'[f].where = scall[f].where /\ scall'[f].cur0 = scall[f].cur0
              /\ scall'[f].ctx.cur = acall[a].old
    BY AsyncToSyncReturnsEffect
  <1>2. \A x \in Task : CalmTask(x)
    BY <1>1, SameIsCalm
  <1>3. Settled
    <2>1. Grows
      BY <1>1 DEF CalmFunction, CalmCall, Grows
    <2> QED  BY <1>1, <2>1 DEF Settled, CalmFunction, CalmCall
  <1>4. \A x \in Task : TaskThread(x)'
    BY <1>2, <1>3, CalmTaskStays
  <1>5. \A x \in ACall \ {a} : CallThread(x)'
    BY <1>1, <1>3, CalmCallStays
  <1>6. CallThread(a)'
    <2>1. acall[a].pc # "none" /\ acall'[a].pc # "posting" /\ (acall'[a].mode = "main" => acall[a].mode = "main")
      BY <1>1
    <2> QED  BY <1>3, <2>1, CallThreadStays
  <1>7. \A g \in Frame \ {f} : FunctionThread(g)'
    BY <1>1, <1>3, CalmFunctionStays
  <1>8. \A u \in Thread : LocalThread(u)'
    BY <1>1, <1>3, LocalThreadStays
  <1>9. FunctionThread(f)'
    <2>1. FunctionThread(f) /\ scall[f].pc # "none" /\ CallThread(a) /\ acall[a].pc # "none"
      BY <1>1 DEF ThreadInv
    <2>2. Place(f)' = Place(f) /\ (f # Root => RunsAt(f)' = RunsAt(f))
      BY <1>3, <2>1, PlaceStays
    <2>3. Place(f) = t
      BY <1>1, <2>1, ConstantsAssumption DEF FunctionThread, Thread
    <2>4. acall[a].old # None => acall[a].old \in ACall /\ IsOf(acall[a].old, t)
      BY <1>1, <2>1 DEF CallThread, Inv, TypeOK, ACallType
    <2>5. acall[a].old # None => IsOf(scall[f].ctx.cur, Place(f))'
      BY <1>1, <1>3, <2>2, <2>3, <2>4 DEF IsOf, Settled, Grows
    <2>6. ASSUME f # Root
          PROVE  /\ \/ scall'[f].where = Worker
                    \/ scall'[f].where \in ACall /\ acall'[scall'[f].where].pc # "none"
                 /\ At(task[scall[f].by].loop, RunsAt(f))'
                 /\ task'[scall'[f].by].pc \in Started
                 /\ scall'[f].by \in ACall => scall'[f].ctx.cur # None /\ scall'[f].cur0 # None
      <3>1. /\ \/ scall'[f].where = Worker
               \/ scall'[f].where \in ACall /\ acall'[scall'[f].where].pc # "none"
        BY <1>1, <1>3, <2>1, <2>6 DEF FunctionThread, Settled, Grows
      <3>2. task'[scall'[f].by].pc \in Started
        BY <1>1, <2>1, <2>6 DEF FunctionThread
      <3>3. scall'[f].by \in ACall => scall'[f].ctx.cur # None /\ scall'[f].cur0 # None
        BY <1>1, <2>1, <2>6 DEF FunctionThread
      <3>4. f \in SCall
        BY <2>6 DEF Frame
      <3>5. PICK n \in Task : n = scall[f].by /\ task[n].pc # "none"
        BY <2>1, <3>4, CallerFacts
      <3>6. PICK l, p : l = task[n].loop /\ p = RunsAt(f)
        OBVIOUS
      <3>7. At(l, p)
        BY <2>1, <2>6, <3>5, <3>6 DEF FunctionThread
      <3>8. At(l, p)'
        BY <1>3, <3>5, <3>6, <3>7, LoopOfTask, AtStays DEF ThreadInv
      <3>9. At(task[scall[f].by].loop, RunsAt(f))'
        BY <1>1, <2>2, <2>6, <3>5, <3>6, <3>8 DEF At, Home, Excused
      <3> QED  BY <3>1, <3>2, <3>3, <3>9
    <2>7. scall'[f].thr \in {None, Place(f)'}
      BY <1>1, <2>2, <2>3
    <2>8. scall'[f].ctx.cur # None => IsOf(scall[f].ctx.cur, Place(f))'
      BY <1>1, <2>5
    <2> QED  BY <2>6, <2>7, <2>8 DEF FunctionThread
  <1> QED  BY <1>4, <1>5, <1>6, <1>7, <1>8, <1>9 DEF ThreadInv

\* A new task of user code has the context and the loop of the one that makes it.
LEMMA CreateUserTaskThread ==
    ASSUME Inv, ThreadInv, NEW n \in Task, NEW m \in Spawn, NEW fresh \in BOOLEAN,
           CreateUserTask(n, m, fresh)
    PROVE  ThreadInv'
  <1>0. m \in Task /\ m \notin ACall /\ m # Root
    BY ConstantsAssumption DEF Task
  <1>1. /\ UNCHANGED <<scall, acall, tlocal, loop>>
        /\ \A x \in Task \ {m} : CalmTask(x)
        /\ task[m].pc = "none" /\ task[n].pc = "run"
        /\ task'[m].pc = "created" /\ task'[m].loop = task[n].loop
        /\ task'[m].ctx.cur \in {None, task[n].ctx.cur}
    BY CreateUserTaskEffect
  <1>2. /\ \A f \in Frame : CalmFunction(f)
        /\ \A a \in ACall : CalmCall(a)
    BY <1>1, SameIsCalm
  <1>3. Settled
    <2>1. \A x \in Task : task[x].pc # "none" => x # m
      BY <1>1
    <2>2. "none" \notin Started
      BY DEF Started, Live
    <2>3. Grows
      BY <1>1, <2>1, <2>2 DEF CalmTask, Grows
    <2> QED  BY <1>0, <1>1, <2>3 DEF Settled, CalmTask, Task
  <1>4. \A x \in Task \ {m} : TaskThread(x)'
    BY <1>1, <1>3, CalmTaskStays
  <1>5. \A a \in ACall : CallThread(a)'
    BY <1>2, <1>3, CalmCallStays
  <1>6. \A f \in Frame : FunctionThread(f)'
    BY <1>2, <1>3, CalmFunctionStays
  <1>7. \A t \in Thread : LocalThread(t)'
    BY <1>1, <1>3, LocalThreadStays
  <1>8. TaskThread(m)'
    <2>1. TaskThread(n) /\ task[n].pc # "none" /\ task[n].pc \in Started
      BY <1>1 DEF ThreadInv, Started, Live
    <2>2. PICK l : l = task[n].loop
      OBVIOUS
    <2>3. PICK x : x = task'[m].ctx.cur
      OBVIOUS
    <2>4. x # None => x \in ACall /\ BelongsTo(x, l)
      BY <1>1, <2>1, <2>2, <2>3 DEF TaskThread, Inv, TypeOK, TaskType, Ctx
    <2>5. x # None => BelongsTo(x, l)'
      BY <1>3, <2>1, <2>2, <2>4, LoopOfTask, BelongsStays
    <2>6. Begun(l)
      BY <2>1, <2>2 DEF TaskThread, Begun
    <2>7. Begun(l)'
      BY <1>3, <2>6, BegunStays
    <2>8. task'[m].ctx.cur # None => BelongsTo(task[m].ctx.cur, task[m].loop)'
      BY <1>1, <2>2, <2>3, <2>5 DEF BelongsTo, At, Home, Excused
    <2>9. Begun(task[m].loop)'
      BY <1>1, <2>2, <2>7 DEF Begun
    <2> QED  BY <1>0, <2>8, <2>9 DEF TaskThread
  <1> QED  BY <1>4, <1>5, <1>6, <1>7, <1>8 DEF ThreadInv

\* A loop that sync code runs by itself is excused, but its executor is there.
LEMMA RunUserLoopThread ==
    ASSUME Inv, ThreadInv, NEW t \in Thread, NEW m \in Spawn, RunUserLoop(t, m)
    PROVE  ThreadInv'
  <1>0. m \in Task /\ m \notin ACall /\ m # Root /\ Root \in Loop
    BY ConstantsAssumption DEF Task, Loop
  <1>1. /\ UNCHANGED <<scall, acall, tlocal>>
        /\ \A x \in Task \ {m} : CalmTask(x)
        /\ \A l \in Loop \ {m} : loop'[l] = loop[l]
        /\ task[m].pc = "none" /\ task'[m].pc = "created" /\ task'[m].loop = m
        /\ loop[m] = "off" /\ loop'[m] = "run"
        /\ Top(t) \in Frame /\ scall[Top(t)].pc = "running"
        /\ task'[m].ctx.cur = scall[Top(t)].ctx.cur
    BY RunUserLoopEffect
  <1>2. /\ \A f \in Frame : CalmFunction(f)
        /\ \A a \in ACall : CalmCall(a)
    BY <1>1, SameIsCalm
  <1>3. Settled
    <2>1. \A x \in Task : task[x].pc # "none" => x # m
      BY <1>1
    <2>2. "none" \notin Started
      BY DEF Started, Live
    <2>3. Grows
      BY <1>1, <2>1, <2>2 DEF CalmTask, Grows
    <2> QED  BY <1>0, <1>1, <2>3 DEF Settled, CalmTask, Task
  <1>4. \A x \in Task \ {m} : TaskThread(x)'
    BY <1>1, <1>3, CalmTaskStays
  <1>5. \A a \in ACall : CallThread(a)'
    BY <1>2, <1>3, CalmCallStays
  <1>6. \A f \in Frame : FunctionThread(f)'
    BY <1>2, <1>3, CalmFunctionStays
  <1>7. \A u \in Thread : LocalThread(u)'
    BY <1>1, <1>3, LocalThreadStays
  <1>8. TaskThread(m)'
    <2>1. task'[m].ctx.cur # None => acall'[task'[m].ctx.cur].pc # "none"
      BY <1>1 DEF ThreadInv, FunctionThread, IsOf
    <2>2. task'[m].ctx.cur # None => BelongsTo(task[m].ctx.cur, task[m].loop)'
      BY <1>1, <2>1 DEF BelongsTo, At, Excused
    <2>3. Begun(task[m].loop)'
      BY <1>0, <1>1 DEF Begun
    <2> QED  BY <1>0, <2>2, <2>3 DEF TaskThread
  <1> QED  BY <1>4, <1>5, <1>6, <1>7, <1>8 DEF ThreadInv

\* Nothing is undone by a new task of an async_to_sync call.
LEMMA MadeSettles ==
    ASSUME Inv, NEW a \in ACall, acall[a].pc \in {"none", "posting"},
           \A x \in ACall \ {a} : acall'[x] = acall[x],
           acall[a].pc # "none" =>
              /\ acall'[a].pc # "none" /\ acall'[a].thr = acall[a].thr
              /\ acall'[a].old = acall[a].old /\ acall'[a].tc = acall[a].tc,
           \A f \in Frame :
              /\ scall'[f].pc = scall[f].pc /\ scall'[f].by = scall[f].by
              /\ scall'[f].cur0 = scall[f].cur0 /\ scall'[f].where = scall[f].where,
           UNCHANGED <<task, loop>> \/ LoopMade(a) \/ \E l : TaskMade(a, l) /\ loop' = loop
    PROVE  Settled
  <1>0. a # Root /\ a \in Task /\ Root \in Loop
    BY ConstantsAssumption DEF Task, Loop
  <1>1. task[a].pc = "none" /\ acall[a].mode = "none"
    BY DEF Inv, CallInv, CallOf
  <1>2. \A x \in Task : x # a => task'[x] = task[x]
    BY DEF LoopMade, TaskMade
  <1>3. \A l \in Loop : loop'[l] = loop[l] \/ (l = a /\ loop[l] = "off" /\ loop'[l] = "run")
    BY DEF LoopMade
  <1>4. "none" \notin Started /\ "none" \notin Ended
    BY DEF Started, Live, Ended
  <1>5. Grows
    <2>1. \A x \in ACall : acall[x].pc # "none" =>
              /\ acall'[x].pc # "none"
              /\ acall'[x].thr = acall[x].thr /\ acall'[x].old = acall[x].old
              /\ acall'[x].tc = acall[x].tc
              /\ acall[x].mode = "new" => acall'[x].mode = "new"
      BY <1>1
    <2>2. \A x \in Task : task[x].pc # "none" => task'[x] = task[x]
      BY <1>1, <1>2
    <2>3. \A x \in Task : task[x].pc \in Started => task'[x] = task[x]
      BY <1>1, <1>2, <1>4
    <2>4. \A l \in Loop : loop[l] # "off" => loop'[l] # "off"
      BY <1>3
    <2> QED  BY <2>1, <2>2, <2>3, <2>4 DEF Grows
  <1>6. \A x \in ACall : task[x].pc \in Ended => task'[x].pc \in Ended
    BY <1>1, <1>2, <1>4 DEF Task
  <1>7. \A x \in ACall : acall[x].mode = "new" => acall'[x].mode = "new"
    BY <1>1
  <1>8. loop'[Root] = "off" <=> loop[Root] = "off"
    BY <1>0, <1>3
  <1> QED  BY <1>5, <1>6, <1>7, <1>8 DEF Settled

\* The task of a call starts with the call's executor, on a loop of its own or on one
\* whose sync code belongs to the call's thread.
LEMMA NewTaskThread ==
    ASSUME NEW a \in ACall, NEW l, acall'[a].pc # "none",
           task'[a].ctx.cur = a, task'[a].loop = l,
           (l = a /\ acall'[a].mode = "new") \/ (At(l, acall[a].thr)' /\ Begun(l)')
    PROVE  TaskThread(a)'
  <1>1. a # None
    BY ConstantsAssumption
  <1>2. At(l, acall[a].thr)'
    BY DEF At, Home
  <1>3. BelongsTo(task[a].ctx.cur, task[a].loop)'
    BY <1>2 DEF BelongsTo, At, Home, Excused
  <1>4. IF task'[a].loop = a /\ a \in ACall THEN acall'[a].mode = "new" ELSE Begun(task[a].loop)'
    BY DEF Begun
  <1> QED  BY <1>1, <1>3, <1>4 DEF TaskThread

LEMMA CallSoonThreadsafeThread ==
    ASSUME Inv, ThreadInv, NEW a \in ACall, CallSoonThreadsafe(a)
    PROVE  ThreadInv'
  <1>1. /\ UNCHANGED <<scall, tlocal>>
        /\ \A x \in ACall \ {a} : acall'[x] = acall[x]
        /\ acall[a].pc = "posting"
        /\ acall'[a].thr = acall[a].thr /\ acall'[a].old = acall[a].old
        /\ acall'[a].tc = acall[a].tc /\ acall'[a].cell = acall[a].cell
        /\ \/ LoopMade(a)
           \/ /\ TaskMade(a, acall[a].lp) /\ loop' = loop
              /\ acall'[a].pc = "parked" /\ acall'[a].mode = "main"
    BY CallSoonThreadsafeEffect
  <1>2. acall'[a].pc = "parked"
    BY <1>1 DEF LoopMade
  <1>3. Settled
    <2>1. UNCHANGED <<task, loop>> \/ LoopMade(a) \/ \E l : TaskMade(a, l) /\ loop' = loop
      BY <1>1
    <2> QED  BY <1>1, <1>2, <2>1, MadeSettles
  <1>4. PICK l, t : l = acall[a].lp /\ t = acall[a].thr
    OBVIOUS
  <1>5. acall[a].cell.cur = a /\ At(l, t) /\ Begun(l)
    BY <1>1, <1>4 DEF ThreadInv, CallThread
  <1>6. At(l, t)' /\ Begun(l)'
    BY <1>3, <1>5, AtStays, BegunStays
  <1>7. \A x \in Task \ {a} : TaskThread(x)'
    <2>1. \A x \in Task \ {a} : task'[x] = task[x]
      BY <1>1 DEF LoopMade, TaskMade
    <2> QED  BY <1>3, <2>1, SameIsCalm, CalmTaskStays
  <1>8. TaskThread(a)'
    <2>1. task'[a].ctx.cur = a
      BY <1>1, <1>5 DEF LoopMade, TaskMade
    <2>2. CASE LoopMade(a)
      BY <1>2, <2>1, <2>2, NewTaskThread DEF LoopMade, TaskMade
    <2>3. CASE TaskMade(a, acall[a].lp)
      <3>1. task'[a].loop = l
        BY <1>4, <2>3 DEF TaskMade
      <3>2. At(l, acall[a].thr)'
        BY <1>1, <1>4, <1>6 DEF At, Home, Excused
      <3> QED  BY <1>2, <1>6, <2>1, <3>1, <3>2, NewTaskThread
    <2> QED  BY <1>1, <2>2, <2>3
  <1>9. \A f \in Frame : FunctionThread(f)'
    BY <1>1, <1>3, SameIsCalm, CalmFunctionStays
  <1>10. \A x \in ACall \ {a} : CallThread(x)'
    BY <1>1, <1>3, SameIsCalm, CalmCallStays
  <1>11. CallThread(a)'
    <2>1. acall'[a].old # None => IsOf(acall[a].old, acall[a].thr)'
      <3>1. acall[a].old # None => acall[a].old \in ACall /\ IsOf(acall[a].old, acall[a].thr)
        BY <1>1 DEF ThreadInv, CallThread, Inv, TypeOK, ACallType
      <3> QED  BY <1>1, <1>3, <3>1 DEF IsOf, Settled, Grows
    <2>2. ASSUME acall'[a].mode = "main"  PROVE At(task[a].loop, acall[a].thr)'
      <3>1. task'[a].loop = l
        BY <1>1, <1>4, <2>2 DEF LoopMade, TaskMade
      <3> QED  BY <1>1, <1>4, <1>6, <3>1 DEF At, Home, Excused
    <2> QED  BY <1>2, <2>1, <2>2 DEF CallThread
  <1>12. \A u \in Thread : LocalThread(u)'
    BY <1>1, <1>3, LocalThreadStays
  <1> QED  BY <1>7, <1>8, <1>9, <1>10, <1>11, <1>12 DEF ThreadInv

LEMMA AsyncToSyncCallThread ==
    ASSUME Inv, ThreadInv, NEW t \in Thread, NEW a \in ACall, NEW force \in BOOLEAN,
           AsyncToSyncCall(t, a, force)
    PROVE  ThreadInv'
  <1>1. PICK f : f = Top(t)
    OBVIOUS
  <1>2. /\ tlocal' = tlocal
        /\ f \in Frame /\ scall[f].pc = "running" /\ scall[f].thr = t
        /\ scall'[f].pc = "running" /\ scall'[f].thr = t
        /\ scall'[f].by = scall[f].by /\ scall'[f].where = scall[f].where
        /\ scall'[f].cur0 = scall[f].cur0 /\ scall'[f].ctx.cur = a
        /\ \A g \in Frame \ {f} : scall'[g] = scall[g]
        /\ \A x \in ACall \ {a} : acall'[x] = acall[x]
        /\ acall[a].pc = "none" /\ acall'[a].pc # "none" /\ acall'[a].thr = t
        /\ acall'[a].old = scall[f].ctx.cur /\ acall'[a].cell.cur = a
        /\ \/ LoopMade(a)
           \/ /\ acall'[a].pc = "posting" /\ acall'[a].mode = "none"
              /\ tlocal[t].loop # None /\ acall'[a].lp = tlocal[t].loop
              /\ UNCHANGED <<task, loop>>
    BY <1>1, AsyncToSyncCallEffect
  <1>3. Settled
    <2>1. UNCHANGED <<task, loop>> \/ LoopMade(a) \/ \E l : TaskMade(a, l) /\ loop' = loop
      BY <1>2
    <2>2. \A g \in Frame :
              /\ scall'[g].pc = scall[g].pc /\ scall'[g].by = scall[g].by
              /\ scall'[g].cur0 = scall[g].cur0 /\ scall'[g].where = scall[g].where
      BY <1>2
    <2> QED  BY <1>2, <2>1, <2>2, MadeSettles
  <1>4. a # None
    BY ConstantsAssumption
  <1>5. FunctionThread(f) /\ scall[f].pc # "none"
    BY <1>2 DEF ThreadInv
  <1>6. Place(f) = t /\ Place(f)' = t /\ (f # Root => RunsAt(f)' = RunsAt(f))
    BY <1>2, <1>3, <1>5, PlaceStays, ConstantsAssumption DEF FunctionThread, Thread
  <1>7. \A x \in Task \ {a} : TaskThread(x)'
    <2>1. \A x \in Task \ {a} : task'[x] = task[x]
      BY <1>2 DEF LoopMade, TaskMade
    <2> QED  BY <1>3, <2>1, SameIsCalm, CalmTaskStays
  <1>8. TaskThread(a)'
    <2>1. CASE LoopMade(a)
      <3>1. task'[a].ctx.cur = a
        BY <1>2, <2>1 DEF LoopMade, TaskMade
      <3> QED  BY <1>2, <2>1, <3>1, NewTaskThread DEF LoopMade, TaskMade
    <2>2. CASE task' = task
      <3>1. task[a].pc = "none"
        BY <1>2 DEF Inv, CallInv, CallOf
      <3> QED  BY <2>2, <3>1 DEF TaskThread
    <2> QED  BY <1>2, <2>1, <2>2
  <1>9. \A g \in Frame \ {f} : FunctionThread(g)'
    BY <1>2, <1>3, SameIsCalm, CalmFunctionStays
  <1>10. FunctionThread(f)'
    <2>1. scall'[f].thr \in {None, Place(f)'}
      BY <1>2, <1>6
    <2>2. IsOf(scall[f].ctx.cur, Place(f))'
      BY <1>2, <1>6 DEF IsOf
    <2>3. ASSUME f # Root
          PROVE  /\ \/ scall'[f].where = Worker
                    \/ scall'[f].where \in ACall /\ acall'[scall'[f].where].pc # "none"
                 /\ At(task[scall[f].by].loop, RunsAt(f))'
                 /\ task'[scall'[f].by].pc \in Started
                 /\ scall'[f].by \in ACall => scall'[f].ctx.cur # None /\ scall'[f].cur0 # None
      <3>1. \/ scall'[f].where = Worker
            \/ scall'[f].where \in ACall /\ acall'[scall'[f].where].pc # "none"
        BY <1>2, <1>3, <1>5, <2>3 DEF FunctionThread, Settled, Grows
      <3>2. f \in SCall
        BY <1>2, <2>3 DEF Frame
      <3>3. PICK n \in Task : n = scall[f].by /\ task[n].pc # "none" /\ task'[n].loop = task[n].loop
        BY <1>3, <1>5, <3>2, CallerFacts, CallerStays DEF Settled
      <3>4. task'[scall'[f].by].pc \in Started
        BY <1>2, <1>3, <1>5, <2>3, <3>3 DEF FunctionThread, Settled, Grows
      <3>5. scall'[f].by \in ACall => scall'[f].ctx.cur # None /\ scall'[f].cur0 # None
        BY <1>2, <1>4, <1>5, <2>3 DEF FunctionThread
      <3>6. PICK l, p : l = task[n].loop /\ p = RunsAt(f)
        OBVIOUS
      <3>7. At(l, p)
        BY <1>5, <2>3, <3>3, <3>6 DEF FunctionThread
      <3>8. At(l, p)'
        BY <1>3, <3>3, <3>6, <3>7, LoopOfTask, AtStays DEF ThreadInv
      <3>9. At(task[scall[f].by].loop, RunsAt(f))'
        BY <1>2, <1>6, <2>3, <3>3, <3>6, <3>8 DEF At, Home, Excused
      <3> QED  BY <3>1, <3>4, <3>5, <3>9
    <2> QED  BY <2>1, <2>2, <2>3 DEF FunctionThread
  <1>11. \A x \in ACall \ {a} : CallThread(x)'
    BY <1>2, <1>3, SameIsCalm, CalmCallStays
  <1>12. CallThread(a)'
    <2>1. acall'[a].old # None => IsOf(acall[a].old, acall[a].thr)'
      <3>1. scall[f].ctx.cur # None => scall[f].ctx.cur \in ACall /\ IsOf(scall[f].ctx.cur, t)
        BY <1>2, <1>5, <1>6 DEF FunctionThread, Inv, TypeOK, SCallType, Ctx
      <3> QED  BY <1>2, <1>3, <3>1 DEF IsOf, Settled, Grows
    <2>2. ASSUME acall'[a].pc = "posting"
          PROVE  acall'[a].cell.cur = a /\ At(acall[a].lp, acall[a].thr)' /\ Begun(acall[a].lp)'
      <3>1. tlocal[t].loop # None /\ acall'[a].lp = tlocal[t].loop
        BY <1>2, <2>2 DEF LoopMade
      <3>2. PICK l : l = tlocal[t].loop
        OBVIOUS
      <3>3. At(l, t) /\ Begun(l)
        BY <3>1, <3>2 DEF ThreadInv, LocalThread
      <3>4. At(l, t)' /\ Begun(l)'
        BY <1>3, <3>3, AtStays, BegunStays
      <3> QED  BY <1>2, <3>1, <3>2, <3>4 DEF At, Begun, Home, Excused
    <2>3. acall'[a].mode # "main"
      BY <1>2 DEF LoopMade
    <2> QED  BY <2>1, <2>2, <2>3 DEF CallThread
  <1>13. \A u \in Thread : LocalThread(u)'
    BY <1>2, <1>3, LocalThreadStays
  <1> QED  BY <1>7, <1>8, <1>9, <1>10, <1>11, <1>12, <1>13 DEF ThreadInv

-----------------------------------------------------------------------------
(* The invariant holds. *)

\* The steps that are not calm.
Sends ==
    \/ \E n \in Task, s \in SCall : CallOnParent(n, s) \/ CallOnWorker(n, s) \/ CallInPool(n, s)
    \/ \E n \in Task, m \in Spawn, fresh \in BOOLEAN : CreateUserTask(n, m, fresh)
    \/ \E t \in Thread, s \in SCall : ThreadHandler(t, s)
    \/ \E t \in Thread, a \in ACall : AsyncToSyncReturns(t, a)
    \/ \E t \in Thread, a \in ACall, force \in BOOLEAN : AsyncToSyncCall(t, a, force)
    \/ \E t \in Thread, m \in Spawn : RunUserLoop(t, m)
    \/ \E a \in ACall : CallSoonThreadsafe(a)

LEMMA CalmOrSends ==
    ASSUME Inv, [Next]_vars
    PROVE  Calm \/ Sends
  <1>1. ASSUME NEW n \in Task, TaskStep(n)  PROVE Calm
    <2>1. CASE CancelledAlone(n)
      <3>1. task[n].pc \in Waiting /\ GiveUp(n)
        BY <2>1 DEF CancelledAlone, RaisedAtShield, Waiting
      <3> QED  BY <3>1, GiveUpIsCalm
    <2>2. CASE CancelledInDrain(n)
      <3>1. task[n].pc \in Waiting /\ GiveUp(n)
        BY <2>2 DEF CancelledInDrain, Waiting
      <3> QED  BY <3>1, GiveUpIsCalm
    <2> QED  BY <1>1, <2>1, <2>2, AwaitReturnsIsCalm, CancelledWithChildIsCalm, JoinReturnsIsCalm,
                CancelledInJoinIsCalm, TaskStartsIsCalm, SimpleTaskStepsAreCalm,
                TaskReturnsIsCalm DEF TaskStep
  <1>2. ASSUME NEW n \in Task, AsyncCode(n)  PROVE Calm \/ Sends
    <2>1. CASE CallRefused(n)
      BY <2>1, SimpleTaskStepsAreCalm
    <2>2. CASE \E s \in SCall : CallOnParent(n, s) \/ CallOnWorker(n, s) \/ CallInPool(n, s)
      BY <2>2, Zenon DEF Sends
    <2>3. CASE \E m \in Spawn, fresh \in BOOLEAN : CreateUserTask(n, m, fresh)
      BY <2>3, Zenon DEF Sends
    <2> QED  BY <1>2, <2>1, <2>2, <2>3 DEF AsyncCode
  <1>3. ASSUME NEW t \in Thread, ThreadStep(t)  PROVE Calm \/ Sends
    <2>1. CASE \E s \in SCall : ThreadHandler(t, s)
      BY <2>1, Zenon DEF Sends
    <2>2. CASE \E a \in ACall : AsyncToSyncReturns(t, a)
      BY <2>2, Zenon DEF Sends
    <2> QED  BY <1>3, <2>1, <2>2, FunctionReturnsIsCalm, UserLoopReturnsIsCalm DEF ThreadStep
  <1>4. ASSUME NEW t \in Thread, SyncCode(t)  PROVE Sends
    BY <1>4, Zenon DEF SyncCode, Sends
  <1>5. ASSUME NEW a \in ACall, CallStep(a)  PROVE Calm \/ Sends
    <2>1. CASE CallSoonThreadsafe(a)
      BY <2>1, Zenon DEF Sends
    <2>2. CASE CreateTask(a)
      BY <2>2, SimpleTaskStepsAreCalm DEF Task
    <2> QED  BY <1>5, <2>1, <2>2, SetResultIsCalm DEF CallStep
  <1>6. ASSUME NEW s \in SCall, FutureStep(s)  PROVE Calm
    BY <1>6, FutureStepIsCalm
  <1>7. ASSUME NEW l \in Loop, LoopStep(l)  PROVE Calm
    BY <1>7, LoopStepIsCalm
  <1>8. ASSUME NEW n \in Task, CancelTask(n)  PROVE Calm
    BY <1>8, SimpleTaskStepsAreCalm
  <1>9. CASE UNCHANGED vars
    <2>1. UNCHANGED <<task, scall, acall, tlocal, loop>>
      BY <1>9 DEF vars
    <2> QED  BY <2>1, SameIsCalm DEF Calm
  <1> QED  BY <1>1, <1>2, <1>3, <1>4, <1>5, <1>6, <1>7, <1>8, <1>9, Zenon DEF Next

LEMMA NextThread ==
    ASSUME Inv, ThreadInv, [Next]_vars, Sensitive = {TRUE}
    PROVE  ThreadInv'
  <1>1. CASE Calm
    BY <1>1, CalmStep
  <1>2. CASE Sends
    <2>1. \A n \in Task, s \in SCall : ~CallInPool(n, s)
      BY DEF CallInPool
    <2> QED  BY <1>2, <2>1, CallOnParentThread, CallOnWorkerThread, CreateUserTaskThread,
                ThreadHandlerThread, AsyncToSyncReturnsThread, AsyncToSyncCallThread,
                RunUserLoopThread, CallSoonThreadsafeThread DEF Sends
  <1> QED  BY <1>1, <1>2, CalmOrSends

\* Only the outermost code runs at first, with an empty context.
LEMMA InitFacts ==
    ASSUME Init
    PROVE  /\ \A n \in Task : task[n].pc # "none" =>
                 n = Root /\ task[n].loop = Root /\ task[n].ctx = EmptyCtx
           /\ \A f \in Frame : scall[f].pc # "none" =>
                 /\ f = Root /\ scall[f].pc = "running" /\ scall[f].thr = Main /\ scall[f].by = None
                 /\ scall[f].ctx = EmptyCtx /\ scall[f].cur0 = None
           /\ \A a \in ACall : acall[a].pc = "none"
           /\ \A t \in Thread : tlocal[t].loop = None
           /\ EmptyCtx.cur = None
  <1>1. PICK sync \in BOOLEAN :
          /\ task = [n \in Task |->
                IF n = Root /\ ~sync
                THEN [NoTask EXCEPT !.pc = "run", !.loop = Root] ELSE NoTask]
          /\ scall = [f \in Frame |->
                IF f = Root /\ sync
                THEN [NoSCall EXCEPT !.pc = "running", !.thr = Main] ELSE NoSCall]
    BY ConstantsAssumption, Zenon DEF Init
  <1>2. PICK r : r = [NoTask EXCEPT !.pc = "run", !.loop = Root]
    OBVIOUS
  <1>3. PICK u : u = [NoSCall EXCEPT !.pc = "running", !.thr = Main]
    OBVIOUS
  <1>4. r.loop = Root /\ r.ctx = EmptyCtx /\ NoTask.pc = "none"
    BY <1>2 DEF NoTask
  <1>5. /\ u.pc = "running" /\ u.thr = Main /\ u.by = None /\ u.ctx = EmptyCtx /\ u.cur0 = None
        /\ NoSCall.pc = "none"
    BY <1>3 DEF NoSCall
  <1>6. \A n \in Task : task[n] = (IF n = Root /\ ~sync THEN r ELSE NoTask)
    BY <1>1, <1>2, Zenon
  <1>7. \A f \in Frame : scall[f] = (IF f = Root /\ sync THEN u ELSE NoSCall)
    BY <1>1, <1>3, Zenon
  <1>8. \A n \in Task : task[n].pc # "none" => n = Root /\ task[n].loop = Root /\ task[n].ctx = EmptyCtx
    BY <1>4, <1>6
  <1>9. \A f \in Frame : scall[f].pc # "none" =>
            /\ f = Root /\ scall[f].pc = "running" /\ scall[f].thr = Main /\ scall[f].by = None
            /\ scall[f].ctx = EmptyCtx /\ scall[f].cur0 = None
    BY <1>5, <1>7
  <1>10. \A a \in ACall : acall[a].pc = "none"
    BY DEF Init, NoACall
  <1>11. \A t \in Thread : tlocal[t].loop = None
    BY DEF Init
  <1>12. EmptyCtx.cur = None
    BY DEF EmptyCtx
  <1> QED  BY <1>8, <1>9, <1>10, <1>11, <1>12

LEMMA InitThread ==
    ASSUME Init
    PROVE  ThreadInv
  <1>1. \A n \in Task : TaskThread(n)
    BY InitFacts, ConstantsAssumption DEF TaskThread, Begun
  <1>2. \A f \in Frame : FunctionThread(f)
    BY InitFacts DEF FunctionThread, Place
  <1>3. \A a \in ACall : CallThread(a)
    BY InitFacts DEF CallThread
  <1>4. \A t \in Thread : LocalThread(t)
    BY InitFacts DEF LocalThread
  <1> QED  BY <1>1, <1>2, <1>3, <1>4 DEF ThreadInv

LEMMA ThreadIsSame ==
    ASSUME Inv, ThreadInv
    PROVE  SameThread
  <1> SUFFICES ASSUME NEW s \in SCall, scall[s].pc # "none"
               PROVE  LET l == task[scall[s].by].loop
                      IN  \/ RunsAt(s) = OuterThread(scall[s].by)
                          \/ l \in Spawn
                          \/ l \in ACall /\ task[l].pc \in {"ending", "done"}
    BY DEF SameThread
  <1>1. PICK n \in Task : n = scall[s].by /\ task[n].pc # "none"
    BY CallerFacts
  <1>2. PICK l : l = task[n].loop
    OBVIOUS
  <1>3. RunsAt(s) = Home(l) \/ Excused(l)
    BY <1>1, <1>2, ConstantsAssumption DEF ThreadInv, FunctionThread, Frame, At
  <1>4. OuterThread(n) = Home(l) \/ Excused(l)
    <2>1. CASE n \in ACall
      <3>1. OuterThread(n) = acall[n].thr
        BY <2>1 DEF OuterThread
      <3>2. acall[n].mode \in {"new", "main"} /\ acall[n].pc # "none"
        BY <1>1, <2>1 DEF Inv, CallInv, CallOf, TypeOK, ACallType
      <3>3. CASE acall[n].mode = "new"
        BY <1>2, <2>1, <3>1, <3>3 DEF Inv, CallInv, CallOf, Home
      <3>4. CASE acall[n].mode = "main"
        BY <1>2, <2>1, <3>1, <3>2, <3>4 DEF ThreadInv, CallThread, At
      <3> QED  BY <3>2, <3>3, <3>4
    <2>2. CASE n \notin ACall
      BY <1>2, <2>2 DEF OuterThread, Home
    <2> QED  BY <2>1, <2>2
  <1> QED  BY <1>1, <1>2, <1>3, <1>4 DEF Excused, Ended

\* "the code will run in the same thread as any outer code": SyncToAsync.__call__ with
\* thread_sensitive=True sends its function to the thread of the outer sync code, for
\* any number of calls, loops and threads and any depth of nesting, with the two
\* exceptions SameThread names.
THEOREM CodeRunsInTheSameThread == Sensitive = {TRUE} /\ Spec => []SameThread
  <1>1. SUFFICES ASSUME Sensitive = {TRUE}  PROVE Spec => []SameThread
    OBVIOUS
  <1>2. Init => ThreadInv
    BY InitThread
  <1>3. Inv /\ ThreadInv /\ [Next]_vars => ThreadInv'
    BY <1>1, NextThread
  <1>4. Inv /\ ThreadInv => SameThread
    BY ThreadIsSame
  <1> QED  BY <1>2, <1>3, <1>4, InvHolds, PTL DEF Spec

-----------------------------------------------------------------------------
(* Which executor async code finds current. *)

Own(n) == IF n = Root THEN None ELSE n

\* No sync_to_async call is left while its function is running.
WaitsForFunctions ==
    [][\A n \in Task : task[n].on # None /\ task'[n].on = None =>
          scall[task[n].on].pc # "running"]_vars

\* A task has its own executor, so its functions start with that one; they leave it to
\* their nested calls, but end with it again.
OwnTask(n) == task[n].pc # "none" => task[n].ctx.cur = Own(n)
OwnFunction(s) ==
    /\ scall[s].pc # "none" /\ scall[s].by \in ACall \cup {Root} => scall[s].cur0 = Own(scall[s].by)
    /\ scall[s].pc \in {"queued", "dropped", "finished"} => scall[s].ctx.cur = scall[s].cur0
OwnCall(a) == acall[a].pc = "posting" => acall[a].cell.cur = a

OwnInv ==
    /\ \A n \in ACall \cup {Root} : OwnTask(n)
    /\ \A s \in SCall : OwnFunction(s)
    /\ \A a \in ACall : OwnCall(a)

\* A task that leaves a function takes its own executor along.
LEMMA CalmTaskIsOwn ==
    ASSUME Inv, OwnInv, NEW n \in ACall \cup {Root}, CalmTask(n),
           task[n].on # None /\ task'[n].on = None => scall[task[n].on].pc # "running"
    PROVE  OwnTask(n)'
  <1>0. n \in Task
    BY DEF Task
  <1>1. CASE task'[n].ctx.cur = task[n].ctx.cur
    BY <1>1 DEF OwnInv, OwnTask, Own, CalmTask
  <1>2. CASE /\ task[n].pc \in Waiting /\ task'[n].on = None
             /\ task'[n].ctx.cur = scall[task[n].on].ctx.cur
    <2>1. PICK s \in SCall : s = task[n].on /\ scall[s].pc # "none" /\ scall[s].by = n
      BY <1>0, <1>2, AwaitFacts
    <2>2. task[n].on # None
      BY <2>1, ConstantsAssumption
    <2>3. scall[s].pc \in {"queued", "dropped", "finished"}
      BY <1>2, <2>1, <2>2 DEF Inv, TypeOK, SCallType, Frame
    <2>4. scall[s].ctx.cur = Own(n)
      BY <2>1, <2>3 DEF OwnInv, OwnFunction
    <2> QED  BY <1>2, <2>1, <2>4 DEF OwnTask, Own
  <1> QED  BY <1>1, <1>2 DEF CalmTask

LEMMA CalmFunctionIsOwn ==
    ASSUME OwnInv, NEW s \in SCall, CalmFunction(s)
    PROVE  OwnFunction(s)'
  BY DEF OwnInv, OwnFunction, Own, CalmFunction

LEMMA CalmCallIsOwn ==
    ASSUME OwnInv, NEW a \in ACall, CalmCall(a)
    PROVE  OwnCall(a)'
  BY DEF OwnInv, OwnCall, CalmCall

\* A function of a task starts with that task's executor.
LEMMA SubmittedIsOwn ==
    ASSUME Inv, OwnInv, NEW n \in Task, NEW s \in SCall, NEW w, NEW c \in Ctx,
           task[n].pc = "run", scall[s].pc = "none", Submitted(n, s, w, c),
           c.cur = task[n].ctx.cur
    PROVE  OwnInv'
  <1>1. /\ UNCHANGED <<acall, tlocal, loop>>
        /\ \A x \in Task : CalmTask(x)
        /\ task'[n].pc = "await" /\ task'[n].loop = task[n].loop
        /\ \A f \in Frame \ {s} : CalmFunction(f)
        /\ scall'[s].pc = "queued" /\ scall'[s].by = n /\ scall'[s].where = w
        /\ scall'[s].thr = None /\ scall'[s].ctx = c /\ scall'[s].cur0 = c.cur
    BY SubmittedEffect
  <1>2. ASSUME NEW x \in ACall \cup {Root}  PROVE OwnTask(x)'
    <2>1. x \in Task /\ n \in Task
      BY DEF Task
    <2>2. task'[x].ctx.cur = task[x].ctx.cur /\ (task'[x].pc = "none" <=> task[x].pc = "none")
      <3>1. CASE x = n
        <4>1. PICK r \in TaskType : r = task[n]
          BY DEF Inv, TypeOK
        <4>2. PICK q : q = [r EXCEPT !.pc = "await", !.on = s, !.ctx = c]
          OBVIOUS
        <4>3. task' = [task EXCEPT ![n] = q]
          BY <4>1, <4>2 DEF Submitted
        <4>4. task'[n] = q /\ q.ctx = c
          BY <4>2, <4>3 DEF Inv, TypeOK, TaskType
        <4> QED  BY <1>1, <3>1, <4>4
      <3>2. CASE x # n
        <4>1. task'[x] = task[x]
          BY <2>1, <3>2 DEF Submitted, Inv, TypeOK
        <4> QED  BY <4>1
      <3> QED  BY <3>1, <3>2
    <2> QED  BY <2>2 DEF OwnInv, OwnTask, Own
  <1>3. \A f \in SCall \ {s} : OwnFunction(f)'
    BY <1>1, CalmFunctionIsOwn DEF Frame
  <1>4. OwnFunction(s)'
    <2>1. n \in ACall \cup {Root} => c.cur = Own(n)
      BY DEF OwnInv, OwnTask
    <2> QED  BY <1>1, <2>1 DEF OwnFunction, Own
  <1>5. \A a \in ACall : OwnCall(a)'
    BY <1>1, SameIsCalm, CalmCallIsOwn
  <1> QED  BY <1>2, <1>3, <1>4, <1>5 DEF OwnInv

\* Tasks that are made, and functions that run, do not disturb it.
LEMMA OthersAreOwn ==
    ASSUME Inv, OwnInv,
           \A n \in ACall \cup {Root} : task'[n] = task[n] \/ (n \in ACall /\ task'[n].ctx.cur = n),
           \A s \in SCall : CalmFunction(s)
              \/ /\ scall[s].pc # "none" /\ scall'[s].pc = "running"
                 /\ scall'[s].by = scall[s].by /\ scall'[s].cur0 = scall[s].cur0,
           \A a \in ACall : CalmCall(a) \/ acall'[a].pc # "posting" \/ acall'[a].cell.cur = a
    PROVE  OwnInv'
  <1>1. \A n \in ACall \cup {Root} : OwnTask(n)'
    BY ConstantsAssumption DEF OwnInv, OwnTask, Own
  <1>2. ASSUME NEW s \in SCall  PROVE OwnFunction(s)'
    BY CalmFunctionIsOwn DEF OwnInv, OwnFunction, Own
  <1>3. \A a \in ACall : OwnCall(a)'
    BY CalmCallIsOwn DEF OwnCall
  <1> QED  BY <1>1, <1>2, <1>3 DEF OwnInv

LEMMA SendsIsOwn ==
    ASSUME Inv, OwnInv, Sends
    PROVE  OwnInv'
  <1>0. Root \notin ACall /\ Root \notin SCall /\ Root \notin Spawn /\ ACall \cap Spawn = {}
        /\ SCall \subseteq Frame /\ ACall \cup {Root} \subseteq Task
    BY ConstantsAssumption DEF Frame, Task
  <1>1. ASSUME NEW n \in Task, NEW s \in SCall, CallOnParent(n, s) \/ CallOnWorker(n, s) \/ CallInPool(n, s)
        PROVE  OwnInv'
    <2>1. task[n].pc = "run" /\ scall[s].pc = "none"
      BY <1>1 DEF CallOnParent, CallOnWorker, CallInPool, RunsCode
    <2>2. PICK d \in Ctx : d = task[n].ctx
      BY DEF Inv, TypeOK, TaskType
    <2>3. PICK c \in Ctx : c = [d EXCEPT !.dead = TRUE] /\ c.cur = d.cur
      <3>1. [d EXCEPT !.dead = TRUE] \in Ctx /\ [d EXCEPT !.dead = TRUE].cur = d.cur
        BY CtxFacts, Zenon
      <3> QED  BY <3>1, Zenon
    <2>4. (\E w : Submitted(n, s, w, d)) \/ Submitted(n, s, Worker, c)
      BY <1>1, <2>2, <2>3 DEF CallOnParent, CallOnWorker, CallInPool
    <2> QED  BY <2>1, <2>2, <2>3, <2>4, SubmittedIsOwn
  <1>2. ASSUME NEW n \in Task, NEW m \in Spawn, NEW fresh \in BOOLEAN, CreateUserTask(n, m, fresh)
        PROVE  OwnInv'
    <2>1. \A x \in ACall \cup {Root} : task'[x] = task[x]
      BY <1>0, <1>2 DEF CreateUserTask, Inv, TypeOK
    <2>2. UNCHANGED <<scall, acall>>
      BY <1>2 DEF CreateUserTask
    <2> QED  BY <1>0, <2>1, <2>2, SameIsCalm, OthersAreOwn
  <1>3. ASSUME NEW t \in Thread, NEW m \in Spawn, RunUserLoop(t, m)
        PROVE  OwnInv'
    <2>1. \A x \in ACall \cup {Root} : task'[x] = task[x]
      BY <1>0, <1>3 DEF RunUserLoop, Inv, TypeOK
    <2>2. UNCHANGED <<scall, acall>>
      BY <1>3 DEF RunUserLoop
    <2> QED  BY <1>0, <2>1, <2>2, SameIsCalm, OthersAreOwn
  <1>4. ASSUME NEW t \in Thread, NEW s \in SCall, ThreadHandler(t, s)
        PROVE  OwnInv'
    <2>1. /\ UNCHANGED <<task, acall>>
          /\ \A f \in Frame \ {s} : CalmFunction(f)
          /\ scall[s].pc # "none" /\ scall'[s].pc = "running"
          /\ scall'[s].by = scall[s].by /\ scall'[s].cur0 = scall[s].cur0
      BY <1>4, ThreadHandlerEffect
    <2>2. \A a \in ACall : CalmCall(a)
      BY <2>1, SameIsCalm
    <2> QED  BY <1>0, <2>1, <2>2, OthersAreOwn
  <1>5. ASSUME NEW t \in Thread, NEW a \in ACall, AsyncToSyncReturns(t, a)
        PROVE  OwnInv'
    <2>1. PICK f \in Frame :
              /\ task' = task
              /\ \A x \in ACall \ {a} : CalmCall(x)
              /\ acall'[a].pc = "returned"
              /\ \A g \in Frame \ {f} : CalmFunction(g)
              /\ scall[f].pc # "none" /\ scall'[f].pc = "running"
              /\ scall'[f].by = scall[f].by /\ scall'[f].cur0 = scall[f].cur0
      BY <1>5, AsyncToSyncReturnsEffect
    <2> QED  BY <1>0, <2>1, OthersAreOwn
  <1>6. ASSUME NEW t \in Thread, NEW a \in ACall, NEW force \in BOOLEAN, AsyncToSyncCall(t, a, force)
        PROVE  OwnInv'
    <2>1. PICK f : f = Top(t)
      OBVIOUS
    <2>2. /\ f \in Frame /\ scall[f].pc # "none" /\ scall'[f].pc = "running"
          /\ scall'[f].by = scall[f].by /\ scall'[f].cur0 = scall[f].cur0
          /\ \A g \in Frame \ {f} : scall'[g] = scall[g]
          /\ \A x \in ACall \ {a} : acall'[x] = acall[x]
          /\ acall'[a].cell.cur = a
          /\ LoopMade(a) \/ task' = task
      BY <1>6, <2>1, AsyncToSyncCallEffect
    <2>3. \A x \in ACall \cup {Root} : task'[x] = task[x] \/ (x \in ACall /\ task'[x].ctx.cur = x)
      BY <1>0, <2>2 DEF LoopMade, TaskMade
    <2>4. /\ \A g \in Frame \ {f} : CalmFunction(g)
          /\ \A x \in ACall \ {a} : CalmCall(x)
      BY <2>2, SameIsCalm
    <2> QED  BY <1>0, <2>2, <2>3, <2>4, OthersAreOwn
  <1>7. ASSUME NEW a \in ACall, CallSoonThreadsafe(a)
        PROVE  OwnInv'
    <2>1. /\ scall' = scall /\ \A x \in ACall \ {a} : acall'[x] = acall[x]
          /\ acall[a].pc = "posting" /\ acall'[a].cell = acall[a].cell
          /\ LoopMade(a) \/ TaskMade(a, acall[a].lp)
      BY <1>7, CallSoonThreadsafeEffect
    <2>2. acall'[a].cell.cur = a
      BY <2>1 DEF OwnInv, OwnCall
    <2>3. \A x \in ACall \cup {Root} : task'[x] = task[x] \/ (x \in ACall /\ task'[x].ctx.cur = x)
      BY <1>0, <2>1, <2>2 DEF LoopMade, TaskMade
    <2>4. /\ \A g \in SCall : CalmFunction(g)
          /\ \A x \in ACall \ {a} : CalmCall(x)
      BY <1>0, <2>1, SameIsCalm
    <2> QED  BY <2>2, <2>3, <2>4, OthersAreOwn
  <1> QED  BY <1>1, <1>2, <1>3, <1>4, <1>5, <1>6, <1>7 DEF Sends

\* Async code finds the executor of the async_to_sync call it runs for, and none if it
\* is the outermost, after any nesting of sync_to_async calls whose functions it waited
\* for: the context that SyncToAsync.__call__ copies back is then never a deeper one.
THEOREM ExecutorIsOwn == Spec /\ WaitsForFunctions => []CurrentIsOwn
  <1> DEFINE Waits == \A n \in Task : task[n].on # None /\ task'[n].on = None =>
                         scall[task[n].on].pc # "running"
  <1>1. Init => OwnInv
    <2> SUFFICES ASSUME Init  PROVE OwnInv
      OBVIOUS
    <2>1. \A n \in ACall \cup {Root} : OwnTask(n)
      BY InitFacts DEF OwnTask, Own, Task
    <2>2. \A s \in SCall : OwnFunction(s)
      BY InitFacts, ConstantsAssumption DEF OwnFunction, Frame
    <2>3. \A a \in ACall : OwnCall(a)
      BY InitFacts DEF OwnCall
    <2> QED  BY <2>1, <2>2, <2>3 DEF OwnInv
  <1>2. Inv /\ OwnInv /\ [Next]_vars /\ [Waits]_vars => OwnInv'
    <2> SUFFICES ASSUME Inv, OwnInv, [Next]_vars, [Waits]_vars  PROVE OwnInv'
      OBVIOUS
    <2>1. Waits
      BY ConstantsAssumption DEF vars
    <2>2. CASE Calm
      <3>1. \A n \in ACall \cup {Root} : OwnTask(n)'
        BY <2>1, <2>2, CalmTaskIsOwn DEF Calm, Task
      <3>2. \A s \in SCall : OwnFunction(s)'
        BY <2>2, CalmFunctionIsOwn DEF Calm, Frame
      <3>3. \A a \in ACall : OwnCall(a)'
        BY <2>2, CalmCallIsOwn DEF Calm
      <3> QED  BY <3>1, <3>2, <3>3 DEF OwnInv
    <2> QED  BY <2>2, CalmOrSends, SendsIsOwn
  <1>3. OwnInv => CurrentIsOwn
    BY DEF OwnInv, OwnTask, Own, CurrentIsOwn
  <1> HIDE DEF Waits
  <1>4. WaitsForFunctions => [][Waits]_vars
    BY DEF WaitsForFunctions, Waits
  <1> QED  BY <1>1, <1>2, <1>3, <1>4, InvHolds, PTL DEF Spec

-----------------------------------------------------------------------------
(* Programs without cancellations and tasks of their own.  One piece of code runs at  *)
(* a time, so the tasks form a path: p[1] is the outermost, and p[k] the only one that *)
(* does not wait for a running function.                                               *)

\* A task that has not ended, or the async_to_sync call that it is for.
Open(n) ==
    \/ task[n].pc \notin {"none", "done"}
    \/ n \in ACall /\ acall[n].pc \in {"posting", "parked"}

\* A task that waits for a running function.
Deep(n) == task[n].pc = "await" /\ scall[task[n].on].pc = "running"

Uncancelled ==
    /\ \A n \in Task : ~task[n].cancel /\ task[n].got # "cancelled"
                       /\ task[n].pc \notin {"join", "drain"}
    /\ \A f \in Frame : scall[f].got # "cancelled" /\ scall[f].fut # "cancelled"
    /\ \A a \in ACall : acall[a].res # "cancelled"

PathTasks(k, p) ==
    /\ \A n \in Task : Open(n) <=> \E i \in 1..k : p[i] = n
    /\ \A i, j \in 1..k : p[i] = p[j] => i = j
    /\ \A i \in 1..(k - 1) : Deep(p[i])
    /\ \A i \in 2..k : p[i] \in ACall
    /\ \A a \in ACall : acall[a].pc = "returned" => task[a].pc = "done"

\* A loop that runs or will run again.
Alive(l) == loop[l] \in {"run", "gap", "closing"}

\* Tasks are on the loops of tasks further out, or on their own, and no other loop runs.
PathLoops(k, p) ==
    /\ \A i \in 1..k : task[p[i]].pc # "none" => \E j \in 1..i : task[p[i]].loop = p[j]
    /\ \A i \in 1..k : p[i] \in ACall /\ acall[p[i]].pc = "posting" =>
          \E j \in 1..i : acall[p[i]].lp = p[j]
    /\ \A l \in Loop : Alive(l) => Open(l) \/ task[Root].pc = "done"
    /\ \A a \in ACall : acall[a].mode # "new" => loop[a] = "off"
    /\ \A n \in Task : task[n].pc = "none" => task[n].loop = None

\* The function that the task p[i] was called from.
Below(i, p) == IF i = 1 THEN Root ELSE task[p[i - 1]].on

\* Every function is awaited, and only the innermost can be on top of a stack.
PathFrames(k, p) ==
    /\ \A s \in SCall : scall[s].pc \in {"queued", "running"} => task[scall[s].by].on = s
    /\ \A t \in Thread : Top(t) \in Frame => Top(t) = Below(k + 1, p)
    /\ \A t \in Thread : \A j \in 2..Len(stack[t]) : \A i \in 1..k :
          stack[t][j] = p[i] => stack[t][j - 1] = Below(i, p)
    /\ task[Root].pc # "none" => scall[Root].pc = "none"
    /\ task[Root].pc = "done" => k = 0

Path(k, p) ==
    k \in Nat /\ p \in [Nat -> Task] /\ PathTasks(k, p) /\ PathLoops(k, p) /\ PathFrames(k, p)

SoloInv == Uncancelled /\ \E k, p : Path(k, p)

\* A task that does not wait for a running function is the last.
LEMMA IsLast ==
    ASSUME NEW k, NEW p, Path(k, p), NEW n \in Task, Open(n), ~Deep(n)
    PROVE  k >= 1 /\ n = p[k]
  <1>1. k \in Nat
    BY DEF Path
  <1>2. PICK i \in 1..k : p[i] = n
    BY DEF Path, PathTasks
  <1>3. i \notin 1..(k - 1)
    BY <1>2 DEF Path, PathTasks
  <1> QED  BY <1>1, <1>2, <1>3

\* The tasks of the path, and who is last.
LEMMA PathFacts ==
    ASSUME NEW k, NEW p, Path(k, p)
    PROVE  /\ k \in Nat
           /\ \A i \in 1..k : p[i] \in Task /\ Open(p[i])
           /\ \A i \in 1..k : i < k => Deep(p[i]) /\ p[i] # p[k]
           /\ \A i \in 1..k : i # k => i < k /\ i \in 1..(k - 1)
           /\ \A i \in 1..k : i = 1 \/ (i - 1 \in 1..k /\ i - 1 < k)
  <1>1. k \in Nat /\ p \in [Nat -> Task]
    BY DEF Path
  <1>2. \A i \in 1..k : p[i] \in Task /\ Open(p[i])
    <2>1. ASSUME NEW i \in 1..k  PROVE p[i] \in Task
      BY <1>1
    <2> QED  BY <2>1 DEF Path, PathTasks
  <1>3. /\ \A i \in 1..k : i # k => i < k /\ i \in 1..(k - 1)
        /\ \A i \in 1..k : i = 1 \/ (i - 1 \in 1..k /\ i - 1 < k)
        /\ \A i \in 1..k : i < k => i \in 1..(k - 1) /\ k \in 1..k /\ i # k
    BY <1>1
  <1>4. \A i \in 1..k : i < k => Deep(p[i]) /\ p[i] # p[k]
    BY <1>3, Zenon DEF Path, PathTasks
  <1> QED  BY <1>1, <1>2, <1>3, <1>4

-----------------------------------------------------------------------------
(* Steps that keep the path. *)

\* Only the last task changes.
OnlyLast(k, p) == \A n \in Task : (k >= 1 /\ n = p[k]) \/ task'[n] = task[n]

LEMMA TasksKept ==
    ASSUME NEW k, NEW p, Path(k, p), OnlyLast(k, p),
           \A n \in Task : Open(n)' <=> Open(n),
           \A i \in 1..k : i < k => scall'[task[p[i]].on].pc = "running",
           \A a \in ACall : acall'[a].pc = "returned" => task'[a].pc = "done"
    PROVE  PathTasks(k, p)'
  <1>1. \A i \in 1..(k - 1) : i \in 1..k /\ i < k
    BY PathFacts
  <1>2. ASSUME NEW i \in 1..(k - 1)  PROVE Deep(p[i])'
    <2>1. i \in 1..k /\ i < k
      BY <1>1
    <2>2. p[i] \in Task /\ Deep(p[i]) /\ p[i] # p[k]
      BY <2>1, PathFacts
    <2>3. task'[p[i]] = task[p[i]]
      BY <2>2 DEF OnlyLast
    <2> QED  BY <2>1, <2>2, <2>3 DEF Deep
  <1> QED  BY <1>2 DEF Path, PathTasks

LEMMA LoopsKept ==
    ASSUME NEW k, NEW p, Path(k, p), OnlyLast(k, p),
           \A n \in Task : Open(n)' <=> Open(n),
           k >= 1 /\ task'[p[k]].pc # "none" => \E j \in 1..k : task'[p[k]].loop = p[j],
           k >= 1 /\ task'[p[k]].pc = "none" => task'[p[k]].loop = None,
           \A a \in ACall : acall'[a].pc = "posting" =>
              acall[a].pc = "posting" /\ acall'[a].lp = acall[a].lp,
           \A l \in Loop : Alive(l)' => Alive(l) \/ Open(l),
           \A a \in ACall : acall'[a].mode # "new" => loop'[a] = "off",
           task[Root].pc = "done" => task'[Root].pc = "done"
    PROVE  PathLoops(k, p)'
  <1>1. ASSUME NEW i \in 1..k, task'[p[i]].pc # "none"
        PROVE  \E j \in 1..i : task'[p[i]].loop = p[j]
    <2>1. CASE i = k
      BY <1>1, <2>1, PathFacts
    <2>2. CASE i # k
      <3>1. p[i] \in Task /\ p[i] # p[k]
        BY <2>2, PathFacts
      <3>2. task'[p[i]] = task[p[i]]
        BY <3>1 DEF OnlyLast
      <3> QED  BY <1>1, <3>2 DEF Path, PathLoops
    <2> QED  BY <2>1, <2>2
  <1>2. ASSUME NEW i \in 1..k, p[i] \in ACall, acall'[p[i]].pc = "posting"
        PROVE  \E j \in 1..i : acall'[p[i]].lp = p[j]
    BY <1>2 DEF Path, PathLoops
  <1>3. \A l \in Loop : Alive(l)' => Open(l)' \/ task'[Root].pc = "done"
    BY DEF Path, PathLoops, Loop, Task
  <1>4. \A n \in Task : task'[n].pc = "none" => task'[n].loop = None
    BY DEF Path, PathLoops, OnlyLast
  <1> QED  BY <1>1, <1>2, <1>3, <1>4 DEF PathLoops

\* What is below the tasks of the path stays.
LEMMA BelowKept ==
    ASSUME NEW k, NEW p, Path(k, p), OnlyLast(k, p), NEW i \in 1..k
    PROVE  Below(i, p)' = Below(i, p)
  <1>1. CASE i = 1
    BY <1>1 DEF Below
  <1>2. CASE i # 1
    <2>1. i - 1 \in 1..k /\ i - 1 < k
      BY <1>2, PathFacts
    <2>2. p[i - 1] \in Task /\ p[i - 1] # p[k]
      BY <2>1, PathFacts
    <2> QED  BY <1>2, <2>2 DEF Below, OnlyLast
  <1> QED  BY <1>1, <1>2

LEMMA FramesKept ==
    ASSUME NEW k, NEW p, Path(k, p), OnlyLast(k, p),
           \A n \in Task : Open(n)' <=> Open(n),
           \A s \in SCall : scall'[s].pc \in {"queued", "running"} => task'[scall'[s].by].on = s,
           \A t \in Thread : Top(t)' \in Frame => Top(t)' = Below(k + 1, p)',
           \A t \in Thread : \A j \in 2..Len(stack'[t]) : stack'[t][j] \in Task =>
              /\ j \in 2..Len(stack[t])
              /\ stack'[t][j] = stack[t][j] /\ stack'[t][j - 1] = stack[t][j - 1],
           scall[Root].pc = "none" => scall'[Root].pc = "none"
    PROVE  PathFrames(k, p)'
  <1>1. ASSUME NEW t \in Thread, NEW j \in 2..Len(stack'[t]), NEW i \in 1..k, stack'[t][j] = p[i]
        PROVE  stack'[t][j - 1] = Below(i, p)'
    <2>1. p[i] \in Task
      BY PathFacts
    <2>2. /\ j \in 2..Len(stack[t])
          /\ stack'[t][j] = stack[t][j] /\ stack'[t][j - 1] = stack[t][j - 1]
      BY <1>1, <2>1
    <2>3. stack[t][j - 1] = Below(i, p)
      BY <1>1, <2>2, ZenonT(30) DEF Path, PathFrames
    <2> QED  BY <2>2, <2>3, BelowKept
  <1>0. Root \in Task /\ Root \notin ACall
    BY ConstantsAssumption DEF Task
  <1>3. ASSUME task'[Root].pc # "none"  PROVE scall'[Root].pc = "none"
    <2>1. task[Root].pc # "none"
      <3>1. CASE k >= 1 /\ Root = p[k]
        BY <1>0, <3>1, PathFacts DEF Open
      <3>2. CASE ~(k >= 1 /\ Root = p[k])
        BY <1>0, <1>3, <3>2 DEF OnlyLast
      <3> QED  BY <3>1, <3>2
    <2> QED  BY <2>1 DEF Path, PathFrames
  <1>2. ASSUME task'[Root].pc = "done"  PROVE k = 0
    <2>1. Root \in Task /\ Root \notin ACall
      BY <1>0
    <2>2. ~Open(Root)' /\ ~Open(Root)
      BY <1>2, <2>1 DEF Open
    <2>3. ~(k >= 1 /\ Root = p[k])
      BY <2>2, PathFacts
    <2>4. task[Root].pc = "done"
      BY <1>2, <2>1, <2>3 DEF OnlyLast
    <2> QED  BY <2>4 DEF Path, PathFrames
  <1> QED  BY <1>1, <1>2, <1>3 DEF PathFrames


\* While the last task does not wait for a running function, there is none on top.
LEMMA NoFrameOnTop ==
    ASSUME Inv, Uncancelled, NEW k, NEW p, Path(k, p), NEW n \in Task, Open(n), ~Deep(n),
           NEW t \in Thread
    PROVE  Top(t) \notin Frame
  <1> SUFFICES ASSUME Top(t) \in Frame  PROVE FALSE
    OBVIOUS
  <1>1. k >= 1 /\ n = p[k]
    BY IsLast
  <1>2. k \in Nat
    BY PathFacts
  <1>3. k + 1 # 1 /\ (k + 1) - 1 = k
    BY <1>1, <1>2
  <1>4. Top(t) = task[n].on
    BY <1>1, <1>3 DEF Path, PathFrames, Below
  <1>5. scall[task[n].on].pc = "running" /\ task[n].on # None
    BY <1>4, TopFacts, ConstantsAssumption DEF Frame
  <1>6. task[n].pc = "await"
    BY <1>5 DEF Inv, AwaitInv, Uncancelled
  <1> QED  BY <1>5, <1>6 DEF Deep

\* A step of the last task that calls nothing and leaves no function that has not ended.
LEMMA TaskMoves ==
    ASSUME Inv, Uncancelled, NEW k, NEW p, Path(k, p), NEW n \in Task, Open(n), ~Deep(n), Open(n)',
           \A m \in Task \ {n} : task'[m] = task[m],
           task'[n].pc # "none", \E j \in 1..k : task'[n].loop = p[j],
           task'[n].on = task[n].on \/ scall[task[n].on].pc \notin {"queued", "running"},
           \A f \in Frame : scall'[f].pc = scall[f].pc /\ scall'[f].by = scall[f].by,
           \A a \in ACall \ {n} : acall'[a] = acall[a],
           n \in ACall => /\ acall'[n].pc = "parked"
                          /\ acall'[n].mode # "new" => acall[n].mode # "new" /\ loop'[n] = loop[n],
           \A l \in Loop : l = n \/ loop'[l] = loop[l],
           stack' = stack
    PROVE  Path(k, p)'
  <1>1. k >= 1 /\ n = p[k]
    BY IsLast
  <1>2. k \in Nat /\ \A i \in 1..k : p[i] \in Task /\ Open(p[i])
    BY PathFacts
  <1>3. OnlyLast(k, p)
    BY <1>1 DEF OnlyLast
  <1>4. \A m \in Task : Open(m)' <=> Open(m)
    BY DEF Open, Task
  <1>5. ASSUME NEW i \in 1..k, i < k  PROVE scall'[task[p[i]].on].pc = "running"
    <2>1. Deep(p[i]) /\ p[i] \in Task
      BY <1>5, PathFacts
    <2>2. task[p[i]].on \in SCall
      BY <2>1, AwaitFacts DEF Deep, Waiting
    <2> QED  BY <2>1, <2>2 DEF Deep, Frame
  <1>6. PathTasks(k, p)'
    <2>1. \A a \in ACall : acall'[a].pc = "returned" => task'[a].pc = "done"
      BY DEF Path, PathTasks, Task
    <2> QED  BY <1>3, <1>4, <1>5, <2>1, TasksKept
  <1>7. \A l \in Loop : Alive(l)' => Alive(l) \/ Open(l)
    BY DEF Alive
  <1>8. \A a \in ACall : acall'[a].mode # "new" => loop'[a] = "off"
    BY DEF Path, PathLoops, Loop
  <1>9. \A a \in ACall : acall'[a].pc = "posting" =>
           acall[a].pc = "posting" /\ acall'[a].lp = acall[a].lp
    OBVIOUS
  <1>10. task[Root].pc = "done" => task'[Root].pc = "done"
    <2>1. Root \in Task /\ Root \notin ACall
      BY ConstantsAssumption DEF Task
    <2> QED  BY <2>1 DEF Open
  <1>11. PathLoops(k, p)'
    BY <1>1, <1>3, <1>4, <1>7, <1>8, <1>9, <1>10, LoopsKept
  <1>12. ASSUME NEW s \in SCall, scall'[s].pc \in {"queued", "running"}
         PROVE  task'[scall'[s].by].on = s
    <2>1. s \in Frame /\ scall[s].pc \in {"queued", "running"} /\ scall'[s].by = scall[s].by
      BY <1>12 DEF Frame
    <2>2. task[scall[s].by].on = s /\ scall[s].by \in Task
      BY <2>1, CallerFacts DEF Path, PathFrames
    <2> QED  BY <2>1, <2>2
  <1>13. \A t \in Thread : Top(t)' \in Frame => Top(t)' = Below(k + 1, p)'
    <2>1. \A t \in Thread : Top(t)' = Top(t)
      BY DEF Top
    <2> QED  BY <2>1, NoFrameOnTop
  <1>14. Root \in Frame
    BY DEF Frame
  <1>15. PathFrames(k, p)'
    BY <1>3, <1>4, <1>12, <1>13, <1>14, FramesKept
  <1> QED  BY <1>6, <1>11, <1>15 DEF Path


\* No sync_to_async call is left while its function is running.
Waits == \A n \in Task : task[n].on # None /\ task'[n].on = None =>
            scall[task[n].on].pc # "running"

SoloGoes == SoloInv' /\ Waits

LEMMA GoesOn ==
    ASSUME NEW k, NEW p, Path(k, p)', Uncancelled', Waits
    PROVE  SoloGoes
  BY DEF SoloGoes, SoloInv

\* A step of one task that has been made, and that does not close its path.
LEMMA TaskGoes ==
    ASSUME Inv, SoloInv, NEW n \in Task, NEW q \in TaskType, task' = [task EXCEPT ![n] = q],
           task[n].pc \notin {"none", "done"}, ~Deep(n),
           q.pc \notin {"none", "join", "drain"}, n \notin ACall => q.pc # "done",
           q.loop = task[n].loop, ~q.cancel, q.got # "cancelled",
           q.on = task[n].on \/ scall[task[n].on].pc \notin {"queued", "running"},
           \A f \in Frame : /\ scall'[f].pc = scall[f].pc /\ scall'[f].by = scall[f].by
                            /\ scall'[f].got = scall[f].got /\ scall'[f].fut = scall[f].fut,
           \A a \in ACall \ {n} : acall'[a] = acall[a],
           n \in ACall => /\ acall[n].pc = "parked" /\ acall'[n].pc = "parked"
                          /\ acall'[n].mode = acall[n].mode /\ acall'[n].res # "cancelled",
           stack' = stack, loop' = loop
    PROVE  SoloGoes
  <1>1. PICK k, p : Path(k, p)
    BY DEF SoloInv
  <1>2. Uncancelled
    BY DEF SoloInv
  <1>3. task'[n] = q /\ \A m \in Task \ {n} : task'[m] = task[m]
    BY TaskChange
  <1>4. Open(n) /\ Open(n)'
    BY <1>3 DEF Open
  <1>5. k >= 1 /\ n = p[k] /\ k \in Nat
    BY <1>1, <1>4, IsLast, PathFacts
  <1>6. \E j \in 1..k : task'[n].loop = p[j]
    <2>1. k \in 1..k
      BY <1>5
    <2> QED  BY <1>1, <1>3, <1>5, <2>1 DEF Path, PathLoops
  <1>7. Path(k, p)'
    <2>1. n \in ACall => /\ acall'[n].pc = "parked"
                         /\ acall'[n].mode # "new" => acall[n].mode # "new" /\ loop'[n] = loop[n]
      OBVIOUS
    <2>2. task'[n].pc # "none"
      BY <1>3
    <2>3. task'[n].on = task[n].on \/ scall[task[n].on].pc \notin {"queued", "running"}
      BY <1>3
    <2>4. \A l \in Loop : l = n \/ loop'[l] = loop[l]
      OBVIOUS
    <2> QED  BY <1>1, <1>2, <1>3, <1>4, <1>6, <2>1, <2>2, <2>3, <2>4, TaskMoves
  <1>8. Uncancelled'
    BY <1>2, <1>3 DEF Uncancelled
  <1>9. Waits
    BY <1>3 DEF Waits
  <1> QED  BY <1>7, <1>8, <1>9, GoesOn

\* The call of a task that has not ended is parked.
LEMMA RunningIsParked ==
    ASSUME Inv, SoloInv, NEW a \in ACall, task[a].pc \notin {"none", "done"}
    PROVE  acall[a].pc = "parked" /\ acall[a].res # "cancelled"
  <1>1. acall[a] \in ACallType /\ CallOf(a)
    BY DEF Inv, TypeOK, CallInv
  <1>2. acall[a].pc \notin {"none", "posting"}
    BY <1>1 DEF CallOf
  <1>3. acall[a].pc # "returned"
    BY DEF SoloInv, Path, PathTasks
  <1> QED  BY <1>1, <1>2, <1>3 DEF ACallType, SoloInv, Uncancelled

LEMMA CallRefusedGoes ==
    ASSUME Inv, SoloInv, NEW n \in Task, CallRefused(n)
    PROVE  SoloGoes
  <1>1. PICK r \in TaskType : r = task[n]
    BY DEF Inv, TypeOK
  <1>2. PICK q \in TaskType : q = [r EXCEPT !.got = "error"]
    BY DEF TaskType, Outcome
  <1>3. task' = [task EXCEPT ![n] = q]
    BY <1>1, <1>2 DEF CallRefused
  <1>4. /\ q.pc = "run" /\ r.pc = "run" /\ q.loop = r.loop /\ q.on = r.on
        /\ q.cancel = r.cancel /\ q.got = "error"
    BY <1>1, <1>2 DEF TaskType, CallRefused, RunsCode
  <1>5. ~r.cancel
    BY <1>1 DEF SoloInv, Uncancelled
  <1>6. UNCHANGED <<scall, acall, stack, tlocal, loop, cancels>>
    BY DEF CallRefused
  <1>7. n \in ACall => acall[n].pc = "parked" /\ acall[n].res # "cancelled"
    BY <1>1, <1>4, RunningIsParked
  <1> QED  BY <1>1, <1>3, <1>4, <1>5, <1>6, <1>7, TaskGoes DEF Deep


LEMMA AwaitReturnsGoes ==
    ASSUME Inv, SoloInv, NEW n \in Task, AwaitReturns(n)
    PROVE  SoloGoes
  <1>1. task[n].pc \in Waiting /\ task[n].pc = "await"
    BY DEF AwaitReturns, Waiting, SoloInv, Uncancelled
  <1>2. PICK r \in Outcome : r = scall[task[n].on].got
    BY <1>1, AwaitFacts DEF SCallType
  <1>3. PICK q \in TaskType : q = Leave(n, r)
    BY <1>1, LeaveFacts
  <1>4. task' = [task EXCEPT ![n] = q]
    BY <1>2, <1>3 DEF AwaitReturns
  <1>5. scall[task[n].on].pc = "finished" /\ task[n].on \in SCall
    BY <1>1, AwaitFacts DEF AwaitReturns
  <1>6. r # "cancelled"
    BY <1>2, <1>5 DEF SoloInv, Uncancelled, Frame
  <1>7. q.pc = "run" /\ q.loop = task[n].loop
    BY <1>1, <1>3, LeaveFacts
  <1>8. ~q.cancel /\ q.got = r
    BY <1>3 DEF Leave, Inv, TypeOK, TaskType
  <1>9. UNCHANGED <<scall, acall, stack, tlocal, loop, cancels>>
    BY DEF AwaitReturns
  <1>10. n \in ACall => acall[n].pc = "parked" /\ acall[n].res # "cancelled"
    BY <1>1, RunningIsParked
  <1> QED  BY <1>1, <1>4, <1>5, <1>6, <1>7, <1>8, <1>9, <1>10, TaskGoes DEF Deep

LEMMA CreateTaskGoes ==
    ASSUME Inv, SoloInv, NEW a \in ACall, CreateTask(a)
    PROVE  SoloGoes
  <1>0. a \in Task
    BY DEF Task
  <1>1. PICK r \in TaskType : r = task[a]
    BY <1>0 DEF Inv, TypeOK
  <1>2. PICK late \in BOOLEAN : late = (loop[task[a].loop] = "closing")
    OBVIOUS
  <1>3. PICK q \in TaskType : q = [r EXCEPT !.pc = "created", !.late = late]
    BY DEF TaskType
  <1>4. task' = [task EXCEPT ![a] = q]
    BY <1>1, <1>2, <1>3, Zenon DEF CreateTask
  <1>5. /\ q.pc = "created" /\ r.pc = "posted" /\ q.loop = r.loop /\ q.on = r.on
        /\ q.cancel = r.cancel /\ q.got = r.got
    BY <1>1, <1>3 DEF TaskType, CreateTask
  <1>6. ~r.cancel /\ r.got # "cancelled"
    BY <1>0, <1>1 DEF SoloInv, Uncancelled
  <1>7. UNCHANGED <<scall, acall, stack, tlocal, loop, cancels>>
    BY DEF CreateTask
  <1>8. acall[a].pc = "parked" /\ acall[a].res # "cancelled"
    BY <1>1, <1>5, RunningIsParked
  <1> QED  BY <1>0, <1>1, <1>4, <1>5, <1>6, <1>7, <1>8, TaskGoes DEF Deep

LEMMA SetResultGoes ==
    ASSUME Inv, SoloInv, NEW a \in ACall, SetResult(a)
    PROVE  SoloGoes
  <1>0. a \in Task
    BY DEF Task
  <1>1. PICK r \in TaskType : r = task[a]
    BY <1>0 DEF Inv, TypeOK
  <1>2. PICK q \in TaskType : q = [r EXCEPT !.pc = "done"]
    BY DEF TaskType
  <1>3. PICK u \in ACallType : u = acall[a]
    BY DEF Inv, TypeOK
  <1>4. PICK v \in ACallType : v = [u EXCEPT !.res = r.got]
    BY ZenonT(30) DEF ACallType, TaskType, Outcome
  <1>5. task' = [task EXCEPT ![a] = q] /\ acall' = [acall EXCEPT ![a] = v]
    BY <1>1, <1>2, <1>3, <1>4 DEF SetResult
  <1>6. /\ q.pc = "done" /\ r.pc = "ending" /\ q.loop = r.loop /\ q.on = r.on
        /\ q.cancel = r.cancel /\ q.got = r.got
    BY <1>1, <1>2 DEF TaskType, SetResult
  <1>7. ~r.cancel /\ r.got # "cancelled"
    BY <1>0, <1>1 DEF SoloInv, Uncancelled
  <1>8. UNCHANGED <<scall, stack, tlocal, loop, cancels>>
    BY DEF SetResult
  <1>9. acall[a].pc = "parked"
    BY <1>1, <1>6, RunningIsParked
  <1>10. /\ \A x \in ACall \ {a} : acall'[x] = acall[x]
         /\ acall'[a].pc = "parked" /\ acall'[a].mode = acall[a].mode /\ acall'[a].res = r.got
    BY <1>3, <1>4, <1>5, <1>9, CallChange DEF ACallType
  <1> QED  BY <1>0, <1>1, <1>5, <1>6, <1>7, <1>8, <1>9, <1>10, TaskGoes DEF Deep

\* Changes of task_context, as main_wrap makes them.
LEMMA TaskStartsGoes ==
    ASSUME Inv, SoloInv, NEW n \in Task, TaskStarts(n)
    PROVE  SoloGoes
  <1>1. PICK r \in TaskType : r = task[n]
    BY DEF Inv, TypeOK
  <1>2. PICK q \in TaskType : q = [r EXCEPT !.pc = "run"]
    BY DEF TaskType
  <1>3. task' = [task EXCEPT ![n] = q]
    BY <1>1, <1>2 DEF TaskStarts
  <1>4. /\ r.pc = "created" /\ q.pc = "run" /\ q.loop = r.loop /\ q.on = r.on
        /\ q.cancel = r.cancel /\ q.got = r.got
    BY <1>1, <1>2 DEF TaskType, TaskStarts
  <1>5. ~r.cancel /\ r.got # "cancelled"
    BY <1>1 DEF SoloInv, Uncancelled
  <1>6. UNCHANGED <<acall, stack, tlocal, loop, cancels>>
    BY DEF TaskStarts
  <1>7. n \in ACall => acall[n].pc = "parked" /\ acall[n].res # "cancelled"
    BY <1>1, <1>4, RunningIsParked
  <1>8. \A f \in Frame : /\ scall'[f].pc = scall[f].pc /\ scall'[f].by = scall[f].by
                         /\ scall'[f].got = scall[f].got /\ scall'[f].fut = scall[f].fut
    <2>1. scall \in [Frame -> SCallType]
      BY DEF Inv, TypeOK
    <2> QED  BY <2>1 DEF TaskStarts, SCallType
  <1> QED  BY <1>1, <1>3, <1>4, <1>5, <1>6, <1>7, <1>8, TaskGoes DEF Deep

LEMMA TaskReturnsGoes ==
    ASSUME Inv, SoloInv, NEW n \in ACall, NEW g \in Outcome, TaskReturns(n, g)
    PROVE  SoloGoes
  <1>0. n \in Task
    BY DEF Task
  <1>1. PICK r \in TaskType : r = task[n]
    BY <1>0 DEF Inv, TypeOK
  <1>2. PICK q \in TaskType : q = [r EXCEPT !.pc = "ending", !.cancel = FALSE, !.got = g]
    BY DEF TaskType
  <1>3. task' = [task EXCEPT ![n] = q]
    BY <1>1, <1>2 DEF TaskReturns
  <1>4. /\ r.pc = "run" /\ q.pc = "ending" /\ q.loop = r.loop /\ q.on = r.on
        /\ ~q.cancel /\ q.got = g
    BY <1>1, <1>2 DEF TaskType, TaskReturns
  <1>5. g # "cancelled"
    BY <1>0 DEF TaskReturns, SoloInv, Uncancelled
  <1>6. UNCHANGED <<stack, tlocal, loop, cancels>>
    BY DEF TaskReturns
  <1>7. acall[n].pc = "parked" /\ acall[n].res # "cancelled"
    BY <1>1, <1>4, RunningIsParked
  <1>8. \A f \in Frame : /\ scall'[f].pc = scall[f].pc /\ scall'[f].by = scall[f].by
                         /\ scall'[f].got = scall[f].got /\ scall'[f].fut = scall[f].fut
    <2>1. scall \in [Frame -> SCallType] /\ scall' = OffTaskContext(n)
      BY DEF Inv, TypeOK, TaskReturns
    <2> QED  BY <2>1 DEF OffTaskContext, SCallType
  <1>9. PICK u \in ACallType : u = acall[n]
    BY DEF Inv, TypeOK
  <1>10. PICK v \in ACallType : v = [u EXCEPT !.cell = r.ctx]
    BY DEF ACallType, TaskType
  <1>11. acall' = [acall EXCEPT ![n] = v]
    BY <1>1, <1>9, <1>10 DEF TaskReturns
  <1>12. /\ \A x \in ACall \ {n} : acall'[x] = acall[x]
         /\ acall'[n].pc = acall[n].pc /\ acall'[n].mode = acall[n].mode
         /\ acall'[n].res = acall[n].res
    BY <1>9, <1>10, <1>11, CallChange DEF ACallType
  <1> QED  BY <1>0, <1>1, <1>3, <1>4, <1>5, <1>6, <1>7, <1>8, <1>12, TaskGoes DEF Deep


-----------------------------------------------------------------------------
(* async_to_sync calls. *)

\* A call that is being made has not been cancelled.
MadeFresh(a) ==
    /\ ~task'[a].cancel /\ task'[a].got = "ok" /\ task'[a].on = None
    /\ task'[a].pc \notin {"join", "drain"}

LEMMA NewLoopFresh ==
    ASSUME Inv, NEW a \in ACall, NEW u \in ACallType, OnNewLoop(a, u)
    PROVE  MadeFresh(a) /\ acall'[a].res = u.res
  <1>0. a \in Task
    BY DEF Task
  <1>1. PICK v : v = [u EXCEPT !.pc = "parked", !.mode = "new", !.lp = a]
    OBVIOUS
  <1>2. PICK q : q = [NoTask EXCEPT !.pc = "created", !.loop = a, !.ctx = u.cell]
    OBVIOUS
  <1>3. acall' = [acall EXCEPT ![a] = v] /\ task' = [task EXCEPT ![a] = q]
    BY <1>1, <1>2 DEF OnNewLoop
  <1>4. acall'[a] = v /\ task'[a] = q
    BY <1>0, <1>3 DEF Inv, TypeOK
  <1>5. v.res = u.res
    BY <1>1 DEF ACallType
  <1>6. ~q.cancel /\ q.got = "ok" /\ q.on = None /\ q.pc = "created"
    BY <1>2 DEF NoTask
  <1> QED  BY <1>4, <1>5, <1>6 DEF MadeFresh

LEMMA PostedFresh ==
    ASSUME Inv, NEW a \in ACall, CallSoonThreadsafe(a)
    PROVE  MadeFresh(a) /\ acall'[a].res = acall[a].res /\ stack' = stack
  <1>0. a \in Task
    BY DEF Task
  <1>1. PICK u \in ACallType : u = acall[a]
    BY DEF Inv, TypeOK
  <1>2. CASE loop[acall[a].lp] = "closed"
    BY <1>1, <1>2, NewLoopFresh DEF CallSoonThreadsafe
  <1>3. CASE loop[acall[a].lp] # "closed"
    <2>1. PICK v : v = [u EXCEPT !.pc = "parked", !.mode = "main"]
      OBVIOUS
    <2>2. PICK q : q = [NoTask EXCEPT !.pc = "posted", !.loop = u.lp, !.ctx = u.cell,
                                     !.late = (loop[u.lp] = "gap")]
      OBVIOUS
    <2>3. acall' = [acall EXCEPT ![a] = v] /\ task' = [task EXCEPT ![a] = q] /\ stack' = stack
      BY <1>1, <1>3, <2>1, <2>2 DEF CallSoonThreadsafe
    <2>4. acall'[a] = v /\ task'[a] = q
      BY <1>0, <2>3 DEF Inv, TypeOK
    <2>5. v.res = u.res
      BY <2>1 DEF ACallType
    <2>6. ~q.cancel /\ q.got = "ok" /\ q.on = None /\ q.pc = "posted"
      BY <2>2 DEF NoTask
    <2> QED  BY <1>1, <2>3, <2>4, <2>5, <2>6 DEF MadeFresh
  <1> QED  BY <1>2, <1>3

LEMMA CallSoonThreadsafeGoes ==
    ASSUME Inv, SoloInv, NEW a \in ACall, CallSoonThreadsafe(a)
    PROVE  SoloGoes
  <1>0. a \in Task /\ ACall \subseteq Loop
    BY DEF Task, Loop
  <1>1. PICK k, p : Path(k, p)
    BY DEF SoloInv
  <1>2. Uncancelled
    BY DEF SoloInv
  <1>3. /\ UNCHANGED <<scall, tlocal, stack>>
        /\ \A x \in ACall \ {a} : acall'[x] = acall[x]
        /\ acall[a].pc = "posting"
        /\ \/ LoopMade(a)
           \/ /\ TaskMade(a, acall[a].lp) /\ loop' = loop
              /\ acall'[a].pc = "parked" /\ acall'[a].mode = "main"
    BY CallSoonThreadsafeEffect, PostedFresh
  <1>4. MadeFresh(a) /\ acall'[a].res = acall[a].res
    BY PostedFresh
  <1>5. task[a].pc = "none" /\ acall[a].mode = "none"
    BY <1>3 DEF Inv, CallInv, CallOf
  <1>6. acall'[a].pc = "parked" /\ task'[a].pc \in {"posted", "created"}
        /\ \A x \in Task \ {a} : task'[x] = task[x]
    BY <1>3 DEF LoopMade, TaskMade
  <1>7. Open(a) /\ ~Deep(a) /\ Open(a)'
    BY <1>3, <1>5, <1>6 DEF Open, Deep
  <1>8. k >= 1 /\ a = p[k] /\ k \in Nat
    BY <1>0, <1>1, <1>7, IsLast, PathFacts
  <1>9. \E j \in 1..k : task'[a].loop = p[j]
    <2>1. k \in 1..k
      BY <1>8
    <2>2. \E j \in 1..k : acall[a].lp = p[j]
      BY <1>1, <1>3, <1>8, <2>1 DEF Path, PathLoops
    <2>3. task'[a].loop \in {a, acall[a].lp}
      BY <1>3 DEF LoopMade, TaskMade
    <2> QED  BY <1>8, <2>1, <2>2, <2>3
  <1>10. task[a].on = None /\ task'[a].on = None
    BY <1>0, <1>4, <1>5 DEF MadeFresh, Inv, AwaitInv
  <1>11. acall'[a].mode # "new" => acall[a].mode # "new" /\ loop'[a] = loop[a]
    BY <1>3, <1>5 DEF LoopMade
  <1>12. \A l \in Loop : l = a \/ loop'[l] = loop[l]
    BY <1>3 DEF LoopMade
  <1>13. Path(k, p)'
    BY <1>0, <1>1, <1>2, <1>3, <1>6, <1>7, <1>9, <1>10, <1>11, <1>12, TaskMoves
  <1>14. Uncancelled'
    BY <1>2, <1>3, <1>4, <1>6 DEF Uncancelled, MadeFresh
  <1>15. Waits
    BY <1>6, <1>10 DEF Waits
  <1> QED  BY <1>13, <1>14, <1>15, GoesOn


-----------------------------------------------------------------------------
(* Functions. *)

\* The function of the last task is none of the others'.
LEMMA LastFunction ==
    ASSUME Inv, NEW k, NEW p, Path(k, p), NEW i \in 1..k, i < k
    PROVE  /\ task[p[i]].on \in SCall /\ scall[task[p[i]].on].pc = "running"
           /\ task[p[i]].on # Below(k + 1, p)
  <1>1. Deep(p[i]) /\ p[i] \in Task /\ p[i] # p[k] /\ k \in Nat
    BY PathFacts
  <1>2. /\ task[p[i]].on \in SCall /\ scall[task[p[i]].on].pc = "running"
        /\ scall[task[p[i]].on].by = p[i]
    BY <1>1, AwaitFacts DEF Deep, Waiting
  <1>3. k \in 1..k /\ k + 1 # 1 /\ (k + 1) - 1 = k
    BY <1>1
  <1>4. ASSUME task[p[i]].on = task[p[k]].on  PROVE FALSE
    <2>1. p[k] \in Task
      BY <1>3, PathFacts
    <2>2. task[p[k]].on # None
      BY <1>2, <1>4, ConstantsAssumption
    <2>3. scall[task[p[k]].on].by = p[k]
      BY <2>1, <2>2 DEF Inv, AwaitInv
    <2> QED  BY <1>1, <1>2, <1>4, <2>3
  <1> QED  BY <1>2, <1>3, <1>4 DEF Below

\* A step of a function and its thread, of which only the innermost may end.
LEMMA FunctionGoes ==
    ASSUME Inv, Uncancelled, NEW k, NEW p, Path(k, p), UNCHANGED <<task, acall, loop>>,
           \A f \in Frame : /\ scall'[f].by = scall[f].by
                            /\ scall'[f].got # "cancelled" /\ scall'[f].fut # "cancelled",
           \A f \in Frame : scall[f].pc = "running" =>
              scall'[f].pc = "running" \/ f = Below(k + 1, p),
           \A s \in SCall : scall'[s].pc \in {"queued", "running"} =>
              scall[s].pc \in {"queued", "running"},
           \A t \in Thread : Top(t)' \in Frame => Top(t)' = Below(k + 1, p),
           \A t \in Thread : \A j \in 2..Len(stack'[t]) : stack'[t][j] \in Task =>
              /\ j \in 2..Len(stack[t])
              /\ stack'[t][j] = stack[t][j] /\ stack'[t][j - 1] = stack[t][j - 1],
           scall[Root].pc = "none" => scall'[Root].pc = "none"
    PROVE  SoloGoes
  <1>1. OnlyLast(k, p)
    BY DEF OnlyLast
  <1>2. \A n \in Task : Open(n)' <=> Open(n)
    BY DEF Open
  <1>3. PathTasks(k, p)'
    <2>1. \A i \in 1..k : i < k => scall'[task[p[i]].on].pc = "running"
      BY LastFunction DEF Frame
    <2>2. \A a \in ACall : acall'[a].pc = "returned" => task'[a].pc = "done"
      BY DEF Path, PathTasks
    <2> QED  BY <1>1, <1>2, <2>1, <2>2, TasksKept
  <1>4. PathLoops(k, p)'
    BY DEF Path, PathLoops, Alive, Open
  <1>5. PathFrames(k, p)'
    <2>1. \A s \in SCall : scall'[s].pc \in {"queued", "running"} => task'[scall'[s].by].on = s
      BY DEF Path, PathFrames, Frame
    <2>2. Below(k + 1, p)' = Below(k + 1, p)
      BY DEF Below
    <2> QED  BY <1>1, <1>2, <2>1, <2>2, FramesKept
  <1>6. Path(k, p)'
    BY <1>3, <1>4, <1>5 DEF Path
  <1>7. Uncancelled'
    BY DEF Uncancelled
  <1>8. Waits
    BY DEF Waits
  <1> QED  BY <1>6, <1>7, <1>8, GoesOn

LEMMA ExecCoroDoneGoes ==
    ASSUME Inv, SoloInv, NEW s \in SCall, ExecCoroDone(s)
    PROVE  SoloGoes
  <1>1. PICK k, p : Path(k, p)
    BY DEF SoloInv
  <1>2. Uncancelled
    BY DEF SoloInv
  <1>3. UNCHANGED <<task, acall, loop, stack>>
    BY DEF ExecCoroDone
  <1>4. \A f \in Frame : /\ scall'[f].by = scall[f].by /\ scall'[f].pc = scall[f].pc
                         /\ scall'[f].got = scall[f].got /\ scall'[f].fut \in {scall[f].fut, "done"}
    <2>1. scall \in [Frame -> SCallType] /\ s \in Frame
      BY DEF Inv, TypeOK, Frame
    <2> QED  BY <2>1 DEF ExecCoroDone, SCallType
  <1>5. \A t \in Thread : Top(t)' \in Frame => Top(t)' = Below(k + 1, p)
    BY <1>1, <1>3 DEF Top, Path, PathFrames
  <1>6. SCall \subseteq Frame /\ Root \in Frame
    BY DEF Frame
  <1> QED  BY <1>1, <1>2, <1>3, <1>4, <1>5, <1>6, FunctionGoes DEF Uncancelled

\* A queued function belongs to the last task.
LEMMA QueuedIsLast ==
    ASSUME Inv, SoloInv, NEW k, NEW p, Path(k, p), NEW s \in SCall, scall[s].pc = "queued"
    PROVE  Below(k + 1, p) = s
  <1>1. PICK n \in Task : n = scall[s].by /\ task[n].on = s
    BY CallerFacts DEF Path, PathFrames
  <1>2. task[n].on # None
    BY <1>1, ConstantsAssumption
  <1>3. task[n].pc \in Waiting
    BY <1>2 DEF Inv, AwaitInv, Waiting
  <1>4. Open(n) /\ ~Deep(n)
    BY <1>1, <1>3 DEF Open, Deep, Waiting
  <1>5. k >= 1 /\ n = p[k] /\ k \in Nat
    BY <1>4, IsLast, PathFacts
  <1>6. k + 1 # 1 /\ (k + 1) - 1 = k
    BY <1>5
  <1> QED  BY <1>1, <1>5, <1>6 DEF Below

LEMMA ThreadHandlerGoes ==
    ASSUME Inv, SoloInv, NEW t \in Thread, NEW s \in SCall, ThreadHandler(t, s)
    PROVE  SoloGoes
  <1>0. s \in Frame /\ s \notin Task /\ SCall \subseteq Frame /\ Root \in Frame /\ s # Root
    BY ConstantsAssumption DEF Frame, Task
  <1>1. PICK k, p : Path(k, p)
    BY DEF SoloInv
  <1>2. Uncancelled
    BY DEF SoloInv
  <1>3. UNCHANGED <<task, acall, loop>> /\ scall[s].pc = "queued"
    BY DEF ThreadHandler
  <1>4. /\ \A f \in Frame : /\ scall'[f].by = scall[f].by
                            /\ scall'[f].got = scall[f].got /\ scall'[f].fut = scall[f].fut
        /\ \A f \in Frame \ {s} : scall'[f].pc = scall[f].pc
    <2>1. scall \in [Frame -> SCallType]
      BY DEF Inv, TypeOK
    <2> QED  BY <1>0, <2>1 DEF ThreadHandler, SCallType
  <1>5. Below(k + 1, p) = s
    BY <1>1, <1>3, QueuedIsLast
  <1>6. PICK z \in Seq(Frame \cup ACall \cup Spawn) : z = stack[t]
    BY DEF Inv, TypeOK
  <1>7. PICK w : w = Append(z, s)
    OBVIOUS
  <1>8. /\ w \in Seq(Frame \cup ACall \cup Spawn) /\ Len(w) = Len(z) + 1 /\ Len(z) \in Nat
        /\ w[Len(z) + 1] = s /\ \A j \in 1..Len(z) : w[j] = z[j]
    BY <1>0, <1>7, AppendFacts
  <1>9. stack'[t] = w /\ \A u \in Thread \ {t} : stack'[u] = stack[u]
    BY <1>6, <1>7 DEF ThreadHandler, Inv, TypeOK
  <1>10. \A u \in Thread : Top(u)' \in Frame => Top(u)' = Below(k + 1, p)
    <2>1. Top(t)' = s
      <3>1. w # <<>>
        BY <1>8
      <3> QED  BY <1>8, <1>9, <3>1 DEF Top
    <2>2. \A u \in Thread \ {t} : Top(u)' = Top(u)
      BY <1>9 DEF Top
    <2> QED  BY <1>1, <1>5, <2>1, <2>2 DEF Path, PathFrames
  <1>11. ASSUME NEW u \in Thread, NEW j \in 2..Len(stack'[u]), stack'[u][j] \in Task
         PROVE  /\ j \in 2..Len(stack[u])
                /\ stack'[u][j] = stack[u][j] /\ stack'[u][j - 1] = stack[u][j - 1]
    <2>1. CASE u = t
      <3>1. j \in 2..Len(w) /\ w[j] \in Task
        BY <1>9, <1>11, <2>1
      <3>2. j # Len(z) + 1
        BY <1>0, <1>8, <3>1
      <3>3. j \in 2..Len(z) /\ j \in 1..Len(z) /\ j - 1 \in 1..Len(z)
        BY <1>8, <3>1, <3>2
      <3> QED  BY <1>6, <1>8, <1>9, <2>1, <3>3
    <2>2. CASE u # t
      BY <1>9, <1>11, <2>2
    <2> QED  BY <2>1, <2>2
  <1>12. \A f \in Frame : scall[f].pc = "running" =>
            scall'[f].pc = "running" \/ f = Below(k + 1, p)
    BY <1>4, <1>5
  <1>13. \A x \in SCall : scall'[x].pc \in {"queued", "running"} =>
            scall[x].pc \in {"queued", "running"}
    BY <1>0, <1>3, <1>4
  <1>14. \A f \in Frame : /\ scall'[f].by = scall[f].by
                          /\ scall'[f].got # "cancelled" /\ scall'[f].fut # "cancelled"
    BY <1>2, <1>4 DEF Uncancelled
  <1> QED  BY <1>0, <1>1, <1>2, <1>3, <1>4, <1>10, <1>11, <1>12, <1>13, <1>14, FunctionGoes

LEMMA FunctionReturnsGoes ==
    ASSUME Inv, SoloInv, NEW t \in Thread, NEW s \in Frame, NEW g \in Outcome,
           FunctionReturns(t, s, g)
    PROVE  SoloGoes
  <1>0. SCall \subseteq Frame /\ Root \in Frame
    BY DEF Frame
  <1>1. PICK k, p : Path(k, p)
    BY DEF SoloInv
  <1>2. Uncancelled
    BY DEF SoloInv
  <1>3. UNCHANGED <<task, acall, loop>> /\ Top(t) = s
    BY DEF FunctionReturns
  <1>4. /\ \A f \in Frame : scall'[f].by = scall[f].by /\ scall'[f].fut = scall[f].fut
        /\ \A f \in Frame \ {s} : scall'[f].pc = scall[f].pc /\ scall'[f].got = scall[f].got
        /\ scall'[s].pc = "finished" /\ scall'[s].got = g
    <2>1. scall \in [Frame -> SCallType]
      BY DEF Inv, TypeOK
    <2> QED  BY <2>1 DEF FunctionReturns, SCallType
  <1>5. g # "cancelled"
    BY <1>2 DEF FunctionReturns, Uncancelled
  <1>6. Below(k + 1, p) = s
    BY <1>1, <1>3 DEF Path, PathFrames
  <1>7. PICK z \in Seq(Frame \cup ACall \cup Spawn) : z = stack[t]
    BY DEF Inv, TypeOK
  <1>8. z # <<>> /\ scall[s].pc = "running" /\ s = z[Len(z)]
    BY <1>3, <1>7, TopFacts
  <1>9. PICK w : w = Pop(z)
    OBVIOUS
  <1>10. /\ w \in Seq(Frame \cup ACall \cup Spawn) /\ Len(w) = Len(z) - 1 /\ Len(z) \in Nat
         /\ \A j \in 1..(Len(z) - 1) : w[j] = z[j]
    BY <1>8, <1>9, PopFacts
  <1>11. stack'[t] = w /\ \A u \in Thread \ {t} : stack'[u] = stack[u]
    BY <1>7, <1>9 DEF FunctionReturns, Inv, TypeOK
  <1>12. Top(t)' \notin Frame
    <2>1. CASE w = <<>>
      BY <1>11, <2>1, ConstantsAssumption DEF Top, Frame
    <2>2. CASE w # <<>>
      <3>1. Len(w) \in 1..(Len(z) - 1) /\ Len(w) + 1 = Len(z)
        BY <1>10, <2>2
      <3>2. z[Len(w)] \notin Frame
        BY <1>7, <1>8, <3>1 DEF Inv, StackInv
      <3>3. Top(t)' = z[Len(w)]
        BY <1>10, <1>11, <2>2, <3>1 DEF Top
      <3> QED  BY <3>2, <3>3
    <2> QED  BY <2>1, <2>2
  <1>13. \A u \in Thread : Top(u)' \in Frame => Top(u)' = Below(k + 1, p)
    <2>1. \A u \in Thread \ {t} : Top(u)' = Top(u)
      BY <1>11 DEF Top
    <2> QED  BY <1>1, <1>12, <2>1 DEF Path, PathFrames
  <1>14. ASSUME NEW u \in Thread, NEW j \in 2..Len(stack'[u]), stack'[u][j] \in Task
         PROVE  /\ j \in 2..Len(stack[u])
                /\ stack'[u][j] = stack[u][j] /\ stack'[u][j - 1] = stack[u][j - 1]
    <2>1. CASE u = t
      <3>1. j \in 2..Len(w)
        BY <1>11, <1>14, <2>1
      <3>2. j \in 2..Len(z) /\ j \in 1..(Len(z) - 1) /\ j - 1 \in 1..(Len(z) - 1)
        BY <1>10, <3>1
      <3> QED  BY <1>7, <1>10, <1>11, <2>1, <3>2
    <2>2. CASE u # t
      BY <1>11, <1>14, <2>2
    <2> QED  BY <2>1, <2>2
  <1>15. \A f \in Frame : scall[f].pc = "running" =>
            scall'[f].pc = "running" \/ f = Below(k + 1, p)
    BY <1>4, <1>6
  <1>16. \A x \in SCall : scall'[x].pc \in {"queued", "running"} =>
            scall[x].pc \in {"queued", "running"}
    BY <1>0, <1>4
  <1>17. \A f \in Frame : /\ scall'[f].by = scall[f].by
                          /\ scall'[f].got # "cancelled" /\ scall'[f].fut # "cancelled"
    BY <1>2, <1>4, <1>5 DEF Uncancelled
  <1>18. scall[Root].pc = "none" => scall'[Root].pc = "none"
    BY <1>0, <1>4, <1>8
  <1> QED  BY <1>1, <1>2, <1>3, <1>13, <1>14, <1>15, <1>16, <1>17, <1>18, FunctionGoes


LEMMA SubmittedGoes ==
    ASSUME Inv, SoloInv, NEW n \in Task, NEW s \in SCall, NEW w, NEW c,
           task[n].pc = "run", scall[s].pc = "none", Submitted(n, s, w, c)
    PROVE  SoloGoes
  <1>0. s \in Frame /\ s # Root /\ SCall \subseteq Frame /\ Root \in Frame
    BY ConstantsAssumption DEF Frame
  <1>1. PICK k, p : Path(k, p)
    BY DEF SoloInv
  <1>2. Uncancelled
    BY DEF SoloInv
  <1>3. UNCHANGED <<acall, stack, loop>>
    BY DEF Submitted
  <1>4. /\ task'[n].pc = "await" /\ task'[n].on = s /\ task'[n].loop = task[n].loop
        /\ task'[n].cancel = task[n].cancel /\ task'[n].got = task[n].got
        /\ \A x \in Task \ {n} : task'[x] = task[x]
    <2>1. task \in [Task -> TaskType]
      BY DEF Inv, TypeOK
    <2> QED  BY <2>1 DEF Submitted, TaskType
  <1>5. /\ scall'[s].pc = "queued" /\ scall'[s].by = n /\ scall'[s].fut = "pending"
        /\ scall'[s].got = "ok"
        /\ \A f \in Frame \ {s} : scall'[f] = scall[f]
    <2>1. scall \in [Frame -> SCallType]
      BY DEF Inv, TypeOK
    <2> QED  BY <1>0, <2>1 DEF Submitted, NoSCall
  <1>6. Open(n) /\ Open(n)' /\ ~Deep(n)
    BY <1>4 DEF Open, Deep
  <1>7. k >= 1 /\ n = p[k] /\ k \in Nat
    BY <1>1, <1>6, IsLast, PathFacts
  <1>8. OnlyLast(k, p)
    BY <1>4, <1>7 DEF OnlyLast
  <1>9. \A m \in Task : Open(m)' <=> Open(m)
    BY <1>3, <1>4, <1>6 DEF Open
  <1>10. PathTasks(k, p)'
    <2>1. \A i \in 1..k : i < k => scall'[task[p[i]].on].pc = "running"
      BY <1>0, <1>1, <1>5, LastFunction
    <2>2. \A a \in ACall : acall'[a].pc = "returned" => task'[a].pc = "done"
      BY <1>1, <1>3, <1>4 DEF Path, PathTasks, Task
    <2> QED  BY <1>1, <1>8, <1>9, <2>1, <2>2, TasksKept
  <1>11. PathLoops(k, p)'
    <2>1. \E j \in 1..k : task'[p[k]].loop = p[j]
      <3>1. k \in 1..k
        BY <1>7
      <3> QED  BY <1>1, <1>4, <1>7, <3>1 DEF Path, PathLoops
    <2>2. \A l \in Loop : Alive(l)' => Alive(l)
      BY <1>3 DEF Alive
    <2>3. \A a \in ACall : acall'[a].mode # "new" => loop'[a] = "off"
      BY <1>1, <1>3 DEF Path, PathLoops
    <2>4. task[Root].pc = "done" => task'[Root].pc = "done"
      BY <1>4 DEF Task
    <2>5. task'[p[k]].pc # "none"
      BY <1>4, <1>7
    <2> QED  BY <1>1, <1>3, <1>8, <1>9, <2>1, <2>2, <2>3, <2>4, <2>5, LoopsKept
  <1>12. PathFrames(k, p)'
    <2>1. ASSUME NEW x \in SCall, scall'[x].pc \in {"queued", "running"}
          PROVE  task'[scall'[x].by].on = x
      <3>1. CASE x = s
        BY <1>4, <1>5, <3>1
      <3>2. CASE x # s
        <4>1. scall'[x] = scall[x] /\ scall[x].pc \in {"queued", "running"}
          BY <1>0, <1>5, <2>1, <3>2
        <4>2. task[scall[x].by].on = x /\ scall[x].by \in Task
          BY <1>1, <4>1, CallerFacts DEF Path, PathFrames
        <4>3. task[n].on = None
          BY DEF Inv, AwaitInv
        <4>4. scall[x].by # n
          BY <4>2, <4>3, ConstantsAssumption
        <4> QED  BY <1>4, <4>1, <4>2, <4>4
      <3> QED  BY <3>1, <3>2
    <2>2. \A t \in Thread : Top(t)' = Top(t) /\ Top(t) \notin Frame
      BY <1>1, <1>2, <1>3, <1>6, NoFrameOnTop DEF Top
    <2>3. scall[Root].pc = "none" => scall'[Root].pc = "none"
      BY <1>0, <1>5
    <2> QED  BY <1>1, <1>3, <1>8, <1>9, <2>1, <2>2, <2>3, FramesKept
  <1>13. Path(k, p)'
    BY <1>1, <1>10, <1>11, <1>12 DEF Path
  <1>14. Uncancelled'
    BY <1>2, <1>3, <1>4, <1>5 DEF Uncancelled
  <1>15. Waits
    BY <1>0, <1>4, ConstantsAssumption DEF Waits
  <1> QED  BY <1>13, <1>14, <1>15, GoesOn

LEMMA SyncToAsyncGoes ==
    ASSUME Inv, SoloInv, NEW n \in Task, NEW s \in SCall,
           CallOnParent(n, s) \/ CallOnWorker(n, s) \/ CallInPool(n, s)
    PROVE  SoloGoes
  <1>1. task[n].pc = "run" /\ scall[s].pc = "none" /\ \E w, c : Submitted(n, s, w, c)
    BY DEF CallOnParent, CallOnWorker, CallInPool, RunsCode
  <1> QED  BY <1>1, SubmittedGoes

-----------------------------------------------------------------------------
(* Loops. *)

LEMMA LoopGoes ==
    ASSUME Inv, SoloInv, UNCHANGED <<task, scall, acall, stack>>,
           \A l \in Loop : (Alive(l)' => Alive(l)) /\ (loop[l] = "off" => loop'[l] = "off")
    PROVE  SoloGoes
  <1>1. PICK k, p : Path(k, p)
    BY DEF SoloInv
  <1>2. PathTasks(k, p)'
    BY <1>1 DEF Path, PathTasks, Open, Deep
  <1>3. PathFrames(k, p)'
    BY <1>1 DEF Path, PathFrames, Top, Below
  <1>4. \A n : Open(n)' <=> Open(n)
    BY DEF Open
  <1>5. PathLoops(k, p)'
    BY <1>1, <1>4 DEF Path, PathLoops, Loop
  <1>6. Uncancelled'
    BY DEF SoloInv, Uncancelled
  <1>7. Path(k, p)'
    BY <1>1, <1>2, <1>3, <1>5 DEF Path
  <1>8. Waits
    BY DEF Waits
  <1> QED  BY <1>6, <1>7, <1>8, GoesOn

\* When the main task of a loop has ended there is no other on the loop to be cancelled.
LEMMA NobodyToCancel ==
    ASSUME Inv, SoloInv, NEW l \in Loop, task[l].pc = "done", NEW n \in Task, task[n].loop = l
    PROVE  task[n].pc = "done"
  <1>1. PICK k, p : Path(k, p)
    BY DEF SoloInv
  <1>2. task[n].pc # "none"
    BY <1>1, ConstantsAssumption DEF Path, PathLoops, Loop
  <1> SUFFICES ASSUME task[n].pc # "done"  PROVE FALSE
    OBVIOUS
  <1>3. Open(n)
    BY <1>2 DEF Open
  <1>4. PICK i \in 1..k : p[i] = n
    BY <1>1, <1>3 DEF Path, PathTasks
  <1>5. PICK j \in 1..i : p[j] = l
    BY <1>1, <1>2, <1>4 DEF Path, PathLoops
  <1>6. k \in Nat /\ j \in 1..k
    BY <1>1, <1>4, <1>5, PathFacts
  <1>7. j = k
    BY <1>1, <1>5, <1>6, PathFacts DEF Deep
  <1>8. i = k
    BY <1>4, <1>5, <1>6, <1>7
  <1> QED  BY <1>4, <1>5, <1>7, <1>8

LEMMA LoopStepGoes ==
    ASSUME Inv, SoloInv, NEW l \in Loop, LoopStep(l)
    PROVE  SoloGoes
  <1>1. loop \in [Loop -> {"off", "run", "gap", "closing", "stopped", "closed"}]
    BY DEF Inv, TypeOK
  <1>2. CASE BeginClose(l)
    <2>1. task' = task
      <3>1. \A n \in Task : task[n].loop # l \/ task[n].pc = "done"
        BY <1>2, NobodyToCancel DEF BeginClose
      <3>2. task \in [Task -> TaskType]
        BY DEF Inv, TypeOK
      <3>3. task' = [n \in Task |-> task[n]]
        BY <1>2, <3>1 DEF BeginClose
      <3> QED  BY <3>2, <3>3
    <2> QED  BY <1>1, <1>2, <2>1, LoopGoes DEF BeginClose, Alive
  <1>3. CASE EndClose(l)
    BY <1>1, <1>3, LoopGoes DEF EndClose, Alive
  <1>4. CASE Close(l)
    BY <1>1, <1>4, LoopGoes DEF Close, Alive
  <1>5. CASE ResumeClose(l)
    BY <1>1, <1>5, LoopGoes DEF ResumeClose, Alive
  <1> QED  BY <1>2, <1>3, <1>4, <1>5 DEF LoopStep


-----------------------------------------------------------------------------
(* The path grows and shrinks. *)

\* What is not cancelled when a call is made, and the loop it is posted to.
LEMMA CallFresh ==
    ASSUME Inv, NEW t \in Thread, NEW a \in ACall, NEW force \in BOOLEAN,
           AsyncToSyncCall(t, a, force)
    PROVE  /\ \A g \in Frame : /\ scall'[g].pc = scall[g].pc /\ scall'[g].by = scall[g].by
                               /\ scall'[g].got = scall[g].got /\ scall'[g].fut = scall[g].fut
           /\ acall'[a].res = "none"
           /\ acall'[a].pc = "posting" => IsRunning(acall'[a].lp) /\ acall'[a].lp \in Loop
           /\ MadeFresh(a) \/ task' = task
           /\ stack' = [stack EXCEPT ![t] = Append(@, a)]
  <1>0. a \in Task
    BY DEF Task
  <1>1. \A g \in Frame : /\ scall'[g].pc = scall[g].pc /\ scall'[g].by = scall[g].by
                         /\ scall'[g].got = scall[g].got /\ scall'[g].fut = scall[g].fut
    <2>1. scall \in [Frame -> SCallType] /\ Top(t) \in Frame
      BY DEF Inv, TypeOK, AsyncToSyncCall
    <2>2. PICK f \in Frame : f = Top(t)
      BY <2>1
    <2>3. scall' = [scall EXCEPT ![f].ctx.cur = a]
      BY <2>2 DEF AsyncToSyncCall
    <2> QED  BY <2>1, <2>3 DEF SCallType
  <1>2. PICK u : u = [NoACall EXCEPT !.thr = t, !.old = scall[Top(t)].ctx.cur, !.tc = tlocal[t].tc,
                                     !.cell = [scall[Top(t)].ctx EXCEPT !.cur = a]]
    OBVIOUS
  <1>3. u \in ACallType /\ u.res = "none" /\ u.pc = "none"
    <2>1. PICK r \in SCallType : r = scall[Top(t)]
      BY DEF Inv, TypeOK, AsyncToSyncCall
    <2>2. r.ctx \in Ctx /\ r.ctx.cur \in ACall \cup {None}
      BY DEF SCallType, Ctx
    <2>3. PICK c \in Ctx : c = [r.ctx EXCEPT !.cur = a]
      BY <2>2, CtxFacts, Zenon
    <2>4. tlocal[t].tc \in SCall \cup {None}
      BY DEF Inv, TypeOK
    <2>5. u = [NoACall EXCEPT !.thr = t, !.old = r.ctx.cur, !.tc = tlocal[t].tc, !.cell = c]
      BY <1>2, <2>1, <2>3, Zenon
    <2>6. NoACall \in ACallType /\ NoACall.res = "none" /\ NoACall.pc = "none"
      BY RecordTypes DEF NoACall
    <2> QED  BY <2>2, <2>4, <2>5, <2>6 DEF ACallType
  <1>4. PICK parent \in Loop \cup {None} : parent = IF force THEN None ELSE tlocal[t].loop
    BY DEF Inv, TypeOK
  <1>5. /\ \/ /\ parent # None /\ IsRunning(parent)
              /\ acall' = [acall EXCEPT ![a] = [u EXCEPT !.pc = "posting", !.lp = parent]]
              /\ UNCHANGED <<task, loop>>
           \/ OnNewLoop(a, u)
        /\ stack' = [stack EXCEPT ![t] = Append(@, a)]
    BY <1>2, <1>4 DEF AsyncToSyncCall
  <1>6. CASE /\ parent # None /\ IsRunning(parent)
             /\ acall' = [acall EXCEPT ![a] = [u EXCEPT !.pc = "posting", !.lp = parent]]
             /\ UNCHANGED <<task, loop>>
    <2>1. PICK v : v = [u EXCEPT !.pc = "posting", !.lp = parent]
      OBVIOUS
    <2>2. acall'[a] = v
      BY <1>6, <2>1 DEF Inv, TypeOK
    <2>3. v.res = "none" /\ v.lp = parent
      BY <1>3, <2>1 DEF ACallType
    <2> QED  BY <1>1, <1>4, <1>5, <1>6, <2>2, <2>3
  <1>7. CASE OnNewLoop(a, u)
    <2>2. MadeFresh(a) /\ acall'[a].res = "none"
      BY <1>3, <1>7, NewLoopFresh
    <2>3. acall'[a].pc = "parked"
      <3>1. PICK v : v = [u EXCEPT !.pc = "parked", !.mode = "new", !.lp = a]
        OBVIOUS
      <3>2. acall' = [acall EXCEPT ![a] = v]
        BY <1>7, <3>1 DEF OnNewLoop
      <3>3. acall'[a] = v
        BY <3>2 DEF Inv, TypeOK
      <3> QED  BY <1>3, <3>1, <3>3 DEF ACallType
    <2> QED  BY <1>1, <1>5, <2>2, <2>3
  <1> QED  BY <1>5, <1>6, <1>7


LEMMA PathGrows ==
    ASSUME Inv, SoloInv, NEW t \in Thread, NEW a \in ACall, NEW force \in BOOLEAN,
           AsyncToSyncCall(t, a, force)
    PROVE  SoloGoes
  <1>0. a \in Task /\ ACall \subseteq Task /\ a \notin Frame /\ Root \in Frame /\ a # Root
        /\ Root \in Task /\ SCall \subseteq Frame
    BY ConstantsAssumption DEF Task, Frame
  <1>1. PICK k, p : Path(k, p)
    BY DEF SoloInv
  <1>2. Uncancelled
    BY DEF SoloInv
  <1>3. PICK f \in Frame : f = Top(t) /\ scall[f].pc = "running"
    BY AsyncToSyncCallEffect
  <1>4. /\ \A x \in ACall \ {a} : acall'[x] = acall[x]
        /\ acall[a].pc = "none"
        /\ \/ LoopMade(a)
           \/ acall'[a].pc = "posting" /\ acall'[a].mode = "none" /\ UNCHANGED <<task, loop>>
    BY AsyncToSyncCallEffect
  <1>5. /\ \A g \in Frame : /\ scall'[g].pc = scall[g].pc /\ scall'[g].by = scall[g].by
                            /\ scall'[g].got = scall[g].got /\ scall'[g].fut = scall[g].fut
        /\ acall'[a].res = "none"
        /\ acall'[a].pc = "posting" => IsRunning(acall'[a].lp) /\ acall'[a].lp \in Loop
        /\ MadeFresh(a) \/ task' = task
        /\ stack' = [stack EXCEPT ![t] = Append(@, a)]
    BY CallFresh
  <1>6. task[a].pc = "none" /\ acall'[a].pc \in {"posting", "parked"}
        /\ \A x \in Task \ {a} : task'[x] = task[x]
    BY <1>4 DEF Inv, CallInv, CallOf, LoopMade, TaskMade
  <1>7. ~Open(a) /\ Open(a)' /\ \A n \in Task \ {a} : Open(n)' <=> Open(n)
    BY <1>0, <1>4, <1>6 DEF Open
  <1>8. k \in Nat /\ p \in [Nat -> Task] /\ f = Below(k + 1, p)
    BY <1>1, <1>3 DEF Path, PathFrames
  <1>9. PICK q : q = [p EXCEPT ![k + 1] = a]
    OBVIOUS
  <1>10. /\ q \in [Nat -> Task] /\ k + 1 \in Nat /\ q[k + 1] = a
         /\ \A i \in 1..k : q[i] = p[i]
    BY <1>0, <1>8, <1>9
  <1>11. \A i \in 1..k : p[i] \in Task /\ p[i] # a /\ Open(p[i])
    BY <1>1, <1>7, PathFacts
  <1>12. \A i \in 1..(k + 1) : i = k + 1 \/ i \in 1..k
    BY <1>8
  <1>13. \A i \in 1..k : Deep(p[i])
    <2>1. ASSUME NEW i \in 1..k  PROVE Deep(p[i])
      <3>1. CASE i # k
        BY <1>1, <3>1, PathFacts
      <3>2. CASE i = k
        <4>1. k + 1 # 1 /\ (k + 1) - 1 = k
          BY <1>8, <3>2
        <4>2. task[p[k]].on = f
          BY <1>8, <4>1 DEF Below
        <4>3. task[p[k]].on # None /\ p[k] \in Task
          BY <1>11, <3>2, <4>2, ConstantsAssumption DEF Frame
        <4>4. task[p[k]].pc = "await"
          BY <1>2, <4>3 DEF Inv, AwaitInv, Uncancelled
        <4> QED  BY <1>3, <3>2, <4>2, <4>4 DEF Deep
      <3> QED  BY <3>1, <3>2
    <2> QED  BY <2>1
  <1>14. \A i \in 1..k : task'[p[i]] = task[p[i]]
    BY <1>6, <1>11
  <1>15. PathTasks(k + 1, q)'
    <2>1. ASSUME NEW n \in Task  PROVE Open(n)' <=> \E i \in 1..(k + 1) : q[i] = n
      <3>1. Open(n) <=> \E i \in 1..k : p[i] = n
        BY <1>1 DEF Path, PathTasks
      <3>2. k + 1 \in 1..(k + 1) /\ \A i \in 1..k : i \in 1..(k + 1)
        BY <1>8
      <3> QED  BY <1>7, <1>10, <1>12, <3>1, <3>2
    <2>2. ASSUME NEW i \in 1..(k + 1), NEW j \in 1..(k + 1), q[i] = q[j]  PROVE i = j
      BY <1>1, <1>10, <1>11, <1>12, <2>2 DEF Path, PathTasks
    <2>3. ASSUME NEW i \in 1..((k + 1) - 1)  PROVE Deep(q[i])'
      <3>1. i \in 1..k
        BY <1>8
      <3>2. Deep(p[i]) /\ task'[p[i]] = task[p[i]] /\ q[i] = p[i] /\ p[i] \in Task
        BY <1>10, <1>11, <1>13, <1>14, <3>1
      <3>3. task[p[i]].on \in SCall
        BY <3>2, AwaitFacts DEF Deep, Waiting
      <3> QED  BY <1>0, <1>5, <3>2, <3>3 DEF Deep
    <2>4. ASSUME NEW i \in 2..(k + 1)  PROVE q[i] \in ACall
      <3>1. i = k + 1 \/ (i \in 2..k /\ i \in 1..k)
        BY <1>8
      <3> QED  BY <1>1, <1>10, <3>1 DEF Path, PathTasks
    <2>5. \A x \in ACall : acall'[x].pc = "returned" => task'[x].pc = "done"
      BY <1>0, <1>1, <1>4, <1>6 DEF Path, PathTasks
    <2> QED  BY <2>1, <2>2, <2>3, <2>4, <2>5 DEF PathTasks
  <1>16. task[Root].pc # "done"
    <2>1. CASE k = 0
      BY <1>1, <1>3, <1>8, <2>1 DEF Path, PathFrames, Below
    <2>2. CASE k # 0
      BY <1>1, <2>2 DEF Path, PathFrames
    <2> QED  BY <2>1, <2>2
  <1>17. PathLoops(k + 1, q)'
    <2>0. k + 1 \in 1..(k + 1)
      BY <1>8
    <2>1. ASSUME NEW i \in 1..(k + 1), task'[q[i]].pc # "none"
          PROVE  \E j \in 1..i : task'[q[i]].loop = q[j]
      <3>1. CASE i = k + 1
        <4>1. task'[a].loop = a
          BY <1>4, <1>6, <1>10, <2>1, <3>1 DEF LoopMade, TaskMade
        <4> QED  BY <1>10, <2>0, <3>1, <4>1
      <3>2. CASE i \in 1..k
        <4>1. PICK j \in 1..i : task[p[i]].loop = p[j]
          BY <1>1, <1>10, <1>14, <2>1, <3>2 DEF Path, PathLoops
        <4>2. j \in 1..k
          BY <1>8, <3>2
        <4> QED  BY <1>10, <1>14, <3>2, <4>1, <4>2
      <3> QED  BY <1>12, <3>1, <3>2
    <2>2. ASSUME NEW i \in 1..(k + 1), q[i] \in ACall, acall'[q[i]].pc = "posting"
          PROVE  \E j \in 1..i : acall'[q[i]].lp = q[j]
      <3>1. CASE i = k + 1
        <4>1. Alive(acall'[a].lp) /\ acall'[a].lp \in Loop /\ acall'[a].lp \in Task
          BY <1>5, <1>10, <2>2, <3>1 DEF Loop, Task, Alive, IsRunning
        <4>2. Open(acall'[a].lp)
          BY <1>1, <1>16, <4>1 DEF Path, PathLoops
        <4>3. PICK j \in 1..k : p[j] = acall'[a].lp
          BY <1>1, <4>1, <4>2 DEF Path, PathTasks
        <4>4. j \in 1..i
          BY <1>8, <3>1
        <4> QED  BY <1>10, <3>1, <4>3, <4>4
      <3>2. CASE i \in 1..k
        <4>1. acall'[p[i]] = acall[p[i]] /\ q[i] = p[i] /\ p[i] \in ACall
          BY <1>4, <1>10, <1>11, <2>2, <3>2
        <4>2. PICK j \in 1..i : acall[p[i]].lp = p[j]
          BY <1>1, <2>2, <3>2, <4>1 DEF Path, PathLoops
        <4>3. j \in 1..k
          BY <1>8, <3>2
        <4> QED  BY <1>10, <4>1, <4>2, <4>3
      <3> QED  BY <1>12, <3>1, <3>2
    <2>3. \A l \in Loop : Alive(l)' => Open(l)' \/ task'[Root].pc = "done"
      <3>1. \A l \in Loop \ {a} : Alive(l)' => Alive(l)
        BY <1>4 DEF Alive, LoopMade
      <3>2. \A l \in Loop : l \in Task
        BY DEF Loop, Task
      <3> QED  BY <1>0, <1>1, <1>6, <1>7, <3>1, <3>2 DEF Path, PathLoops
    <2>4. \A x \in ACall : acall'[x].mode # "new" => loop'[x] = "off"
      <3>1. acall[a].mode = "none"
        BY <1>4 DEF Inv, CallInv, CallOf
      <3>2. \A x \in ACall : acall[x].mode # "new" => loop[x] = "off"
        BY <1>1 DEF Path, PathLoops
      <3> QED  BY <1>4, <3>1, <3>2 DEF LoopMade, Loop
    <2>5. \A n \in Task : task'[n].pc = "none" => task'[n].loop = None
      BY <1>1, <1>4, <1>6 DEF Path, PathLoops, LoopMade, TaskMade
    <2> QED  BY <2>1, <2>2, <2>3, <2>4, <2>5 DEF PathLoops
  <1>18. PICK z \in Seq(Frame \cup ACall \cup Spawn) : z = stack[t]
    BY DEF Inv, TypeOK
  <1>19. PICK w : w = Append(z, a)
    OBVIOUS
  <1>20. /\ w \in Seq(Frame \cup ACall \cup Spawn) /\ Len(w) = Len(z) + 1 /\ Len(z) \in Nat
         /\ w[Len(z) + 1] = a /\ \A j \in 1..Len(z) : w[j] = z[j]
    BY <1>19, AppendFacts
  <1>21. stack'[t] = w /\ \A u \in Thread \ {t} : stack'[u] = stack[u]
    BY <1>5, <1>18, <1>19 DEF Inv, TypeOK
  <1>22. Len(z) \in 1..Len(z) /\ z[Len(z)] = f
    BY <1>3, <1>18, TopFacts
  <1>23. \A i \in 1..(k + 1) : Below(i, q)' = Below(i, p)
    <2>1. ASSUME NEW i \in 1..(k + 1)  PROVE Below(i, q)' = Below(i, p)
      <3>1. i = 1 \/ i - 1 \in 1..k
        BY <1>8
      <3> QED  BY <1>10, <1>14, <3>1 DEF Below
    <2> QED  BY <2>1
  <1>24. PathFrames(k + 1, q)'
    <2>1. ASSUME NEW s \in SCall, scall'[s].pc \in {"queued", "running"}
          PROVE  task'[scall'[s].by].on = s
      <3>1. scall[s].pc \in {"queued", "running"} /\ scall'[s].by = scall[s].by
        BY <1>0, <1>5, <2>1
      <3>2. task[scall[s].by].on = s /\ scall[s].by \in Task /\ task[scall[s].by].pc # "none"
        BY <1>1, <3>1, CallerFacts DEF Path, PathFrames
      <3> QED  BY <1>6, <3>1, <3>2
    <2>2. ASSUME NEW u \in Thread, Top(u)' \in Frame
          PROVE  FALSE
      <3>1. CASE u = t
        <4>1. Top(t)' = a
          <5>1. w # <<>>
            BY <1>20
          <5> QED  BY <1>20, <1>21, <5>1 DEF Top
        <4> QED  BY <1>0, <2>2, <3>1, <4>1
      <3>2. CASE u # t
        <4>1. Top(u) \in Frame
          BY <1>21, <2>2, <3>2 DEF Top
        <4>2. Top(u) = f
          BY <1>1, <1>8, <4>1 DEF Path, PathFrames
        <4>3. scall[f].thr = t /\ scall[f].thr = u
          BY <1>3, <4>1, <4>2, TopFacts
        <4> QED  BY <3>2, <4>3
      <3> QED  BY <3>1, <3>2
    <2>3. ASSUME NEW u \in Thread, NEW j \in 2..Len(stack'[u]), NEW i \in 1..(k + 1),
                 stack'[u][j] = q[i]
          PROVE  stack'[u][j - 1] = Below(i, q)'
      <3>1. CASE u = t /\ j = Len(z) + 1
        <4>1. q[i] = a /\ j - 1 = Len(z)
          BY <1>20, <1>21, <2>3, <3>1
        <4>2. i = k + 1
          BY <1>10, <1>11, <1>12, <4>1
        <4>3. stack'[u][j - 1] = f
          BY <1>20, <1>21, <1>22, <3>1, <4>1
        <4>4. Below(k + 1, q)' = Below(k + 1, p)
          BY <1>23, <4>2
        <4> QED  BY <1>8, <4>2, <4>3, <4>4
      <3>2. CASE ~(u = t /\ j = Len(z) + 1)
        <4>1. /\ j \in 2..Len(stack[u]) /\ stack'[u][j] = stack[u][j]
              /\ stack'[u][j - 1] = stack[u][j - 1]
          <5>1. CASE u = t
            <6>1. j \in 2..Len(z) /\ j \in 1..Len(z) /\ j - 1 \in 1..Len(z)
              BY <1>20, <1>21, <2>3, <3>2, <5>1
            <6> QED  BY <1>18, <1>20, <1>21, <5>1, <6>1
          <5>2. CASE u # t
            BY <1>21, <2>3, <5>2
          <5> QED  BY <5>1, <5>2
        <4>2. j \in 1..Len(stack[u])
          BY <4>1 DEF Inv, TypeOK
        <4>3. stack[u][j] # a
          BY <1>4, <4>2 DEF Inv, StackInv
        <4>4. i \in 1..k /\ q[i] = p[i]
          BY <1>10, <1>12, <2>3, <4>1, <4>3
        <4>5. stack[u][j - 1] = Below(i, p)
          BY <1>1, <2>3, <4>1, <4>4, ZenonT(30) DEF Path, PathFrames
        <4> QED  BY <1>23, <4>1, <4>5
      <3> QED  BY <3>1, <3>2
    <2>4. task'[Root].pc # "done" /\ (task'[Root].pc # "none" => scall'[Root].pc = "none")
      BY <1>0, <1>1, <1>5, <1>6, <1>16 DEF Path, PathFrames
    <2> QED  BY <2>1, <2>2, <2>3, <2>4 DEF PathFrames
  <1>25. Path(k + 1, q)'
    BY <1>10, <1>15, <1>17, <1>24 DEF Path
  <1>26. Uncancelled'
    BY <1>2, <1>4, <1>5, <1>6 DEF Uncancelled, MadeFresh
  <1>27. Waits
    <2>1. task[a].on = None
      BY <1>0, <1>6 DEF Inv, AwaitInv
    <2> QED  BY <1>6, <2>1 DEF Waits
  <1> QED  BY <1>25, <1>26, <1>27, GoesOn


LEMMA PathShrinks ==
    ASSUME Inv, SoloInv, NEW t \in Thread, NEW a \in ACall, AsyncToSyncReturns(t, a)
    PROVE  SoloGoes
  <1>0. a \in Task /\ ACall \subseteq Task /\ a \notin Frame /\ Root \in Frame /\ a # Root
        /\ Root \in Task /\ SCall \subseteq Frame /\ ACall \subseteq Loop
    BY ConstantsAssumption DEF Task, Frame, Loop
  <1>1. PICK k, p : Path(k, p)
    BY DEF SoloInv
  <1>2. Uncancelled
    BY DEF SoloInv
  <1>3. Top(t) = a /\ acall[a].pc = "parked" /\ Broken(a) /\ UNCHANGED <<task, tlocal, loop>>
    BY DEF AsyncToSyncReturns
  <1>4. PICK z \in Seq(Frame \cup ACall \cup Spawn) : z = stack[t]
    BY DEF Inv, TypeOK
  <1>5. /\ z # <<>> /\ Len(z) \in 1..Len(z) /\ z[Len(z)] = a
        /\ Len(z) - 1 \in 1..Len(z) /\ z[Len(z) - 1] \in Frame
    BY <1>0, <1>3, <1>4, TopFacts
  <1>6. PICK f \in Frame : f = z[Len(z) - 1]
    BY <1>5
  <1>7. /\ \A g \in Frame : /\ scall'[g].pc = scall[g].pc /\ scall'[g].by = scall[g].by
                            /\ scall'[g].fut = scall[g].fut
                            /\ scall'[g].got \in {scall[g].got, acall[a].res}
    <2>1. scall \in [Frame -> SCallType]
      BY DEF Inv, TypeOK
    <2>2. scall' = [scall EXCEPT ![f].ctx = [acall[a].cell EXCEPT !.cur = acall[a].old],
                                 ![f].got = acall[a].res]
      BY <1>4, <1>6 DEF AsyncToSyncReturns
    <2>3. PICK c : c = [acall[a].cell EXCEPT !.cur = acall[a].old]
      OBVIOUS
    <2>4. scall' = [scall EXCEPT ![f].ctx = c, ![f].got = acall[a].res]
      BY <2>2, <2>3, Zenon
    <2> QED  BY <2>1, <2>4 DEF SCallType
  <1>8. /\ acall'[a].pc = "returned" /\ acall'[a].mode = acall[a].mode /\ acall'[a].res = acall[a].res
        /\ \A x \in ACall \ {a} : acall'[x] = acall[x]
    <2>1. acall \in [ACall -> ACallType]
      BY DEF Inv, TypeOK
    <2> QED  BY <2>1 DEF AsyncToSyncReturns, ACallType
  <1>9. task[a].pc = "done"
    BY <1>3, BrokenHasResult
  <1>10. Open(a) /\ ~Deep(a) /\ ~Open(a)' /\ \A n \in Task \ {a} : Open(n)' <=> Open(n)
    BY <1>3, <1>8, <1>9 DEF Open, Deep
  <1>11. k >= 1 /\ a = p[k] /\ k \in Nat /\ p \in [Nat -> Task]
    BY <1>0, <1>1, <1>10, IsLast DEF Path
  <1>12. /\ k - 1 \in Nat /\ (k - 1) + 1 = k /\ k \in 1..k
         /\ \A i \in 1..(k - 1) : i \in 1..k /\ i < k
         /\ \A i \in 1..k : i # k => i \in 1..(k - 1)
    BY <1>11
  <1>13. PathTasks(k - 1, p)'
    <2>1. ASSUME NEW n \in Task  PROVE Open(n)' <=> \E i \in 1..(k - 1) : p[i] = n
      <3>1. Open(n) <=> \E i \in 1..k : p[i] = n
        BY <1>1 DEF Path, PathTasks
      <3>2. CASE n = a
        <4>1. \A i \in 1..(k - 1) : p[i] # a
          BY <1>1, <1>11, <1>12, PathFacts
        <4> QED  BY <1>10, <3>2, <4>1
      <3>3. CASE n # a
        BY <1>10, <1>11, <1>12, <3>1, <3>3
      <3> QED  BY <3>2, <3>3
    <2>2. ASSUME NEW i \in 1..(k - 1)  PROVE Deep(p[i])'
      <3>1. Deep(p[i]) /\ p[i] \in Task
        BY <1>1, <1>12, PathFacts
      <3>2. task[p[i]].on \in SCall
        BY <3>1, AwaitFacts DEF Deep, Waiting
      <3> QED  BY <1>0, <1>3, <1>7, <3>1, <3>2 DEF Deep
    <2>3. \A x \in ACall : acall'[x].pc = "returned" => task'[x].pc = "done"
      BY <1>1, <1>3, <1>8, <1>9 DEF Path, PathTasks
    <2>4. \A i, j \in 1..(k - 1) : p[i] = p[j] => i = j
      BY <1>1, <1>12 DEF Path, PathTasks
    <2>5. \A i \in 2..(k - 1) : p[i] \in ACall
      <3>1. \A i \in 2..(k - 1) : i \in 2..k
        BY <1>11
      <3> QED  BY <1>1, <3>1 DEF Path, PathTasks
    <2>6. \A i \in 1..((k - 1) - 1) : i \in 1..(k - 1)
      BY <1>11
    <2> QED  BY <2>1, <2>2, <2>3, <2>4, <2>5, <2>6 DEF PathTasks
  <1>14. ~Alive(a)
    <2>1. acall[a].mode = "new" => loop[a] = "closed"
      BY <1>3 DEF Broken
    <2>2. acall[a].mode # "new" => loop[a] = "off"
      BY <1>1 DEF Path, PathLoops
    <2> QED  BY <2>1, <2>2 DEF Alive
  <1>15. PathLoops(k - 1, p)'
    <2>1. \A i \in 1..(k - 1) : task'[p[i]].pc # "none" => \E j \in 1..i : task'[p[i]].loop = p[j]
      BY <1>1, <1>3, <1>12 DEF Path, PathLoops
    <2>2. \A i \in 1..(k - 1) : p[i] \in ACall /\ acall'[p[i]].pc = "posting" =>
             \E j \in 1..i : acall'[p[i]].lp = p[j]
      <3>1. \A i \in 1..(k - 1) : p[i] # a
        BY <1>1, <1>11, <1>12, PathFacts
      <3> QED  BY <1>1, <1>8, <1>12, <3>1 DEF Path, PathLoops
    <2>3. \A l \in Loop : Alive(l)' => Open(l)' \/ task'[Root].pc = "done"
      <3>1. \A l \in Loop : Alive(l)' => Alive(l) /\ l # a /\ l \in Task
        BY <1>3, <1>14 DEF Alive, Loop, Task
      <3> QED  BY <1>1, <1>3, <1>10, <3>1 DEF Path, PathLoops
    <2>4. \A x \in ACall : acall'[x].mode # "new" => loop'[x] = "off"
      BY <1>1, <1>3, <1>8 DEF Path, PathLoops
    <2>5. \A n \in Task : task'[n].pc = "none" => task'[n].loop = None
      BY <1>1, <1>3 DEF Path, PathLoops
    <2> QED  BY <2>1, <2>2, <2>3, <2>4, <2>5 DEF PathLoops
  <1>16. PICK w : w = Pop(z)
    OBVIOUS
  <1>17. /\ w \in Seq(Frame \cup ACall \cup Spawn) /\ Len(w) = Len(z) - 1 /\ Len(z) \in Nat
         /\ \A j \in 1..(Len(z) - 1) : w[j] = z[j]
    BY <1>5, <1>16, PopFacts
  <1>18. stack'[t] = w /\ \A u \in Thread \ {t} : stack'[u] = stack[u]
    BY <1>4, <1>16 DEF AsyncToSyncReturns, Inv, TypeOK
  <1>19. \A i \in 1..k : Below(i, p)' = Below(i, p)
    BY <1>3 DEF Below
  <1>20. Top(t)' = f /\ f = Below(k, p)
    <2>1. Len(z) \in 2..Len(z) /\ Len(w) \in 1..(Len(z) - 1) /\ w # <<>>
      BY <1>5, <1>17
    <2>2. Top(t)' = f
      BY <1>6, <1>17, <1>18, <2>1 DEF Top
    <2>3. f = Below(k, p)
      BY <1>1, <1>4, <1>5, <1>6, <1>11, <1>12, <2>1 DEF Path, PathFrames
    <2> QED  BY <2>2, <2>3
  <1>21. PathFrames(k - 1, p)'
    <2>1. \A s \in SCall : scall'[s].pc \in {"queued", "running"} => task'[scall'[s].by].on = s
      BY <1>0, <1>1, <1>3, <1>7 DEF Path, PathFrames
    <2>2. ASSUME NEW u \in Thread, Top(u)' \in Frame
          PROVE  Top(u)' = Below((k - 1) + 1, p)'
      <3>1. CASE u = t
        BY <1>12, <1>19, <1>20, <3>1
      <3>2. CASE u # t
        <4>1. Top(u)' = Top(u)
          BY <1>18, <3>2 DEF Top
        <4> QED  BY <1>0, <1>1, <1>2, <1>10, <2>2, <4>1, NoFrameOnTop
      <3> QED  BY <3>1, <3>2
    <2>3. ASSUME NEW u \in Thread, NEW j \in 2..Len(stack'[u]), NEW i \in 1..(k - 1),
                 stack'[u][j] = p[i]
          PROVE  stack'[u][j - 1] = Below(i, p)'
      <3>1. /\ j \in 2..Len(stack[u]) /\ stack'[u][j] = stack[u][j]
            /\ stack'[u][j - 1] = stack[u][j - 1]
        <4>1. CASE u = t
          <5>1. j \in 2..Len(z) /\ j \in 1..(Len(z) - 1) /\ j - 1 \in 1..(Len(z) - 1)
            BY <1>17, <1>18, <2>3, <4>1
          <5> QED  BY <1>4, <1>17, <1>18, <4>1, <5>1
        <4>2. CASE u # t
          BY <1>18, <2>3, <4>2
        <4> QED  BY <4>1, <4>2
      <3>2. i \in 1..k
        BY <1>12
      <3>3. stack[u][j - 1] = Below(i, p)
        <4>1. \A v \in Thread : \A m \in 2..Len(stack[v]) : \A n \in 1..k :
                 stack[v][m] = p[n] => stack[v][m - 1] = Below(n, p)
          BY <1>1, Zenon DEF Path, PathFrames
        <4>2. stack[u][j] = p[i] /\ j \in 2..Len(stack[u])
          BY <2>3, <3>1, Zenon
        <4> QED  BY <3>2, <4>1, <4>2, Zenon
      <3> QED  BY <1>19, <3>1, <3>2, <3>3
    <2>4. /\ task'[Root].pc # "none" => scall'[Root].pc = "none"
          /\ task'[Root].pc = "done" => k - 1 = 0
      BY <1>0, <1>1, <1>3, <1>7, <1>11 DEF Path, PathFrames
    <2> QED  BY <2>1, <2>2, <2>3, <2>4 DEF PathFrames
  <1>22. Path(k - 1, p)'
    BY <1>11, <1>12, <1>13, <1>15, <1>21 DEF Path
  <1>23. Uncancelled'
    BY <1>2, <1>3, <1>7, <1>8 DEF Uncancelled
  <1>24. Waits
    BY <1>3 DEF Waits
  <1> QED  BY <1>22, <1>23, <1>24, GoesOn

\* The outermost task of an async program ends.
LEMMA PathEnds ==
    ASSUME Inv, SoloInv, NEW g \in Outcome, TaskReturns(Root, g)
    PROVE  SoloGoes
  <1>0. Root \in Task /\ Root \notin ACall /\ ACall \subseteq Task
    BY ConstantsAssumption DEF Task
  <1>1. PICK k, p : Path(k, p)
    BY DEF SoloInv
  <1>2. Uncancelled
    BY DEF SoloInv
  <1>3. UNCHANGED <<scall, acall, stack, tlocal, loop, cancels>> /\ task[Root].pc = "run"
    BY <1>0 DEF TaskReturns
  <1>4. /\ task'[Root].pc = "done" /\ task'[Root].got = g /\ ~task'[Root].cancel
        /\ task'[Root].on = task[Root].on
        /\ \A n \in Task \ {Root} : task'[n] = task[n]
    <2>1. task \in [Task -> TaskType]
      BY DEF Inv, TypeOK
    <2> QED  BY <1>0, <2>1 DEF TaskReturns, TaskType
  <1>5. g # "cancelled"
    BY <1>0, <1>2 DEF TaskReturns, Uncancelled
  <1>6. Open(Root) /\ ~Deep(Root) /\ ~Open(Root)' /\ \A n \in Task \ {Root} : Open(n)' <=> Open(n)
    BY <1>0, <1>3, <1>4 DEF Open, Deep
  <1>7. k >= 1 /\ Root = p[k] /\ k \in Nat /\ p \in [Nat -> Task]
    BY <1>0, <1>1, <1>6, IsLast DEF Path
  <1>8. k = 1
    <2>1. k # 1 => k \in 2..k
      BY <1>7
    <2> QED  BY <1>0, <1>1, <1>7, <2>1 DEF Path, PathTasks
  <1>9. \A n \in Task : ~Open(n)'
    <2>1. \A i \in 1..k : i = 1
      BY <1>8
    <2> QED  BY <1>1, <1>6, <1>7, <1>8, <2>1 DEF Path, PathTasks
  <1>10. PathTasks(0, p)'
    <2>1. 1..0 = {} /\ 1..(0 - 1) = {} /\ 2..0 = {}
      OBVIOUS
    <2>2. \A x \in ACall : acall'[x].pc = "returned" => task'[x].pc = "done"
      BY <1>0, <1>1, <1>3, <1>4 DEF Path, PathTasks
    <2>3. \A n \in Task : Open(n)' <=> \E i \in 1..0 : p[i] = n
      BY <1>9, <2>1, Zenon
    <2> QED  BY <2>1, <2>2, <2>3, Zenon DEF PathTasks
  <1>11. PathLoops(0, p)'
    <2>1. 1..0 = {}
      OBVIOUS
    <2>2. \A x \in ACall : acall'[x].mode # "new" => loop'[x] = "off"
      BY <1>1, <1>3 DEF Path, PathLoops
    <2>3. \A n \in Task : task'[n].pc = "none" => task'[n].loop = None
      BY <1>1, <1>4 DEF Path, PathLoops
    <2> QED  BY <1>4, <2>1, <2>2, <2>3 DEF PathLoops
  <1>12. PathFrames(0, p)'
    <2>1. \A u \in Thread : Top(u)' \notin Frame
      <3>1. \A u \in Thread : Top(u)' = Top(u)
        BY <1>3 DEF Top
      <3> QED  BY <1>0, <1>1, <1>2, <1>6, <3>1, NoFrameOnTop
    <2>2. 1..0 = {}
      OBVIOUS
    <2>3. ASSUME NEW s \in SCall, scall'[s].pc \in {"queued", "running"}
          PROVE  task'[scall'[s].by].on = s
      <3>1. task[scall[s].by].on = s /\ scall[s].by \in Task
        BY <1>1, <1>3, <2>3, CallerFacts DEF Path, PathFrames
      <3> QED  BY <1>3, <1>4, <3>1
    <2>4. scall'[Root].pc = "none"
      BY <1>1, <1>3 DEF Path, PathFrames
    <2> QED  BY <2>1, <2>2, <2>3, <2>4 DEF PathFrames
  <1>13. Path(0, p)'
    BY <1>7, <1>10, <1>11, <1>12 DEF Path
  <1>14. Uncancelled'
    BY <1>2, <1>3, <1>4, <1>5 DEF Uncancelled
  <1>15. Waits
    BY <1>4 DEF Waits
  <1> QED  BY <1>13, <1>14, <1>15, GoesOn


-----------------------------------------------------------------------------
(* All steps. *)

LEMMA SoloInit ==
    ASSUME Init
    PROVE  SoloInv
  <1>0. /\ SCall \subseteq Frame /\ Root \in Frame /\ Root \notin SCall /\ Root \notin ACall
        /\ Root \in Task /\ Task = Loop /\ Root # None /\ ACall \subseteq Task /\ None \notin Frame
    BY ConstantsAssumption DEF Frame, Task, Loop
  <1>1. PICK sync \in BOOLEAN :
          /\ task = [n \in Task |->
                IF n = Root /\ ~sync
                THEN [NoTask EXCEPT !.pc = "run", !.loop = Root] ELSE NoTask]
          /\ scall = [f \in Frame |->
                IF f = Root /\ sync
                THEN [NoSCall EXCEPT !.pc = "running", !.thr = Main] ELSE NoSCall]
          /\ stack = [t \in Thread |-> IF t = Main /\ sync THEN <<Root>> ELSE <<>>]
          /\ loop = [l \in Loop |-> IF l = Root /\ ~sync THEN "run" ELSE "off"]
    BY ConstantsAssumption, Zenon DEF Init
  <1>2. PICK r : r = [NoTask EXCEPT !.pc = "run", !.loop = Root]
    OBVIOUS
  <1>3. /\ r.pc = "run" /\ r.loop = Root /\ ~r.cancel /\ r.got = "ok"
        /\ NoTask.pc = "none" /\ NoTask.loop = None /\ ~NoTask.cancel /\ NoTask.got = "ok"
    BY <1>2 DEF NoTask
  <1>4. PICK u : u = [NoSCall EXCEPT !.pc = "running", !.thr = Main]
    OBVIOUS
  <1>5. /\ u.pc = "running" /\ u.got = "ok" /\ u.fut = "pending"
        /\ NoSCall.pc = "none" /\ NoSCall.got = "ok" /\ NoSCall.fut = "pending"
    BY <1>4 DEF NoSCall
  <1>6. \A a \in ACall : acall[a].pc = "none" /\ acall[a].mode = "none" /\ acall[a].res = "none"
    BY DEF Init, NoACall
  <1>7. \A n \in Task : task[n] = IF n = Root /\ ~sync THEN r ELSE NoTask
    BY <1>1, <1>2, Zenon
  <1>8. \A f \in Frame : scall[f] = IF f = Root /\ sync THEN u ELSE NoSCall
    BY <1>1, <1>4, Zenon
  <1>9. Uncancelled
    BY <1>3, <1>5, <1>6, <1>7, <1>8 DEF Uncancelled
  <1>10. PICK k \in {0, 1} : k = IF sync THEN 0 ELSE 1
    OBVIOUS
  <1>11. PICK p \in [Nat -> Task] : p = [i \in Nat |-> Root]
    BY <1>0
  <1>12. k \in Nat /\ (\A i \in 1..k : i = 1 /\ k = 1 /\ p[i] = Root) /\ 1..(k - 1) = {} /\ 2..k = {}
         /\ (k = 1 => 1 \in 1..k) /\ p[1] = Root
    BY <1>10, <1>11
  <1>13. \A n \in Task : Open(n) <=> n = Root /\ ~sync
    BY <1>0, <1>3, <1>6, <1>7 DEF Open
  <1>14. PathTasks(k, p)
    <2>1. \A n \in Task : Open(n) <=> \E i \in 1..k : p[i] = n
      BY <1>10, <1>12, <1>13
    <2>2. \A i, j \in 1..k : p[i] = p[j] => i = j
      BY <1>12
    <2> QED  BY <1>6, <1>12, <2>1, <2>2 DEF PathTasks
  <1>15. PathLoops(k, p)
    <2>1. \A i \in 1..k : task[p[i]].pc # "none" => \E j \in 1..i : task[p[i]].loop = p[j]
      <3>1. ASSUME NEW i \in 1..k  PROVE 1 \in 1..i /\ p[i] = Root /\ ~sync
        BY <1>10, <1>12
      <3>2. ~sync => task[Root].loop = Root
        BY <1>0, <1>3, <1>7
      <3> QED  BY <1>12, <3>1, <3>2
    <2>2. \A l \in Loop : Alive(l) => Open(l)
      BY <1>0, <1>1, <1>13 DEF Alive
    <2>3. \A a \in ACall : loop[a] = "off"
      BY <1>0, <1>1
    <2>4. \A n \in Task : task[n].pc = "none" => task[n].loop = None
      BY <1>3, <1>7
    <2> QED  BY <1>0, <1>12, <2>1, <2>2, <2>3, <2>4 DEF PathLoops
  <1>16. PathFrames(k, p)
    <2>1. \A s \in SCall : scall[s].pc = "none"
      BY <1>0, <1>5, <1>8
    <2>2. ASSUME NEW t \in Thread, Top(t) \in Frame  PROVE Top(t) = Below(k + 1, p)
      <3>1. stack[t] = IF t = Main /\ sync THEN <<Root>> ELSE <<>>
        BY <1>1
      <3>2. stack[t] # <<>>
        BY <1>0, <2>2 DEF Top
      <3>3. sync /\ Top(t) = Root
        BY <3>1, <3>2 DEF Top
      <3> QED  BY <1>10, <3>3 DEF Below
    <2>3. ASSUME NEW t \in Thread, NEW j \in 2..Len(stack[t])  PROVE FALSE
      BY <1>1, <2>3
    <2>4. /\ task[Root].pc # "none" => scall[Root].pc = "none"
          /\ task[Root].pc # "done"
      BY <1>0, <1>3, <1>5, <1>7, <1>8
    <2> QED  BY <2>1, <2>2, <2>3, <2>4 DEF PathFrames
  <1> QED  BY <1>9, <1>12, <1>14, <1>15, <1>16 DEF SoloInv, Path

\* Nothing raises CancelledError.
LEMMA NothingIsCancelled ==
    ASSUME Inv, SoloInv, NEW n \in Task
    PROVE  /\ ~CancelledAlone(n) /\ ~CancelledWithChild(n) /\ ~JoinReturns(n)
           /\ ~CancelledInJoin(n) /\ ~CancelledInDrain(n) /\ ~CancelledUnstarted(n)
           /\ ~CancelledInCode(n)
  <1>1. ~task[n].cancel /\ task[n].pc \notin {"join", "drain"}
    BY DEF SoloInv, Uncancelled
  <1>2. ~RaisedAtShield(n)
    <2>1. ASSUME task[n].pc = "await"  PROVE scall[task[n].on].got # "cancelled"
      <3>1. task[n].on \in SCall
        BY <2>1, AwaitFacts DEF Waiting
      <3> QED  BY <3>1 DEF SoloInv, Uncancelled, Frame
    <2> QED  BY <1>1, <2>1 DEF RaisedAtShield
  <1> QED  BY <1>1, <1>2 DEF CancelledAlone, CancelledWithChild, JoinReturns, CancelledInJoin,
             CancelledInDrain, CancelledUnstarted, CancelledInCode

LEMMA SoloNext ==
    ASSUME MaxCancels = 0, Spawn = {}, Inv, SoloInv, Next
    PROVE  SoloGoes
  <1>1. ASSUME NEW n \in Task, TaskStep(n)  PROVE SoloGoes
    <2>1. CASE \E r \in Outcome : TaskReturns(n, r)
      <3>1. n \in ACall \/ n = Root
        BY DEF Task
      <3> QED  BY <2>1, <3>1, TaskReturnsGoes, PathEnds
    <2>2. CASE AwaitReturns(n) \/ TaskStarts(n)
      BY <2>2, AwaitReturnsGoes, TaskStartsGoes
    <2> QED  BY <1>1, <2>1, <2>2, NothingIsCancelled, Zenon DEF TaskStep
  <1>2. ASSUME NEW n \in Task, AsyncCode(n)  PROVE SoloGoes
    BY <1>2, SyncToAsyncGoes, CallRefusedGoes DEF AsyncCode
  <1>3. ASSUME NEW t \in Thread, ThreadStep(t)  PROVE SoloGoes
    <2>1. ~UserLoopReturns(t)
      BY DEF UserLoopReturns
    <2> QED  BY <1>3, <2>1, ThreadHandlerGoes, FunctionReturnsGoes, PathShrinks DEF ThreadStep
  <1>4. ASSUME NEW t \in Thread, SyncCode(t)  PROVE SoloGoes
    BY <1>4, PathGrows DEF SyncCode
  <1>5. ASSUME NEW a \in ACall, CallStep(a)  PROVE SoloGoes
    BY <1>5, CallSoonThreadsafeGoes, CreateTaskGoes, SetResultGoes DEF CallStep
  <1>6. ASSUME NEW s \in SCall, FutureStep(s)  PROVE SoloGoes
    <2>1. ~ExecCoroCancelled(s)
      BY DEF ExecCoroCancelled, SoloInv, Uncancelled, Frame
    <2> QED  BY <1>6, <2>1, ExecCoroDoneGoes DEF FutureStep
  <1>7. ASSUME NEW l \in Loop, LoopStep(l)  PROVE SoloGoes
    BY <1>7, LoopStepGoes
  <1>8. ASSUME NEW n \in Task, CancelTask(n)  PROVE SoloGoes
    <2>1. cancels \in 0..MaxCancels /\ cancels < MaxCancels
      BY <1>8 DEF CancelTask, Inv, TypeOK
    <2> QED  BY <2>1
  <1> QED  BY <1>1, <1>2, <1>3, <1>4, <1>5, <1>6, <1>7, <1>8, Zenon DEF Next

\* Where user code neither cancels nor creates tasks, SyncToAsync.__call__ leaves its
\* function only when that has ended, so async code always finds the executor of the
\* async_to_sync call it runs for: for any nesting of calls, on any loops and threads.
THEOREM ExecutorIsOwnUncancelled ==
    MaxCancels = 0 /\ Spawn = {} /\ Spec => []CurrentIsOwn
  <1>1. SUFFICES ASSUME MaxCancels = 0, Spawn = {}  PROVE Spec => []CurrentIsOwn
    OBVIOUS
  <1>2. Init => SoloInv
    BY SoloInit
  <1>3. Inv /\ SoloInv /\ [Next]_vars => SoloInv' /\ [Waits]_vars
    <2> SUFFICES ASSUME Inv, SoloInv, [Next]_vars  PROVE SoloInv' /\ [Waits]_vars
      OBVIOUS
    <2>1. CASE Next
      BY <1>1, <2>1, SoloNext DEF SoloGoes
    <2>2. CASE UNCHANGED vars
      <3>1. UNCHANGED <<task, scall, acall, stack, loop>>
        BY <2>2 DEF vars
      <3>2. \A l \in Loop : (Alive(l)' => Alive(l)) /\ (loop[l] = "off" => loop'[l] = "off")
        BY <3>1 DEF Alive
      <3> QED  BY <3>1, <3>2, LoopGoes DEF SoloGoes
    <2> QED  BY <2>1, <2>2
  <1>4. [][Waits]_vars => WaitsForFunctions
    BY DEF Waits, WaitsForFunctions
  <1> QED  BY <1>2, <1>3, <1>4, InvHolds, ExecutorIsOwn, PTL DEF Spec

=============================================================================
