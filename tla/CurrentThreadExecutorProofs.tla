--------------------- MODULE CurrentThreadExecutorProofs ---------------------
(***************************************************************************)
(* Machine-checked proofs about CurrentThreadExecutor, for any sets of     *)
(* executors, items and threads.                                           *)
(***************************************************************************)
EXTENDS CurrentThreadExecutor, SequenceTheorems, TLAPS

-----------------------------------------------------------------------------
(* Type correctness. *)

\* What SubSeq does to the stack of a thread when its innermost call returns.
LEMMA PopType ==
    ASSUME NEW S, NEW s \in Seq(S), s # <<>>
    PROVE  SubSeq(s, 1, Len(s) - 1) \in Seq(S)
  <1>1. Len(s) \in Nat /\ \A i \in 1..Len(s) : s[i] \in S
    BY LenProperties, ElementOfSeq
  <1>2. Len(s) - 1 \in Int /\ \A i \in 1..(Len(s) - 1) : s[i] \in S
    BY <1>1
  <1>. QED
    BY <1>2, SubSeqProperties

\* The initial values have their types.
LEMMA TypeInit == Init => TypeOK
  BY EmptySeq DEF Init, TypeOK, LoopState, ItemState

\* Every step, of an owner, a submitter or a canceller, keeps the types.
LEMMA TypeNext == TypeOK /\ [Next]_vars => TypeOK'
  <1>. SUFFICES ASSUME TypeOK, [Next]_vars
                PROVE  TypeOK'
    OBVIOUS
  <1>. USE DEF TypeOK, LoopState, ItemState, exec_vars, sub_vars
  <1>1. ASSUME NEW e \in Executor, RunUntilFuture(e)
        PROVE  TypeOK'
    BY <1>1 DEF RunUntilFuture
  <1>2. ASSUME NEW e \in Executor, Resolve(e)
        PROVE  TypeOK'
    BY <1>2 DEF Resolve
  <1>3. ASSUME NEW e \in Executor, Done(e)
        PROVE  TypeOK'
    BY <1>3 DEF Done, Notified
  <1>4. ASSUME NEW e \in Executor, Wait(e)
        PROVE  TypeOK'
    BY <1>4 DEF Wait
  <1>5. ASSUME NEW e \in Executor, Break(e)
        PROVE  TypeOK'
    <2>1. \A t \in Thread : stack[t] # <<>> => SubSeq(stack[t], 1, Len(stack[t]) - 1) \in Seq(Executor)
      BY PopType
    <2>2. stack' \in [Thread -> Seq(Executor)]
      BY <1>5, <2>1 DEF Break, Innermost
    <2>. QED
      BY <1>5, <2>2 DEF Break
  <1>6. ASSUME NEW e \in Executor, PopLeft(e)
        PROVE  TypeOK'
    <2>1. Head(work_items[e]) \in Item /\ Tail(work_items[e]) \in Seq(Item)
      BY <1>6, HeadTailProperties DEF PopLeft
    <2>. QED
      BY <1>6, <2>1 DEF PopLeft
  <1>7. ASSUME NEW e \in Executor, SkipCancelled(e)
        PROVE  TypeOK'
    BY <1>7 DEF SkipCancelled
  <1>8. ASSUME NEW e \in Executor, Start(e)
        PROVE  TypeOK'
    BY <1>8 DEF Start
  <1>9. ASSUME NEW e \in Executor, Finish(e)
        PROVE  TypeOK'
    BY <1>9 DEF Finish
  <1>10. ASSUME NEW t \in Thread, Enqueue(t)
         PROVE  TypeOK'
    <2>1. sub_item[t] \in Item
      BY <1>10 DEF Enqueue
    <2>2. \A e \in Executor : Append(work_items[e], sub_item[t]) \in Seq(Item)
      BY <2>1, AppendProperties
    <2>3. work_items' \in [Executor -> Seq(Item)]
      BY <1>10, <2>2 DEF Enqueue
    <2>4. loop' \in [Executor -> LoopState]
      BY <1>10 DEF Enqueue, Notified
    <2>. QED
      BY <1>10, <2>3, <2>4 DEF Enqueue
  <1>11. ASSUME NEW t \in Thread, WalkUp(t)
         PROVE  TypeOK'
    BY <1>11 DEF WalkUp
  <1>12. ASSUME NEW t \in Thread, RaiseQuit(t)
         PROVE  TypeOK'
    BY <1>12 DEF RaiseQuit
  <1>13. ASSUME NEW t \in Thread, NEW e \in Executor, NEW old \in Executor \cup {None},
                New(t, e, old)
         PROVE  TypeOK'
    BY <1>13, AppendProperties DEF New
  <1>14. ASSUME NEW t \in Thread, NEW i \in Item, NEW e \in Executor, Submit(t, i, e)
         PROVE  TypeOK'
    BY <1>14, NoneAssumption DEF Submit
  <1>15. ASSUME NEW t \in Thread, NEW i \in Item, NEW e \in Executor,
                SubmitFromOwnThread(t, i, e)
         PROVE  TypeOK'
    BY <1>15 DEF SubmitFromOwnThread
  <1>16. ASSUME NEW i \in Item, Cancel(i)
         PROVE  TypeOK'
    BY <1>16 DEF Cancel
  <1>17. CASE UNCHANGED vars
    BY <1>17 DEF vars
  <1>. QED
    BY <1>1, <1>2, <1>3, <1>4, <1>5, <1>6, <1>7, <1>8, <1>9, <1>10, <1>11, <1>12,
       <1>13, <1>14, <1>15, <1>16, <1>17 DEF Next, OwnerStep, WalkStep

\* Every variable keeps its type in every behaviour.
THEOREM TypeCorrect == Spec => []TypeOK
  BY TypeInit, TypeNext, PTL DEF Spec

-----------------------------------------------------------------------------
(* The queue and the condition variable: nothing is stranded, no wake-up is  *)
(* lost.  Both follow from what each section under the lock tests.           *)

\* An executor is not broken before run_until_future registers done().
OpenAtFirst ==
    \A e \in Executor : loop[e] \in {"unborn", "new"} => ~broken[e]

QueueInv == NoStrandedWork /\ NoLostWakeup /\ OpenAtFirst

\* No executor exists yet, so none has returned or sleeps.
LEMMA QueueInit == Init => QueueInv
  BY DEF Init, QueueInv, NoStrandedWork, NoLostWakeup, OpenAtFirst

\* append, done() and the loop head run under the lock, so each leaves the queue,
\* the broken flag and the owner's position in agreement.
LEMMA QueueNext == TypeOK /\ QueueInv /\ [Next]_vars => QueueInv'
  <1>. SUFFICES ASSUME TypeOK, QueueInv, [Next]_vars
                PROVE  QueueInv'
    OBVIOUS
  <1>. USE DEF QueueInv, NoStrandedWork, NoLostWakeup, OpenAtFirst, TypeOK, exec_vars, sub_vars, Notified
  <1>1. ASSUME NEW e \in Executor, RunUntilFuture(e)
        PROVE  QueueInv'
    BY <1>1 DEF RunUntilFuture
  <1>2. ASSUME NEW e \in Executor, Resolve(e)
        PROVE  QueueInv'
    BY <1>2 DEF Resolve
  <1>3. ASSUME NEW e \in Executor, Done(e)
        PROVE  QueueInv'
    BY <1>3 DEF Done
  <1>4. ASSUME NEW e \in Executor, Wait(e)
        PROVE  QueueInv'
    BY <1>4 DEF Wait
  <1>5. ASSUME NEW e \in Executor, Break(e)
        PROVE  QueueInv'
    BY <1>5 DEF Break
  <1>6. ASSUME NEW e \in Executor, PopLeft(e)
        PROVE  QueueInv'
    BY <1>6 DEF PopLeft
  <1>7. ASSUME NEW e \in Executor, SkipCancelled(e)
        PROVE  QueueInv'
    BY <1>7 DEF SkipCancelled
  <1>8. ASSUME NEW e \in Executor, Start(e)
        PROVE  QueueInv'
    BY <1>8 DEF Start
  <1>9. ASSUME NEW e \in Executor, Finish(e)
        PROVE  QueueInv'
    BY <1>9 DEF Finish
  <1>10. ASSUME NEW t \in Thread, Enqueue(t)
         PROVE  QueueInv'
    BY <1>10 DEF Enqueue
  <1>11. ASSUME NEW t \in Thread, WalkUp(t)
         PROVE  QueueInv'
    BY <1>11 DEF WalkUp
  <1>12. ASSUME NEW t \in Thread, RaiseQuit(t)
         PROVE  QueueInv'
    BY <1>12 DEF RaiseQuit
  <1>13. ASSUME NEW t \in Thread, NEW e \in Executor, NEW old \in Executor \cup {None},
                New(t, e, old)
         PROVE  QueueInv'
    BY <1>13 DEF New
  <1>14. ASSUME NEW t \in Thread, NEW i \in Item, NEW e \in Executor,
                Submit(t, i, e)
         PROVE  QueueInv'
    BY <1>14 DEF Submit
  <1>15. ASSUME NEW t \in Thread, NEW i \in Item, NEW e \in Executor,
                SubmitFromOwnThread(t, i, e)
         PROVE  QueueInv'
    BY <1>15 DEF SubmitFromOwnThread
  <1>16. ASSUME NEW i \in Item, Cancel(i)
         PROVE  QueueInv'
    BY <1>16 DEF Cancel
  <1>17. CASE UNCHANGED vars
    BY <1>17 DEF vars
  <1>. QED
    BY <1>1, <1>2, <1>3, <1>4, <1>5, <1>6, <1>7, <1>8, <1>9, <1>10, <1>11,
       <1>12, <1>13, <1>14, <1>15, <1>16, <1>17 DEF Next, OwnerStep, WalkStep

\* run_until_future returns only with an empty queue, and its queue stays
\* empty: an item is never left in an executor nobody drives any more.
THEOREM NothingStranded == Spec => []NoStrandedWork
  <1>1. QueueInv => NoStrandedWork
    BY DEF QueueInv
  <1>. QED
    BY <1>1, TypeCorrect, QueueInit, QueueNext, PTL DEF Spec

\* The owner of an executor never sleeps on a queue that has work, or after
\* done() has asked it to stop.
THEOREM NoWakeupLost == Spec => []NoLostWakeup
  <1>1. QueueInv => NoLostWakeup
    BY DEF QueueInv
  <1>. QED
    BY <1>1, TypeCorrect, QueueInit, QueueNext, PTL DEF Spec

-----------------------------------------------------------------------------
(* Items: the queues, the loops and the Futures never disagree.              *)

\* An item that submit() is placing belongs to one thread and to no queue.
SubmitInv ==
    /\ \A t \in Thread : sub_item[t] # None => state[sub_item[t]] = "SUBMITTING"
    /\ \A t, u \in Thread : sub_item[t] # None /\ sub_item[t] = sub_item[u] => t = u

\* The state of a Future says where its item is: taken off the queue, queued.
HoldInv ==
    \A e \in Executor :
        /\ work_item[e] # None <=> loop[e] \in {"popped", "busy"}
        /\ loop[e] = "popped" => state[work_item[e]] \in {"PENDING", "CANCELLED"}
        /\ loop[e] = "busy" => state[work_item[e]] = "RUNNING"
        /\ \A k \in 1..Len(work_items[e]) :
               state[work_items[e][k]] \in {"PENDING", "CANCELLED"}

\* No item is in two slots.
OneSlot ==
    \A i \in Item : \A e, f \in Executor : \A k \in Slots(e), l \in Slots(f) :
        At(i, e, k) /\ At(i, f, l) => e = f /\ k = l

\* An item whose Future is unsettled is in some slot.
SomeSlot ==
    \A i \in Item : state[i] \in Held =>
        \E e \in Executor : \E k \in Slots(e) : At(i, e, k)

ItemInv == SubmitInv /\ HoldInv /\ OneSlot /\ SomeSlot

\* No item is in a slot and none has been submitted.
LEMMA ItemInit == Init => ItemInv
  <1>. SUFFICES ASSUME Init
                PROVE  ItemInv
    OBVIOUS
  <1>. USE DEF Init
  <1>1. SubmitInv /\ HoldInv
    BY DEF SubmitInv, HoldInv
  <1>2. \A i \in Item, e \in Executor : \A k \in Slots(e) : ~At(i, e, k)
    BY NoneAssumption DEF Slots, At
  <1>. QED
    BY <1>1, <1>2 DEF ItemInv, OneSlot, SomeSlot, Held

\* The item an executor has taken off its queue is in no other slot.
LEMMA TakenAlone ==
    ASSUME TypeOK, OneSlot, NEW e \in Executor, work_item[e] # None
    PROVE  /\ \A f \in Executor : work_item[f] = work_item[e] => f = e
           /\ \A f \in Executor : \A k \in 1..Len(work_items[f]) :
                  work_items[f][k] # work_item[e]
  <1>1. work_item[e] \in Item /\ \A f \in Executor : Len(work_items[f]) \in Nat
    BY LenProperties DEF TypeOK
  <1>2. /\ \A f \in Executor : 0 \in Slots(f)
        /\ \A f \in Executor : \A k \in 1..Len(work_items[f]) : k \in Slots(f)
        /\ \A f \in Executor : \A k \in 1..Len(work_items[f]) : k # 0
    BY <1>1 DEF Slots
  <1>3. At(work_item[e], e, 0)
    BY DEF At
  <1>4. ASSUME NEW f \in Executor, work_item[f] = work_item[e]
        PROVE  f = e
    BY <1>1, <1>2, <1>3, <1>4 DEF OneSlot, At
  <1>5. ASSUME NEW f \in Executor, NEW k \in 1..Len(work_items[f]),
               work_items[f][k] = work_item[e]
        PROVE  FALSE
    <2>1. At(work_item[e], f, k)
      BY <1>2, <1>5 DEF At
    <2>. QED
      BY <1>1, <1>2, <1>3, <2>1 DEF OneSlot
  <1>. QED
    BY <1>4, <1>5

\* A submit() under way stays the only one that knows its item.
LEMMA SubmitNext == TypeOK /\ SubmitInv /\ HoldInv /\ [Next]_vars => SubmitInv'
  <1>. SUFFICES ASSUME TypeOK, SubmitInv, HoldInv, [Next]_vars
                PROVE  SubmitInv'
    OBVIOUS
  <1>. USE DEF SubmitInv, HoldInv, TypeOK, exec_vars, sub_vars
  <1>1. ASSUME NEW e \in Executor, RunUntilFuture(e)
        PROVE  SubmitInv'
    BY <1>1, NoneAssumption DEF RunUntilFuture
  <1>2. ASSUME NEW e \in Executor, Resolve(e)
        PROVE  SubmitInv'
    BY <1>2, NoneAssumption DEF Resolve
  <1>3. ASSUME NEW e \in Executor, Done(e)
        PROVE  SubmitInv'
    BY <1>3, NoneAssumption DEF Done
  <1>4. ASSUME NEW e \in Executor, Wait(e)
        PROVE  SubmitInv'
    BY <1>4, NoneAssumption DEF Wait
  <1>5. ASSUME NEW e \in Executor, Break(e)
        PROVE  SubmitInv'
    BY <1>5, NoneAssumption DEF Break
  <1>6. ASSUME NEW e \in Executor, PopLeft(e)
        PROVE  SubmitInv'
    BY <1>6, NoneAssumption DEF PopLeft
  <1>7. ASSUME NEW e \in Executor, SkipCancelled(e)
        PROVE  SubmitInv'
    BY <1>7, NoneAssumption DEF SkipCancelled
  <1>8. ASSUME NEW e \in Executor, Start(e)
        PROVE  SubmitInv'
    BY <1>8, NoneAssumption DEF Start
  <1>9. ASSUME NEW e \in Executor, Finish(e)
        PROVE  SubmitInv'
    BY <1>9, NoneAssumption DEF Finish
  <1>10. ASSUME NEW t \in Thread, Enqueue(t)
         PROVE  SubmitInv'
    BY <1>10, NoneAssumption DEF Enqueue
  <1>11. ASSUME NEW t \in Thread, WalkUp(t)
         PROVE  SubmitInv'
    BY <1>11, NoneAssumption DEF WalkUp
  <1>12. ASSUME NEW t \in Thread, RaiseQuit(t)
         PROVE  SubmitInv'
    BY <1>12, NoneAssumption DEF RaiseQuit
  <1>13. ASSUME NEW t \in Thread, NEW e \in Executor, NEW old \in Executor \cup {None},
                New(t, e, old)
         PROVE  SubmitInv'
    BY <1>13, NoneAssumption DEF New
  <1>14. ASSUME NEW t \in Thread, NEW i \in Item, NEW e \in Executor,
                Submit(t, i, e)
         PROVE  SubmitInv'
    BY <1>14, NoneAssumption DEF Submit
  <1>15. ASSUME NEW t \in Thread, NEW i \in Item, NEW e \in Executor,
                SubmitFromOwnThread(t, i, e)
         PROVE  SubmitInv'
    BY <1>15, NoneAssumption DEF SubmitFromOwnThread
  <1>16. ASSUME NEW i \in Item, Cancel(i)
         PROVE  SubmitInv'
    BY <1>16, NoneAssumption DEF Cancel
  <1>17. CASE UNCHANGED vars
    BY <1>17 DEF vars
  <1>. QED
    BY <1>1, <1>2, <1>3, <1>4, <1>5, <1>6, <1>7, <1>8, <1>9, <1>10, <1>11,
       <1>12, <1>13, <1>14, <1>15, <1>16, <1>17 DEF Next, OwnerStep, WalkStep

\* The owner's position, work_item and the state of the item stay in agreement.
LEMMA HoldNext == TypeOK /\ SubmitInv /\ HoldInv /\ OneSlot /\ [Next]_vars => HoldInv'
  <1>. SUFFICES ASSUME TypeOK, SubmitInv, HoldInv, OneSlot, [Next]_vars
                PROVE  HoldInv'
    OBVIOUS
  <1>. USE DEF SubmitInv, HoldInv, TypeOK, exec_vars, sub_vars, Notified
  <1>1. ASSUME NEW e \in Executor, RunUntilFuture(e)
        PROVE  HoldInv'
    BY <1>1, NoneAssumption DEF RunUntilFuture
  <1>2. ASSUME NEW e \in Executor, Resolve(e)
        PROVE  HoldInv'
    BY <1>2, NoneAssumption DEF Resolve
  <1>3. ASSUME NEW e \in Executor, Done(e)
        PROVE  HoldInv'
    BY <1>3, NoneAssumption DEF Done
  <1>4. ASSUME NEW e \in Executor, Wait(e)
        PROVE  HoldInv'
    BY <1>4, NoneAssumption DEF Wait
  <1>5. ASSUME NEW e \in Executor, Break(e)
        PROVE  HoldInv'
    BY <1>5, NoneAssumption DEF Break
  <1>6. ASSUME NEW e \in Executor, PopLeft(e)
        PROVE  HoldInv'
    BY <1>6, NoneAssumption DEF PopLeft
  <1>7. ASSUME NEW e \in Executor, SkipCancelled(e)
        PROVE  HoldInv'
    <2>1. work_item[e] # None
      BY <1>7 DEF SkipCancelled
    <2>. QED
      BY <1>7, <2>1, TakenAlone, NoneAssumption DEF SkipCancelled
  <1>8. ASSUME NEW e \in Executor, Start(e)
        PROVE  HoldInv'
    <2>1. work_item[e] # None
      BY <1>8 DEF Start
    <2>. QED
      BY <1>8, <2>1, TakenAlone, NoneAssumption DEF Start
  <1>9. ASSUME NEW e \in Executor, Finish(e)
        PROVE  HoldInv'
    <2>1. work_item[e] # None
      BY <1>9 DEF Finish
    <2>. QED
      BY <1>9, <2>1, TakenAlone, NoneAssumption DEF Finish
  <1>10. ASSUME NEW t \in Thread, Enqueue(t)
         PROVE  HoldInv'
    BY <1>10, NoneAssumption DEF Enqueue
  <1>11. ASSUME NEW t \in Thread, WalkUp(t)
         PROVE  HoldInv'
    BY <1>11, NoneAssumption DEF WalkUp
  <1>12. ASSUME NEW t \in Thread, RaiseQuit(t)
         PROVE  HoldInv'
    BY <1>12, NoneAssumption DEF RaiseQuit
  <1>13. ASSUME NEW t \in Thread, NEW e \in Executor, NEW old \in Executor \cup {None},
                New(t, e, old)
         PROVE  HoldInv'
    BY <1>13, NoneAssumption DEF New
  <1>14. ASSUME NEW t \in Thread, NEW i \in Item, NEW e \in Executor,
                Submit(t, i, e)
         PROVE  HoldInv'
    BY <1>14, NoneAssumption DEF Submit
  <1>15. ASSUME NEW t \in Thread, NEW i \in Item, NEW e \in Executor,
                SubmitFromOwnThread(t, i, e)
         PROVE  HoldInv'
    BY <1>15, NoneAssumption DEF SubmitFromOwnThread
  <1>16. ASSUME NEW i \in Item, Cancel(i)
         PROVE  HoldInv'
    BY <1>16, NoneAssumption DEF Cancel
  <1>17. CASE UNCHANGED vars
    BY <1>17 DEF vars
  <1>. QED
    BY <1>1, <1>2, <1>3, <1>4, <1>5, <1>6, <1>7, <1>8, <1>9, <1>10, <1>11,
       <1>12, <1>13, <1>14, <1>15, <1>16, <1>17 DEF Next, OwnerStep, WalkStep

\* An item that is in a slot is unsettled.
LEMMA SlotState ==
    ASSUME TypeOK, HoldInv, NEW i \in Item, NEW e \in Executor, NEW k \in Slots(e),
           At(i, e, k)
    PROVE  state[i] \in Held
  <1>1. Len(work_items[e]) \in Nat
    BY LenProperties DEF TypeOK
  <1>2. CASE k = 0
    BY <1>2, NoneAssumption DEF At, HoldInv, Held
  <1>3. CASE k # 0
    <2>1. k \in 1..Len(work_items[e])
      BY <1>1, <1>3 DEF Slots
    <2>. QED
      BY <1>3, <2>1 DEF At, HoldInv, Held
  <1>. QED
    BY <1>2, <1>3

\* What taking the head of a queue does to the slots: each item moves down one.
LEMMA PopSlots ==
    ASSUME TypeOK, HoldInv, NEW e \in Executor, PopLeft(e)
    PROVE  /\ \A f \in Executor \ {e} : Slots(f)' = Slots(f)
           /\ \A f \in Executor \ {e}, i \in Item : \A k \in Slots(f) :
                  At(i, f, k)' <=> At(i, f, k)
           /\ \A k \in Slots(e)' : k \in Nat /\ k + 1 \in Slots(e)
           /\ \A k \in Slots(e) : k # 0 => k - 1 \in Slots(e)' /\ k \in Nat
           /\ \A i \in Item : \A k \in Slots(e)' : At(i, e, k)' <=> At(i, e, k + 1)
           /\ \A i \in Item : ~At(i, e, 0)
  <1>. USE DEF PopLeft
  <1>1. /\ work_items[e] \in Seq(Item)
        /\ work_items[e] # <<>>
        /\ Len(work_items[e]) \in Nat
    BY LenProperties DEF TypeOK
  <1>2. /\ Len(Tail(work_items[e])) = Len(work_items[e]) - 1
        /\ \A k \in 1..Len(Tail(work_items[e])) :
               Tail(work_items[e])[k] = work_items[e][k + 1]
    BY <1>1, HeadTailProperties
  <1>3. /\ work_items'[e] = Tail(work_items[e])
        /\ work_item'[e] = Head(work_items[e])
        /\ work_item[e] = None
        /\ \A f \in Executor \ {e} : work_items'[f] = work_items[f]
        /\ \A f \in Executor \ {e} : work_item'[f] = work_item[f]
    <2>1. work_item[e] = None
      BY DEF HoldInv
    <2>2. work_items'[e] = Tail(work_items[e]) /\ work_item'[e] = Head(work_items[e])
      BY DEF TypeOK
    <2>3. \A f \in Executor \ {e} : work_items'[f] = work_items[f]
      BY DEF TypeOK
    <2>4. \A f \in Executor \ {e} : work_item'[f] = work_item[f]
      BY DEF TypeOK
    <2>. QED
      BY <2>1, <2>2, <2>3, <2>4
  <1>4. Len(work_items[e]) > 0
    BY <1>1, EmptySeq
  <1>5. Slots(e)' = 0..(Len(work_items[e]) - 1)
    BY <1>2, <1>3 DEF Slots
  <1>6. /\ \A f \in Executor \ {e} : Slots(f)' = Slots(f)
        /\ \A f \in Executor \ {e}, i \in Item : \A k \in Slots(f) :
               At(i, f, k)' <=> At(i, f, k)
    BY <1>3 DEF Slots, At
  <1>7. \A k \in Slots(e)' : k \in Nat /\ k + 1 \in Slots(e)
    BY <1>1, <1>5 DEF Slots
  <1>8. \A k \in Slots(e) : k # 0 => k - 1 \in Slots(e)' /\ k \in Nat
    BY <1>1, <1>5 DEF Slots
  <1>9. ASSUME NEW i \in Item, NEW k \in Slots(e)'
        PROVE  At(i, e, k)' <=> At(i, e, k + 1)
    <2>1. CASE k = 0
      <3>1. Head(work_items[e]) = work_items[e][1] /\ k + 1 = 1
        BY <1>1, <2>1
      <3>. QED
        BY <1>3, <2>1, <3>1 DEF At
    <2>2. CASE k # 0
      <3>1. k + 1 # 0 /\ k \in 1..Len(Tail(work_items[e]))
        BY <1>1, <1>2, <1>5, <1>9, <2>2
      <3>2. work_items'[e][k] = work_items[e][k + 1]
        BY <1>2, <1>3, <3>1
      <3>. QED
        BY <2>2, <3>1, <3>2 DEF At
    <2>. QED
      BY <2>1, <2>2
  <1>10. \A i \in Item : ~At(i, e, 0)
    BY <1>3, NoneAssumption DEF At
  <1>. QED
    BY <1>6, <1>7, <1>8, <1>9, <1>10

\* What appending does to the slots: the new item j has the new last one, m.
Appended(e, j, m) ==
    /\ \A f \in Executor \ {e} : Slots(f)' = Slots(f)
    /\ m \notin Slots(e)
    /\ Slots(e)' = Slots(e) \cup {m}
    /\ \A i \in Item, f \in Executor : \A k \in Slots(f) : At(i, f, k)' <=> At(i, f, k)
    /\ \A i \in Item : At(i, e, m)' <=> i = j

\* What append does to the slots: the others stay, and one is added at the end.
LEMMA AppendSlots ==
    ASSUME TypeOK, NEW t \in Thread, Enqueue(t),
           NEW e \in Executor, e = sub_at[t],
           NEW j \in Item, j = sub_item[t],
           NEW m \in Nat, m = Len(work_items[e]) + 1
    PROVE  Appended(e, j, m)
  <1>. DEFINE q == work_items[e]
  <1>2. q \in Seq(Item) /\ Len(q) \in Nat
    BY LenProperties DEF TypeOK
  <1>3. /\ Len(Append(q, j)) = m
        /\ \A k \in 1..Len(q) : Append(q, j)[k] = q[k]
        /\ Append(q, j)[m] = j
    BY <1>2, AppendProperties
  <1>4. /\ work_items'[e] = Append(q, j)
        /\ \A f \in Executor \ {e} : work_items'[f] = work_items[f]
        /\ work_item' = work_item
    BY DEF Enqueue, TypeOK, exec_vars
  <1>5. Slots(e)' = 0..m
    BY <1>3, <1>4 DEF Slots
  <1>6. Slots(e)' = Slots(e) \cup {m} /\ m \notin Slots(e)
    BY <1>2, <1>5 DEF Slots
  <1>7. \A f \in Executor \ {e} : Slots(f)' = Slots(f)
    BY <1>4 DEF Slots
  <1>8. \A i \in Item, f \in Executor \ {e} : \A k \in Slots(f) : At(i, f, k)' <=> At(i, f, k)
    BY <1>4 DEF Slots, At
  <1>9. ASSUME NEW i \in Item, NEW k \in Slots(e)
        PROVE  At(i, e, k)' <=> At(i, e, k)
    <2>1. k = 0 \/ k \in 1..Len(q)
      BY <1>2, <1>9 DEF Slots
    <2>. QED
      BY <1>3, <1>4, <2>1 DEF At
  <1>10. \A i \in Item : At(i, e, m)' <=> i = j
    <2>1. m # 0
      BY <1>2
    <2>. QED
      BY <1>3, <1>4, <2>1 DEF At
  <1>. QED
    BY <1>6, <1>7, <1>8, <1>9, <1>10 DEF Appended

\* No step puts an item into a second slot.
LEMMA OneSlotNext == TypeOK /\ SubmitInv /\ HoldInv /\ OneSlot /\ [Next]_vars => OneSlot'
  <1>. SUFFICES ASSUME TypeOK, SubmitInv, HoldInv, OneSlot, [Next]_vars
                PROVE  OneSlot'
    OBVIOUS
  <1>1. ASSUME NEW e \in Executor, RunUntilFuture(e)
        PROVE  OneSlot'
    BY <1>1 DEF RunUntilFuture, OneSlot, Slots, At, exec_vars
  <1>2. ASSUME NEW e \in Executor, Resolve(e)
        PROVE  OneSlot'
    BY <1>2 DEF Resolve, OneSlot, Slots, At, exec_vars
  <1>3. ASSUME NEW e \in Executor, Done(e)
        PROVE  OneSlot'
    BY <1>3 DEF Done, OneSlot, Slots, At, exec_vars
  <1>4. ASSUME NEW e \in Executor, Wait(e)
        PROVE  OneSlot'
    BY <1>4 DEF Wait, OneSlot, Slots, At, exec_vars
  <1>5. ASSUME NEW e \in Executor, Break(e)
        PROVE  OneSlot'
    BY <1>5 DEF Break, OneSlot, Slots, At, exec_vars
  <1>6. ASSUME NEW e \in Executor, PopLeft(e)
        PROVE  OneSlot'
    <2>. SUFFICES ASSUME NEW i \in Item, NEW f \in Executor, NEW g \in Executor,
                         NEW k \in Slots(f)', NEW l \in Slots(g)',
                         At(i, f, k)', At(i, g, l)'
                  PROVE  f = g /\ k = l
      BY DEF OneSlot
    <2>1. f = e => k \in Nat /\ k + 1 \in Slots(e) /\ At(i, e, k + 1)
      BY <1>6, PopSlots
    <2>2. g = e => l \in Nat /\ l + 1 \in Slots(e) /\ At(i, e, l + 1)
      BY <1>6, PopSlots
    <2>3. f # e => k \in Slots(f) /\ At(i, f, k)
      BY <1>6, PopSlots
    <2>4. g # e => l \in Slots(g) /\ At(i, g, l)
      BY <1>6, PopSlots
    <2>5. CASE f = e /\ g = e
      <3>1. k + 1 = l + 1
        BY <2>1, <2>2, <2>5 DEF OneSlot
      <3>. QED
        BY <2>1, <2>2, <2>5, <3>1
    <2>. QED
      BY <2>1, <2>2, <2>3, <2>4, <2>5 DEF OneSlot
  <1>7. ASSUME NEW e \in Executor, SkipCancelled(e)
        PROVE  OneSlot'
    <2>1. \A i \in Item, f \in Executor : \A k \in Slots(f)' :
              At(i, f, k)' => k \in Slots(f) /\ At(i, f, k)
      BY <1>7, NoneAssumption DEF SkipCancelled, TypeOK, Slots, At
    <2>. QED
      BY <2>1 DEF OneSlot
  <1>8. ASSUME NEW e \in Executor, Start(e)
        PROVE  OneSlot'
    BY <1>8 DEF Start, OneSlot, Slots, At, exec_vars
  <1>9. ASSUME NEW e \in Executor, Finish(e)
        PROVE  OneSlot'
    <2>1. \A i \in Item, f \in Executor : \A k \in Slots(f)' :
              At(i, f, k)' => k \in Slots(f) /\ At(i, f, k)
      BY <1>9, NoneAssumption DEF Finish, TypeOK, Slots, At
    <2>. QED
      BY <2>1 DEF OneSlot
  <1>10. ASSUME NEW t \in Thread, Enqueue(t)
         PROVE  OneSlot'
    <2>. SUFFICES ASSUME NEW i \in Item, NEW f \in Executor, NEW g \in Executor,
                         NEW k \in Slots(f)', NEW l \in Slots(g)',
                         At(i, f, k)', At(i, g, l)'
                  PROVE  f = g /\ k = l
      BY DEF OneSlot
    <2>e. PICK d \in Executor, j \in Item, m \in Nat :
              d = sub_at[t] /\ j = sub_item[t] /\ m = Len(work_items[d]) + 1
      BY <1>10, LenProperties DEF Enqueue, TypeOK
    <2>s. Appended(d, j, m)
      BY <1>10, <2>e, AppendSlots
    <2>1. \A h \in Executor : \A n \in Slots(h) : ~At(j, h, n)
      <3>1. state[j] \notin Held
        BY <1>10, <2>e DEF Enqueue, SubmitInv, Held
      <3>. QED
        BY <3>1, SlotState
    <2>2. CASE i = j
      <3>1. k \notin Slots(f) /\ l \notin Slots(g)
        BY <2>s, <2>1, <2>2 DEF Appended
      <3>. QED
        BY <2>s, <3>1 DEF Appended
    <2>3. CASE i # j
      <3>1. k \in Slots(f) /\ l \in Slots(g)
        BY <2>s, <2>3 DEF Appended
      <3>. QED
        BY <2>s, <3>1 DEF Appended, OneSlot
    <2>. QED
      BY <2>2, <2>3
  <1>11. ASSUME NEW t \in Thread, WalkUp(t)
         PROVE  OneSlot'
    BY <1>11 DEF WalkUp, OneSlot, Slots, At, exec_vars
  <1>12. ASSUME NEW t \in Thread, RaiseQuit(t)
         PROVE  OneSlot'
    BY <1>12 DEF RaiseQuit, OneSlot, Slots, At, exec_vars
  <1>13. ASSUME NEW t \in Thread, NEW e \in Executor, NEW old \in Executor \cup {None},
                New(t, e, old)
         PROVE  OneSlot'
    BY <1>13 DEF New, OneSlot, Slots, At, exec_vars
  <1>14. ASSUME NEW t \in Thread, NEW i \in Item, NEW e \in Executor,
                Submit(t, i, e)
         PROVE  OneSlot'
    BY <1>14 DEF Submit, OneSlot, Slots, At, exec_vars
  <1>15. ASSUME NEW t \in Thread, NEW i \in Item, NEW e \in Executor,
                SubmitFromOwnThread(t, i, e)
         PROVE  OneSlot'
    BY <1>15 DEF SubmitFromOwnThread, OneSlot, Slots, At, exec_vars
  <1>16. ASSUME NEW i \in Item, Cancel(i)
         PROVE  OneSlot'
    BY <1>16 DEF Cancel, OneSlot, Slots, At, exec_vars
  <1>17. CASE UNCHANGED vars
    BY <1>17 DEF vars, OneSlot, Slots, At
  <1>. QED
    BY <1>1, <1>2, <1>3, <1>4, <1>5, <1>6, <1>7, <1>8, <1>9, <1>10, <1>11,
       <1>12, <1>13, <1>14, <1>15, <1>16, <1>17 DEF Next, OwnerStep, WalkStep

\* No step drops an unsettled item.
LEMMA SomeSlotNext == TypeOK /\ HoldInv /\ SomeSlot /\ [Next]_vars => SomeSlot'
  <1>. SUFFICES ASSUME TypeOK, HoldInv, SomeSlot, [Next]_vars
                PROVE  SomeSlot'
    OBVIOUS
  <1>1. ASSUME NEW e \in Executor, RunUntilFuture(e)
        PROVE  SomeSlot'
    BY <1>1 DEF RunUntilFuture, SomeSlot, Slots, At, Held, exec_vars, TypeOK
  <1>2. ASSUME NEW e \in Executor, Resolve(e)
        PROVE  SomeSlot'
    BY <1>2 DEF Resolve, SomeSlot, Slots, At, Held, exec_vars, TypeOK
  <1>3. ASSUME NEW e \in Executor, Done(e)
        PROVE  SomeSlot'
    BY <1>3 DEF Done, SomeSlot, Slots, At, Held, exec_vars, TypeOK
  <1>4. ASSUME NEW e \in Executor, Wait(e)
        PROVE  SomeSlot'
    BY <1>4 DEF Wait, SomeSlot, Slots, At, Held, exec_vars, TypeOK
  <1>5. ASSUME NEW e \in Executor, Break(e)
        PROVE  SomeSlot'
    BY <1>5 DEF Break, SomeSlot, Slots, At, Held, exec_vars, TypeOK
  <1>6. ASSUME NEW e \in Executor, PopLeft(e)
        PROVE  SomeSlot'
    <2>. SUFFICES ASSUME NEW i \in Item, (state[i] \in Held)'
                  PROVE  \E f \in Executor : \E k \in Slots(f)' : At(i, f, k)'
      BY DEF SomeSlot
    <2>f. PICK f \in Executor : \E k \in Slots(f) : At(i, f, k)
      BY <1>6 DEF PopLeft, Held, SomeSlot
    <2>1. PICK k \in Slots(f) : At(i, f, k)
      BY <2>f
    <2>2. CASE f # e
      BY <1>6, <2>1, <2>2, PopSlots
    <2>3. CASE f = e
      <3>1. k # 0 /\ k \in Nat /\ k - 1 \in Slots(e)'
        BY <1>6, <2>1, <2>3, PopSlots
      <3>2. (k - 1) + 1 = k
        BY <3>1
      <3>. QED
        BY <1>6, <2>1, <2>3, <3>1, <3>2, PopSlots
    <2>. QED
      BY <2>2, <2>3
  <1>7. ASSUME NEW e \in Executor, SkipCancelled(e)
        PROVE  SomeSlot'
    <2>. SUFFICES ASSUME NEW i \in Item, (state[i] \in Held)'
                  PROVE  \E f \in Executor : \E k \in Slots(f)' : At(i, f, k)'
      BY DEF SomeSlot
    <2>1. i # work_item[e] /\ state[i] \in Held
      BY <1>7 DEF SkipCancelled, Held, TypeOK
    <2>f. PICK f \in Executor : \E k \in Slots(f) : At(i, f, k)
      BY <2>1 DEF SomeSlot
    <2>2. PICK k \in Slots(f) : At(i, f, k)
      BY <2>f
    <2>3. k \in Slots(f)' /\ At(i, f, k)'
      BY <1>7, <2>1, <2>2 DEF SkipCancelled, Slots, At, TypeOK
    <2>. QED
      BY <2>3
  <1>8. ASSUME NEW e \in Executor, Start(e)
        PROVE  SomeSlot'
    BY <1>8 DEF Start, SomeSlot, Slots, At, Held, exec_vars, TypeOK
  <1>9. ASSUME NEW e \in Executor, Finish(e)
        PROVE  SomeSlot'
    <2>. SUFFICES ASSUME NEW i \in Item, (state[i] \in Held)'
                  PROVE  \E f \in Executor : \E k \in Slots(f)' : At(i, f, k)'
      BY DEF SomeSlot
    <2>1. i # work_item[e] /\ state[i] \in Held
      BY <1>9 DEF Finish, Held, TypeOK
    <2>f. PICK f \in Executor : \E k \in Slots(f) : At(i, f, k)
      BY <2>1 DEF SomeSlot
    <2>2. PICK k \in Slots(f) : At(i, f, k)
      BY <2>f
    <2>3. k \in Slots(f)' /\ At(i, f, k)'
      BY <1>9, <2>1, <2>2 DEF Finish, Slots, At, TypeOK
    <2>. QED
      BY <2>3
  <1>10. ASSUME NEW t \in Thread, Enqueue(t)
         PROVE  SomeSlot'
    <2>. SUFFICES ASSUME NEW i \in Item, (state[i] \in Held)'
                  PROVE  \E f \in Executor : \E k \in Slots(f)' : At(i, f, k)'
      BY DEF SomeSlot
    <2>e. PICK d \in Executor, j \in Item, m \in Nat :
              d = sub_at[t] /\ j = sub_item[t] /\ m = Len(work_items[d]) + 1
      BY <1>10, LenProperties DEF Enqueue, TypeOK
    <2>s. Appended(d, j, m)
      BY <1>10, <2>e, AppendSlots
    <2>1. CASE i = j
      BY <2>s, <2>1 DEF Appended
    <2>2. CASE i # j
      <3>f. PICK f \in Executor : \E k \in Slots(f) : At(i, f, k)
        BY <1>10, <2>e, <2>2 DEF Enqueue, Held, SomeSlot, TypeOK
      <3>1. PICK k \in Slots(f) : At(i, f, k)
        BY <3>f
      <3>2. k \in Slots(f)' /\ At(i, f, k)'
        BY <2>s, <3>1 DEF Appended
      <3>. QED
        BY <3>2
    <2>. QED
      BY <2>1, <2>2
  <1>11. ASSUME NEW t \in Thread, WalkUp(t)
         PROVE  SomeSlot'
    BY <1>11 DEF WalkUp, SomeSlot, Slots, At, Held, exec_vars, TypeOK
  <1>12. ASSUME NEW t \in Thread, RaiseQuit(t)
         PROVE  SomeSlot'
    BY <1>12 DEF RaiseQuit, SomeSlot, Slots, At, Held, exec_vars, TypeOK
  <1>13. ASSUME NEW t \in Thread, NEW e \in Executor, NEW old \in Executor \cup {None},
                New(t, e, old)
         PROVE  SomeSlot'
    BY <1>13 DEF New, SomeSlot, Slots, At, Held, exec_vars, TypeOK
  <1>14. ASSUME NEW t \in Thread, NEW i \in Item, NEW e \in Executor,
                Submit(t, i, e)
         PROVE  SomeSlot'
    BY <1>14 DEF Submit, SomeSlot, Slots, At, Held, exec_vars, TypeOK
  <1>15. ASSUME NEW t \in Thread, NEW i \in Item, NEW e \in Executor,
                SubmitFromOwnThread(t, i, e)
         PROVE  SomeSlot'
    BY <1>15 DEF SubmitFromOwnThread, SomeSlot, Slots, At, Held, exec_vars, TypeOK
  <1>16. ASSUME NEW i \in Item, Cancel(i)
         PROVE  SomeSlot'
    BY <1>16 DEF Cancel, SomeSlot, Slots, At, Held, exec_vars, TypeOK
  <1>17. CASE UNCHANGED vars
    BY <1>17 DEF vars, SomeSlot, Slots, At, Held
  <1>. QED
    BY <1>1, <1>2, <1>3, <1>4, <1>5, <1>6, <1>7, <1>8, <1>9, <1>10, <1>11,
       <1>12, <1>13, <1>14, <1>15, <1>16, <1>17 DEF Next, OwnerStep, WalkStep

\* The four parts together are inductive.
LEMMA ItemNext == TypeOK /\ ItemInv /\ [Next]_vars => ItemInv'
  BY SubmitNext, HoldNext, OneSlotNext, SomeSlotNext DEF ItemInv

\* They hold in every reachable state.
LEMMA ItemInvariant == Spec => []ItemInv
  BY TypeCorrect, ItemInit, ItemNext, PTL DEF Spec

\* No item is lost or run twice: an accepted, unsettled item is in exactly one
\* slot of one executor, whatever submit(), cancel() and the loops interleave.
THEOREM ItemsHeldOnce == Spec => []HeldOnce
  <1>1. ASSUME TypeOK, ItemInv
        PROVE  HeldOnce
    BY <1>1, SlotState DEF ItemInv, OneSlot, SomeSlot, HeldOnce
  <1>. QED
    BY <1>1, TypeCorrect, ItemInvariant, PTL

-----------------------------------------------------------------------------
(* Chains. *)

OldFunction == [Executor -> Executor \cup {None}]

\* The chain of e contains e, is closed, and is the least such set.
LEMMA ChainSelf ==
    ASSUME NEW old \in OldFunction, NEW e \in Executor
    PROVE  e \in ChainIn(old, e) /\ ChainIn(old, e) \in SUBSET Executor
  BY DEF ChainIn

\* A chain is closed under _old_executor.
LEMMA ChainClosed ==
    ASSUME NEW old \in OldFunction, NEW e \in Executor
    PROVE  Closed(old, ChainIn(old, e))
  <1>. SUFFICES ASSUME NEW y \in ChainIn(old, e), old[y] # None
                PROVE  old[y] \in ChainIn(old, e)
    BY DEF Closed
  <1>1. y \in Executor /\ old[y] \in Executor
    BY DEF ChainIn, OldFunction
  <1>2. ASSUME NEW S \in SUBSET Executor, e \in S, Closed(old, S)
        PROVE  old[y] \in S
    <2>1. y \in S
      BY <1>2 DEF ChainIn
    <2>. QED
      BY <1>2, <2>1 DEF Closed
  <1>. QED
    BY <1>1, <1>2 DEF ChainIn

\* A chain lies in every closed set that holds its first executor.
LEMMA ChainLeast ==
    ASSUME NEW old, NEW e, NEW S \in SUBSET Executor, e \in S, Closed(old, S)
    PROVE  ChainIn(old, e) \subseteq S
  BY DEF ChainIn

\* One step up the chain leaves out the executor the step started from ...
LEMMA ChainStep ==
    ASSUME NEW old \in OldFunction, NEW e \in Executor, old[e] # None
    PROVE  ChainIn(old, e) \subseteq {e} \cup ChainIn(old, old[e])
  <1>. DEFINE S == {e} \cup ChainIn(old, old[e])
  <1>1. old[e] \in Executor
    BY DEF OldFunction
  <1>2. S \in SUBSET Executor /\ e \in S /\ old[e] \in S
    BY <1>1, ChainSelf
  <1>3. Closed(old, S)
    BY <1>1, <1>2, ChainClosed DEF Closed
  <1>. QED
    BY <1>2, <1>3, ChainLeast

\* ... and where there is no step up, the chain ends.
LEMMA ChainTop ==
    ASSUME NEW old \in OldFunction, NEW e \in Executor, old[e] = None
    PROVE  ChainIn(old, e) \subseteq {e}
  <1>1. {e} \in SUBSET Executor /\ e \in {e} /\ Closed(old, {e})
    BY DEF Closed
  <1>. QED
    BY <1>1, ChainLeast

\* Two functions that agree on a closed set have the same chains in it.
LEMMA ChainAgree ==
    ASSUME NEW old \in OldFunction, NEW new \in OldFunction,
           NEW B \in SUBSET Executor, NEW x \in B,
           Closed(old, B), \A y \in B : new[y] = old[y]
    PROVE  ChainIn(new, x) = ChainIn(old, x)
  <1>1. Closed(new, B)
    BY DEF Closed
  <1>2. ChainIn(old, x) \subseteq B /\ ChainIn(new, x) \subseteq B
    BY <1>1, ChainLeast
  <1>3. Closed(new, ChainIn(old, x)) /\ Closed(old, ChainIn(new, x))
    BY <1>2, ChainClosed DEF Closed
  <1>4. x \in ChainIn(old, x) /\ x \in ChainIn(new, x)
    BY ChainSelf
  <1>. QED
    BY <1>2, <1>3, <1>4, ChainLeast

-----------------------------------------------------------------------------
(* The walk of submit(). *)

\* Everything a submit() can meet has been constructed.
BornInv ==
    /\ \A e \in Executor : old_executor[e] # None => old_executor[e] \in Born
    /\ \A e \in Executor : work_items[e] # <<>> => e \in Born
    /\ \A t \in Thread : sub_at[t] # None => sub_at[t] \in Born
    /\ \A i \in Item : state[i] # "NEW" => target[i] \in Born

\* All executors that submit() has passed had quit.
WalkInv == \A t \in Thread : sub_item[t] # None => Reaches(sub_item[t], sub_at[t])

ChainInv == BornInv /\ WalkInv /\ ClosestRunning /\ QuitOnlyIfChainBroken

\* Without executors and submitted items there is nothing to reach.
LEMMA ChainInit == Init => ChainInv
  <1>. SUFFICES ASSUME Init
                PROVE  ChainInv
    OBVIOUS
  <1>. USE DEF Init
  <1>1. BornInv /\ WalkInv /\ QuitOnlyIfChainBroken
    BY DEF BornInv, WalkInv, QuitOnlyIfChainBroken
  <1>2. \A i \in Item, e \in Executor : \A k \in Slots(e) : ~At(i, e, k)
    BY NoneAssumption DEF Slots, At
  <1>. QED
    BY <1>1, <1>2 DEF ChainInv, ClosestRunning

\* Links, walks, targets and slots name executors that have been constructed.
LEMMA BornNext == TypeOK /\ SubmitInv /\ HoldInv /\ BornInv /\ [Next]_vars => BornInv'
  <1>. SUFFICES ASSUME TypeOK, SubmitInv, HoldInv, BornInv, [Next]_vars
                PROVE  BornInv'
    OBVIOUS
  <1>. USE DEF BornInv, Born, TypeOK, exec_vars, sub_vars, Notified
  <1>1. ASSUME NEW e \in Executor, RunUntilFuture(e)
        PROVE  BornInv'
    BY <1>1, NoneAssumption DEF RunUntilFuture
  <1>2. ASSUME NEW e \in Executor, Resolve(e)
        PROVE  BornInv'
    BY <1>2, NoneAssumption DEF Resolve
  <1>3. ASSUME NEW e \in Executor, Done(e)
        PROVE  BornInv'
    BY <1>3, NoneAssumption DEF Done
  <1>4. ASSUME NEW e \in Executor, Wait(e)
        PROVE  BornInv'
    BY <1>4, NoneAssumption DEF Wait
  <1>5. ASSUME NEW e \in Executor, Break(e)
        PROVE  BornInv'
    BY <1>5, NoneAssumption DEF Break
  <1>6. ASSUME NEW e \in Executor, PopLeft(e)
        PROVE  BornInv'
    BY <1>6, EmptySeq DEF PopLeft
  <1>7. ASSUME NEW e \in Executor, SkipCancelled(e)
        PROVE  BornInv'
    BY <1>7, NoneAssumption DEF SkipCancelled
  <1>8. ASSUME NEW e \in Executor, Start(e)
        PROVE  BornInv'
    BY <1>8, NoneAssumption DEF Start
  <1>9. ASSUME NEW e \in Executor, Finish(e)
        PROVE  BornInv'
    <2>1. state[work_item[e]] # "NEW"
      BY <1>9 DEF Finish, HoldInv
    <2>. QED
      BY <1>9, <2>1 DEF Finish
  <1>10. ASSUME NEW t \in Thread, Enqueue(t)
         PROVE  BornInv'
    <2>1. state[sub_item[t]] # "NEW"
      BY <1>10 DEF Enqueue, SubmitInv
    <2>2. \A e \in Executor : e # sub_at[t] => work_items'[e] = work_items[e]
      BY <1>10 DEF Enqueue
    <2>3. sub_at[t] \in Born /\ Born' = Born
      BY <1>10 DEF Enqueue
    <2>4. \A e \in Executor : work_items'[e] # <<>> => e \in Born'
      BY <2>2, <2>3
    <2>5. \A i \in Item : state'[i] # "NEW" => target'[i] \in Born'
      BY <1>10, <2>1, <2>3 DEF Enqueue
    <2>. QED
      BY <1>10, <2>3, <2>4, <2>5 DEF Enqueue
  <1>11. ASSUME NEW t \in Thread, WalkUp(t)
         PROVE  BornInv'
    BY <1>11, NoneAssumption DEF WalkUp
  <1>12. ASSUME NEW t \in Thread, RaiseQuit(t)
         PROVE  BornInv'
    <2>1. state[sub_item[t]] # "NEW"
      BY <1>12 DEF RaiseQuit, SubmitInv
    <2>. QED
      BY <1>12, <2>1 DEF RaiseQuit
  <1>13. ASSUME NEW t \in Thread, NEW e \in Executor, NEW old \in Executor \cup {None},
                New(t, e, old)
         PROVE  BornInv'
    BY <1>13, NoneAssumption DEF New
  <1>14. ASSUME NEW t \in Thread, NEW i \in Item, NEW e \in Executor,
                Submit(t, i, e)
         PROVE  BornInv'
    BY <1>14, NoneAssumption DEF Submit
  <1>15. ASSUME NEW t \in Thread, NEW i \in Item, NEW e \in Executor,
                SubmitFromOwnThread(t, i, e)
         PROVE  BornInv'
    BY <1>15, NoneAssumption DEF SubmitFromOwnThread
  <1>16. ASSUME NEW i \in Item, Cancel(i)
         PROVE  BornInv'
    BY <1>16, NoneAssumption DEF Cancel
  <1>17. CASE UNCHANGED vars
    BY <1>17 DEF vars
  <1>. QED
    BY <1>1, <1>2, <1>3, <1>4, <1>5, <1>6, <1>7, <1>8, <1>9, <1>10, <1>11,
       <1>12, <1>13, <1>14, <1>15, <1>16, <1>17 DEF Next, OwnerStep, WalkStep

\* done() is final.
BrokenGrows == \A x \in Executor : broken[x] => broken'[x]

\* No step makes an executor that has quit run again.
LEMMA BrokenNext == TypeOK /\ QueueInv /\ [Next]_vars => BrokenGrows
  <1>. SUFFICES ASSUME TypeOK, QueueInv, [Next]_vars
                PROVE  BrokenGrows
    OBVIOUS
  <1>. USE DEF BrokenGrows, QueueInv, OpenAtFirst, TypeOK, exec_vars
  <1>1. ASSUME NEW e \in Executor, RunUntilFuture(e)
        PROVE  BrokenGrows
    BY <1>1 DEF RunUntilFuture
  <1>2. ASSUME NEW e \in Executor, Resolve(e)
        PROVE  BrokenGrows
    BY <1>2 DEF Resolve
  <1>3. ASSUME NEW e \in Executor, Done(e)
        PROVE  BrokenGrows
    BY <1>3 DEF Done
  <1>4. ASSUME NEW e \in Executor, Wait(e)
        PROVE  BrokenGrows
    BY <1>4 DEF Wait
  <1>5. ASSUME NEW e \in Executor, Break(e)
        PROVE  BrokenGrows
    BY <1>5 DEF Break
  <1>6. ASSUME NEW e \in Executor, PopLeft(e)
        PROVE  BrokenGrows
    BY <1>6 DEF PopLeft
  <1>7. ASSUME NEW e \in Executor, SkipCancelled(e)
        PROVE  BrokenGrows
    BY <1>7 DEF SkipCancelled
  <1>8. ASSUME NEW e \in Executor, Start(e)
        PROVE  BrokenGrows
    BY <1>8 DEF Start
  <1>9. ASSUME NEW e \in Executor, Finish(e)
        PROVE  BrokenGrows
    BY <1>9 DEF Finish
  <1>10. ASSUME NEW t \in Thread, Enqueue(t)
         PROVE  BrokenGrows
    BY <1>10 DEF Enqueue
  <1>11. ASSUME NEW t \in Thread, WalkUp(t)
         PROVE  BrokenGrows
    BY <1>11 DEF WalkUp
  <1>12. ASSUME NEW t \in Thread, RaiseQuit(t)
         PROVE  BrokenGrows
    BY <1>12 DEF RaiseQuit
  <1>13. ASSUME NEW t \in Thread, NEW e \in Executor, NEW old \in Executor \cup {None},
                New(t, e, old)
         PROVE  BrokenGrows
    BY <1>13 DEF New
  <1>14. ASSUME NEW t \in Thread, NEW i \in Item, NEW e \in Executor,
                Submit(t, i, e)
         PROVE  BrokenGrows
    BY <1>14 DEF Submit
  <1>15. ASSUME NEW t \in Thread, NEW i \in Item, NEW e \in Executor,
                SubmitFromOwnThread(t, i, e)
         PROVE  BrokenGrows
    BY <1>15 DEF SubmitFromOwnThread
  <1>16. ASSUME NEW i \in Item, Cancel(i)
         PROVE  BrokenGrows
    BY <1>16 DEF Cancel
  <1>17. CASE UNCHANGED vars
    BY <1>17 DEF vars
  <1>. QED
    BY <1>1, <1>2, <1>3, <1>4, <1>5, <1>6, <1>7, <1>8, <1>9, <1>10, <1>11,
       <1>12, <1>13, <1>14, <1>15, <1>16, <1>17 DEF Next, OwnerStep, WalkStep

\* A constructed executor keeps its chain: New() extends chains at the far end
\* from which nobody has started yet.
LEMMA ChainKept ==
    ASSUME TypeOK, BornInv, [Next]_vars
    PROVE  \A x \in Born : ChainIn(old_executor', x) = ChainIn(old_executor, x)
  <1>1. old_executor \in OldFunction /\ old_executor' \in OldFunction
    BY TypeNext DEF TypeOK, OldFunction
  <1>2. Born \in SUBSET Executor /\ Closed(old_executor, Born)
    BY DEF Born, Closed, BornInv
  <1>3. \A y \in Born : old_executor'[y] = old_executor[y]
    <2>1. CASE \E t \in Thread, e \in Executor, old \in Executor \cup {None} : New(t, e, old)
      BY <2>1 DEF New, Born, TypeOK
    <2>2. CASE UNCHANGED old_executor
      BY <2>2
    <2>. QED
      BY <2>1, <2>2 DEF Next, OwnerStep, WalkStep, vars, exec_vars, RunUntilFuture, Resolve, Done, Wait, Break, PopLeft, SkipCancelled, Start, Finish, Enqueue, WalkUp,
          RaiseQuit, New, Submit, SubmitFromOwnThread, Cancel
  <1>. QED
    BY <1>1, <1>2, <1>3, ChainAgree

\* submit() is called once per item, so its target does not change.
LEMMA TargetKept ==
    ASSUME TypeOK, [Next]_vars, NEW i \in Item, state[i] # "NEW"
    PROVE  target'[i] = target[i]
  <1>1. CASE \E t \in Thread, j \in Item, e \in Executor :
                 Submit(t, j, e) \/ SubmitFromOwnThread(t, j, e)
    BY <1>1 DEF Submit, SubmitFromOwnThread, TypeOK
  <1>2. CASE UNCHANGED target
    BY <1>2
  <1>. QED
    BY <1>1, <1>2 DEF Next, OwnerStep, WalkStep, vars, RunUntilFuture, Resolve, Done, Wait, Break, PopLeft, SkipCancelled, Start, Finish, Enqueue, WalkUp,
          RaiseQuit, New, Submit, SubmitFromOwnThread, Cancel

\* What has been reached stays reached.
LEMMA ReachesKept ==
    ASSUME TypeOK, QueueInv, BornInv, [Next]_vars,
           NEW i \in Item, NEW e \in Born, state[i] # "NEW", Reaches(i, e)
    PROVE  Reaches(i, e)'
  <1>1. target[i] \in Born /\ target'[i] = target[i]
    BY TargetKept DEF BornInv
  <1>2. /\ ChainIn(old_executor', target[i]) = ChainIn(old_executor, target[i])
        /\ ChainIn(old_executor', e) = ChainIn(old_executor, e)
    BY <1>1, ChainKept
  <1>3. \A x \in Executor : broken[x] => broken'[x]
    BY BrokenNext DEF BrokenGrows
  <1>4. ChainIn(old_executor, target[i]) \subseteq Executor
    BY DEF ChainIn
  <1>. QED
    BY <1>1, <1>2, <1>3, <1>4 DEF Reaches, Chain

\* Where an item that is in a slot after a step comes from.
SlotOrigin ==
    \A i \in Item, f \in Executor : \A k \in Slots(f)' :
        At(i, f, k)' =>
            \/ \E l \in Slots(f) : At(i, f, l)
            \/ \E t \in Thread : i = sub_item[t] /\ f = sub_at[t]

\* An item that is in a slot was in that executor before, or a submit() at that
\* executor has just put it there.
LEMMA SlotOriginNext == TypeOK /\ HoldInv /\ [Next]_vars => SlotOrigin
  <1>. SUFFICES ASSUME TypeOK, HoldInv, [Next]_vars
                PROVE  SlotOrigin
    OBVIOUS
  <1>1. ASSUME NEW e \in Executor, RunUntilFuture(e)
        PROVE  SlotOrigin
    BY <1>1 DEF RunUntilFuture, SlotOrigin, Slots, At, exec_vars
  <1>2. ASSUME NEW e \in Executor, Resolve(e)
        PROVE  SlotOrigin
    BY <1>2 DEF Resolve, SlotOrigin, Slots, At, exec_vars
  <1>3. ASSUME NEW e \in Executor, Done(e)
        PROVE  SlotOrigin
    BY <1>3 DEF Done, SlotOrigin, Slots, At, exec_vars
  <1>4. ASSUME NEW e \in Executor, Wait(e)
        PROVE  SlotOrigin
    BY <1>4 DEF Wait, SlotOrigin, Slots, At, exec_vars
  <1>5. ASSUME NEW e \in Executor, Break(e)
        PROVE  SlotOrigin
    BY <1>5 DEF Break, SlotOrigin, Slots, At, exec_vars
  <1>6. ASSUME NEW e \in Executor, PopLeft(e)
        PROVE  SlotOrigin
    <2>. SUFFICES ASSUME NEW i \in Item, NEW f \in Executor, NEW k \in Slots(f)', At(i, f, k)'
                  PROVE  \E l \in Slots(f) : At(i, f, l)
      BY DEF SlotOrigin
    <2>1. CASE f = e
      BY <1>6, <2>1, PopSlots
    <2>2. CASE f # e
      BY <1>6, <2>2, PopSlots
    <2>. QED
      BY <2>1, <2>2
  <1>7. ASSUME NEW e \in Executor, SkipCancelled(e)
        PROVE  SlotOrigin
    <2>1. \A i \in Item, f \in Executor : \A k \in Slots(f)' :
              At(i, f, k)' => k \in Slots(f) /\ At(i, f, k)
      BY <1>7, NoneAssumption DEF SkipCancelled, TypeOK, Slots, At
    <2>. QED
      BY <2>1 DEF SlotOrigin
  <1>8. ASSUME NEW e \in Executor, Start(e)
        PROVE  SlotOrigin
    BY <1>8 DEF Start, SlotOrigin, Slots, At, exec_vars
  <1>9. ASSUME NEW e \in Executor, Finish(e)
        PROVE  SlotOrigin
    <2>1. \A i \in Item, f \in Executor : \A k \in Slots(f)' :
              At(i, f, k)' => k \in Slots(f) /\ At(i, f, k)
      BY <1>9, NoneAssumption DEF Finish, TypeOK, Slots, At
    <2>. QED
      BY <2>1 DEF SlotOrigin
  <1>10. ASSUME NEW t \in Thread, Enqueue(t)
         PROVE  SlotOrigin
    <2>e. PICK d \in Executor, j \in Item, m \in Nat :
              d = sub_at[t] /\ j = sub_item[t] /\ m = Len(work_items[d]) + 1
      BY <1>10, LenProperties DEF Enqueue, TypeOK
    <2>s. Appended(d, j, m)
      BY <1>10, <2>e, AppendSlots
    <2>1. ASSUME NEW i \in Item, NEW f \in Executor, NEW k \in Slots(f)', At(i, f, k)'
          PROVE  (k \in Slots(f) /\ At(i, f, k)) \/ (i = j /\ f = d)
      <3>1. CASE k \in Slots(f)
        BY <2>s, <2>1, <3>1 DEF Appended
      <3>2. CASE k \notin Slots(f)
        BY <2>s, <2>1, <3>2 DEF Appended
      <3>. QED
        BY <3>1, <3>2
    <2>. QED
      BY <2>e, <2>1 DEF SlotOrigin
  <1>11. ASSUME NEW t \in Thread, WalkUp(t)
         PROVE  SlotOrigin
    BY <1>11 DEF WalkUp, SlotOrigin, Slots, At, exec_vars
  <1>12. ASSUME NEW t \in Thread, RaiseQuit(t)
         PROVE  SlotOrigin
    BY <1>12 DEF RaiseQuit, SlotOrigin, Slots, At, exec_vars
  <1>13. ASSUME NEW t \in Thread, NEW e \in Executor, NEW old \in Executor \cup {None},
                New(t, e, old)
         PROVE  SlotOrigin
    BY <1>13 DEF New, SlotOrigin, Slots, At, exec_vars
  <1>14. ASSUME NEW t \in Thread, NEW i \in Item, NEW e \in Executor,
                Submit(t, i, e)
         PROVE  SlotOrigin
    BY <1>14 DEF Submit, SlotOrigin, Slots, At, exec_vars
  <1>15. ASSUME NEW t \in Thread, NEW i \in Item, NEW e \in Executor,
                SubmitFromOwnThread(t, i, e)
         PROVE  SlotOrigin
    BY <1>15 DEF SubmitFromOwnThread, SlotOrigin, Slots, At, exec_vars
  <1>16. ASSUME NEW i \in Item, Cancel(i)
         PROVE  SlotOrigin
    BY <1>16 DEF Cancel, SlotOrigin, Slots, At, exec_vars
  <1>17. CASE UNCHANGED vars
    BY <1>17 DEF vars, SlotOrigin, Slots, At
  <1>. QED
    BY <1>1, <1>2, <1>3, <1>4, <1>5, <1>6, <1>7, <1>8, <1>9, <1>10, <1>11,
       <1>12, <1>13, <1>14, <1>15, <1>16, <1>17 DEF Next, OwnerStep, WalkStep

\* An item stays with the executor that was the closest one still running.
LEMMA ClosestNext ==
    TypeOK /\ QueueInv /\ ItemInv /\ ChainInv /\ [Next]_vars => ClosestRunning'
  <1>. SUFFICES ASSUME TypeOK, QueueInv, ItemInv, ChainInv, [Next]_vars,
                       NEW i \in Item, NEW e \in Executor, NEW k \in Slots(e)',
                       At(i, e, k)'
                PROVE  Reaches(i, e)'
    BY DEF ClosestRunning
  <1>. USE DEF ChainInv, ItemInv
  <1>1. CASE \E l \in Slots(e) : At(i, e, l)
    <2>1. PICK l \in Slots(e) : At(i, e, l)
      BY <1>1
    <2>2. Reaches(i, e)
      BY <2>1 DEF ClosestRunning
    <2>3. state[i] # "NEW"
      BY <2>1, SlotState DEF Held
    <2>4. e \in Born
      <3>1. CASE l = 0
        BY <2>1, <3>1, NoneAssumption DEF At, HoldInv, Born
      <3>2. CASE l # 0
        <4>1. work_items[e] # <<>>
          BY <3>2, EmptySeq DEF Slots
        <4>. QED
          BY <4>1 DEF BornInv
      <3>. QED
        BY <3>1, <3>2
    <2>. QED
      BY <2>2, <2>3, <2>4, ReachesKept
  <1>2. CASE \E t \in Thread : i = sub_item[t] /\ e = sub_at[t]
    <2>1. PICK t \in Thread : i = sub_item[t] /\ e = sub_at[t]
      BY <1>2
    <2>2. sub_item[t] # None /\ sub_at[t] # None
      BY <2>1, NoneAssumption
    <2>3. Reaches(i, e) /\ e \in Born /\ state[i] # "NEW"
      BY <2>1, <2>2 DEF WalkInv, BornInv, SubmitInv
    <2>. QED
      BY <2>3, ReachesKept
  <1>. QED
    BY <1>1, <1>2, SlotOriginNext DEF SlotOrigin

\* A walk passes an executor only when it has quit.
LEMMA WalkNext ==
    TypeOK /\ QueueInv /\ ItemInv /\ ChainInv /\ [Next]_vars => WalkInv'
  <1>. SUFFICES ASSUME TypeOK, QueueInv, ItemInv, ChainInv, [Next]_vars,
                       NEW t \in Thread, sub_item'[t] # None
                PROVE  Reaches(sub_item[t], sub_at[t])'
    BY DEF WalkInv
  <1>. USE DEF ChainInv, ItemInv
  <1>0. old_executor \in OldFunction /\ old_executor' \in OldFunction
    BY TypeNext DEF TypeOK, OldFunction
  <1>1. CASE sub_item'[t] = sub_item[t] /\ sub_at'[t] = sub_at[t]
    <2>1. PICK i \in Item, e \in Born : i = sub_item[t] /\ e = sub_at[t]
      BY <1>1 DEF TypeOK, BornInv
    <2>2. Reaches(i, e) /\ state[i] # "NEW"
      BY <1>1, <2>1 DEF WalkInv, SubmitInv
    <2>3. Reaches(i, e)'
      BY <2>2, ReachesKept
    <2>. QED
      BY <1>1, <2>1, <2>3 DEF Reaches
  <1>2. CASE \E u \in Thread, i \in Item, e \in Executor : Submit(u, i, e)
    <2>1. PICK u \in Thread, i \in Item, e \in Executor : Submit(u, i, e)
      BY <1>2
    <2>2. CASE u = t
      <3>1. sub_item'[t] = i /\ sub_at'[t] = e /\ target'[i] = e
        BY <2>1, <2>2 DEF Submit, TypeOK
      <3>2. e \in ChainIn(old_executor', e)
        BY <1>0, ChainSelf
      <3>. QED
        BY <3>1, <3>2 DEF Reaches, Chain
    <2>3. CASE u # t
      BY <1>1, <2>1, <2>3 DEF Submit, TypeOK
    <2>. QED
      BY <2>2, <2>3
  <1>3. CASE \E u \in Thread : WalkUp(u)
    <2>1. PICK u \in Thread : WalkUp(u)
      BY <1>3
    <2>2. CASE u = t
      <3>1. PICK i \in Item, e \in Executor : i = sub_item[t] /\ e = sub_at[t]
        BY <2>1, <2>2 DEF WalkUp, TypeOK
      <3>2. /\ sub_item'[t] = i
            /\ sub_at'[t] = old_executor[e]
            /\ old_executor[e] # None
            /\ broken[e]
            /\ UNCHANGED <<old_executor, broken, target>>
        BY <2>1, <2>2, <3>1 DEF WalkUp, TypeOK, exec_vars
      <3>3. Reaches(i, e) /\ target[i] \in Executor
        BY <3>1, <3>2, NoneAssumption DEF WalkInv, BornInv, SubmitInv, Born
      <3>4. old_executor[e] \in Chain(target[i])
        BY <1>0, <3>2, <3>3, ChainClosed DEF Reaches, Chain, Closed
      <3>5. \A x \in Chain(target[i]) \ Chain(old_executor[e]) : broken[x]
        BY <1>0, <3>2, <3>3, ChainStep DEF Reaches, Chain
      <3>. QED
        BY <3>2, <3>4, <3>5 DEF Reaches, Chain
    <2>3. CASE u # t
      BY <1>1, <2>1, <2>3 DEF WalkUp, TypeOK
    <2>. QED
      BY <2>2, <2>3
  <1>4. CASE \E u \in Thread : Enqueue(u) \/ RaiseQuit(u)
    <2>1. sub_item'[t] = sub_item[t] /\ sub_at'[t] = sub_at[t]
      BY <1>4 DEF Enqueue, RaiseQuit, TypeOK
    <2>. QED
      BY <1>1, <2>1
  <1>5. CASE UNCHANGED sub_vars
    BY <1>1, <1>5 DEF sub_vars
  <1>. QED
    BY <1>2, <1>3, <1>4, <1>5 DEF Next, OwnerStep, WalkStep, vars, sub_vars,
       RunUntilFuture, Resolve, Done, Wait, Break, PopLeft, SkipCancelled, Start,
       Finish, New, SubmitFromOwnThread, Cancel

\* submit() raises at the end of a chain in which everything has quit.
LEMMA QuitNext ==
    TypeOK /\ QueueInv /\ ItemInv /\ ChainInv /\ [Next]_vars => QuitOnlyIfChainBroken'
  <1>. SUFFICES ASSUME TypeOK, QueueInv, ItemInv, ChainInv, [Next]_vars,
                       NEW i \in Item, state'[i] = "QUIT"
                PROVE  \A x \in Chain(target[i])' : broken'[x]
    BY DEF QuitOnlyIfChainBroken
  <1>. USE DEF ChainInv, ItemInv
  <1>0. old_executor \in OldFunction
    BY DEF TypeOK, OldFunction
  <1>1. CASE state[i] = "QUIT"
    <2>1. target[i] \in Born /\ target'[i] = target[i]
      BY <1>1, TargetKept DEF BornInv
    <2>2. ChainIn(old_executor', target[i]) = ChainIn(old_executor, target[i])
      BY <2>1, ChainKept
    <2>3. \A x \in Executor : broken[x] => broken'[x]
      BY BrokenNext DEF BrokenGrows
    <2>. QED
      BY <1>1, <2>1, <2>2, <2>3 DEF QuitOnlyIfChainBroken, Chain, ChainIn
  <1>2. CASE state[i] # "QUIT"
    <2>1. PICK t \in Thread : RaiseQuit(t) /\ i = sub_item[t]
      <3>1. ASSUME NEW e \in Executor, OwnerStep(e) \/ Resolve(e) \/ Done(e)
            PROVE  FALSE
        BY <1>2, <3>1 DEF OwnerStep, RunUntilFuture, Resolve, Done, Wait, Break,
           PopLeft, SkipCancelled, Start, Finish, TypeOK
      <3>2. ASSUME NEW t \in Thread, Enqueue(t) \/ WalkUp(t)
            PROVE  FALSE
        BY <1>2, <3>2 DEF Enqueue, WalkUp, TypeOK
      <3>3. ASSUME NEW t \in Thread, NEW e \in Executor,
                   \/ \E old \in Executor \cup {None} : New(t, e, old)
                   \/ \E j \in Item : Submit(t, j, e) \/ SubmitFromOwnThread(t, j, e)
            PROVE  FALSE
        BY <1>2, <3>3 DEF New, Submit, SubmitFromOwnThread, TypeOK
      <3>4. ASSUME NEW j \in Item, Cancel(j)
            PROVE  FALSE
        BY <1>2, <3>4 DEF Cancel, TypeOK
      <3>5. ~UNCHANGED vars
        BY <1>2 DEF vars
      <3>6. PICK t \in Thread : RaiseQuit(t)
        BY <3>1, <3>2, <3>3, <3>4, <3>5 DEF Next, WalkStep
      <3>7. i = sub_item[t]
        BY <1>2, <3>6 DEF RaiseQuit, TypeOK
      <3>. QED
        BY <3>6, <3>7
    <2>2. PICK e \in Executor : e = sub_at[t]
      BY <2>1 DEF RaiseQuit, TypeOK
    <2>3. /\ broken[e]
          /\ old_executor[e] = None
          /\ UNCHANGED <<old_executor, broken, target>>
      BY <2>1, <2>2 DEF RaiseQuit, exec_vars
    <2>4. Reaches(i, e)
      BY <2>1, <2>2, NoneAssumption DEF WalkInv, RaiseQuit
    <2>5. Chain(e) \subseteq {e}
      BY <1>0, <2>3, ChainTop DEF Chain
    <2>6. \A x \in Chain(target[i]) : broken[x]
      BY <2>3, <2>4, <2>5 DEF Reaches
    <2>. QED
      BY <2>3, <2>6 DEF Chain
  <1>. QED
    BY <1>1, <1>2

\* The parts of ChainInv together are inductive.
LEMMA ChainNext ==
    TypeOK /\ QueueInv /\ ItemInv /\ ChainInv /\ [Next]_vars => ChainInv'
  BY BornNext, WalkNext, ClosestNext, QuitNext DEF ChainInv, ItemInv

\* The queue invariant holds in every reachable state.
LEMMA QueueInvariant == Spec => []QueueInv
  BY TypeCorrect, QueueInit, QueueNext, PTL DEF Spec

\* The chain invariant holds in every reachable state.
LEMMA ChainInvariant == Spec => []ChainInv
  BY TypeCorrect, QueueInvariant, ItemInvariant, ChainInit, ChainNext, PTL DEF Spec

\* submit() hands an item to the closest executor of the chain that still runs,
\* although executors quit and calls start while it walks.
THEOREM SubmitReachesClosest == Spec => []ClosestRunning
  <1>1. ChainInv => ClosestRunning
    BY DEF ChainInv
  <1>. QED
    BY <1>1, ChainInvariant, PTL

\* submit() raises only when no executor of the chain could have taken the item.
THEOREM QuitIsJustified == Spec => []QuitOnlyIfChainBroken
  <1>1. ChainInv => QuitOnlyIfChainBroken
    BY DEF ChainInv
  <1>. QED
    BY <1>1, ChainInvariant, PTL
=============================================================================
