----------------------- MODULE ExecutorContractProofs -----------------------
(***************************************************************************)
(* Proof that CurrentThreadExecutor implements ExecutorContract: under the *)
(* mapping of CurrentThreadExecutor, in which an item is owed by the       *)
(* executor that has it in one of its slots, every step of an owner, of a  *)
(* submitter or of a canceller is a step of the contract or changes        *)
(* nothing the contract can see.                                           *)
(***************************************************************************)
EXTENDS CurrentThreadExecutorProofs

\* Executor e has item i in one of its slots.
Has(e, i) == \E k \in Slots(e) : At(i, e, k)

\* The mapping of CurrentThreadExecutor.
PhaseMap  == [e \in Executor |-> Phase(e)]
StatusMap == [i \in Item |-> Status(state[i])]
OwnerMap  == [i \in Item |-> Holder(i)]

-----------------------------------------------------------------------------
(* The holder of an item. *)

\* HeldOnce makes the CHOOSE of Holder the only executor that has the item.
LEMMA HolderIs ==
    ASSUME OneSlot, NEW i \in Item
    PROVE  /\ \A e \in Executor : Has(e, i) => Holder(i) = e
           /\ (\A e \in Executor : ~Has(e, i)) => Holder(i) = None
  BY DEF OneSlot, Holder, Has

\* The holder changes only when an executor gets or loses the item.
LEMMA HolderKept ==
    ASSUME OneSlot, OneSlot', NEW i \in Item,
           \A e \in Executor : Has(e, i)' <=> Has(e, i)
    PROVE  Holder(i)' = Holder(i)
  <1>1. CASE \E e \in Executor : Has(e, i)
    <2>1. PICK e \in Executor : Has(e, i)
      BY <1>1
    <2>2. Holder(i) = e
      BY <2>1, HolderIs
    <2>3. Has(e, i)'
      BY <2>1
    <2>4. Holder(i)' = e
      BY <2>3 DEF OneSlot, Holder, Has
    <2>. QED
      BY <2>2, <2>4
  <1>2. CASE \A e \in Executor : ~Has(e, i)
    BY <1>2 DEF Holder, Has
  <1>. QED
    BY <1>1, <1>2

\* A step that leaves the queues and the loops' work_item alone moves no item.
LEMMA NothingMoved ==
    ASSUME UNCHANGED <<work_items, work_item>>
    PROVE  OwnerMap' = OwnerMap
  BY DEF OwnerMap, Holder, Slots, At

\* Taking an item off the queue moves it within its executor.
LEMMA PopKeepsHolder ==
    ASSUME TypeOK, HoldInv, OneSlot, OneSlot', NEW e \in Executor, PopLeft(e)
    PROVE  OwnerMap' = OwnerMap
  <1>. SUFFICES ASSUME NEW i \in Item, NEW f \in Executor
                PROVE  Has(f, i)' <=> Has(f, i)
    BY HolderKept DEF OwnerMap
  <1>1. CASE f # e
    BY <1>1, PopSlots DEF Has
  <1>2. CASE f = e
    <2>1. ASSUME NEW k \in Slots(e)', At(i, e, k)'
          PROVE  Has(e, i)
      BY <2>1, PopSlots DEF Has
    <2>2. ASSUME NEW k \in Slots(e), At(i, e, k)
          PROVE  Has(e, i)'
      <3>1. k # 0 /\ k \in Nat /\ k - 1 \in Slots(e)'
        BY <2>2, PopSlots
      <3>2. At(i, e, k - 1)' <=> At(i, e, (k - 1) + 1)
        BY <3>1, PopSlots
      <3>3. (k - 1) + 1 = k
        BY <3>1
      <3>. QED
        BY <2>2, <3>1, <3>2, <3>3 DEF Has
    <2>. QED
      BY <1>2, <2>1, <2>2 DEF Has
  <1>. QED
    BY <1>1, <1>2

\* Appending an item makes the executor its holder and moves no other.
LEMMA AppendMakesHolder ==
    ASSUME TypeOK, SubmitInv, HoldInv, OneSlot, OneSlot', NEW t \in Thread, Enqueue(t)
    PROVE  /\ sub_at[t] \in Executor /\ sub_item[t] \in Item
           /\ OwnerMap' = [OwnerMap EXCEPT ![sub_item[t]] = sub_at[t]]
  <1>1. PICK d \in Executor, j \in Item, m \in Nat :
            d = sub_at[t] /\ j = sub_item[t] /\ m = Len(work_items[d]) + 1
    BY LenProperties DEF Enqueue, TypeOK
  <1>2. Appended(d, j, m)
    BY <1>1, AppendSlots
  <1>3. Holder(j)' = d
    <2>1. Has(d, j)'
      BY <1>2 DEF Appended, Has
    <2>. QED
      BY <2>1 DEF OneSlot, Holder, Has
  <1>4. ASSUME NEW i \in Item, i # j
        PROVE  Holder(i)' = Holder(i)
    <2>1. \A f \in Executor : Has(f, i)' <=> Has(f, i)
      BY <1>2, <1>4 DEF Appended, Has
    <2>. QED
      BY <2>1, HolderKept
  <1>. QED
    BY <1>1, <1>3, <1>4 DEF OwnerMap

\* When the loop is done with its work_item nobody holds that item.
LEMMA DropClearsHolder ==
    ASSUME TypeOK, OneSlot, OneSlot', NEW e \in Executor, work_item[e] # None,
           work_item' = [work_item EXCEPT ![e] = None], UNCHANGED work_items
    PROVE  /\ work_item[e] \in Item
           /\ OwnerMap' = [OwnerMap EXCEPT ![work_item[e]] = None]
  <1>1. PICK j \in Item : j = work_item[e]
    BY DEF TypeOK
  <1>2. \A f \in Executor : Slots(f)' = Slots(f) /\ Len(work_items[f]) \in Nat
    BY LenProperties DEF Slots, TypeOK
  <1>3. ASSUME NEW i \in Item, i # j, NEW f \in Executor
        PROVE  Has(f, i)' <=> Has(f, i)
    BY <1>1, <1>2, <1>3, NoneAssumption DEF Has, At, TypeOK
  <1>4. \A f \in Executor : ~Has(f, j)'
    <2>. SUFFICES ASSUME NEW f \in Executor, NEW k \in Slots(f), At(j, f, k)'
                  PROVE  FALSE
      BY <1>2 DEF Has
    <2>1. CASE k = 0
      BY <1>1, <2>1, TakenAlone, NoneAssumption DEF At, TypeOK
    <2>2. CASE k # 0
      <3>1. k \in 1..Len(work_items[f])
        BY <1>2, <2>2 DEF Slots
      <3>. QED
        BY <1>1, <2>2, <3>1, TakenAlone DEF At
    <2>. QED
      BY <2>1, <2>2
  <1>5. Holder(j)' = None
    BY <1>4 DEF Holder, Has
  <1>. QED
    BY <1>1, <1>3, <1>5, HolderKept DEF OwnerMap

-----------------------------------------------------------------------------
(* Each action, seen through the mapping. *)

\* When only e's loop or broken changes, only e's phase does.
LEMMA PhaseMoves ==
    ASSUME NEW e \in Executor, \A f \in Executor \ {e} : Phase(f)' = Phase(f)
    PROVE  PhaseMap' = [PhaseMap EXCEPT ![e] = Phase(e)']
  BY DEF PhaseMap

\* The status of each state of a Future, as Python and as the contract name it.
LEMMA StatusValues ==
    /\ Status("NEW") = "new"
    /\ Status("SUBMITTING") = "offered"
    /\ Status("PENDING") = "accepted"
    /\ Status("RUNNING") = "running"
    /\ Status("CANCELLED") = "cancelled"
    /\ Status("FINISHED") = "settled"
    /\ Status("CANCELLED_AND_NOTIFIED") = "settled"
    /\ Status("OWN_THREAD") = "refused"
    /\ Status("QUIT") = "refused"
  BY DEF Status, Settled

\* Steps the contract does not see.
LEMMA Stutters ==
    ASSUME UNCHANGED <<PhaseMap, StatusMap, OwnerMap>>
    PROVE  UNCHANGED Contract!vars
  BY DEF PhaseMap, StatusMap, OwnerMap, Contract!vars

\* The life of an executor in the contract, in terms of the mapping.
LEMMA ExecutorSteps ==
    ASSUME NEW e \in Executor, UNCHANGED <<StatusMap, OwnerMap>>
    PROVE  /\ PhaseMap[e] = "unborn" /\ PhaseMap' = [PhaseMap EXCEPT ![e] = "open"]
                => Contract!Next
           /\ PhaseMap[e] = "open" /\ PhaseMap' = [PhaseMap EXCEPT ![e] = "stopping"]
                => Contract!Next
           /\ PhaseMap[e] = "stopping" /\ PhaseMap' = [PhaseMap EXCEPT ![e] = "gone"]
                /\ (\A j \in Item : OwnerMap[j] # e)
                => Contract!Next
  BY DEF PhaseMap, StatusMap, OwnerMap, Contract!Next, Contract!Move, Contract!Open,
         Contract!Stop, Contract!Leave

\* The life of an item that stays with its executor, or has none.
LEMMA ItemSteps ==
    ASSUME NEW i \in Item, UNCHANGED <<PhaseMap, OwnerMap>>
    PROVE  /\ StatusMap[i] = "new" /\ StatusMap' = [StatusMap EXCEPT ![i] = "offered"]
                => Contract!Next
           /\ StatusMap[i] \in {"new", "offered"}
                /\ StatusMap' = [StatusMap EXCEPT ![i] = "refused"]
                => Contract!Next
           /\ StatusMap[i] = "accepted" /\ StatusMap' = [StatusMap EXCEPT ![i] = "running"]
                /\ PhaseMap[OwnerMap[i]] \in {"open", "stopping"}
                => Contract!Next
           /\ StatusMap[i] = "accepted" /\ StatusMap' = [StatusMap EXCEPT ![i] = "cancelled"]
                => Contract!Next
  BY DEF PhaseMap, StatusMap, OwnerMap, Contract!Next, Contract!Move, Contract!Offer,
         Contract!Refuse, Contract!Run, Contract!Cancel

\* An item is accepted by an open executor ...
LEMMA AcceptStep ==
    ASSUME NEW i \in Item, NEW e \in Executor, UNCHANGED PhaseMap,
           PhaseMap[e] = "open", StatusMap[i] = "offered",
           StatusMap' = [StatusMap EXCEPT ![i] = "accepted"],
           OwnerMap' = [OwnerMap EXCEPT ![i] = e]
    PROVE  Contract!Next
  BY DEF PhaseMap, StatusMap, OwnerMap, Contract!Next, Contract!Move, Contract!Accept

\* ... and settled when it has run or was cancelled.
LEMMA SettleStep ==
    ASSUME NEW i \in Item, UNCHANGED PhaseMap, StatusMap[i] \in {"running", "cancelled"},
           StatusMap' = [StatusMap EXCEPT ![i] = "settled"],
           OwnerMap' = [OwnerMap EXCEPT ![i] = None]
    PROVE  Contract!Next
  BY DEF PhaseMap, StatusMap, OwnerMap, Contract!Next, Contract!Settle

\* The owner's side of the mapping.
LEMMA OwnerMaps ==
    ASSUME TypeOK, QueueInv, ItemInv, ItemInv', NEW e \in Executor,
           OwnerStep(e) \/ Resolve(e) \/ Done(e)
    PROVE  Contract!Next \/ UNCHANGED Contract!vars
  <1>. USE DEF exec_vars, sub_vars
  <1>t. OneSlot /\ OneSlot' /\ HoldInv /\ HoldInv'
    BY DEF ItemInv
  <1>1. CASE RunUntilFuture(e)
    <2>1. /\ \A f \in Executor \ {e} : Phase(f)' = Phase(f)
          /\ Phase(e) = "open"
          /\ Phase(e)' = IF resolved[e] THEN "stopping" ELSE "open"
      BY <1>1 DEF RunUntilFuture, Phase, TypeOK, QueueInv, OpenAtFirst
    <2>2. UNCHANGED <<StatusMap, OwnerMap>>
      BY <1>1, NothingMoved DEF RunUntilFuture, StatusMap
    <2>3. PhaseMap[e] = "open" /\ PhaseMap' = [PhaseMap EXCEPT ![e] = Phase(e)']
      BY <2>1, PhaseMoves DEF PhaseMap
    <2>4. CASE resolved[e]
      BY <2>1, <2>2, <2>3, <2>4, ExecutorSteps
    <2>5. CASE ~resolved[e]
      <3>1. UNCHANGED PhaseMap
        BY <2>1, <2>5 DEF PhaseMap
      <3>. QED
        BY <2>2, <3>1, Stutters
    <2>. QED
      BY <2>4, <2>5
  <1>2. CASE Resolve(e)
    <2>1. UNCHANGED <<PhaseMap, StatusMap, OwnerMap>>
      BY <1>2, NothingMoved DEF Resolve, PhaseMap, StatusMap, Phase
    <2>. QED
      BY <2>1, Stutters
  <1>3. CASE Done(e)
    <2>1. /\ \A f \in Executor \ {e} : Phase(f)' = Phase(f)
          /\ Phase(e) = "open"
          /\ Phase(e)' = "stopping"
      BY <1>3 DEF Done, Phase, Notified, TypeOK, LoopState, QueueInv, NoStrandedWork
    <2>2. UNCHANGED <<StatusMap, OwnerMap>>
      BY <1>3, NothingMoved DEF Done, StatusMap
    <2>3. PhaseMap[e] = "open" /\ PhaseMap' = [PhaseMap EXCEPT ![e] = Phase(e)']
      BY <2>1, PhaseMoves DEF PhaseMap
    <2>. QED
      BY <2>1, <2>2, <2>3, ExecutorSteps
  <1>4. CASE Wait(e)
    <2>1. UNCHANGED <<PhaseMap, StatusMap, OwnerMap>>
      BY <1>4, NothingMoved DEF Wait, PhaseMap, StatusMap, Phase, TypeOK
    <2>. QED
      BY <2>1, Stutters
  <1>5. CASE Break(e)
    <2>1. /\ \A f \in Executor \ {e} : Phase(f)' = Phase(f)
          /\ Phase(e) = "stopping"
          /\ Phase(e)' = "gone"
      BY <1>5 DEF Break, Phase, TypeOK
    <2>2. UNCHANGED <<StatusMap, OwnerMap>>
      BY <1>5, NothingMoved DEF Break, StatusMap
    <2>3. PhaseMap[e] = "stopping" /\ PhaseMap' = [PhaseMap EXCEPT ![e] = Phase(e)']
      BY <2>1, PhaseMoves DEF PhaseMap
    <2>4. ASSUME NEW j \in Item
          PROVE  OwnerMap[j] # e
      <3>1. work_item[e] = None /\ Slots(e) = {0}
        BY <1>5, <1>t DEF Break, HoldInv, Slots
      <3>2. ~Has(e, j)
        BY <3>1, NoneAssumption DEF Has, At
      <3>. QED
        BY <3>2, NoneAssumption DEF OwnerMap, Holder, Has
    <2>. QED
      BY <2>1, <2>2, <2>3, <2>4, ExecutorSteps
  <1>6. CASE PopLeft(e)
    <2>1. UNCHANGED <<PhaseMap, StatusMap>>
      BY <1>6 DEF PopLeft, PhaseMap, StatusMap, Phase, TypeOK
    <2>2. UNCHANGED OwnerMap
      BY <1>6, <1>t, PopKeepsHolder
    <2>. QED
      BY <2>1, <2>2, Stutters
  <1>7. CASE SkipCancelled(e)
    <2>1. UNCHANGED PhaseMap
      BY <1>7 DEF SkipCancelled, PhaseMap, Phase, TypeOK
    <2>2. work_item[e] \in Item /\ OwnerMap' = [OwnerMap EXCEPT ![work_item[e]] = None]
      <3>1. work_item[e] # None
        BY <1>7, <1>t DEF SkipCancelled, HoldInv
      <3>. QED
        BY <1>7, <1>t, <3>1, DropClearsHolder DEF SkipCancelled
    <2>3. /\ StatusMap[work_item[e]] = "cancelled"
          /\ StatusMap' = [StatusMap EXCEPT ![work_item[e]] = "settled"]
      BY <1>7, <2>2, StatusValues DEF SkipCancelled, StatusMap, TypeOK
    <2>. QED
      BY <2>1, <2>2, <2>3, SettleStep
  <1>8. CASE Start(e)
    <2>1. UNCHANGED PhaseMap
      BY <1>8 DEF Start, PhaseMap, Phase, TypeOK
    <2>2. UNCHANGED OwnerMap
      BY <1>8, NothingMoved DEF Start
    <2>3. PICK j \in Item : j = work_item[e]
      BY <1>8, <1>t DEF Start, HoldInv, TypeOK
    <2>4. StatusMap[j] = "accepted" /\ StatusMap' = [StatusMap EXCEPT ![j] = "running"]
      BY <1>8, <2>3, StatusValues DEF Start, StatusMap, TypeOK
    <2>5. OwnerMap[j] = e
      <3>1. 0 \in Slots(e)
        BY LenProperties DEF Slots, TypeOK
      <3>2. Has(e, j)
        BY <2>3, <3>1 DEF Has, At
      <3>. QED
        BY <1>t, <3>2, HolderIs DEF OwnerMap
    <2>6. PhaseMap[e] \in {"open", "stopping"}
      BY <1>8 DEF Start, PhaseMap, Phase
    <2>. QED
      BY <2>1, <2>2, <2>4, <2>5, <2>6, ItemSteps
  <1>9. CASE Finish(e)
    <2>1. UNCHANGED PhaseMap
      BY <1>9 DEF Finish, PhaseMap, Phase, TypeOK
    <2>2. work_item[e] \in Item /\ OwnerMap' = [OwnerMap EXCEPT ![work_item[e]] = None]
      <3>1. work_item[e] # None
        BY <1>9, <1>t DEF Finish, HoldInv
      <3>. QED
        BY <1>9, <1>t, <3>1, DropClearsHolder DEF Finish
    <2>3. state[work_item[e]] = "RUNNING"
      BY <1>9, <1>t DEF Finish, HoldInv
    <2>4. /\ StatusMap[work_item[e]] = "running"
          /\ StatusMap' = [StatusMap EXCEPT ![work_item[e]] = "settled"]
      BY <1>9, <2>2, <2>3, StatusValues DEF Finish, StatusMap, TypeOK
    <2>. QED
      BY <2>1, <2>2, <2>4, SettleStep
  <1>. QED
    BY <1>1, <1>2, <1>3, <1>4, <1>5, <1>6, <1>7, <1>8, <1>9 DEF OwnerStep

\* The submitter's and the canceller's side.
LEMMA SubmitterMaps ==
    ASSUME TypeOK, QueueInv, ItemInv, ItemInv', BornInv, [Next]_vars,
           ~\E e \in Executor : OwnerStep(e) \/ Resolve(e) \/ Done(e)
    PROVE  Contract!Next \/ UNCHANGED Contract!vars
  <1>. USE DEF exec_vars, sub_vars
  <1>t. OneSlot /\ OneSlot' /\ HoldInv /\ SubmitInv
    BY DEF ItemInv
  <1>1. ASSUME NEW t \in Thread, Enqueue(t)
        PROVE  Contract!Next
    <2>1. PICK e \in Executor, j \in Item : e = sub_at[t] /\ j = sub_item[t]
      BY <1>1, <1>t, AppendMakesHolder
    <2>2. OwnerMap' = [OwnerMap EXCEPT ![j] = e]
      BY <1>1, <1>t, <2>1, AppendMakesHolder
    <2>3. StatusMap[j] = "offered" /\ StatusMap' = [StatusMap EXCEPT ![j] = "accepted"]
      BY <1>1, <1>t, <2>1, NoneAssumption, StatusValues
         DEF Enqueue, SubmitInv, StatusMap, TypeOK
    <2>4. PhaseMap[e] = "open"
      <3>1. loop[e] # "unborn"
        BY <1>1, <2>1 DEF Enqueue, TypeOK, BornInv, Born
      <3>2. ~broken[e] /\ loop[e] # "exit"
        BY <1>1, <2>1 DEF Enqueue, QueueInv, NoStrandedWork
      <3>. QED
        BY <3>1, <3>2 DEF PhaseMap, Phase
    <2>5. UNCHANGED PhaseMap
      BY <1>1 DEF Enqueue, PhaseMap, Phase, Notified, TypeOK
    <2>. QED
      BY <2>2, <2>3, <2>4, <2>5, AcceptStep
  <1>2. ASSUME NEW t \in Thread, WalkUp(t)
        PROVE  UNCHANGED Contract!vars
    <2>1. UNCHANGED <<PhaseMap, StatusMap, OwnerMap>>
      BY <1>2, NothingMoved DEF WalkUp, PhaseMap, StatusMap, Phase
    <2>. QED
      BY <2>1, Stutters
  <1>3. ASSUME NEW t \in Thread, RaiseQuit(t)
        PROVE  Contract!Next
    <2>1. UNCHANGED <<PhaseMap, OwnerMap>>
      BY <1>3, NothingMoved DEF RaiseQuit, PhaseMap, Phase
    <2>2. PICK j \in Item : j = sub_item[t]
      BY <1>3 DEF RaiseQuit, TypeOK
    <2>3. StatusMap[j] = "offered" /\ StatusMap' = [StatusMap EXCEPT ![j] = "refused"]
      BY <1>3, <1>t, <2>2, NoneAssumption, StatusValues
         DEF RaiseQuit, SubmitInv, StatusMap, TypeOK
    <2>. QED
      BY <2>1, <2>3, ItemSteps
  <1>4. ASSUME NEW t \in Thread, NEW e \in Executor, NEW old \in Executor \cup {None},
               New(t, e, old)
        PROVE  Contract!Next
    <2>1. /\ \A f \in Executor \ {e} : Phase(f)' = Phase(f)
          /\ Phase(e) = "unborn"
          /\ Phase(e)' = "open"
      BY <1>4 DEF New, Phase, TypeOK, QueueInv, OpenAtFirst
    <2>2. UNCHANGED <<StatusMap, OwnerMap>>
      BY <1>4, NothingMoved DEF New, StatusMap
    <2>3. PhaseMap[e] = "unborn" /\ PhaseMap' = [PhaseMap EXCEPT ![e] = Phase(e)']
      BY <2>1, PhaseMoves DEF PhaseMap
    <2>. QED
      BY <2>1, <2>2, <2>3, ExecutorSteps
  <1>5. ASSUME NEW t \in Thread, NEW i \in Item, NEW e \in Executor, Submit(t, i, e)
        PROVE  Contract!Next
    <2>1. UNCHANGED <<PhaseMap, OwnerMap>>
      BY <1>5, NothingMoved DEF Submit, PhaseMap, Phase
    <2>2. StatusMap[i] = "new" /\ StatusMap' = [StatusMap EXCEPT ![i] = "offered"]
      BY <1>5, StatusValues DEF Submit, StatusMap, TypeOK
    <2>. QED
      BY <2>1, <2>2, ItemSteps
  <1>6. ASSUME NEW t \in Thread, NEW i \in Item, NEW e \in Executor,
               SubmitFromOwnThread(t, i, e)
        PROVE  Contract!Next
    <2>1. UNCHANGED <<PhaseMap, OwnerMap>>
      BY <1>6, NothingMoved DEF SubmitFromOwnThread, PhaseMap, Phase
    <2>2. StatusMap[i] = "new" /\ StatusMap' = [StatusMap EXCEPT ![i] = "refused"]
      BY <1>6, StatusValues DEF SubmitFromOwnThread, StatusMap, TypeOK
    <2>. QED
      BY <2>1, <2>2, ItemSteps
  <1>7. ASSUME NEW i \in Item, Cancel(i)
        PROVE  Contract!Next
    <2>1. UNCHANGED <<PhaseMap, OwnerMap>>
      BY <1>7, NothingMoved DEF Cancel, PhaseMap, Phase
    <2>2. StatusMap[i] = "accepted" /\ StatusMap' = [StatusMap EXCEPT ![i] = "cancelled"]
      BY <1>7, StatusValues DEF Cancel, StatusMap, TypeOK
    <2>. QED
      BY <2>1, <2>2, ItemSteps
  <1>8. CASE UNCHANGED vars
    <2>1. UNCHANGED <<PhaseMap, StatusMap, OwnerMap>>
      BY <1>8, NothingMoved DEF vars, PhaseMap, StatusMap, Phase
    <2>. QED
      BY <2>1, Stutters
  <1>. QED
    BY <1>1, <1>2, <1>3, <1>4, <1>5, <1>6, <1>7, <1>8 DEF Next, WalkStep

\* Nothing has been made or submitted: the contract is in its initial state.
LEMMA InitMaps == Init => Contract!Init
  <1>. SUFFICES ASSUME Init
                PROVE  Contract!Init
    OBVIOUS
  <1>1. \A i \in Item, e \in Executor : \A k \in Slots(e) : ~At(i, e, k)
    BY NoneAssumption DEF Init, Slots, At
  <1>2. \A i \in Item : Holder(i) = None
    BY <1>1 DEF Holder
  <1>. QED
    BY <1>2, StatusValues DEF Init, Contract!Init, Phase

\* The lock, the condition variable, the queues and the walk of submit() implement
\* the contract, for any number of executors, threads and items: an item is accepted
\* by one executor that is open at that moment or refused, is run at most once and
\* only before that executor has gone, and nobody leaves run_until_future while it
\* still owes an item.
THEOREM ExecutorImplementsContract == Spec => ImplementsContract
  <1>1. ASSUME TypeOK, QueueInv, ItemInv, ItemInv', ChainInv, [Next]_vars
        PROVE  [Contract!Next]_(Contract!vars)
    <2>1. CASE \E e \in Executor : OwnerStep(e) \/ Resolve(e) \/ Done(e)
      BY <1>1, <2>1, OwnerMaps
    <2>2. CASE ~\E e \in Executor : OwnerStep(e) \/ Resolve(e) \/ Done(e)
      BY <1>1, <2>2, SubmitterMaps DEF ChainInv
    <2>. QED
      BY <2>1, <2>2
  <1>. QED
    BY <1>1, InitMaps, TypeCorrect, QueueInvariant, ItemInvariant, ChainInvariant,
       PTL
       DEF Spec, ImplementsContract, Contract!Spec
=============================================================================
