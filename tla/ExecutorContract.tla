--------------------------- MODULE ExecutorContract ---------------------------
(***************************************************************************)
(* What a stack of CurrentThreadExecutors promises the code that submits   *)
(* to it, without queues, locks, condition variables or walks: an item is  *)
(* accepted by one open executor or refused; an accepted item is run at    *)
(* most once or cancelled before it starts; and an executor that has been  *)
(* told to stop lets its caller go only when it owes nothing any more.     *)
(***************************************************************************)
CONSTANTS Executor, Item, None

VARIABLES
    phase,      \* per executor: "unborn", "open", "stopping" or "gone"
    status,     \* per item: "new", "offered", "accepted", "running",
                \* "cancelled", "settled" or "refused"
    owner       \* the executor that accepted the item, while it owes it

vars == <<phase, status, owner>>

Init ==
    /\ phase = [e \in Executor |-> "unborn"]
    /\ status = [i \in Item |-> "new"]
    /\ owner = [i \in Item |-> None]

Move(f, x, from, to) == f[x] = from /\ f' = [f EXCEPT ![x] = to]

\* The life of an executor.
Open(e) == Move(phase, e, "unborn", "open") /\ UNCHANGED <<status, owner>>
Stop(e) == Move(phase, e, "open", "stopping") /\ UNCHANGED <<status, owner>>
Leave(e) ==
    /\ Move(phase, e, "stopping", "gone")
    /\ \A i \in Item : owner[i] # e
    /\ UNCHANGED <<status, owner>>

\* The life of an item.
Offer(i) == Move(status, i, "new", "offered") /\ UNCHANGED <<phase, owner>>
Accept(i, e) ==
    /\ phase[e] = "open"
    /\ Move(status, i, "offered", "accepted")
    /\ owner' = [owner EXCEPT ![i] = e]
    /\ UNCHANGED phase
Refuse(i) ==
    /\ status[i] \in {"new", "offered"}
    /\ status' = [status EXCEPT ![i] = "refused"]
    /\ UNCHANGED <<phase, owner>>
Run(i) ==
    /\ Move(status, i, "accepted", "running")
    /\ phase[owner[i]] \in {"open", "stopping"}
    /\ UNCHANGED <<phase, owner>>
Cancel(i) == Move(status, i, "accepted", "cancelled") /\ UNCHANGED <<phase, owner>>
Settle(i) ==
    /\ status[i] \in {"running", "cancelled"}
    /\ status' = [status EXCEPT ![i] = "settled"]
    /\ owner' = [owner EXCEPT ![i] = None]
    /\ UNCHANGED phase

Next ==
    \/ \E e \in Executor : Open(e) \/ Stop(e) \/ Leave(e)
    \/ \E i \in Item : \/ Offer(i) \/ Refuse(i) \/ Run(i) \/ Cancel(i) \/ Settle(i)
                       \/ \E e \in Executor : Accept(i, e)

Spec == Init /\ [][Next]_vars
=============================================================================
