------------------------- MODULE CommunicatorProofs -------------------------
(***************************************************************************)
(* Proofs about ApplicationCommunicator and the timeouts it uses, for any  *)
(* number of calls and of messages.                                        *)
(***************************************************************************)
EXTENDS Communicator, TLAPS

-----------------------------------------------------------------------------
(* The operations of a timeout object. *)

\* A timeout is entered with nothing cancelled yet.
LEMMA EnterFacts ==
    ASSUME NEW d \in Duration
    PROVE  Enter(d) \in TimeoutType /\ ~Enter(d).cancelled
  BY DEF Enter, New, TimeoutType, Duration

\* _do_exit forgets the task and keeps what expired says.
LEMMA ExitFacts ==
    ASSUME NEW t \in TimeoutType
    PROVE  /\ Exit(t) \in TimeoutType
           /\ ~Exit(t).task
           /\ Exit(t).cancelled = t.cancelled
  BY DEF Exit, TimeoutType

\* _cancel_task marks the timeout as expired if it is still inside its task.
LEMMA CancelTaskFacts ==
    ASSUME NEW t \in TimeoutType
    PROVE  /\ CancelTask(t) \in TimeoutType
           /\ CancelTask(t).task = t.task
           /\ t.cancelled \/ t.task <=> CancelTask(t).cancelled
  BY DEF CancelTask, TimeoutType

-----------------------------------------------------------------------------
(* The inductive invariant. *)

\* The size of a queue is bounded by what has been put into it, a getter that was
\* woken finds its message, and a call under way is one that was made.
CountInv ==
    /\ input <= calls
    /\ pc = "get" /\ waiter = "set" => output > 0
    /\ pc # "idle" \/ op # "none" => calls > 0

\* Where the caller is says which call it makes; a call has no result before it ends.
CallInv ==
    /\ pc \in {"get", "reap"} => op = "receive_output"
    /\ pc = "sleep" => op = "receive_nothing"
    /\ pc = "wait" => op = "wait"
    /\ pc # "idle" => result = "none"

\* Who has cancelled the caller: in get() and wait() other code or the timer of the call, in
\* sleep() and while the application is reaped only other code.  A cancellation by
\* other code is not forgotten before the call ends or its timer has expired.
CancelInv ==
    /\ pc = "get" /\ (waiter = "cancelled" \/ must) => outside \/ timer[calls].cancelled
    /\ pc = "sleep" /\ (waiter = "cancelled" \/ must) => outside
    /\ pc = "reap" /\ must => outside
    /\ pc \in {"get", "sleep"} /\ outside => waiter = "cancelled" \/ must
    /\ pc = "reap" => timer[calls].cancelled
    /\ pc = "wait" /\ must => outside \/ timer[calls].cancelled

\* receive_nothing() has heard no message that is not in the queue.
HeardInv == pc = "sleep" /\ heard => output > 0

Inv ==
    /\ TypeOK /\ CountInv /\ CallInv /\ CancelInv /\ HeardInv
    /\ AppEnded /\ NoStrayCancel /\ CancelsTold /\ ErrorNotHidden /\ NothingMeansNothing

-----------------------------------------------------------------------------
(* Types. *)

\* The flags are Booleans.
BoolType ==
    /\ cancelling \in BOOLEAN /\ told \in BOOLEAN /\ must \in BOOLEAN
    /\ late \in BOOLEAN /\ outside \in BOOLEAN /\ heard \in BOOLEAN

\* What is left of TypeOK without the flags and the timers.
PlainType ==
    /\ future \in FutureState
    /\ input \in 0..MaxCalls
    /\ sent \in 0..MaxSent
    /\ output \in 0..sent
    /\ calls \in 0..MaxCalls
    /\ op \in {"none", "send_input", "receive_output", "receive_nothing", "wait",
               "stop", "del"}
    /\ result \in Results
    /\ pc \in {"idle", "get", "reap", "wait", "sleep"}
    /\ waiter \in {"none", "pending", "set", "cancelled"}
    /\ (waiter = "none") = (pc \notin {"get", "sleep"})

\* The timers have their type, and only that of a timed call under way has its task.
TimerType ==
    /\ timer \in [1..MaxCalls -> TimeoutType]
    /\ \A c \in 1..MaxCalls : timer[c].task => c = calls /\ pc \in Timed

\* The parts of the type invariant.
LEMMA TypeSplit == TypeOK <=> BoolType /\ PlainType /\ TimerType
  BY DEF TypeOK, BoolType, PlainType, TimerType

\* A call that begins notes whether a message is there.
LEMMA HeardBool ==
    ASSUME NEW o, Begins(o)
    PROVE  heard' \in BOOLEAN
  BY DEF Begins

\* A flag is only ever set to a truth value.
LEMMA BoolNext ==
    ASSUME BoolType, [Next]_vars
    PROVE  BoolType'
  <1>. USE DEF BoolType, appVars, callVars, Begins, Resumed
  <1>1. ASSUME NEW o \in {"send_input", "receive_output", "receive_nothing"}, CallRaises(o)
        PROVE  BoolType'
    BY <1>1, HeardBool, Zenon DEF CallRaises
  <1>2. ASSUME NEW e \in BOOLEAN, Stop(e)
        PROVE  BoolType'
    BY <1>2, HeardBool, Zenon DEF Stop
  <1>3. ASSUME NEW e \in BOOLEAN, NothingAtOnce(e)
        PROVE  BoolType'
    BY <1>3, HeardBool, Zenon DEF NothingAtOnce
  <1>4. ASSUME NEW d \in Duration, ReceiveAtOnce(d)
        PROVE  BoolType'
    BY <1>4, HeardBool, Zenon DEF ReceiveAtOnce
  <1>5. ASSUME NEW d \in Duration, ReceiveOutput(d)
        PROVE  BoolType'
    BY <1>5, HeardBool, Zenon DEF ReceiveOutput
  <1>6. ASSUME NEW d \in Duration, WaitAtOnce(d)
        PROVE  BoolType'
    BY <1>6, HeardBool, Zenon DEF WaitAtOnce
  <1>7. ASSUME NEW d \in Duration, Wait(d)
        PROVE  BoolType'
    BY <1>7, HeardBool, Zenon DEF Wait
  <1>8. CASE SendInput
    BY <1>8, HeardBool, Zenon DEF SendInput
  <1>9. CASE Del
    BY <1>9, Zenon DEF Del
  <1>10. CASE ReceiveNothing
    BY <1>10, HeardBool, Zenon DEF ReceiveNothing
  <1>11. CASE GetReturns
    BY <1>11, Zenon DEF GetReturns
  <1>12. CASE GetCancelled
    BY <1>12, Zenon DEF GetCancelled, GetRaises
  <1>13. CASE TimesOutEnded
    BY <1>13, Zenon DEF TimesOutEnded, GetRaises
  <1>14. CASE TimesOutRunning
    BY <1>14, Zenon DEF TimesOutRunning, GetRaises
  <1>15. CASE Reaped
    BY <1>15, Zenon DEF Reaped
  <1>16. CASE WaitReturns
    BY <1>16, Zenon DEF WaitReturns
  <1>17. CASE PollReturns
    BY <1>17, Zenon DEF PollReturns
  <1>18. CASE PollAgain
    BY <1>18, Zenon DEF PollAgain
  <1>19. CASE PollCancelled
    BY <1>19, Zenon DEF PollCancelled
  <1>20. ASSUME NEW c \in 1..MaxCalls, Fire(c)
        PROVE  BoolType'
    BY <1>20, Zenon DEF Fire, CancelCaller
  <1>21. CASE OutsideCancel
    BY <1>21, Zenon DEF OutsideCancel, CancelCaller
  <1>22. CASE SleepEnds
    BY <1>22, Zenon DEF SleepEnds
  <1>23. CASE TimeIsUp
    BY <1>23, Zenon DEF TimeIsUp
  <1>24. CASE AppStarts
    BY <1>24, Zenon DEF AppStarts
  <1>25. CASE AppSends
    BY <1>25, Zenon DEF AppSends
  <1>26. CASE AppReceives
    BY <1>26, Zenon DEF AppReceives
  <1>27. CASE AppCatches
    BY <1>27, Zenon DEF AppCatches
  <1>28. CASE AppEnds
    BY <1>28, Zenon DEF AppEnds
  <1>29. CASE UNCHANGED vars
    BY <1>29, Zenon DEF vars
  <1>. QED
    BY <1>1, <1>2, <1>3, <1>4, <1>5, <1>6, <1>7, <1>8, <1>9, <1>10, <1>11, <1>12,
       <1>13, <1>14, <1>15, <1>16, <1>17, <1>18, <1>19, <1>20, <1>21, <1>22, <1>23,
       <1>24, <1>25, <1>26, <1>27, <1>28, <1>29
       DEF Next, CallerStep

\* Every step, of the caller, of the loop or of the application, keeps the types and
\* the counts.
LEMMA PlainNext ==
    ASSUME PlainType, CountInv, [Next]_vars
    PROVE  PlainType' /\ CountInv'
  <1>. USE CommunicatorAssumption
       DEF PlainType, CountInv, FutureState, Ended, Results, appVars, callVars, Begins,
           Ends, Suspends, Resumed, Started, Outcome, Raises
  <1>1. ASSUME NEW o \in {"send_input", "receive_output", "receive_nothing"}, CallRaises(o)
        PROVE  PlainType' /\ CountInv'
    BY <1>1 DEF CallRaises
  <1>2. ASSUME NEW e \in BOOLEAN, Stop(e)
        PROVE  PlainType' /\ CountInv'
    BY <1>2 DEF Stop
  <1>3. ASSUME NEW e \in BOOLEAN, NothingAtOnce(e)
        PROVE  PlainType' /\ CountInv'
    BY <1>3 DEF NothingAtOnce
  <1>4. ASSUME NEW d \in Duration, ReceiveAtOnce(d)
        PROVE  PlainType' /\ CountInv'
    BY <1>4 DEF ReceiveAtOnce
  <1>5. ASSUME NEW d \in Duration, ReceiveOutput(d)
        PROVE  PlainType' /\ CountInv'
    BY <1>5 DEF ReceiveOutput
  <1>6. ASSUME NEW d \in Duration, WaitAtOnce(d)
        PROVE  PlainType' /\ CountInv'
    BY <1>6 DEF WaitAtOnce, Waited
  <1>7. ASSUME NEW d \in Duration, Wait(d)
        PROVE  PlainType' /\ CountInv'
    BY <1>7 DEF Wait
  <1>8. CASE SendInput
    BY <1>8 DEF SendInput
  <1>9. CASE Del
    BY <1>9 DEF Del
  <1>10. CASE ReceiveNothing
    BY <1>10 DEF ReceiveNothing
  <1>11. CASE GetReturns
    BY <1>11 DEF GetReturns
  <1>12. CASE GetCancelled
    BY <1>12 DEF GetCancelled, GetRaises
  <1>13. CASE TimesOutEnded
    BY <1>13 DEF TimesOutEnded, GetRaises
  <1>14. CASE TimesOutRunning
    BY <1>14 DEF TimesOutRunning, GetRaises
  <1>15. CASE Reaped
    BY <1>15 DEF Reaped
  <1>16. CASE WaitReturns
    BY <1>16 DEF WaitReturns, Waited
  <1>17. CASE PollReturns
    BY <1>17 DEF PollReturns, NothingSeen
  <1>18. CASE PollAgain
    BY <1>18 DEF PollAgain
  <1>19. CASE PollCancelled
    BY <1>19 DEF PollCancelled
  <1>20. ASSUME NEW c \in 1..MaxCalls, Fire(c)
        PROVE  PlainType' /\ CountInv'
    BY <1>20 DEF Fire, CancelCaller
  <1>21. CASE OutsideCancel
    BY <1>21 DEF OutsideCancel, CancelCaller
  <1>22. CASE SleepEnds
    BY <1>22 DEF SleepEnds
  <1>23. CASE TimeIsUp
    BY <1>23 DEF TimeIsUp
  <1>24. CASE AppStarts
    BY <1>24 DEF AppStarts
  <1>25. CASE AppSends
    BY <1>25 DEF AppSends
  <1>26. CASE AppReceives
    BY <1>26 DEF AppReceives
  <1>27. CASE AppCatches
    BY <1>27 DEF AppCatches
  <1>28. CASE AppEnds
    BY <1>28 DEF AppEnds
  <1>29. CASE UNCHANGED vars
    BY <1>29 DEF vars
  <1>. QED
    BY <1>1, <1>2, <1>3, <1>4, <1>5, <1>6, <1>7, <1>8, <1>9, <1>10, <1>11, <1>12,
       <1>13, <1>14, <1>15, <1>16, <1>17, <1>18, <1>19, <1>20, <1>21, <1>22, <1>23,
       <1>24, <1>25, <1>26, <1>27, <1>28, <1>29
       DEF Next, CallerStep

\* A timer is entered by the call that becomes the current one and left by it.
LEMMA TimerNext ==
    ASSUME PlainType, CountInv, TimerType, [Next]_vars
    PROVE  TimerType'
  <1>. USE CommunicatorAssumption
       DEF PlainType, CountInv, TimerType, Timed, appVars, callVars, Begins, Ends,
           Suspends, Resumed, Entered, Left
  <1>1. ASSUME NEW o \in {"send_input", "receive_output", "receive_nothing"}, CallRaises(o)
        PROVE  TimerType'
    BY <1>1 DEF CallRaises
  <1>2. ASSUME NEW e \in BOOLEAN, Stop(e)
        PROVE  TimerType'
    BY <1>2 DEF Stop
  <1>3. ASSUME NEW e \in BOOLEAN, NothingAtOnce(e)
        PROVE  TimerType'
    BY <1>3 DEF NothingAtOnce
  <1>4. ASSUME NEW d \in Duration, ReceiveAtOnce(d)
        PROVE  TimerType'
    BY <1>4, EnterFacts, ExitFacts DEF ReceiveAtOnce
  <1>5. ASSUME NEW d \in Duration, ReceiveOutput(d)
        PROVE  TimerType'
    BY <1>5, EnterFacts DEF ReceiveOutput
  <1>6. ASSUME NEW d \in Duration, WaitAtOnce(d)
        PROVE  TimerType'
    BY <1>6, EnterFacts, ExitFacts DEF WaitAtOnce, Waited
  <1>7. ASSUME NEW d \in Duration, Wait(d)
        PROVE  TimerType'
    BY <1>7, EnterFacts DEF Wait
  <1>8. CASE SendInput
    BY <1>8 DEF SendInput
  <1>9. CASE Del
    BY <1>9 DEF Del
  <1>10. CASE ReceiveNothing
    BY <1>10 DEF ReceiveNothing
  <1>11. CASE GetReturns
    BY <1>11, ExitFacts DEF GetReturns
  <1>12. CASE GetCancelled
    BY <1>12, ExitFacts DEF GetCancelled, GetRaises
  <1>13. CASE TimesOutEnded
    BY <1>13, ExitFacts DEF TimesOutEnded, GetRaises
  <1>14. CASE TimesOutRunning
    BY <1>14, ExitFacts DEF TimesOutRunning, GetRaises
  <1>15. CASE Reaped
    BY <1>15 DEF Reaped
  <1>16. CASE WaitReturns
    BY <1>16, ExitFacts DEF WaitReturns, Waited
  <1>17. CASE PollReturns
    BY <1>17 DEF PollReturns, NothingSeen
  <1>18. CASE PollAgain
    BY <1>18 DEF PollAgain
  <1>19. CASE PollCancelled
    BY <1>19 DEF PollCancelled
  <1>20. ASSUME NEW c \in 1..MaxCalls, Fire(c)
        PROVE  TimerType'
    BY <1>20, CancelTaskFacts DEF Fire
  <1>21. CASE OutsideCancel
    BY <1>21 DEF OutsideCancel
  <1>22. CASE SleepEnds
    BY <1>22 DEF SleepEnds
  <1>23. CASE TimeIsUp
    BY <1>23 DEF TimeIsUp
  <1>24. CASE AppStarts
    BY <1>24 DEF AppStarts
  <1>25. CASE AppSends
    BY <1>25 DEF AppSends
  <1>26. CASE AppReceives
    BY <1>26 DEF AppReceives
  <1>27. CASE AppCatches
    BY <1>27 DEF AppCatches
  <1>28. CASE AppEnds
    BY <1>28 DEF AppEnds
  <1>29. CASE UNCHANGED vars
    BY <1>29 DEF vars
  <1>. QED
    BY <1>1, <1>2, <1>3, <1>4, <1>5, <1>6, <1>7, <1>8, <1>9, <1>10, <1>11, <1>12,
       <1>13, <1>14, <1>15, <1>16, <1>17, <1>18, <1>19, <1>20, <1>21, <1>22, <1>23,
       <1>24, <1>25, <1>26, <1>27, <1>28, <1>29
       DEF Next, CallerStep

\* Types and counts are preserved together.
LEMMA TypeNext == TypeOK /\ CountInv /\ [Next]_vars => TypeOK' /\ CountInv'
  <1>1. TypeOK' <=> BoolType' /\ PlainType' /\ TimerType'
    BY TypeSplit DEF TypeOK, BoolType, PlainType, TimerType
  <1>. QED
    BY <1>1, TypeSplit, BoolNext, PlainNext, TimerNext

\* Nothing has been called.
LEMMA InitType == Init => TypeOK /\ CountInv
  <1>. SUFFICES ASSUME Init
                PROVE  TypeOK /\ CountInv
    OBVIOUS
  <1>1. BoolType
    BY Zenon DEF Init, BoolType
  <1>2. PlainType /\ CountInv
    BY CommunicatorAssumption
       DEF Init, PlainType, CountInv, FutureState, Results
  <1>3. TimerType
    BY CommunicatorAssumption DEF Init, TimerType, TimeoutType, New, Duration
  <1>. QED
    BY <1>1, <1>2, <1>3, TypeSplit

-----------------------------------------------------------------------------
(* Calls and their results. *)

\* The caller's position, its call and its result stay in agreement.
LEMMA CallNext ==
    ASSUME PlainType, CallInv, [Next]_vars
    PROVE  CallInv'
  <1>. USE DEF PlainType, CallInv, callVars, Begins, Ends, Suspends, Resumed
  <1>1. ASSUME NEW o \in {"send_input", "receive_output", "receive_nothing"}, CallRaises(o)
        PROVE  CallInv'
    BY <1>1 DEF CallRaises
  <1>2. ASSUME NEW e \in BOOLEAN, Stop(e)
        PROVE  CallInv'
    BY <1>2 DEF Stop
  <1>3. ASSUME NEW e \in BOOLEAN, NothingAtOnce(e)
        PROVE  CallInv'
    BY <1>3 DEF NothingAtOnce
  <1>4. ASSUME NEW d \in Duration, ReceiveAtOnce(d)
        PROVE  CallInv'
    BY <1>4 DEF ReceiveAtOnce
  <1>5. ASSUME NEW d \in Duration, ReceiveOutput(d)
        PROVE  CallInv'
    BY <1>5 DEF ReceiveOutput
  <1>6. ASSUME NEW d \in Duration, WaitAtOnce(d)
        PROVE  CallInv'
    BY <1>6 DEF WaitAtOnce, Waited
  <1>7. ASSUME NEW d \in Duration, Wait(d)
        PROVE  CallInv'
    BY <1>7 DEF Wait
  <1>8. CASE SendInput
    BY <1>8 DEF SendInput
  <1>9. CASE Del
    BY <1>9 DEF Del
  <1>10. CASE ReceiveNothing
    BY <1>10 DEF ReceiveNothing
  <1>11. CASE GetReturns
    BY <1>11 DEF GetReturns
  <1>12. CASE GetCancelled
    BY <1>12 DEF GetCancelled, GetRaises
  <1>13. CASE TimesOutEnded
    BY <1>13 DEF TimesOutEnded, GetRaises
  <1>14. CASE TimesOutRunning
    BY <1>14 DEF TimesOutRunning, GetRaises
  <1>15. CASE Reaped
    BY <1>15 DEF Reaped
  <1>16. CASE WaitReturns
    BY <1>16 DEF WaitReturns, Waited
  <1>17. CASE PollReturns
    BY <1>17 DEF PollReturns, NothingSeen
  <1>18. CASE PollAgain
    BY <1>18 DEF PollAgain
  <1>19. CASE PollCancelled
    BY <1>19 DEF PollCancelled
  <1>20. ASSUME NEW c \in 1..MaxCalls, Fire(c)
        PROVE  CallInv'
    BY <1>20 DEF Fire, CancelCaller
  <1>21. CASE OutsideCancel
    BY <1>21 DEF OutsideCancel, CancelCaller
  <1>22. CASE SleepEnds
    BY <1>22 DEF SleepEnds
  <1>23. CASE TimeIsUp
    BY <1>23 DEF TimeIsUp
  <1>24. CASE AppStarts
    BY <1>24 DEF AppStarts
  <1>25. CASE AppSends
    BY <1>25 DEF AppSends
  <1>26. CASE AppReceives
    BY <1>26 DEF AppReceives
  <1>27. CASE AppCatches
    BY <1>27 DEF AppCatches
  <1>28. CASE AppEnds
    BY <1>28 DEF AppEnds
  <1>29. CASE UNCHANGED vars
    BY <1>29 DEF vars
  <1>. QED
    BY <1>1, <1>2, <1>3, <1>4, <1>5, <1>6, <1>7, <1>8, <1>9, <1>10, <1>11, <1>12,
       <1>13, <1>14, <1>15, <1>16, <1>17, <1>18, <1>19, <1>20, <1>21, <1>22, <1>23,
       <1>24, <1>25, <1>26, <1>27, <1>28, <1>29
       DEF Next, CallerStep

\* The application, once it has ended, stays so, and the calls that promise its end
\* return only after it.
LEMMA AppEndedNext ==
    ASSUME PlainType, CallInv, AppEnded, [Next]_vars
    PROVE  AppEnded'
  <1>. USE DEF PlainType, CallInv, AppEnded, Ended, FutureState, appVars, callVars, Begins,
               Ends, Suspends, Resumed, Started, Outcome, Raises
  <1>1. ASSUME NEW o \in {"send_input", "receive_output", "receive_nothing"}, CallRaises(o)
        PROVE  AppEnded'
    BY <1>1 DEF CallRaises
  <1>2. ASSUME NEW e \in BOOLEAN, Stop(e)
        PROVE  AppEnded'
    BY <1>2 DEF Stop
  <1>3. ASSUME NEW e \in BOOLEAN, NothingAtOnce(e)
        PROVE  AppEnded'
    BY <1>3 DEF NothingAtOnce
  <1>4. ASSUME NEW d \in Duration, ReceiveAtOnce(d)
        PROVE  AppEnded'
    BY <1>4 DEF ReceiveAtOnce
  <1>5. ASSUME NEW d \in Duration, ReceiveOutput(d)
        PROVE  AppEnded'
    BY <1>5 DEF ReceiveOutput
  <1>6. ASSUME NEW d \in Duration, WaitAtOnce(d)
        PROVE  AppEnded'
    BY <1>6 DEF WaitAtOnce, Waited
  <1>7. ASSUME NEW d \in Duration, Wait(d)
        PROVE  AppEnded'
    BY <1>7 DEF Wait
  <1>8. CASE SendInput
    BY <1>8 DEF SendInput
  <1>9. CASE Del
    BY <1>9 DEF Del
  <1>10. CASE ReceiveNothing
    BY <1>10 DEF ReceiveNothing
  <1>11. CASE GetReturns
    BY <1>11 DEF GetReturns
  <1>12. CASE GetCancelled
    BY <1>12 DEF GetCancelled, GetRaises
  <1>13. CASE TimesOutEnded
    BY <1>13 DEF TimesOutEnded, GetRaises
  <1>14. CASE TimesOutRunning
    BY <1>14 DEF TimesOutRunning, GetRaises
  <1>15. CASE Reaped
    BY <1>15 DEF Reaped
  <1>16. CASE WaitReturns
    BY <1>16 DEF WaitReturns, Waited
  <1>17. CASE PollReturns
    BY <1>17 DEF PollReturns, NothingSeen
  <1>18. CASE PollAgain
    BY <1>18 DEF PollAgain
  <1>19. CASE PollCancelled
    BY <1>19 DEF PollCancelled
  <1>20. ASSUME NEW c \in 1..MaxCalls, Fire(c)
        PROVE  AppEnded'
    BY <1>20 DEF Fire, CancelCaller
  <1>21. CASE OutsideCancel
    BY <1>21 DEF OutsideCancel, CancelCaller
  <1>22. CASE SleepEnds
    BY <1>22 DEF SleepEnds
  <1>23. CASE TimeIsUp
    BY <1>23 DEF TimeIsUp
  <1>24. CASE AppStarts
    BY <1>24 DEF AppStarts
  <1>25. CASE AppSends
    BY <1>25 DEF AppSends
  <1>26. CASE AppReceives
    BY <1>26 DEF AppReceives
  <1>27. CASE AppCatches
    BY <1>27 DEF AppCatches
  <1>28. CASE AppEnds
    BY <1>28 DEF AppEnds
  <1>29. CASE UNCHANGED vars
    BY <1>29 DEF vars
  <1>. QED
    BY <1>1, <1>2, <1>3, <1>4, <1>5, <1>6, <1>7, <1>8, <1>9, <1>10, <1>11, <1>12,
       <1>13, <1>14, <1>15, <1>16, <1>17, <1>18, <1>19, <1>20, <1>21, <1>22, <1>23,
       <1>24, <1>25, <1>26, <1>27, <1>28, <1>29
       DEF Next, CallerStep

\* The application's exception is what receive_output() raises, unless the caller was
\* cancelled by other code.
LEMMA ErrorNext ==
    ASSUME PlainType, CallInv, CancelInv, AppEnded, TimeoutHidesNoError, [Next]_vars
    PROVE  TimeoutHidesNoError'
  <1>. USE DEF PlainType, CallInv, CancelInv, AppEnded, TimeoutHidesNoError, Ended, FutureState,
               appVars, callVars, Begins, Ends, Suspends, Resumed, Started, Outcome, Raises
  <1>1. ASSUME NEW o \in {"send_input", "receive_output", "receive_nothing"}, CallRaises(o)
        PROVE  TimeoutHidesNoError'
    BY <1>1 DEF CallRaises
  <1>2. ASSUME NEW e \in BOOLEAN, Stop(e)
        PROVE  TimeoutHidesNoError'
    BY <1>2 DEF Stop
  <1>3. ASSUME NEW e \in BOOLEAN, NothingAtOnce(e)
        PROVE  TimeoutHidesNoError'
    BY <1>3 DEF NothingAtOnce
  <1>4. ASSUME NEW d \in Duration, ReceiveAtOnce(d)
        PROVE  TimeoutHidesNoError'
    BY <1>4 DEF ReceiveAtOnce
  <1>5. ASSUME NEW d \in Duration, ReceiveOutput(d)
        PROVE  TimeoutHidesNoError'
    BY <1>5 DEF ReceiveOutput
  <1>6. ASSUME NEW d \in Duration, WaitAtOnce(d)
        PROVE  TimeoutHidesNoError'
    BY <1>6 DEF WaitAtOnce, Waited
  <1>7. ASSUME NEW d \in Duration, Wait(d)
        PROVE  TimeoutHidesNoError'
    BY <1>7 DEF Wait
  <1>8. CASE SendInput
    BY <1>8 DEF SendInput
  <1>9. CASE Del
    BY <1>9 DEF Del
  <1>10. CASE ReceiveNothing
    BY <1>10 DEF ReceiveNothing
  <1>11. CASE GetReturns
    BY <1>11 DEF GetReturns
  <1>12. CASE GetCancelled
    BY <1>12 DEF GetCancelled, GetRaises
  <1>13. CASE TimesOutEnded
    BY <1>13 DEF TimesOutEnded, GetRaises
  <1>14. CASE TimesOutRunning
    BY <1>14 DEF TimesOutRunning, GetRaises
  <1>15. CASE Reaped
    BY <1>15 DEF Reaped
  <1>16. CASE WaitReturns
    BY <1>16 DEF WaitReturns, Waited
  <1>17. CASE PollReturns
    BY <1>17 DEF PollReturns, NothingSeen
  <1>18. CASE PollAgain
    BY <1>18 DEF PollAgain
  <1>19. CASE PollCancelled
    BY <1>19 DEF PollCancelled
  <1>20. ASSUME NEW c \in 1..MaxCalls, Fire(c)
        PROVE  TimeoutHidesNoError'
    BY <1>20 DEF Fire, CancelCaller
  <1>21. CASE OutsideCancel
    BY <1>21 DEF OutsideCancel, CancelCaller
  <1>22. CASE SleepEnds
    BY <1>22 DEF SleepEnds
  <1>23. CASE TimeIsUp
    BY <1>23 DEF TimeIsUp
  <1>24. CASE AppStarts
    BY <1>24 DEF AppStarts
  <1>25. CASE AppSends
    BY <1>25 DEF AppSends
  <1>26. CASE AppReceives
    BY <1>26 DEF AppReceives
  <1>27. CASE AppCatches
    BY <1>27 DEF AppCatches
  <1>28. CASE AppEnds
    BY <1>28 DEF AppEnds
  <1>29. CASE UNCHANGED vars
    BY <1>29 DEF vars
  <1>. QED
    BY <1>1, <1>2, <1>3, <1>4, <1>5, <1>6, <1>7, <1>8, <1>9, <1>10, <1>11, <1>12,
       <1>13, <1>14, <1>15, <1>16, <1>17, <1>18, <1>19, <1>20, <1>21, <1>22, <1>23,
       <1>24, <1>25, <1>26, <1>27, <1>28, <1>29
       DEF Next, CallerStep

\* While receive_nothing() sleeps nobody takes a message out of the queue.
LEMMA NothingNext ==
    ASSUME PlainType, CallInv, HeardInv, NothingMeansNothing, [Next]_vars
    PROVE  HeardInv' /\ NothingMeansNothing'
  <1>. USE DEF PlainType, CallInv, HeardInv, NothingMeansNothing, appVars, callVars, Begins,
               Ends, Suspends, Resumed, Outcome, Raises, Ended, FutureState
  <1>1. ASSUME NEW o \in {"send_input", "receive_output", "receive_nothing"}, CallRaises(o)
        PROVE  HeardInv' /\ NothingMeansNothing'
    BY <1>1 DEF CallRaises
  <1>2. ASSUME NEW e \in BOOLEAN, Stop(e)
        PROVE  HeardInv' /\ NothingMeansNothing'
    BY <1>2 DEF Stop
  <1>3. ASSUME NEW e \in BOOLEAN, NothingAtOnce(e)
        PROVE  HeardInv' /\ NothingMeansNothing'
    BY <1>3 DEF NothingAtOnce
  <1>4. ASSUME NEW d \in Duration, ReceiveAtOnce(d)
        PROVE  HeardInv' /\ NothingMeansNothing'
    BY <1>4 DEF ReceiveAtOnce
  <1>5. ASSUME NEW d \in Duration, ReceiveOutput(d)
        PROVE  HeardInv' /\ NothingMeansNothing'
    BY <1>5 DEF ReceiveOutput
  <1>6. ASSUME NEW d \in Duration, WaitAtOnce(d)
        PROVE  HeardInv' /\ NothingMeansNothing'
    BY <1>6 DEF WaitAtOnce, Waited
  <1>7. ASSUME NEW d \in Duration, Wait(d)
        PROVE  HeardInv' /\ NothingMeansNothing'
    BY <1>7 DEF Wait
  <1>8. CASE SendInput
    BY <1>8 DEF SendInput
  <1>9. CASE Del
    BY <1>9 DEF Del
  <1>10. CASE ReceiveNothing
    BY <1>10 DEF ReceiveNothing
  <1>11. CASE GetReturns
    BY <1>11 DEF GetReturns
  <1>12. CASE GetCancelled
    BY <1>12 DEF GetCancelled, GetRaises
  <1>13. CASE TimesOutEnded
    BY <1>13 DEF TimesOutEnded, GetRaises
  <1>14. CASE TimesOutRunning
    BY <1>14 DEF TimesOutRunning, GetRaises
  <1>15. CASE Reaped
    BY <1>15 DEF Reaped
  <1>16. CASE WaitReturns
    BY <1>16 DEF WaitReturns, Waited
  <1>17. CASE PollReturns
    BY <1>17 DEF PollReturns, NothingSeen
  <1>18. CASE PollAgain
    BY <1>18 DEF PollAgain
  <1>19. CASE PollCancelled
    BY <1>19 DEF PollCancelled
  <1>20. ASSUME NEW c \in 1..MaxCalls, Fire(c)
        PROVE  HeardInv' /\ NothingMeansNothing'
    BY <1>20 DEF Fire, CancelCaller
  <1>21. CASE OutsideCancel
    BY <1>21 DEF OutsideCancel, CancelCaller
  <1>22. CASE SleepEnds
    BY <1>22 DEF SleepEnds
  <1>23. CASE TimeIsUp
    BY <1>23 DEF TimeIsUp
  <1>24. CASE AppStarts
    BY <1>24 DEF AppStarts
  <1>25. CASE AppSends
    <2>1. HeardInv'
      BY <1>25 DEF AppSends
    <2>2. pc = "idle" /\ heard' => heard
      BY <1>25, Zenon DEF AppSends
    <2>3. NothingMeansNothing'
      BY <1>25, <2>2 DEF AppSends
    <2>. QED
      BY <2>1, <2>3
  <1>26. CASE AppReceives
    BY <1>26 DEF AppReceives
  <1>27. CASE AppCatches
    BY <1>27 DEF AppCatches
  <1>28. CASE AppEnds
    BY <1>28 DEF AppEnds
  <1>29. CASE UNCHANGED vars
    BY <1>29 DEF vars
  <1>. QED
    BY <1>1, <1>2, <1>3, <1>4, <1>5, <1>6, <1>7, <1>8, <1>9, <1>10, <1>11, <1>12,
       <1>13, <1>14, <1>15, <1>16, <1>17, <1>18, <1>19, <1>20, <1>21, <1>22, <1>23,
       <1>24, <1>25, <1>26, <1>27, <1>28, <1>29
       DEF Next, CallerStep

-----------------------------------------------------------------------------
(* Cancellation. *)

\* Task.cancel of the caller reaches what it awaits, or stays with it; it is not
\* refused and hits nobody else.
LEMMA CancelNext ==
    ASSUME PlainType, BoolType, CountInv, TimerType, CallInv, CancelInv, NoStrayCancel,
           [Next]_vars
    PROVE  CancelInv' /\ NoStrayCancel'
  <1>. USE CommunicatorAssumption
       DEF PlainType, CountInv, TimerType, Timed, CallInv, CancelInv, NoStrayCancel,
           appVars, callVars, Begins, Ends, Suspends, Resumed, Entered, Left, TimesOut
  <1>1. ASSUME NEW o \in {"send_input", "receive_output", "receive_nothing"}, CallRaises(o)
        PROVE  CancelInv' /\ NoStrayCancel'
    BY <1>1 DEF CallRaises
  <1>2. ASSUME NEW e \in BOOLEAN, Stop(e)
        PROVE  CancelInv' /\ NoStrayCancel'
    BY <1>2 DEF Stop
  <1>3. ASSUME NEW e \in BOOLEAN, NothingAtOnce(e)
        PROVE  CancelInv' /\ NoStrayCancel'
    BY <1>3 DEF NothingAtOnce
  <1>4. ASSUME NEW d \in Duration, ReceiveAtOnce(d)
        PROVE  CancelInv' /\ NoStrayCancel'
    BY <1>4, EnterFacts, ExitFacts DEF ReceiveAtOnce
  <1>5. ASSUME NEW d \in Duration, ReceiveOutput(d)
        PROVE  CancelInv' /\ NoStrayCancel'
    BY <1>5, EnterFacts DEF ReceiveOutput
  <1>6. ASSUME NEW d \in Duration, WaitAtOnce(d)
        PROVE  CancelInv' /\ NoStrayCancel'
    BY <1>6, EnterFacts, ExitFacts DEF WaitAtOnce, Waited
  <1>7. ASSUME NEW d \in Duration, Wait(d)
        PROVE  CancelInv' /\ NoStrayCancel'
    BY <1>7, EnterFacts DEF Wait
  <1>8. CASE SendInput
    BY <1>8 DEF SendInput
  <1>9. CASE Del
    BY <1>9 DEF Del
  <1>10. CASE ReceiveNothing
    BY <1>10 DEF ReceiveNothing
  <1>11. CASE GetReturns
    BY <1>11, ExitFacts DEF GetReturns
  <1>12. CASE GetCancelled
    BY <1>12, ExitFacts DEF GetCancelled, GetRaises
  <1>13. CASE TimesOutEnded
    BY <1>13, ExitFacts DEF TimesOutEnded, GetRaises
  <1>14. CASE TimesOutRunning
    BY <1>14, ExitFacts DEF TimesOutRunning, GetRaises
  <1>15. CASE Reaped
    BY <1>15 DEF Reaped
  <1>16. CASE WaitReturns
    BY <1>16, ExitFacts DEF WaitReturns, Waited
  <1>17. CASE PollReturns
    BY <1>17 DEF PollReturns, NothingSeen
  <1>18. CASE PollAgain
    BY <1>18 DEF PollAgain
  <1>19. CASE PollCancelled
    BY <1>19 DEF PollCancelled
  <1>20. ASSUME NEW c \in 1..MaxCalls, Fire(c)
        PROVE  CancelInv' /\ NoStrayCancel'
    <2>1. UNCHANGED <<pc, calls, outside>>
      BY <1>20 DEF Fire
    <2>2. /\ pc # "idle" /\ timer[calls].cancelled => timer'[calls].cancelled
          /\ timer[c].task => c = calls /\ pc \in Timed /\ timer'[calls].cancelled
      BY <1>20, CancelTaskFacts DEF Fire
    <2>3. CASE timer[c].task
      <3>1. must => must'
        BY <1>20, <2>3, Zenon DEF Fire, CancelCaller
      <3>2. waiter = "cancelled" => waiter' = "cancelled"
        BY <1>20, <2>3 DEF Fire, CancelCaller
      <3>. QED
        BY <2>1, <2>2, <2>3, <3>1, <3>2
    <2>4. CASE ~timer[c].task
      <3>1. UNCHANGED <<waiter, must>>
        BY <1>20, <2>4 DEF Fire
      <3>. QED
        BY <2>1, <2>2, <3>1
    <2>. QED
      BY <2>3, <2>4
  <1>21. CASE OutsideCancel
    BY <1>21 DEF OutsideCancel, CancelCaller
  <1>22. CASE SleepEnds
    BY <1>22 DEF SleepEnds
  <1>23. CASE TimeIsUp
    BY <1>23 DEF TimeIsUp
  <1>24. CASE AppStarts
    BY <1>24 DEF AppStarts
  <1>25. CASE AppSends
    BY <1>25 DEF AppSends
  <1>26. CASE AppReceives
    BY <1>26 DEF AppReceives
  <1>27. CASE AppCatches
    BY <1>27 DEF AppCatches
  <1>28. CASE AppEnds
    BY <1>28 DEF AppEnds
  <1>29. CASE UNCHANGED vars
    BY <1>29 DEF vars
  <1>. QED
    BY <1>1, <1>2, <1>3, <1>4, <1>5, <1>6, <1>7, <1>8, <1>9, <1>10, <1>11, <1>12,
       <1>13, <1>14, <1>15, <1>16, <1>17, <1>18, <1>19, <1>20, <1>21, <1>22, <1>23,
       <1>24, <1>25, <1>26, <1>27, <1>28, <1>29
       DEF Next, CallerStep

\* How a call of receive_output() or receive_nothing() reports a cancellation.
LEMMA ToldNext ==
    ASSUME PlainType, CountInv, TimerType, CallInv, CancelInv, CancelsTold, [Next]_vars
    PROVE  CancelsTold'
  <1>. USE CommunicatorAssumption
       DEF PlainType, CountInv, TimerType, Timed, CallInv, CancelInv, CancelsTold, Expired,
           appVars, callVars, Begins, Ends, Suspends, Resumed, Entered, Left, TimesOut,
           Started, Outcome, Raises, Ended, FutureState
  <1>1. ASSUME NEW o \in {"send_input", "receive_output", "receive_nothing"}, CallRaises(o)
        PROVE  CancelsTold'
    BY <1>1 DEF CallRaises
  <1>2. ASSUME NEW e \in BOOLEAN, Stop(e)
        PROVE  CancelsTold'
    BY <1>2 DEF Stop
  <1>3. ASSUME NEW e \in BOOLEAN, NothingAtOnce(e)
        PROVE  CancelsTold'
    BY <1>3 DEF NothingAtOnce
  <1>4. ASSUME NEW d \in Duration, ReceiveAtOnce(d)
        PROVE  CancelsTold'
    BY <1>4, EnterFacts, ExitFacts DEF ReceiveAtOnce
  <1>5. ASSUME NEW d \in Duration, ReceiveOutput(d)
        PROVE  CancelsTold'
    BY <1>5, EnterFacts DEF ReceiveOutput
  <1>6. ASSUME NEW d \in Duration, WaitAtOnce(d)
        PROVE  CancelsTold'
    BY <1>6, EnterFacts, ExitFacts DEF WaitAtOnce, Waited
  <1>7. ASSUME NEW d \in Duration, Wait(d)
        PROVE  CancelsTold'
    BY <1>7, EnterFacts DEF Wait
  <1>8. CASE SendInput
    BY <1>8 DEF SendInput
  <1>9. CASE Del
    BY <1>9 DEF Del
  <1>10. CASE ReceiveNothing
    BY <1>10 DEF ReceiveNothing
  <1>11. CASE GetReturns
    BY <1>11, ExitFacts DEF GetReturns
  <1>12. CASE GetCancelled
    BY <1>12, ExitFacts DEF GetCancelled, GetRaises
  <1>13. CASE TimesOutEnded
    BY <1>13, ExitFacts DEF TimesOutEnded, GetRaises
  <1>14. CASE TimesOutRunning
    BY <1>14, ExitFacts DEF TimesOutRunning, GetRaises
  <1>15. CASE Reaped
    BY <1>15 DEF Reaped
  <1>16. CASE WaitReturns
    BY <1>16, ExitFacts DEF WaitReturns, Waited
  <1>17. CASE PollReturns
    BY <1>17 DEF PollReturns, NothingSeen
  <1>18. CASE PollAgain
    BY <1>18 DEF PollAgain
  <1>19. CASE PollCancelled
    BY <1>19 DEF PollCancelled
  <1>20. ASSUME NEW c \in 1..MaxCalls, Fire(c)
        PROVE  CancelsTold'
    BY <1>20, CancelTaskFacts DEF Fire, CancelCaller
  <1>21. CASE OutsideCancel
    BY <1>21 DEF OutsideCancel, CancelCaller
  <1>22. CASE SleepEnds
    BY <1>22 DEF SleepEnds
  <1>23. CASE TimeIsUp
    BY <1>23 DEF TimeIsUp
  <1>24. CASE AppStarts
    BY <1>24 DEF AppStarts
  <1>25. CASE AppSends
    BY <1>25 DEF AppSends
  <1>26. CASE AppReceives
    BY <1>26 DEF AppReceives
  <1>27. CASE AppCatches
    BY <1>27 DEF AppCatches
  <1>28. CASE AppEnds
    BY <1>28 DEF AppEnds
  <1>29. CASE UNCHANGED vars
    BY <1>29 DEF vars
  <1>. QED
    BY <1>1, <1>2, <1>3, <1>4, <1>5, <1>6, <1>7, <1>8, <1>9, <1>10, <1>11, <1>12,
       <1>13, <1>14, <1>15, <1>16, <1>17, <1>18, <1>19, <1>20, <1>21, <1>22, <1>23,
       <1>24, <1>25, <1>26, <1>27, <1>28, <1>29
       DEF Next, CallerStep

\* wait() raises the application's exception, unless its CancelledError came from the
\* timer or from other code.
LEMMA WaitNext ==
    ASSUME PlainType, CountInv, TimerType, CallInv, CancelInv, NoStrayCancel,
           AppEnded, WaitRaisesErrors, [Next]_vars
    PROVE  WaitRaisesErrors'
  <1>. USE CommunicatorAssumption
       DEF PlainType, CountInv, TimerType, Timed, CallInv, CancelInv, NoStrayCancel,
           AppEnded, WaitRaisesErrors, Expired, appVars, callVars, Begins, Ends, Suspends,
           Resumed, Entered, Left, TimesOut, Started, Outcome, Raises, Ended, FutureState
  <1>1. ASSUME NEW o \in {"send_input", "receive_output", "receive_nothing"}, CallRaises(o)
        PROVE  WaitRaisesErrors'
    BY <1>1 DEF CallRaises
  <1>2. ASSUME NEW e \in BOOLEAN, Stop(e)
        PROVE  WaitRaisesErrors'
    BY <1>2 DEF Stop
  <1>3. ASSUME NEW e \in BOOLEAN, NothingAtOnce(e)
        PROVE  WaitRaisesErrors'
    BY <1>3 DEF NothingAtOnce
  <1>4. ASSUME NEW d \in Duration, ReceiveAtOnce(d)
        PROVE  WaitRaisesErrors'
    BY <1>4, EnterFacts, ExitFacts DEF ReceiveAtOnce
  <1>5. ASSUME NEW d \in Duration, ReceiveOutput(d)
        PROVE  WaitRaisesErrors'
    BY <1>5, EnterFacts DEF ReceiveOutput
  <1>6. ASSUME NEW d \in Duration, WaitAtOnce(d)
        PROVE  WaitRaisesErrors'
    BY <1>6, EnterFacts, ExitFacts DEF WaitAtOnce, Waited
  <1>7. ASSUME NEW d \in Duration, Wait(d)
        PROVE  WaitRaisesErrors'
    BY <1>7, EnterFacts DEF Wait
  <1>8. CASE SendInput
    BY <1>8 DEF SendInput
  <1>9. CASE Del
    BY <1>9 DEF Del
  <1>10. CASE ReceiveNothing
    BY <1>10 DEF ReceiveNothing
  <1>11. CASE GetReturns
    BY <1>11, ExitFacts DEF GetReturns
  <1>12. CASE GetCancelled
    BY <1>12, ExitFacts DEF GetCancelled, GetRaises
  <1>13. CASE TimesOutEnded
    BY <1>13, ExitFacts DEF TimesOutEnded, GetRaises
  <1>14. CASE TimesOutRunning
    BY <1>14, ExitFacts DEF TimesOutRunning, GetRaises
  <1>15. CASE Reaped
    BY <1>15 DEF Reaped
  <1>16. CASE WaitReturns
    BY <1>16, ExitFacts DEF WaitReturns, Waited
  <1>17. CASE PollReturns
    BY <1>17 DEF PollReturns, NothingSeen
  <1>18. CASE PollAgain
    BY <1>18 DEF PollAgain
  <1>19. CASE PollCancelled
    BY <1>19 DEF PollCancelled
  <1>20. ASSUME NEW c \in 1..MaxCalls, Fire(c)
        PROVE  WaitRaisesErrors'
    BY <1>20, CancelTaskFacts DEF Fire, CancelCaller
  <1>21. CASE OutsideCancel
    BY <1>21 DEF OutsideCancel, CancelCaller
  <1>22. CASE SleepEnds
    BY <1>22 DEF SleepEnds
  <1>23. CASE TimeIsUp
    BY <1>23 DEF TimeIsUp
  <1>24. CASE AppStarts
    BY <1>24 DEF AppStarts
  <1>25. CASE AppSends
    BY <1>25 DEF AppSends
  <1>26. CASE AppReceives
    BY <1>26 DEF AppReceives
  <1>27. CASE AppCatches
    BY <1>27 DEF AppCatches
  <1>28. CASE AppEnds
    BY <1>28 DEF AppEnds
  <1>29. CASE UNCHANGED vars
    BY <1>29 DEF vars
  <1>. QED
    BY <1>1, <1>2, <1>3, <1>4, <1>5, <1>6, <1>7, <1>8, <1>9, <1>10, <1>11, <1>12,
       <1>13, <1>14, <1>15, <1>16, <1>17, <1>18, <1>19, <1>20, <1>21, <1>22, <1>23,
       <1>24, <1>25, <1>26, <1>27, <1>28, <1>29
       DEF Next, CallerStep

-----------------------------------------------------------------------------
(* The theorems. *)

\* The invariant holds at first ...
LEMMA InvInit == Init => Inv
  BY InitType
     DEF Init, Inv, CallInv, CancelInv, HeardInv, AppEnded, NoStrayCancel, CancelsTold,
         ErrorNotHidden, TimeoutHidesNoError, WaitRaisesErrors, NothingMeansNothing

\* ... and every step preserves it.
LEMMA InvNext == Inv /\ [Next]_vars => Inv'
  BY TypeNext, TypeSplit, CallNext, AppEndedNext, ErrorNext, NothingNext, CancelNext, ToldNext,
     WaitNext DEF Inv, ErrorNotHidden

\* So it holds in every reachable state.
LEMMA Invariant == Spec => []Inv
  BY InvInit, InvNext, PTL DEF Spec

\* Types: in particular no timer outlives its call with a task to cancel.
THEOREM TypeCorrect == Spec => []TypeOK
  <1>1. Inv => TypeOK
    BY DEF Inv
  <1>. QED
    BY <1>1, Invariant, PTL

\* When wait() has returned, or receive_output() has raised TimeoutError, the
\* application has ended.
THEOREM ApplicationHasEnded == Spec => []AppEnded
  <1>1. Inv => AppEnded
    BY DEF Inv
  <1>. QED
    BY <1>1, Invariant, PTL

\* No timer and no other code leaves a cancellation behind for what the caller does
\* after its call.
THEOREM NoCancelLeftOver == Spec => []NoStrayCancel
  <1>1. Inv => NoStrayCancel
    BY DEF Inv
  <1>. QED
    BY <1>1, Invariant, PTL

\* receive_output() and receive_nothing() tell a cancellation by other code from the
\* expiry of their own timer.
THEOREM CancelsAreTold == Spec => []CancelsTold
  <1>1. Inv => CancelsTold
    BY DEF Inv
  <1>. QED
    BY <1>1, Invariant, PTL

\* A failure of the application is not reported as a timeout by receive_output(), and is
\* raised by wait(), as long as nothing but receive_output()'s own timer cancels the call.
THEOREM ErrorIsNotHidden == Spec => []ErrorNotHidden
  <1>1. Inv => ErrorNotHidden
    BY DEF Inv
  <1>. QED
    BY <1>1, Invariant, PTL

\* receive_nothing() returns True only if no message was there during the call.
THEOREM NothingWasThere == Spec => []NothingMeansNothing
  <1>1. Inv => NothingMeansNothing
    BY DEF Inv
  <1>. QED
    BY <1>1, Invariant, PTL
=============================================================================
