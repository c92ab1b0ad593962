----------------------------- MODULE Communicator -----------------------------
(***************************************************************************)
(* asgiref/testing.py: ApplicationCommunicator, with which a test drives   *)
(* an ASGI application, and its use of timeout.py.                         *)
(*                                                                         *)
(* Two tasks of one event loop: the caller, which makes one call of the    *)
(* communicator after the other, and the application.  An action is what   *)
(* one of them, or a callback of the loop, does between two awaits.  Other *)
(* code may cancel the caller during a call.  Task.cancel reaches a task   *)
(* through what it awaits: a pending future is cancelled, an application   *)
(* that has not ended is cancelled in the caller's place, and only when    *)
(* the awaited is done already does the task itself get the CancelledError *)
(* at its next step.                                                       *)
(***************************************************************************)
EXTENDS Naturals, Timeout

CONSTANTS
    MaxCalls,   \* bound on the calls made
    MaxSent     \* bound on the messages the application sends

ASSUME CommunicatorAssumption == MaxCalls \in Nat /\ MaxSent \in Nat

VARIABLES
    future,     \* the application's task
    cancelling, \* the application's next step gets a CancelledError
    told,       \* the application has caught one
    input,      \* the size of input_queue
    output,     \* the size of output_queue
    sent,       \* messages sent by the application
    calls,      \* calls made
    op,         \* the last of them ...
    result,     \* ... and what it returned or raised
    pc,         \* where the caller is
    waiter,     \* the future it awaits, unless that is the application
    must,       \* the caller's _must_cancel
    late,       \* receive_nothing: the time is up
    timer,      \* the timeout object of each call
    outside,    \* history: the call was cancelled by other code
    heard       \* history: during the call there was an output message

appVars == <<future, cancelling, told, sent>>
callVars == <<calls, op, result, pc, late, outside>>
vars == <<appVars, input, output, callVars, waiter, must, timer, heard>>

Ended == {"returned", "failed", "cancelled"}
FutureState == {"none", "fresh", "pending"} \cup Ended

Init ==
    /\ future = "none"
    /\ cancelling = FALSE
    /\ told = FALSE
    /\ input = 0
    /\ output = 0
    /\ sent = 0
    /\ calls = 0
    /\ op = "none"
    /\ result = "none"
    /\ pc = "idle"
    /\ waiter = "none"
    /\ must = FALSE
    /\ late = FALSE
    /\ timer = [c \in 1..MaxCalls |-> New("None")]
    /\ outside = FALSE
    /\ heard = FALSE

\* The future property: the first use creates the task.
Started == IF future = "none" THEN "fresh" ELSE future

\* future.result() of a task that has ended; "returned" is None.
Outcome(f) == CASE f = "returned"  -> "returned"
                [] f = "failed"    -> "error"
                [] f = "cancelled" -> "CancelledError"

Raises(f) == f \in {"failed", "cancelled"}

\* A call begins.
Begins(o) ==
    /\ pc = "idle"
    /\ calls < MaxCalls
    /\ calls' = calls + 1
    /\ op' = o
    /\ late' = FALSE
    /\ outside' = FALSE
    /\ heard' = (output > 0)

\* The call that has begun, or is under way, returns or raises r.
Ends(r) == pc' = "idle" /\ result' = r

\* The caller suspends at p.
Suspends(p) == pc' = p /\ result' = "none"

\* The same when the call began earlier.
Resumed == UNCHANGED <<calls, op, late, outside, heard>>

Entered(d) == timer' = [timer EXCEPT ![calls + 1] = Enter(d)]
Left       == timer' = [timer EXCEPT ![calls] = Exit(@)]

-----------------------------------------------------------------------------
(* Calls that raise the application's exception at once, send_input, stop. *)

CallRaises(o) ==
    /\ o \in {"send_input", "receive_output", "receive_nothing"}
    /\ Raises(future)
    /\ Begins(o)
    /\ Ends(Outcome(future))
    /\ UNCHANGED <<appVars, input, output, waiter, must, timer>>

SendInput ==
    /\ ~Raises(future)
    /\ Begins("send_input")
    /\ Ends("returned")
    /\ future' = Started
    /\ input' = input + 1
    /\ UNCHANGED <<cancelling, told, sent, output, waiter, must, timer>>

\* stop(exceptions), which does not create the task.
Stop(exceptions) ==
    /\ Begins("stop")
    /\ Ends(IF future \in Ended /\ exceptions THEN Outcome(future) ELSE "returned")
    /\ cancelling' = (cancelling \/ future \in {"fresh", "pending"})
    /\ UNCHANGED <<future, told, sent, input, output, waiter, must, timer>>

\* __del__: stop(exceptions=False), and no call follows.
Del ==
    /\ pc = "idle"
    /\ calls < MaxCalls
    /\ calls' = MaxCalls
    /\ op' = "del"
    /\ cancelling' = (cancelling \/ future \in {"fresh", "pending"})
    /\ Ends("returned")
    /\ UNCHANGED <<future, told, sent, input, output, late, outside, heard,
                   waiter, must, timer>>

-----------------------------------------------------------------------------
(* receive_output *)

\* A message is there: get() does not suspend, and the timeout is left in the
\* step that entered it.
ReceiveAtOnce(d) ==
    /\ ~Raises(future)
    /\ output > 0
    /\ Begins("receive_output")
    /\ Ends("message")
    /\ future' = Started
    /\ output' = output - 1
    /\ timer' = [timer EXCEPT ![calls + 1] = Exit(Enter(d))]
    /\ UNCHANGED <<cancelling, told, sent, input, waiter, must>>

ReceiveOutput(d) ==
    /\ ~Raises(future)
    /\ output = 0
    /\ Begins("receive_output")
    /\ Suspends("get")
    /\ Entered(d)
    /\ future' = Started
    /\ waiter' = "pending"
    /\ UNCHANGED <<cancelling, told, sent, input, output, must>>

\* get() resumes and takes the message.
GetReturns ==
    /\ pc = "get"
    /\ waiter = "set"
    /\ ~must
    /\ Resumed
    /\ Ends("message")
    /\ Left
    /\ output' = output - 1
    /\ waiter' = "none"
    /\ UNCHANGED <<appVars, input, must>>

\* get() raises CancelledError, even if a message has arrived meanwhile.
GetRaises ==
    /\ pc = "get"
    /\ waiter = "cancelled" \/ must
    /\ Resumed
    /\ Left
    /\ must' = FALSE
    /\ waiter' = "none"
    /\ UNCHANGED <<input, output>>

\* It was not the timer.
GetCancelled ==
    /\ GetRaises
    /\ ~TimesOut(timer[calls], "CancelledError")
    /\ Ends("CancelledError")
    /\ UNCHANGED appVars

\* Faulty: the application's exception is not looked for.
TimesOutBlindly ==
    /\ GetRaises
    /\ TimesOut(timer[calls], "CancelledError")
    /\ future \in Ended
    /\ Ends("TimeoutError")
    /\ UNCHANGED appVars

\* It was the timer, and the application has ended: its exception comes first.
TimesOutEnded ==
    /\ GetRaises
    /\ TimesOut(timer[calls], "CancelledError")
    /\ future \in Ended
    /\ Ends(IF Raises(future) THEN Outcome(future) ELSE "TimeoutError")
    /\ UNCHANGED appVars

\* Faulty: the application is cancelled but not awaited.
TimesOutAtOnce ==
    /\ GetRaises
    /\ TimesOut(timer[calls], "CancelledError")
    /\ future \notin Ended
    /\ Ends("TimeoutError")
    /\ cancelling' = TRUE
    /\ UNCHANGED <<future, told, sent>>

\* It was the timer, and the application runs: cancel it and wait for its end.
TimesOutRunning ==
    /\ GetRaises
    /\ TimesOut(timer[calls], "CancelledError")
    /\ future \notin Ended
    /\ Suspends("reap")
    /\ cancelling' = TRUE
    /\ UNCHANGED <<future, told, sent>>

\* The application has ended.  A CancelledError, its own or the caller's, is
\* dropped; its exception, unless the caller's CancelledError takes its place,
\* is raised instead of the TimeoutError.
Reaped ==
    /\ pc = "reap"
    /\ future \in Ended
    /\ Resumed
    /\ Ends(IF future = "failed" /\ ~must THEN "error" ELSE "TimeoutError")
    /\ must' = FALSE
    /\ UNCHANGED <<appVars, input, output, waiter, timer>>

-----------------------------------------------------------------------------
(* wait *)

\* Faulty: an exception of the application is dropped like a CancelledError.
WaitedQuietly == Ends("returned")

\* What wait() makes of the end of the application: a CancelledError, the
\* application's or one of the caller's own, is dropped at line 56, before the
\* timeout sees it.
Waited == Ends(IF future = "failed" /\ ~must THEN "error" ELSE "returned")

\* The application has ended before.
WaitAtOnce(d) ==
    /\ future \in Ended
    /\ Begins("wait")
    /\ Waited
    /\ timer' = [timer EXCEPT ![calls + 1] = Exit(Enter(d))]
    /\ UNCHANGED <<appVars, input, output, waiter, must>>

Wait(d) ==
    /\ future \notin Ended
    /\ Begins("wait")
    /\ Suspends("wait")
    /\ Entered(d)
    /\ future' = Started
    /\ UNCHANGED <<cancelling, told, sent, input, output, waiter, must>>

\* The await goes on only when the application has ended, whatever has been
\* cancelled: the finally block finds nothing to do.
WaitReturns ==
    /\ pc = "wait"
    /\ future \in Ended
    /\ Resumed
    /\ Waited
    /\ Left
    /\ must' = FALSE
    /\ UNCHANGED <<appVars, input, output, waiter>>

-----------------------------------------------------------------------------
(* receive_nothing *)

\* Either the loop is not entered, or there is a message at the first look.
NothingAtOnce(positive) ==
    /\ ~Raises(future)
    /\ ~positive \/ output > 0
    /\ Begins("receive_nothing")
    /\ Ends(IF output = 0 THEN "True" ELSE "False")
    /\ future' = Started
    /\ UNCHANGED <<cancelling, told, sent, input, output, waiter, must, timer>>

ReceiveNothing ==
    /\ ~Raises(future)
    /\ output = 0
    /\ Begins("receive_nothing")
    /\ Suspends("sleep")
    /\ future' = Started
    /\ waiter' = "pending"
    /\ UNCHANGED <<cancelling, told, sent, input, output, must, timer>>

\* Faulty: when the time is up the last interval is not looked at.
NothingUnlessSeen == Ends(IF late \/ output = 0 THEN "True" ELSE "False")

\* The answer after an interval: in the loop or after it.
NothingSeen == Ends(IF output = 0 THEN "True" ELSE "False")

\* An interval is over, and the call: a message came or the time is up.
PollReturns ==
    /\ pc = "sleep"
    /\ waiter = "set"
    /\ ~must
    /\ late \/ output > 0
    /\ Resumed
    /\ NothingSeen
    /\ waiter' = "none"
    /\ UNCHANGED <<appVars, input, output, must, timer>>

PollAgain ==
    /\ pc = "sleep"
    /\ waiter = "set"
    /\ ~must
    /\ ~late
    /\ output = 0
    /\ waiter' = "pending"
    /\ UNCHANGED <<appVars, input, output, callVars, must, timer, heard>>

PollCancelled ==
    /\ pc = "sleep"
    /\ waiter = "cancelled" \/ must
    /\ Resumed
    /\ Ends("CancelledError")
    /\ waiter' = "none"
    /\ must' = FALSE
    /\ UNCHANGED <<appVars, input, output, timer>>

-----------------------------------------------------------------------------
(* The event loop: time and cancellation. *)

\* Task.cancel of the caller.
CancelCaller ==
    LET onFuture == waiter = "pending"
        onApp == pc \in {"wait", "reap"} /\ future \notin Ended
    IN  /\ waiter' = IF onFuture THEN "cancelled" ELSE waiter
        /\ cancelling' = (cancelling \/ onApp)
        /\ must' = (must \/ ~(onFuture \/ onApp))

\* The timer of call c is due.
Fire(c) ==
    /\ timer[c].callback
    /\ timer' = [timer EXCEPT ![c] = CancelTask(@)]
    /\ IF timer[c].task THEN CancelCaller ELSE UNCHANGED <<waiter, cancelling, must>>
    /\ UNCHANGED <<future, told, sent, input, output, callVars, heard>>

\* Other code cancels the caller.
OutsideCancel ==
    /\ pc # "idle"
    /\ CancelCaller
    /\ outside' = TRUE
    /\ UNCHANGED <<future, told, sent, input, output, calls, op, result, pc, late,
                   timer, heard>>

SleepEnds ==
    /\ pc = "sleep"
    /\ waiter = "pending"
    /\ waiter' = "set"
    /\ UNCHANGED <<appVars, input, output, callVars, must, timer, heard>>

TimeIsUp ==
    /\ pc = "sleep"
    /\ ~late
    /\ late' = TRUE
    /\ UNCHANGED <<appVars, input, output, calls, op, result, pc, outside,
                   waiter, must, timer, heard>>

-----------------------------------------------------------------------------
(* The application: any code that awaits between its steps. *)

AppStarts ==
    /\ future = "fresh"
    /\ ~cancelling
    /\ future' = "pending"
    /\ UNCHANGED <<cancelling, told, sent, input, output, callVars, waiter, must,
                   timer, heard>>

\* send(): put() on an unbounded queue wakes the getter, if it still waits.
AppSends ==
    /\ future = "pending"
    /\ ~cancelling
    /\ sent < MaxSent
    /\ sent' = sent + 1
    /\ output' = output + 1
    /\ waiter' = IF pc = "get" /\ waiter = "pending" THEN "set" ELSE waiter
    /\ heard' = (heard \/ pc # "idle")
    /\ UNCHANGED <<future, cancelling, told, input, callVars, must, timer>>

\* receive()
AppReceives ==
    /\ future = "pending"
    /\ ~cancelling
    /\ input > 0
    /\ input' = input - 1
    /\ UNCHANGED <<appVars, output, callVars, waiter, must, timer, heard>>

\* It catches the CancelledError and goes on.
AppCatches ==
    /\ future = "pending"
    /\ cancelling
    /\ cancelling' = FALSE
    /\ told' = TRUE
    /\ UNCHANGED <<future, sent, input, output, callVars, waiter, must, timer, heard>>

\* It returns, raises or ends cancelled; one cancelled before its first step
\* ends there.
AppEnds ==
    /\ \/ future = "pending" /\ future' \in Ended
       \/ future = "fresh" /\ cancelling /\ future' = "cancelled"
    /\ cancelling' = FALSE
    /\ UNCHANGED <<told, sent, input, output, callVars, waiter, must, timer, heard>>

-----------------------------------------------------------------------------

\* The caller goes on after an await.
CallerStep == \/ GetReturns \/ GetCancelled \/ TimesOutEnded \/ TimesOutRunning
              \/ Reaped \/ WaitReturns \/ PollReturns \/ PollAgain \/ PollCancelled

Next ==
    \/ \E o \in {"send_input", "receive_output", "receive_nothing"} : CallRaises(o)
    \/ \E e \in BOOLEAN : Stop(e) \/ NothingAtOnce(e)
    \/ \E d \in Duration :
          ReceiveAtOnce(d) \/ ReceiveOutput(d) \/ WaitAtOnce(d) \/ Wait(d)
    \/ SendInput \/ Del \/ ReceiveNothing
    \/ CallerStep
    \/ \E c \in 1..MaxCalls : Fire(c)
    \/ OutsideCancel \/ SleepEnds \/ TimeIsUp
    \/ AppStarts \/ AppSends \/ AppReceives \/ AppCatches \/ AppEnds

Spec == Init /\ [][Next]_vars

\* The loop runs what is ready and time passes; an application may run for ever,
\* but not once it has been told to stop.
FairSpec ==
    /\ Spec
    /\ WF_vars(CallerStep)
    /\ \A c \in 1..MaxCalls : WF_vars(Fire(c))
    /\ WF_vars(SleepEnds) /\ WF_vars(TimeIsUp)
    /\ WF_vars(AppStarts)
    /\ WF_vars(cancelling /\ (AppCatches \/ AppEnds))
    /\ WF_vars(told /\ AppEnds)

-----------------------------------------------------------------------------
(* Properties. *)

Timed == {"get", "wait"}
Results == {"none", "returned", "message", "error", "CancelledError", "TimeoutError",
            "True", "False"}

\* Types; the caller awaits a future of its own exactly in get() and sleep(), and
\* is inside a timeout only in the two calls that enter one.
TypeOK ==
    /\ future \in FutureState
    /\ {cancelling, told, must, late, outside, heard} \subseteq BOOLEAN
    /\ input \in 0..MaxCalls
    /\ sent \in 0..MaxSent
    /\ output \in 0..sent
    /\ calls \in 0..MaxCalls
    /\ op \in {"none", "send_input", "receive_output", "receive_nothing", "wait",
               "stop", "del"}
    /\ result \in Results
    /\ pc \in {"idle", "get", "reap", "wait", "sleep"}
    /\ waiter \in {"none", "pending", "set", "cancelled"}
    /\ (waiter = "none") = (pc \notin {"get", "sleep"})
    /\ timer \in [1..MaxCalls -> TimeoutType]
    /\ \A c \in 1..MaxCalls : timer[c].task => c = calls /\ pc \in Timed

\* "assert instance.future.done()": when wait() has returned, and when
\* receive_output() has raised TimeoutError, the application has ended, also if
\* it resisted, had not been started, or the caller was cancelled meanwhile.
AppEnded ==
    pc = "idle" /\ (op = "wait" \/ result = "TimeoutError") => future \in Ended

\* No cancellation is left over: neither a timer that fires after its call nor
\* one that fires at the same time as something else cancels what the caller
\* does next.
NoStrayCancel == pc = "idle" => ~must

\* receive_output() and receive_nothing() raise CancelledError only if other code
\* cancelled the caller or the application ended cancelled, never for their own
\* timer; and a cancellation by other code is reported as such unless the timer
\* of the same call has expired too (then it comes out as TimeoutError, or as the
\* application's exception).
CancelsTold ==
    pc = "idle" /\ op \in {"receive_output", "receive_nothing"} =>
        /\ result = "CancelledError" => outside \/ future = "cancelled"
        /\ outside => result = "CancelledError" \/ Expired(timer[calls])

\* receive_output() does not report a timeout when the application has failed,
\* whether it fails before the timer, in the same turn of the loop or while it is
\* being cancelled.  The exception: other code cancels the caller as well.
TimeoutHidesNoError ==
    op = "receive_output" /\ result = "TimeoutError" /\ future = "failed" => outside

\* "Waits for the application to stop itself and returns any exceptions": wait()
\* raises the exception of an application that has failed, also if it failed
\* before.  The exception: the timer, or other code, cancelled the call.  If that
\* comes after the application has failed and before wait() goes on, its
\* CancelledError takes the place of the application's exception and is dropped.
WaitRaisesErrors ==
    pc = "idle" /\ op = "wait" /\ future = "failed" =>
        result = "error" \/ outside \/ Expired(timer[calls])

\* An exception of the application comes out of the calls that await the application or
\* a message of it, instead of a timeout or of nothing, but for the two exceptions above.
ErrorNotHidden == TimeoutHidesNoError /\ WaitRaisesErrors

\* receive_nothing() returns True only if no message was there at any moment of
\* the call, its last interval included.
NothingMeansNothing == op = "receive_nothing" /\ result = "True" => ~heard

\* receive_nothing() returns, and so do receive_output() and wait() when they
\* have a timeout, provided that an application that was told to stop ends.
TimedCallsReturn ==
    (pc = "sleep" \/ (pc \in Timed /\ timer[calls].timeout # "None")) ~> pc = "idle"
=============================================================================
