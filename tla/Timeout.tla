------------------------------- MODULE Timeout -------------------------------
(***************************************************************************)
(* asgiref/timeout.py: the context manager that cancels its task when time *)
(* is up and turns that cancellation into a TimeoutError.  A timeout       *)
(* object is a record; its operations are operators that the module of     *)
(* the code that uses it (Communicator) applies in its actions.            *)
(*                                                                         *)
(* The deadline itself is not kept: a callback that is due may run at any  *)
(* later turn of the loop.  _do_enter's refusal outside a task and the     *)
(* deprecated loop argument are left out.                                  *)
(***************************************************************************)

\* The argument: None, a number that is not positive, or a positive one.
Duration == {"None", "zero", "positive"}

\* timeout: _timeout.  callback: _cancel_task is queued with the loop.  handler: _cancel_handler is
\* set.  task: _task is set.  cancelled: _cancelled.
TimeoutType == [timeout : Duration, callback : BOOLEAN, handler : BOOLEAN,
                task : BOOLEAN, cancelled : BOOLEAN]

New(d) == [timeout |-> d, callback |-> FALSE, handler |-> FALSE,
           task |-> FALSE, cancelled |-> FALSE]

\* Faulty: a timeout of zero is taken for none.
EnterUnlessZero(d) ==
    IF d \in {"None", "zero"} THEN New(d)
    ELSE [New(d) EXCEPT !.callback = TRUE, !.task = TRUE, !.handler = TRUE]

\* _do_enter of a new object.  With a zero timeout call_soon's handle is thrown away.
Enter(d) ==
    IF d = "None" THEN New(d)
    ELSE [New(d) EXCEPT !.callback = TRUE, !.task = TRUE, !.handler = (d = "positive")]

\* Faulty: any cancellation is reported as a timeout.
TimesOutAlways(t, exc) == exc = "CancelledError"

\* Does _do_exit(exc) raise TimeoutError?
TimesOut(t, exc) == exc = "CancelledError" /\ t.cancelled

\* Faulty: the task is kept, on the ground that the callback is cancelled.
ExitKeepsTask(t) == [t EXCEPT !.callback = @ /\ ~t.handler, !.handler = FALSE]

\* _do_exit, raising or not: what is cancelled is the handle, if there is one.
Exit(t) == [t EXCEPT !.callback = @ /\ ~t.handler, !.handler = FALSE, !.task = FALSE]

\* _cancel_task, called by the loop; it cancels the task if t.task.
CancelTask(t) == [t EXCEPT !.callback = FALSE, !.cancelled = @ \/ t.task]

\* The property expired.
Expired(t) == t.cancelled
=============================================================================
