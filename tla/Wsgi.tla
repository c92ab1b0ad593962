-------------------------------- MODULE Wsgi --------------------------------
(***************************************************************************)
(* asgiref/wsgi.py: one WsgiToAsgiInstance, from the first http.request    *)
(* message to the end of the response.                                     *)
(*                                                                         *)
(* Two actors: the ASGI task, which collects the request body and then     *)
(* awaits run_wsgi_app, and the pool thread that run_wsgi_app executes on. *)
(* The thread sends each message with AsyncToSync(send), that is in a task *)
(* of its own on the loop, and waits for it.  The server may cancel the    *)
(* ASGI task at any time.  What SyncToAsync and AsyncToSync make of that   *)
(* is translated from sync.py, at the grain this module needs; SyncBridge  *)
(* has the detail.                                                         *)
(*                                                                         *)
(* A chunk of output is its length.  The environ, statuses and header      *)
(* texts are left out; what can go wrong with them is a choice.            *)
(***************************************************************************)
EXTENDS Integers, Sequences, FiniteSetsExt

CONSTANTS
    None,
    MaxParts,   \* bound on the http.request messages
    MaxCalls,   \* bound on the calls of start_response
    MaxChunks,  \* bound on the outputs of the WSGI application
    MaxLength,  \* bound on the length of an output and on content-length
    MaxCancels  \* bound on the cancellations by the server

ASSUME WsgiAssumption ==
    /\ {MaxParts, MaxCalls, MaxChunks, MaxLength, MaxCancels} \subseteq Nat
    /\ None \notin Int

VARIABLES
    task,       \* where __call__ is
    parts,      \* http.request messages received
    thread,     \* where run_wsgi_app is
    send,       \* the send task: "none", "posted" or "running"
    message,    \* what it is to send
    output,     \* the length of the output at hand
    response_started,
    response_start,             \* None, or the content-length it declares
    response_content_length,
    bytes_sent,
    calls,      \* calls of start_response
    cancels,    \* cancellations by the server
    wire,       \* the messages sent
    chunks,     \* outputs of the WSGI application
    produced,   \* history: their length, all together
    delivered,  \* history: the length of the body messages sent
    halfway,    \* history: the last start_response gave up at content-length
    hit         \* history: a CancelledError was raised while a message was being sent

responseVars == <<response_started, response_start, response_content_length, halfway>>
taskVars == <<task, parts, cancels, hit>>
wireVars == <<wire, delivered>>
sendVars == <<send, message, wireVars>>
appVars == <<calls, chunks, produced>>
vars == <<taskVars, thread, sendVars, output, responseVars, bytes_sent, appVars>>

Lengths == 0..MaxLength

\* A response_start is kept as the singleton of its content-length, so that one
\* without the header differs from none at all.
StartTypes == {{cl} : cl \in Lengths \cup {None}} \cup {{}}

StartMessage(s) == [type |-> "start", length |-> CHOOSE cl \in s : TRUE]
BodyMessage(n)  == [type |-> "body", length |-> n]
LastMessage     == [type |-> "last", length |-> None]
Messages == [type : {"start", "body", "last"}, length : Lengths \cup {None}]

Over == {"returned", "failed", "never"}
Sending == {"start", "body", "start0", "last", "bad", "badlast"}

Init ==
    /\ task = "receive"
    /\ parts = 0
    /\ thread = "none"
    /\ send = "none"
    /\ message = LastMessage
    /\ output = 0
    /\ response_started = FALSE
    /\ response_start = {}
    /\ response_content_length = None
    /\ bytes_sent = 0
    /\ calls = 0
    /\ cancels = 0
    /\ wire = <<>>
    /\ chunks = 0
    /\ produced = 0
    /\ delivered = 0
    /\ halfway = FALSE
    /\ hit = FALSE

\* __call__ returns or raises; leaving the with block closes the body.
Ends == task' = "ended"

-----------------------------------------------------------------------------
(* The ASGI task *)

\* An http.request message; after the last one run_wsgi_app is given to the
\* loop's default executor.
Receive(more_body) ==
    /\ task = "receive"
    /\ parts < MaxParts
    /\ parts' = parts + 1
    /\ IF more_body THEN UNCHANGED <<task, thread>>
                    ELSE task' = "run" /\ thread' = "queued"
    /\ UNCHANGED <<cancels, hit, sendVars, output, responseVars, bytes_sent,
                   appVars>>

\* Any other message, http.disconnect for instance, is an error.
ReceiveOther ==
    /\ task = "receive"
    /\ Ends
    /\ UNCHANGED <<parts, cancels, hit, thread, sendVars, output, responseVars,
                   bytes_sent, appVars>>

\* run_wsgi_app has ended, and the await returns or raises.
TaskReturns ==
    /\ task \in {"run", "final"}
    /\ thread \in Over
    /\ Ends
    /\ UNCHANGED <<parts, cancels, hit, thread, sendVars, output, responseVars,
                   bytes_sent, appVars>>

\* The server cancels the task.
Cancelled ==
    /\ task # "ended"
    /\ cancels < MaxCancels
    /\ cancels' = cancels + 1
    /\ UNCHANGED <<parts, hit, sendVars, output, responseVars, bytes_sent, appVars>>

\* __call__ ends with the CancelledError.  A function that no thread has picked up
\* never is; one that runs goes on alone.
Abandons ==
    /\ Ends
    /\ thread' = IF thread = "queued" THEN "never" ELSE thread

\* Cancelled while it awaits receive() or the function's future, or after the send
\* task has ended: whatever happens until it is resumed, the CancelledError is raised.
CancelLeaves ==
    /\ Cancelled
    /\ task \in {"receive", "joined", "final"}
    /\ Abandons

\* Cancelled while it awaits the shield around the function's future: it will be
\* resumed with the CancelledError a turn of the loop later.
CancelShield ==
    /\ Cancelled
    /\ task = "run"
    /\ task' = "cancelled"
    /\ UNCHANGED thread

\* Cancelled again before that, or while it awaits the send task, which is then
\* cancelled once more.
CancelAgain ==
    /\ Cancelled
    /\ task \in {"cancelled", "join"}
    /\ UNCHANGED <<task, thread>>

\* Faulty: the send task is cancelled, but not awaited.
RaisedWithoutJoin ==
    /\ task = "cancelled"
    /\ hit' = (hit \/ send = "running")
    /\ Abandons
    /\ UNCHANGED <<parts, cancels, sendVars, output, responseVars, bytes_sent, appVars>>

\* The CancelledError is raised at the shield.  If a message is being sent by now, its
\* task is cancelled and awaited; else, also when it has been sent in the meantime,
\* there is nothing to wait for.
RaisedAtShield ==
    /\ task = "cancelled"
    /\ hit' = (hit \/ send = "running")
    /\ IF send = "running" THEN task' = "join" /\ UNCHANGED thread ELSE Abandons
    /\ UNCHANGED <<parts, cancels, sendVars, output, responseVars, bytes_sent, appVars>>

\* The send task has ended, however: main_wrap raises nothing.  The function's
\* future is awaited next, unless it is done.
JoinReturns ==
    /\ task = "joined"
    /\ \/ task' = "final"
       \/ thread \in Over /\ Ends
    /\ UNCHANGED <<parts, cancels, hit, thread, sendVars, output, responseVars,
                   bytes_sent, appVars>>

-----------------------------------------------------------------------------
(* run_wsgi_app and start_response, on the thread *)

\* sync_send(m): the thread waits at pc.
SyncSend(pc, m) == thread' = pc /\ send' = "posted" /\ message' = m

\* What build_environ may come to: an environ; a ValueError, because a header name
\* occurs more often than duplicate_header_limit, or because the query string is not
\* ASCII; another exception, for what is missing in the scope.
BuildEnviron == {"environ", "ValueError", "error"}

\* Any ValueError is answered with a 400, another exception ends the thread.
ThreadStarts ==
    /\ thread = "queued"
    /\ \E outcome \in BuildEnviron :
          IF outcome = "ValueError"
          THEN SyncSend("bad", StartMessage({None}))
          ELSE /\ thread' = IF outcome = "environ" THEN "app" ELSE "failed"
               /\ UNCHANGED <<send, message>>
    /\ UNCHANGED <<taskVars, wireVars, output, responseVars, bytes_sent, appVars>>

AppCalls ==
    /\ thread = "app"
    /\ calls < MaxCalls
    /\ calls' = calls + 1
    /\ UNCHANGED <<taskVars, thread, sendVars, output, response_started, bytes_sent,
                   chunks, produced>>

\* start_response raises before it changes anything: the response has begun, it
\* is a second call without exc_info, or the status or a header is malformed.
StartRefused ==
    /\ AppCalls
    /\ UNCHANGED <<response_start, response_content_length, halfway>>

\* A content-length that is no number: the length kept so far has been reset, and
\* perhaps replaced by an earlier header of the same list; response_start has not.
StartHalfway(cl) ==
    /\ AppCalls
    /\ ~response_started
    /\ response_content_length' = cl
    /\ halfway' = TRUE
    /\ UNCHANGED response_start

\* Faulty: the length of an earlier call is kept if this one declares none.
StartKeepsLength(cl, exc_info) ==
    /\ AppCalls
    /\ ~response_started
    /\ response_start = {} \/ exc_info
    /\ response_content_length' = IF cl = None THEN response_content_length ELSE cl
    /\ response_start' = {cl}
    /\ halfway' = FALSE

StartResponse(cl, exc_info) ==
    /\ AppCalls
    /\ ~response_started
    /\ response_start = {} \/ exc_info
    /\ response_content_length' = cl
    /\ response_start' = {cl}
    /\ halfway' = FALSE

\* Faulty: what has been sent before is not subtracted.
ClampedWhole(n) ==
    IF response_content_length = None THEN n ELSE Min({n, response_content_length})

\* The part of an output that the content-length allows.
Clamped(n) ==
    IF response_content_length = None THEN n
    ELSE Min({n, response_content_length - bytes_sent})

\* Faulty: the first output does not set response_started.
YieldsUnmarked(n) ==
    /\ thread = "app"
    /\ chunks < MaxChunks
    /\ chunks' = chunks + 1
    /\ produced' = produced + n
    /\ output' = Clamped(n)
    /\ response_start # {}
    /\ SyncSend("start", StartMessage(response_start))
    /\ UNCHANGED <<taskVars, wireVars, responseVars, bytes_sent, calls>>

\* The WSGI application produces an output.  Before the first the start message
\* is sent; without a start_response that is an AttributeError.
AppYields(n) ==
    /\ thread = "app"
    /\ chunks < MaxChunks
    /\ chunks' = chunks + 1
    /\ produced' = produced + n
    /\ output' = Clamped(n)
    /\ response_started' = TRUE
    /\ \/ /\ response_started
          /\ SyncSend("body", BodyMessage(Clamped(n)))
       \/ /\ ~response_started
          /\ response_start # {}
          /\ SyncSend("start", StartMessage(response_start))
       \/ /\ ~response_started
          /\ response_start = {}
          /\ thread' = "failed"
          /\ UNCHANGED <<send, message>>
    /\ UNCHANGED <<taskVars, wireVars, response_start, response_content_length, halfway,
                   bytes_sent, calls>>

\* Faulty: an application without output gets no start message.
ClosesAtOnce == SyncSend("last", LastMessage) /\ UNCHANGED response_started

\* After the loop: the start message, if there was no output, and the last one.
Closes ==
    \/ /\ response_started
       /\ SyncSend("last", LastMessage)
       /\ UNCHANGED response_started
    \/ /\ ~response_started
       /\ response_started' = TRUE
       /\ IF response_start # {}
          THEN SyncSend("start0", StartMessage(response_start))
          ELSE thread' = "failed" /\ UNCHANGED <<send, message>>

\* The application has no more output.
AppReturns ==
    /\ thread = "app"
    /\ Closes
    /\ UNCHANGED <<taskVars, wireVars, output, response_start, response_content_length,
                   halfway, bytes_sent, appVars>>

AppRaises ==
    /\ thread = "app"
    /\ thread' = "failed"
    /\ UNCHANGED <<taskVars, sendVars, output, responseVars, bytes_sent, appVars>>

\* The thread goes on after a message was sent.
Continue ==
    \/ /\ thread = "start"
       /\ SyncSend("body", BodyMessage(output))
       /\ UNCHANGED <<bytes_sent, response_started>>
    \/ /\ thread = "body"
       /\ bytes_sent' = bytes_sent + output
       /\ IF bytes_sent' = response_content_length
          THEN Closes
          ELSE thread' = "app" /\ send' = "none" /\ UNCHANGED <<message, response_started>>
    \/ /\ thread \in {"start0", "bad"}
       /\ SyncSend(IF thread = "bad" THEN "badlast" ELSE "last", LastMessage)
       /\ UNCHANGED <<bytes_sent, response_started>>
    \/ /\ thread \in {"last", "badlast"}
       /\ thread' = "returned"
       /\ send' = "none"
       /\ UNCHANGED <<message, bytes_sent, response_started>>

-----------------------------------------------------------------------------
(* The send task: main_wrap around the server's send() *)

SendStarts ==
    /\ send = "posted"
    /\ send' = "running"
    /\ UNCHANGED <<taskVars, thread, message, wireVars, output, responseVars, bytes_sent,
                   appVars>>

Joined == task' = IF task = "join" THEN "joined" ELSE task

\* send() returns, perhaps in spite of a cancellation, and the thread goes on.
SendReturns ==
    /\ send = "running"
    /\ wire' = Append(wire, message)
    /\ delivered' = delivered + (IF message.type = "body" THEN message.length ELSE 0)
    /\ Continue
    /\ Joined
    /\ UNCHANGED <<parts, cancels, hit, output, response_start,
                   response_content_length, halfway, appVars>>

\* Faulty: main_wrap lets a CancelledError pass, and the thread is not woken.
SendRaisesUncaught ==
    /\ send = "running"
    /\ send' = "none"
    /\ thread' = IF task = "join" THEN thread ELSE "failed"
    /\ Joined
    /\ UNCHANGED <<parts, cancels, hit, message, wireVars, output, responseVars,
                   bytes_sent, appVars>>

\* send() raises, a CancelledError if it was cancelled, and so does sync_send.
SendRaises ==
    /\ send = "running"
    /\ send' = "none"
    /\ thread' = "failed"
    /\ Joined
    /\ UNCHANGED <<parts, cancels, hit, message, wireVars, output, responseVars,
                   bytes_sent, appVars>>

-----------------------------------------------------------------------------

TaskStep == TaskReturns \/ RaisedAtShield \/ JoinReturns
SendStep == SendStarts \/ SendReturns \/ SendRaises

\* What the WSGI application does.
AppStep ==
    \/ StartRefused
    \/ \E cl \in Lengths \cup {None} :
          StartHalfway(cl) \/ \E exc_info \in BOOLEAN : StartResponse(cl, exc_info)
    \/ \E n \in Lengths : AppYields(n)
    \/ AppReturns
    \/ AppRaises

Next ==
    \/ \E more_body \in BOOLEAN : Receive(more_body)
    \/ ReceiveOther
    \/ CancelLeaves \/ CancelShield \/ CancelAgain
    \/ TaskStep \/ SendStep \/ ThreadStarts \/ AppStep

Spec == Init /\ [][Next]_vars

\* The loop runs its tasks, the pool its functions, send() and the WSGI
\* application end.  Nothing makes the client send or the server cancel.
FairSpec ==
    /\ Spec
    /\ WF_vars(TaskStep) /\ WF_vars(SendStep) /\ WF_vars(ThreadStarts) /\ WF_vars(AppStep)

-----------------------------------------------------------------------------
(* Properties. *)

\* Types; the thread waits exactly while there is a message on its way.
TypeOK ==
    /\ task \in {"receive", "run", "cancelled", "join", "joined", "final", "ended"}
    /\ parts \in 0..MaxParts
    /\ thread \in {"none", "queued", "app"} \cup Sending \cup Over
    /\ send \in {"none", "posted", "running"}
    /\ send = "none" <=> thread \notin Sending
    /\ message \in Messages
    /\ output \in Lengths
    /\ response_started \in BOOLEAN
    /\ response_start \in StartTypes
    /\ response_content_length \in Lengths \cup {None}
    /\ bytes_sent \in Nat
    /\ calls \in 0..MaxCalls
    /\ cancels \in 0..MaxCancels
    /\ wire \in Seq(Messages)
    /\ delivered \in Nat
    /\ chunks \in 0..MaxChunks
    /\ produced \in Nat
    /\ halfway \in BOOLEAN
    /\ hit \in BOOLEAN

\* The kinds of the messages sent so far, in order.
Sent == [k \in DOMAIN wire |-> wire[k].type]

Response == INSTANCE HttpResponse WITH sent <- Sent

\* Whatever the WSGI application calls and yields, in which order, whatever is
\* refused, and whenever sending fails or the task is cancelled: one start message
\* comes first, then bodies, and nothing after the last one.
ImplementsResponse == Response!Spec

\* What is due of p bytes when content-length cl was declared.
Due(cl, p) == IF cl = None THEN p ELSE Min({cl, p})

\* "The server should not transmit more bytes to the client than the header
\* allows", nor fewer: what has been sent is what the WSGI application has produced,
\* up to the content-length of the start message that was sent, once the response
\* is complete, and never more before.  The exception is a start_response that was
\* refused because of its content-length after an earlier one had been accepted.
LengthKept ==
    wire # <<>> /\ ~halfway =>
        LET due == Due(wire[1].length, produced)
        IN  /\ delivered <= due
            /\ wire[Len(wire)].type = "last" => delivered = due

\* The request body, closed when __call__ ends, is open as long as the WSGI
\* application runs, and no message is sent afterwards; unless the task was
\* cancelled, and then not by a single cancellation whose CancelledError is raised
\* while a message is being sent.  One that was requested during a message may find
\* that sent when it is raised, and does close the body.
BodyKeptOpen ==
    task = "ended" /\ thread \notin Over \cup {"none"} =>
        cancels > 0 /\ ~(hit /\ cancels = 1)

\* Once the request is complete the task ends, also when send() raises or is
\* cancelled: the thread is never left waiting for a message nobody sends.
EveryRequestEnds == thread # "none" ~> task = "ended" /\ thread \in Over
=============================================================================
