----------------------------- MODULE WsgiProofs -----------------------------
(***************************************************************************)
(* Proofs about WsgiToAsgiInstance, for outputs and content-lengths of any *)
(* size and any number of calls, outputs and cancellations.                *)
(***************************************************************************)
EXTENDS Wsgi, TLAPS

-----------------------------------------------------------------------------
(* The inductive invariant. *)

\* Whether the response has begun and is complete.
Phase ==
    IF wire = <<>> THEN "none"
    ELSE IF wire[Len(wire)].type = "last" THEN "complete"
    ELSE "started"

\* What was sent, what is being sent and what comes next, for every place
\* run_wsgi_app can be at.
WireInv ==
    /\ thread \in {"none", "queued", "never", "bad", "start", "start0"} => wire = <<>>
    /\ thread = "app" /\ ~response_started => wire = <<>>
    /\ thread = "app" /\ response_started => Phase = "started"
    /\ thread \in {"body", "last", "badlast"} => Phase = "started"
    /\ thread = "returned" => Phase = "complete"
    /\ thread = "failed" => Phase # "complete"
    /\ thread \in {"start", "start0"} => /\ response_start # {}
                                         /\ message = StartMessage(response_start)
    /\ thread = "bad" => message = StartMessage({None})
    /\ thread = "body" => message = BodyMessage(output)
    /\ thread \in {"last", "badlast"} => message = LastMessage
    /\ thread \in {"start", "start0", "body", "last"} => response_started
    /\ thread \in {"none", "queued", "never", "bad", "badlast"} => ~response_started

\* The content-length that start_response keeps is the one of the start message,
\* unless it gave up half-way.
DeclaredInv ==
    /\ response_start # {} /\ ~halfway => response_start = {response_content_length}
    /\ wire # <<>> /\ ~halfway => wire[1].length = response_content_length
    /\ thread \in {"none", "queued", "never", "bad", "badlast"} =>
          ~halfway /\ response_content_length = None

\* Before an output is asked for nothing has been cut off; an output in hand brings
\* what was sent to what is due.
LengthInv ==
    /\ delivered = bytes_sent
    /\ bytes_sent <= Due(response_content_length, produced)
    /\ thread \in {"none", "queued", "never", "bad", "badlast"} =>
          bytes_sent = 0 /\ produced = 0
    /\ thread = "app" =>
          /\ bytes_sent = produced
          /\ ~response_started => produced = 0
          /\ response_started /\ response_content_length # None =>
                bytes_sent < response_content_length
    /\ thread \in {"start", "body"} =>
          bytes_sent + output = Due(response_content_length, produced)
    /\ thread \in {"start0", "last", "returned"} =>
          bytes_sent = Due(response_content_length, produced)

\* Where a cancellation has left the task: a CancelledError that is raised while a
\* message is being sent makes it wait for the message and then for the thread, and
\* none is left over.
TaskInv ==
    /\ task = "receive" => thread = "none"
    /\ cancels = 0 => ~hit /\ task \in {"receive", "run", "ended"}
    /\ hit => task \in {"join", "joined", "final", "ended"}

Inv == TypeOK /\ WireInv /\ DeclaredInv /\ LengthInv /\ TaskInv /\ BodyKeptOpen

-----------------------------------------------------------------------------
(* Operators. *)

LEMMA MinOfTwo ==
    ASSUME NEW a \in Int, NEW b \in Int
    PROVE  Min({a, b}) = IF a <= b THEN a ELSE b
  <1>1. \E m \in {a, b} : \A y \in {a, b} : m <= y
    OBVIOUS
  <1> QED  BY <1>1 DEF Min

\* What is due is what was produced, or the content-length if that is less.
LEMMA DueFacts ==
    ASSUME NEW cl \in Lengths \cup {None}, NEW p \in Nat
    PROVE  /\ Due(cl, p) \in Nat
           /\ cl = None => Due(cl, p) = p
           /\ cl # None => /\ cl \in Nat
                           /\ Due(cl, p) = IF cl <= p THEN cl ELSE p
  <1>1. cl # None => cl \in Nat
    BY WsgiAssumption DEF Lengths
  <1>2. cl # None => Due(cl, p) = IF cl <= p THEN cl ELSE p
    BY <1>1, MinOfTwo DEF Due
  <1> QED  BY <1>1, <1>2 DEF Due

\* The slice output[:bytes_allowed] is the whole output, or what is still due.
LEMMA ClampedFacts ==
    ASSUME TypeOK, LengthInv, NEW n \in Lengths
    PROVE  /\ Clamped(n) \in Lengths
           /\ response_content_length = None => Clamped(n) = n
           /\ response_content_length # None =>
                 /\ response_content_length \in Nat
                 /\ bytes_sent <= response_content_length
                 /\ Clamped(n) = IF n <= response_content_length - bytes_sent THEN n
                                 ELSE response_content_length - bytes_sent
  <1>1. bytes_sent \in Nat /\ produced \in Nat /\ n \in Nat /\ MaxLength \in Nat
    BY WsgiAssumption DEF TypeOK, Lengths
  <1>2. response_content_length \in Lengths \cup {None}
    BY DEF TypeOK
  <1>3. response_content_length # None =>
           response_content_length \in Nat /\ bytes_sent <= response_content_length
    BY <1>1, <1>2, DueFacts DEF LengthInv
  <1>4. response_content_length # None =>
           Clamped(n) = IF n <= response_content_length - bytes_sent THEN n
                        ELSE response_content_length - bytes_sent
    BY <1>1, <1>3, MinOfTwo DEF Clamped
  <1>5. response_content_length = None => Clamped(n) = n
    BY DEF Clamped
  <1> QED  BY <1>1, <1>3, <1>4, <1>5 DEF Lengths

\* The messages, and the content-length of a start message.
LEMMA MessageFacts ==
    /\ \A cl \in Lengths \cup {None} : /\ StartMessage({cl}) \in Messages
                                       /\ StartMessage({cl}).type = "start"
                                       /\ StartMessage({cl}).length = cl
    /\ \A n \in Lengths : /\ BodyMessage(n) \in Messages
                          /\ BodyMessage(n).type = "body"
                          /\ BodyMessage(n).length = n
    /\ LastMessage \in Messages
    /\ LastMessage.type = "last"
  <1>1. \A cl : (CHOOSE c \in {cl} : TRUE) = cl
    OBVIOUS
  <1> QED  BY <1>1 DEF StartMessage, BodyMessage, LastMessage, Messages

\* The start message of the last accepted start_response.
LEMMA StartFacts ==
    ASSUME TypeOK, response_start # {}
    PROVE  /\ StartMessage(response_start) \in Messages
           /\ StartMessage(response_start).type = "start"
           /\ response_start = {StartMessage(response_start).length}
  <1>1. PICK cl \in Lengths \cup {None} : response_start = {cl}
    BY DEF TypeOK, StartTypes
  <1> QED  BY <1>1, MessageFacts

\* As long as the thread has not returned, the last message has not been sent.
LEMMA NotComplete ==
    ASSUME TypeOK, WireInv, thread # "returned"
    PROVE  Phase # "complete"
  <1>1. wire = <<>> => Phase = "none"
    BY DEF Phase
  <1> QED  BY <1>1 DEF TypeOK, WireInv, Sending, Over

\* A message is sent.
LEMMA WireGrows ==
    ASSUME TypeOK, wire' = Append(wire, message)
    PROVE  /\ wire' \in Seq(Messages)
           /\ wire' # <<>>
           /\ wire'[1] = IF wire = <<>> THEN message ELSE wire[1]
           /\ Phase' = IF message.type = "last" THEN "complete" ELSE "started"
  <1>1. wire \in Seq(Messages) /\ message \in Messages
    BY DEF TypeOK
  <1>2. /\ wire' \in Seq(Messages)
        /\ Len(wire') = Len(wire) + 1
        /\ wire'[Len(wire')] = message
        /\ \A k \in 1..Len(wire) : wire'[k] = wire[k]
    BY <1>1
  <1>3. wire' # <<>>
    BY <1>1, <1>2
  <1>4. wire'[1] = IF wire = <<>> THEN message ELSE wire[1]
    BY <1>1, <1>2
  <1> QED  BY <1>2, <1>3, <1>4 DEF Phase

-----------------------------------------------------------------------------
(* The ASGI task only moves itself, and the function it queues. *)

\* The steps of __call__.
TaskMoves ==
    \/ \E more_body \in BOOLEAN : Receive(more_body)
    \/ ReceiveOther
    \/ CancelLeaves \/ CancelShield \/ CancelAgain
    \/ TaskStep

LEMMA TaskFrame ==
    ASSUME TypeOK, TaskInv, TaskMoves
    PROVE  /\ UNCHANGED <<sendVars, output, responseVars, bytes_sent, appVars>>
           /\ \/ thread' = thread
              \/ thread = "none" /\ thread' = "queued"
              \/ thread = "queued" /\ thread' = "never"
  BY DEF TaskMoves, Receive, ReceiveOther, CancelLeaves, CancelShield, CancelAgain,
     Cancelled, Abandons, TaskStep, TaskReturns, RaisedAtShield, JoinReturns, TaskInv

LEMMA TaskKeepsResponse ==
    ASSUME Inv, TaskMoves
    PROVE  WireInv' /\ DeclaredInv' /\ LengthInv'
  <1>1. /\ UNCHANGED <<send, message, wire, delivered, output, response_started,
                       response_start, response_content_length, halfway, bytes_sent,
                       produced>>
        /\ \/ thread' = thread
           \/ thread = "none" /\ thread' = "queued"
           \/ thread = "queued" /\ thread' = "never"
    BY TaskFrame DEF Inv, sendVars, wireVars, responseVars, appVars
  <1>2. Phase' = Phase
    BY <1>1 DEF Phase
  <1>3. WireInv'
    BY <1>1, <1>2 DEF Inv, WireInv, StartMessage, BodyMessage, LastMessage
  <1>4. DeclaredInv'
    BY <1>1 DEF Inv, DeclaredInv
  <1>5. LengthInv'
    BY <1>1 DEF Inv, LengthInv, Due
  <1> QED  BY <1>3, <1>4, <1>5

LEMMA TaskKeepsTypes ==
    ASSUME Inv, TaskMoves
    PROVE  TypeOK'
  <1>1. /\ UNCHANGED <<send, message, wire, delivered, output, response_started,
                       response_start, response_content_length, halfway, bytes_sent,
                       calls, chunks, produced>>
        /\ \/ thread' = thread
           \/ thread = "none" /\ thread' = "queued"
           \/ thread = "queued" /\ thread' = "never"
    BY TaskFrame DEF Inv, sendVars, wireVars, responseVars, appVars
  <1>2. hit' \in BOOLEAN
    BY Zenon DEF Inv, TypeOK, TaskMoves, Receive, ReceiveOther, CancelLeaves, CancelShield,
       CancelAgain, Cancelled, Abandons, TaskStep, TaskReturns, RaisedAtShield, JoinReturns
  <1>3. task' \in {"receive", "run", "cancelled", "join", "joined", "final", "ended"}
    BY DEF Inv, TypeOK, TaskMoves, Receive, ReceiveOther, CancelLeaves, CancelShield,
       CancelAgain, Cancelled, Abandons, TaskStep, TaskReturns, RaisedAtShield, JoinReturns, Ends
  <1>4. parts' \in 0..MaxParts
    BY WsgiAssumption
       DEF Inv, TypeOK, TaskMoves, Receive, ReceiveOther, CancelLeaves, CancelShield,
       CancelAgain, Cancelled, Abandons, TaskStep, TaskReturns, RaisedAtShield, JoinReturns, Ends
  <1>5. cancels' \in 0..MaxCancels
    BY WsgiAssumption
       DEF Inv, TypeOK, TaskMoves, Receive, ReceiveOther, CancelLeaves, CancelShield,
       CancelAgain, Cancelled, Abandons, TaskStep, TaskReturns, RaisedAtShield, JoinReturns, Ends
  <1> QED  BY <1>1, <1>2, <1>3, <1>4, <1>5 DEF Inv, TypeOK, Sending, Over

LEMMA TaskKeepsTask ==
    ASSUME Inv, TaskMoves
    PROVE  TaskInv' /\ BodyKeptOpen'
  <1> USE DEF Inv, TypeOK, TaskInv, BodyKeptOpen, Over, Sending
  <1>0. cancels \in Nat
    BY WsgiAssumption
  <1>1. ASSUME NEW more_body \in BOOLEAN, Receive(more_body)
        PROVE  TaskInv' /\ BodyKeptOpen'
    BY <1>1 DEF Receive
  <1>2. CASE ReceiveOther
    BY <1>2 DEF ReceiveOther, Ends
  <1>3. CASE CancelLeaves
    BY <1>0, <1>3 DEF CancelLeaves, Cancelled, Abandons, Ends
  <1>4. CASE CancelShield
    BY <1>0, <1>4 DEF CancelShield, Cancelled
  <1>5. CASE CancelAgain
    BY <1>0, <1>5 DEF CancelAgain, Cancelled
  <1>6. CASE TaskReturns
    BY <1>6 DEF TaskReturns, Ends
  <1>7. CASE JoinReturns
    BY <1>7 DEF JoinReturns, Ends
  <1>8. CASE RaisedAtShield
    BY <1>0, <1>8 DEF RaisedAtShield, Abandons, Ends
  <1> QED  BY <1>1, <1>2, <1>3, <1>4, <1>5, <1>6, <1>7, <1>8 DEF TaskMoves, TaskStep

-----------------------------------------------------------------------------
(* The thread and its send tasks do not cancel anybody. *)

\* The steps of run_wsgi_app and of the send tasks.
ThreadMoves == SendStep \/ ThreadStarts \/ AppStep

LEMMA ThreadFrame ==
    ASSUME TypeOK, ThreadMoves
    PROVE  /\ UNCHANGED <<parts, cancels, hit>>
           /\ task' = task \/ (task = "join" /\ task' = "joined")
           /\ thread \notin Over \cup {"none"}
  BY DEF ThreadMoves, SendStep, SendStarts, SendReturns, SendRaises, Joined, ThreadStarts,
     AppStep, AppCalls, StartRefused, StartHalfway, StartResponse, AppYields, AppReturns,
     AppRaises, taskVars, Over, Sending, TypeOK

LEMMA ThreadKeepsTask ==
    ASSUME Inv, ThreadMoves
    PROVE  TaskInv' /\ BodyKeptOpen'
  <1>1. /\ UNCHANGED <<parts, cancels, hit>>
        /\ task' = task \/ (task = "join" /\ task' = "joined")
        /\ thread \notin Over \cup {"none"}
    BY ThreadFrame DEF Inv
  <1> QED  BY <1>1 DEF Inv, TaskInv, BodyKeptOpen, Over

\* Type correctness of what the thread does not touch.
LEMMA ThreadKeepsTaskTypes ==
    ASSUME Inv, ThreadMoves
    PROVE  /\ task' \in {"receive", "run", "cancelled", "join", "joined", "final", "ended"}
           /\ parts' \in 0..MaxParts
           /\ cancels' \in 0..MaxCancels
           /\ hit' \in BOOLEAN
  BY ThreadFrame DEF Inv, TypeOK

\* The loop starts a send task.
LEMMA SendStartsKeeps ==
    ASSUME Inv, SendStarts
    PROVE  TypeOK' /\ WireInv' /\ DeclaredInv' /\ LengthInv'
  <1> USE DEF SendStarts, taskVars, sendVars, wireVars, responseVars, appVars
  <1>0. ThreadMoves
    BY DEF ThreadMoves, SendStep
  <1>1. Phase' = Phase
    BY DEF Phase
  <1>3. /\ response_started' \in BOOLEAN
        /\ halfway' \in BOOLEAN
    BY Zenon DEF Inv, TypeOK
  <1>4. TypeOK'
    BY <1>0, <1>3, ThreadKeepsTaskTypes, WsgiAssumption DEF Inv, TypeOK, Sending, Over
  <1>5. WireInv'
    BY <1>1 DEF Inv, TypeOK, WireInv, Sending, Over
  <1>6. DeclaredInv'
    BY <1>1 DEF Inv, TypeOK, DeclaredInv, WireInv, Sending, Over
  <1>7. LengthInv'
    BY <1>1 DEF Inv, TypeOK, LengthInv, Sending, Over
  <1> QED  BY <1>4, <1>5, <1>6, <1>7

\* sync_send raises: the thread ends and nothing was sent.
LEMMA SendRaisesKeeps ==
    ASSUME Inv, SendRaises
    PROVE  TypeOK' /\ WireInv' /\ DeclaredInv' /\ LengthInv'
  <1> USE DEF SendRaises, taskVars, sendVars, wireVars, responseVars, appVars
  <1>0. ThreadMoves
    BY DEF ThreadMoves, SendStep
  <1>1. Phase' = Phase
    BY DEF Phase
  <1>3. /\ response_started' \in BOOLEAN
        /\ halfway' \in BOOLEAN
    BY Zenon DEF Inv, TypeOK
  <1>4. TypeOK'
    BY <1>0, <1>3, ThreadKeepsTaskTypes, WsgiAssumption DEF Inv, TypeOK, Sending, Over
  <1>5. WireInv'
    BY <1>1, NotComplete DEF Inv, TypeOK, WireInv, Sending, Over
  <1>6. DeclaredInv'
    BY <1>1 DEF Inv, TypeOK, DeclaredInv, WireInv, Sending, Over
  <1>7. LengthInv'
    BY <1>1 DEF Inv, TypeOK, LengthInv, Sending, Over
  <1> QED  BY <1>4, <1>5, <1>6, <1>7

\* build_environ answers, is answered with a 400, or raises.
LEMMA ThreadStartsKeeps ==
    ASSUME Inv, ThreadStarts
    PROVE  TypeOK' /\ WireInv' /\ DeclaredInv' /\ LengthInv'
  <1> USE DEF ThreadStarts, BuildEnviron, SyncSend, taskVars, sendVars, wireVars, responseVars, appVars
  <1>0. ThreadMoves
    BY DEF ThreadMoves
  <1>1. Phase' = Phase
    BY DEF Phase
  <1>3. /\ response_started' \in BOOLEAN
        /\ halfway' \in BOOLEAN
    BY Zenon DEF Inv, TypeOK
  <1>2. /\ thread' \in {"none", "queued", "app"} \cup Sending \cup Over
        /\ send' \in {"none", "posted", "running"}
        /\ send' = "none" <=> thread' \notin Sending
    BY DEF Inv, TypeOK, Sending, Over
  <1>8. message' \in Messages
    BY MessageFacts DEF Inv, TypeOK
  <1>4. TypeOK'
    BY <1>0, <1>2, <1>3, <1>8, ThreadKeepsTaskTypes DEF Inv, TypeOK
  <1>5. WireInv'
    BY <1>1, NotComplete DEF Inv, TypeOK, WireInv, Sending, Over
  <1>6. DeclaredInv'
    BY <1>1, MessageFacts DEF Inv, TypeOK, DeclaredInv, WireInv, Sending, Over
  <1>7. LengthInv'
    <2>1. /\ bytes_sent = 0 /\ produced = 0 /\ ~response_started
          /\ thread' \in {"bad", "app", "failed"}
          /\ UNCHANGED <<delivered, bytes_sent, response_content_length, produced,
                         response_started>>
      BY DEF Inv, WireInv, LengthInv
    <2> QED  BY <2>1 DEF Inv, LengthInv
  <1> QED  BY <1>4, <1>5, <1>6, <1>7

\* start_response refuses a call.
LEMMA StartRefusedKeeps ==
    ASSUME Inv, StartRefused
    PROVE  TypeOK' /\ WireInv' /\ DeclaredInv' /\ LengthInv'
  <1> USE DEF StartRefused, AppCalls, taskVars, sendVars, wireVars, responseVars, appVars
  <1>0. ThreadMoves
    BY DEF ThreadMoves, AppStep
  <1>1. Phase' = Phase
    BY DEF Phase
  <1>3. /\ response_started' \in BOOLEAN
        /\ halfway' \in BOOLEAN
    BY Zenon DEF Inv, TypeOK
  <1>4. TypeOK'
    BY <1>0, <1>3, ThreadKeepsTaskTypes, WsgiAssumption DEF Inv, TypeOK, Sending, Over
  <1>5. WireInv'
    BY <1>1 DEF Inv, TypeOK, WireInv, Sending, Over
  <1>6. DeclaredInv'
    BY <1>1 DEF Inv, TypeOK, DeclaredInv, WireInv, Sending, Over
  <1>7. LengthInv'
    BY <1>1 DEF Inv, TypeOK, LengthInv, Sending, Over
  <1> QED  BY <1>4, <1>5, <1>6, <1>7

\* start_response gives up at content-length, before anything was sent.
LEMMA StartHalfwayKeeps ==
    ASSUME Inv, NEW cl \in Lengths \cup {None}, StartHalfway(cl)
    PROVE  TypeOK' /\ WireInv' /\ DeclaredInv' /\ LengthInv'
  <1> USE DEF StartHalfway, AppCalls, taskVars, sendVars, wireVars, responseVars, appVars
  <1>0. ThreadMoves
    BY DEF ThreadMoves, AppStep
  <1>1. Phase' = Phase
    BY DEF Phase
  <1>3. /\ response_started' \in BOOLEAN
        /\ halfway' \in BOOLEAN
    BY Zenon DEF Inv, TypeOK
  <1>4. TypeOK'
    BY <1>0, <1>3, ThreadKeepsTaskTypes, WsgiAssumption DEF Inv, TypeOK, Sending, Over
  <1>5. WireInv'
    BY <1>1 DEF Inv, TypeOK, WireInv, Sending, Over
  <1>6. DeclaredInv'
    BY <1>1 DEF Inv, TypeOK, DeclaredInv, WireInv, Sending, Over
  <1>7. LengthInv'
    <2>1. produced = 0 /\ bytes_sent = 0 /\ thread' = "app" /\ ~response_started'
      BY DEF Inv, LengthInv
    <2>2. Due(cl, 0) \in Nat
      BY DueFacts
    <2> QED  BY <2>1, <2>2 DEF Inv, LengthInv
  <1> QED  BY <1>4, <1>5, <1>6, <1>7

\* start_response accepts a call, before anything was sent.
LEMMA StartResponseKeeps ==
    ASSUME Inv, NEW cl \in Lengths \cup {None}, NEW exc_info \in BOOLEAN, StartResponse(cl, exc_info)
    PROVE  TypeOK' /\ WireInv' /\ DeclaredInv' /\ LengthInv'
  <1> USE DEF StartResponse, AppCalls, taskVars, sendVars, wireVars, responseVars, appVars
  <1>0. ThreadMoves
    BY DEF ThreadMoves, AppStep
  <1>1. Phase' = Phase
    BY DEF Phase
  <1>3. /\ response_started' \in BOOLEAN
        /\ halfway' \in BOOLEAN
    BY Zenon DEF Inv, TypeOK
  <1>2. /\ response_start' \in StartTypes
        /\ response_content_length' \in Lengths \cup {None}
    BY DEF Inv, TypeOK, StartTypes
  <1>8. calls' \in 0..MaxCalls
    BY WsgiAssumption DEF Inv, TypeOK
  <1>4. TypeOK'
    BY <1>0, <1>2, <1>3, <1>8, ThreadKeepsTaskTypes DEF Inv, TypeOK, Sending, Over
  <1>5. WireInv'
    BY <1>1 DEF Inv, TypeOK, WireInv, Sending, Over
  <1>6. DeclaredInv'
    BY <1>1 DEF Inv, TypeOK, DeclaredInv, WireInv, Sending, Over
  <1>7. LengthInv'
    <2>1. produced = 0 /\ bytes_sent = 0 /\ thread' = "app" /\ ~response_started'
      BY DEF Inv, LengthInv
    <2>2. Due(cl, 0) \in Nat
      BY DueFacts
    <2> QED  BY <2>1, <2>2 DEF Inv, LengthInv
  <1> QED  BY <1>4, <1>5, <1>6, <1>7

\* The WSGI application raises.
LEMMA AppRaisesKeeps ==
    ASSUME Inv, AppRaises
    PROVE  TypeOK' /\ WireInv' /\ DeclaredInv' /\ LengthInv'
  <1> USE DEF AppRaises, taskVars, sendVars, wireVars, responseVars, appVars
  <1>0. ThreadMoves
    BY DEF ThreadMoves, AppStep
  <1>1. Phase' = Phase
    BY DEF Phase
  <1>3. /\ response_started' \in BOOLEAN
        /\ halfway' \in BOOLEAN
    BY Zenon DEF Inv, TypeOK
  <1>4. TypeOK'
    BY <1>0, <1>3, ThreadKeepsTaskTypes, WsgiAssumption DEF Inv, TypeOK, Sending, Over
  <1>5. WireInv'
    BY <1>1, NotComplete DEF Inv, TypeOK, WireInv, Sending, Over
  <1>6. DeclaredInv'
    BY <1>1 DEF Inv, TypeOK, DeclaredInv, WireInv, Sending, Over
  <1>7. LengthInv'
    BY <1>1 DEF Inv, TypeOK, LengthInv, Sending, Over
  <1> QED  BY <1>4, <1>5, <1>6, <1>7

\* The output is over: all of it was sent, as nothing was cut off before.
LEMMA AppReturnsKeeps ==
    ASSUME Inv, AppReturns
    PROVE  TypeOK' /\ WireInv' /\ DeclaredInv' /\ LengthInv'
  <1> USE DEF AppReturns, Closes, SyncSend, taskVars, sendVars, wireVars, responseVars, appVars
  <1>0. ThreadMoves
    BY DEF ThreadMoves, AppStep
  <1>1. Phase' = Phase
    BY DEF Phase
  <1>3. /\ response_started' \in BOOLEAN
        /\ halfway' \in BOOLEAN
    BY Zenon DEF Inv, TypeOK
  <1>4. TypeOK'
    BY <1>0, <1>3, ThreadKeepsTaskTypes, StartFacts, MessageFacts DEF Inv, TypeOK, Sending, Over
  <1>5. WireInv'
    BY <1>1, NotComplete DEF Inv, TypeOK, WireInv, Sending, Over
  <1>6. DeclaredInv'
    BY <1>1, MessageFacts DEF Inv, TypeOK, DeclaredInv, WireInv, Sending, Over
  <1>7. LengthInv'
    <2>1. bytes_sent = Due(response_content_length, produced)
      <3>1. /\ response_content_length \in Lengths \cup {None}
            /\ produced \in Nat
            /\ bytes_sent = produced
            /\ response_content_length # None =>
                  produced = 0 \/ produced < response_content_length
        BY DEF Inv, TypeOK, LengthInv
      <3>2. /\ response_content_length = None =>
                  Due(response_content_length, produced) = produced
            /\ response_content_length # None =>
                  /\ response_content_length \in Nat
                  /\ Due(response_content_length, produced)
                        = IF response_content_length <= produced
                          THEN response_content_length ELSE produced
        BY <3>1, DueFacts
      <3> QED  BY <3>1, <3>2
    <2>2. /\ thread' \in {"last", "start0", "failed"}
          /\ UNCHANGED <<delivered, bytes_sent, response_content_length, produced>>
      OBVIOUS
    <2> QED  BY <2>1, <2>2 DEF Inv, TypeOK, LengthInv
  <1> QED  BY <1>4, <1>5, <1>6, <1>7

\* An output: the part that is sent brings what was sent to what is due.
LEMMA AppYieldsKeeps ==
    ASSUME Inv, NEW n \in Lengths, AppYields(n)
    PROVE  TypeOK' /\ WireInv' /\ DeclaredInv' /\ LengthInv'
  <1> USE DEF AppYields, SyncSend, taskVars, sendVars, wireVars, responseVars, appVars
  <1>0. ThreadMoves
    BY DEF ThreadMoves, AppStep
  <1>1. Phase' = Phase
    BY DEF Phase
  <1>3. /\ response_started' \in BOOLEAN
        /\ halfway' \in BOOLEAN
    BY Zenon DEF Inv, TypeOK
  <1>4. TypeOK'
    <2>1. Clamped(n) \in Lengths /\ n \in Nat
      BY ClampedFacts DEF Inv, Lengths
    <2>2. message' \in Messages
      BY <2>1, StartFacts, MessageFacts DEF Inv, TypeOK
    <2>3. produced' \in Nat /\ chunks' \in 0..MaxChunks
      BY <2>1, WsgiAssumption DEF Inv, TypeOK
    <2>4. /\ thread' \in {"body", "start", "failed"}
          /\ send' = IF thread' = "failed" THEN "none" ELSE "posted"
      BY DEF Inv, TypeOK, Sending
    <2> QED  BY <1>0, <1>3, <2>1, <2>2, <2>3, <2>4, ThreadKeepsTaskTypes
             DEF Inv, TypeOK, Sending, Over
  <1>5. WireInv'
    BY <1>1, NotComplete DEF Inv, TypeOK, WireInv, Sending, Over
  <1>6. DeclaredInv'
    BY <1>1, MessageFacts DEF Inv, TypeOK, DeclaredInv, WireInv, Sending, Over
  <1>7. LengthInv'
    <2>1. /\ response_content_length \in Lengths \cup {None}
          /\ n \in Nat /\ produced \in Nat /\ produced' = produced + n
          /\ bytes_sent = produced /\ bytes_sent' = produced
          /\ delivered' = bytes_sent'
          /\ output' = Clamped(n)
          /\ thread' \in {"body", "start", "failed"}
          /\ response_content_length' = response_content_length
      BY DEF Inv, TypeOK, LengthInv, Lengths
    <2>2. bytes_sent' + output' = Due(response_content_length, produced + n)
      <3>1. produced + n \in Nat
        BY <2>1
      <3>2. /\ response_content_length = None =>
                  Due(response_content_length, produced + n) = produced + n
            /\ response_content_length # None =>
                  /\ response_content_length \in Nat
                  /\ Due(response_content_length, produced + n)
                        = IF response_content_length <= produced + n
                          THEN response_content_length ELSE produced + n
        BY <2>1, <3>1, DueFacts
      <3>3. /\ response_content_length = None => Clamped(n) = n
            /\ response_content_length # None =>
                  Clamped(n) = IF n <= response_content_length - bytes_sent THEN n
                               ELSE response_content_length - bytes_sent
        BY ClampedFacts DEF Inv
      <3> QED  BY <2>1, <3>2, <3>3
    <2>3. output' \in Nat
      BY <2>1, ClampedFacts DEF Inv, Lengths
    <2>4. bytes_sent' <= Due(response_content_length', produced')
      BY <2>1, <2>2, <2>3
    <2> QED  BY <2>1, <2>2, <2>4 DEF LengthInv
  <1> QED  BY <1>4, <1>5, <1>6, <1>7

\* send() returns and the thread goes on.
LEMMA SendReturnsKeeps ==
    ASSUME Inv, SendReturns
    PROVE  TypeOK' /\ WireInv' /\ DeclaredInv' /\ LengthInv'
  <1> USE DEF SendReturns, Continue, SyncSend
  <1>0. ThreadMoves
    BY DEF ThreadMoves, SendStep
  <1>1. /\ wire' \in Seq(Messages)
        /\ wire' # <<>>
        /\ wire'[1] = IF wire = <<>> THEN message ELSE wire[1]
        /\ Phase' = IF message.type = "last" THEN "complete" ELSE "started"
    BY WireGrows DEF Inv
  <1>2. /\ thread \in Sending
        /\ UNCHANGED <<output, response_start, response_content_length, halfway, produced>>
    BY DEF Inv, TypeOK, appVars
  <1>3. /\ output \in Lengths /\ output \in Nat
        /\ response_content_length \in Lengths \cup {None}
        /\ bytes_sent \in Nat /\ delivered \in Nat /\ produced \in Nat
        /\ delivered = bytes_sent
    BY DEF Inv, TypeOK, Lengths, LengthInv
  \* What becomes of the thread, place by place.
  <1>4. /\ thread \in {"start", "start0", "bad"} => message.type = "start"
        /\ thread = "body" => message.type = "body" /\ message.length = output
        /\ thread \in {"last", "badlast"} => message.type = "last"
        /\ wire = <<>> /\ ~halfway => message.length = response_content_length
    <2>1. thread \in {"body", "last", "badlast"} => wire # <<>>
      BY DEF Inv, WireInv, Phase
    <2>2. thread \in {"start", "start0"} =>
             /\ message.type = "start"
             /\ ~halfway => message.length = response_content_length
      BY StartFacts DEF Inv, WireInv, DeclaredInv
    <2>3. thread = "bad" =>
             message.type = "start" /\ message.length = response_content_length
      <3>1. StartMessage({None}).type = "start" /\ StartMessage({None}).length = None
        BY MessageFacts
      <3> QED  BY <3>1 DEF Inv, WireInv, DeclaredInv
    <2>4. thread = "body" => message.type = "body" /\ message.length = output
      BY <1>3, MessageFacts DEF Inv, WireInv
    <2>5. thread \in {"last", "badlast"} => message.type = "last"
      BY MessageFacts DEF Inv, WireInv
    <2> QED  BY <1>2, <2>1, <2>2, <2>3, <2>4, <2>5 DEF Sending
  <1>5. delivered' = IF thread = "body" THEN delivered + output ELSE delivered
    BY <1>2, <1>3, <1>4 DEF Sending
  <1>6. bytes_sent' = IF thread = "body" THEN bytes_sent + output ELSE bytes_sent
    BY <1>2 DEF Sending
  <1>7. /\ thread = "start" => /\ thread' = "body" /\ send' = "posted"
                               /\ message' = BodyMessage(output)
        /\ thread = "start0" => /\ thread' = "last" /\ send' = "posted"
                                /\ message' = LastMessage
        /\ thread = "bad" => /\ thread' = "badlast" /\ send' = "posted"
                             /\ message' = LastMessage
        /\ thread \in {"last", "badlast"} => /\ thread' = "returned" /\ send' = "none"
                                             /\ message' = message
    OBVIOUS
  <1>8. thread = "body" =>
           IF bytes_sent + output = response_content_length
           THEN thread' = "last" /\ send' = "posted" /\ message' = LastMessage
           ELSE thread' = "app" /\ send' = "none" /\ message' = message
    <2>1. thread = "body" => response_started
      BY DEF Inv, WireInv
    <2> QED  BY <1>6, <2>1 DEF Closes
  <1>9. response_started' = response_started
    <2>1. thread = "body" => response_started /\ response_started \in BOOLEAN
      BY DEF Inv, WireInv, TypeOK
    <2> QED  BY <1>2, <2>1 DEF Closes, Sending
  <1>10. TypeOK'
    <2>1. message' \in Messages
      BY <1>2, <1>3, <1>7, <1>8, MessageFacts DEF Inv, TypeOK, Sending
    <2>2. /\ thread' \in {"none", "queued", "app"} \cup Sending \cup Over
          /\ send' \in {"none", "posted", "running"}
          /\ send' = "none" <=> thread' \notin Sending
      BY <1>2, <1>7, <1>8 DEF Sending, Over
    <2>3. bytes_sent' \in Nat /\ delivered' \in Nat
      BY <1>3, <1>5, <1>6
    <2> QED  BY <1>0, <1>1, <1>2, <1>9, <2>1, <2>2, <2>3, ThreadKeepsTaskTypes
             DEF Inv, TypeOK, appVars
  <1>11. WireInv'
    BY <1>1, <1>2, <1>4, <1>7, <1>8, <1>9 DEF Inv, WireInv, Sending, BodyMessage, LastMessage
  <1>12. DeclaredInv'
    BY <1>1, <1>2, <1>4, <1>7, <1>8 DEF Inv, DeclaredInv, Sending
  <1>13. LengthInv'
    <2>1. delivered' = bytes_sent'
      BY <1>3, <1>5, <1>6
    <2>2. CASE thread = "body"
      <3>1. bytes_sent' = Due(response_content_length, produced) /\ bytes_sent' \in Nat
        BY <1>3, <1>6, <2>2 DEF Inv, LengthInv
      <3>2. CASE bytes_sent' = response_content_length
        BY <1>2, <1>6, <1>8, <2>1, <2>2, <3>1, <3>2 DEF LengthInv
      <3>3. CASE bytes_sent' # response_content_length
        <4>1. /\ response_content_length = None =>
                    Due(response_content_length, produced) = produced
              /\ response_content_length # None =>
                    /\ response_content_length \in Nat
                    /\ Due(response_content_length, produced)
                          = IF response_content_length <= produced
                            THEN response_content_length ELSE produced
          BY <1>3, DueFacts
        <4>2. bytes_sent' = produced
          BY <3>1, <3>3, <4>1
        <4>3. response_content_length # None => bytes_sent' < response_content_length
          BY <1>3, <3>1, <3>3, <4>1
        <4>4. thread' = "app" /\ response_started'
          BY <1>6, <1>8, <1>9, <2>2, <3>3 DEF Inv, WireInv
        <4> QED  BY <1>2, <2>1, <3>1, <4>2, <4>3, <4>4 DEF LengthInv
      <3> QED  BY <3>2, <3>3
    <2>3. CASE thread # "body"
      BY <1>2, <1>3, <1>6, <1>7, <2>1, <2>3, DueFacts DEF Inv, LengthInv, DeclaredInv, Sending
    <2> QED  BY <2>2, <2>3
  <1> QED  BY <1>10, <1>11, <1>12, <1>13

-----------------------------------------------------------------------------
(* Every step keeps the invariant. *)

LEMMA InitInv == Init => Inv
  <1> SUFFICES ASSUME Init PROVE Inv
    OBVIOUS
  <1>1. TypeOK
    <2>1. response_start \in StartTypes /\ wire \in Seq(Messages)
      BY DEF Init, StartTypes
    <2>2. /\ parts \in 0..MaxParts
          /\ calls \in 0..MaxCalls
          /\ cancels \in 0..MaxCancels
          /\ chunks \in 0..MaxChunks
          /\ output \in Lengths
          /\ bytes_sent \in Nat /\ delivered \in Nat /\ produced \in Nat
      BY WsgiAssumption DEF Init, Lengths
    <2>3. response_started \in BOOLEAN /\ halfway \in BOOLEAN /\ hit \in BOOLEAN
      BY Zenon DEF Init
    <2>4. /\ thread \in {"none", "queued", "app"} \cup Sending \cup Over
          /\ send \in {"none", "posted", "running"}
          /\ send = "none" <=> thread \notin Sending
      BY DEF Init, Sending, Over
    <2>5. message \in Messages /\ response_content_length \in Lengths \cup {None}
      BY MessageFacts DEF Init
    <2> QED  BY <2>1, <2>2, <2>3, <2>4, <2>5 DEF Init, TypeOK
  <1>2. WireInv /\ DeclaredInv
    BY DEF Init, WireInv, DeclaredInv
  <1>3. LengthInv
    BY DEF Init, LengthInv, Due
  <1>4. TaskInv /\ BodyKeptOpen
    BY DEF Init, TaskInv, BodyKeptOpen
  <1> QED  BY <1>1, <1>2, <1>3, <1>4 DEF Inv

LEMMA NextInv == Inv /\ [Next]_vars => Inv'
  <1> SUFFICES ASSUME Inv, [Next]_vars PROVE Inv'
    OBVIOUS
  <1>1. CASE TaskMoves
    BY <1>1, TaskKeepsResponse, TaskKeepsTypes, TaskKeepsTask DEF Inv
  <1>2. CASE ThreadMoves
    <2>1. TypeOK' /\ WireInv' /\ DeclaredInv' /\ LengthInv'
      BY <1>2, SendStartsKeeps, SendReturnsKeeps, SendRaisesKeeps, ThreadStartsKeeps,
         StartRefusedKeeps, StartHalfwayKeeps, StartResponseKeeps, AppYieldsKeeps,
         AppReturnsKeeps, AppRaisesKeeps
         DEF ThreadMoves, SendStep, AppStep
    <2> QED  BY <1>2, <2>1, ThreadKeepsTask DEF Inv
  <1>3. CASE UNCHANGED vars
    <2> USE <1>3 DEF vars, taskVars, sendVars, wireVars, responseVars, appVars
    <2>1. TypeOK'
      BY DEF Inv, TypeOK
    <2>2. Phase' = Phase
      BY DEF Phase
    <2>3. WireInv' /\ DeclaredInv'
      BY <2>2 DEF Inv, WireInv, DeclaredInv
    <2>4. LengthInv' /\ TaskInv' /\ BodyKeptOpen'
      BY DEF Inv, LengthInv, TaskInv, BodyKeptOpen
    <2> QED  BY <2>1, <2>3, <2>4 DEF Inv
  <1> QED  BY <1>1, <1>2, <1>3 DEF Next, TaskMoves, ThreadMoves

LEMMA Invariance == Spec => []Inv
  BY InitInv, NextInv, PTL DEF Spec

-----------------------------------------------------------------------------
(* The theorems. *)

\* Every value has its type, and run_wsgi_app waits exactly while a message it has
\* handed to the loop is on its way.
THEOREM TypeCorrect == Spec => []TypeOK
  BY Invariance, PTL DEF Inv

\* The request body is closed under a running WSGI application only by a task that
\* was cancelled, and not by one cancellation raised while a message was being sent.
THEOREM BodyStaysOpen == Spec => []BodyKeptOpen
  BY Invariance, PTL DEF Inv

\* Cutting outputs off at bytes_allowed and leaving the loop when bytes_sent reaches
\* the content-length sends exactly what is due, whatever the sizes of the outputs.
THEOREM LengthIsKept == Spec => []LengthKept
  <1>1. Inv => LengthKept
    <2> SUFFICES ASSUME Inv, wire # <<>>, ~halfway
                 PROVE  /\ delivered <= Due(wire[1].length, produced)
                        /\ Phase = "complete" => delivered = Due(wire[1].length, produced)
      BY DEF LengthKept, Phase
    <2>1. wire[1].length = response_content_length
      BY DEF Inv, DeclaredInv
    <2>2. Phase = "complete" => thread = "returned"
      BY NotComplete DEF Inv
    <2> QED  BY <2>1, <2>2 DEF Inv, LengthInv
  <1> QED  BY <1>1, Invariance, PTL

\* A message that is sent is added to the kinds of messages sent.
LEMMA SentGrows ==
    ASSUME TypeOK, wire' = Append(wire, message)
    PROVE  /\ Sent' = Append(Sent, message.type)
           /\ wire = <<>> => Sent = <<>>
           /\ Phase = "started" => Response!Open
  <1>1. wire \in Seq(Messages) /\ message \in Messages
    BY DEF TypeOK
  <1>2. \A m \in Messages : m.type \in {"start", "body", "last"}
    BY DEF Messages
  <1>3. /\ Sent \in Seq({"start", "body", "last"})
        /\ Len(Sent) = Len(wire)
        /\ \A k \in 1..Len(wire) : Sent[k] = wire[k].type
    BY <1>1, <1>2 DEF Sent
  <1>4. /\ Sent' \in Seq({"start", "body", "last"})
        /\ Len(Sent') = Len(wire) + 1
        /\ \A k \in 1..(Len(wire) + 1) :
              Sent'[k] = IF k = Len(wire) + 1 THEN message.type ELSE wire[k].type
    <2>1. /\ wire' \in Seq(Messages) /\ Len(wire') = Len(wire) + 1
          /\ \A k \in 1..(Len(wire) + 1) :
                wire'[k] = IF k = Len(wire) + 1 THEN message ELSE wire[k]
      BY <1>1
    <2> QED  BY <1>1, <1>2, <2>1 DEF Sent
  <1>5. Sent' = Append(Sent, message.type)
    BY <1>1, <1>2, <1>3, <1>4
  <1>6. wire = <<>> => Sent = <<>>
    BY <1>3
  <1>7. Phase = "started" => Response!Open
    BY <1>1, <1>3 DEF Phase, Response!Open
  <1> QED  BY <1>5, <1>6, <1>7

\* The first message that is sent is a start message, all others are not, and none
\* comes after the last one.
LEMMA SendMaps ==
    ASSUME Inv, SendReturns
    PROVE  Response!Next
  <1>1. /\ Sent' = Append(Sent, message.type)
        /\ wire = <<>> => Sent = <<>>
        /\ Phase = "started" => Response!Open
    BY SentGrows DEF Inv, SendReturns
  <1>2. thread \in Sending
    BY DEF Inv, TypeOK, SendReturns
  <1>3. CASE thread \in {"start", "start0", "bad"}
    <2>1. Sent = <<>>
      BY <1>1, <1>3 DEF Inv, WireInv
    <2>2. message.type = "start"
      <3>1. StartMessage({None}).type = "start"
        BY MessageFacts
      <3> QED  BY <1>3, <3>1, StartFacts DEF Inv, WireInv
    <2>3. Sent' = <<"start">>
      BY <1>1, <2>1, <2>2
    <2> QED  BY <2>1, <2>3 DEF Response!Next, Response!Start
  <1>4. CASE thread = "body"
    <2>1. Phase = "started" /\ message.type = "body"
      BY <1>4, MessageFacts DEF Inv, TypeOK, WireInv
    <2> QED  BY <1>1, <2>1 DEF Response!Next, Response!Body
  <1>5. CASE thread \in {"last", "badlast"}
    <2>1. Phase = "started" /\ message.type = "last"
      BY <1>5, MessageFacts DEF Inv, WireInv
    <2> QED  BY <1>1, <2>1 DEF Response!Next, Response!Complete
  <1> QED  BY <1>2, <1>3, <1>4, <1>5 DEF Sending

\* What is sent is a response as HttpResponse describes it, one start message, bodies,
\* one last message and nothing after it, whatever the application calls, wherever it
\* fails and whenever it is cancelled.
THEOREM WsgiImplementsResponse == Spec => ImplementsResponse
  <1>1. Init => Response!Init
    BY DEF Init, Response!Init, Sent
  <1>2. Inv /\ [Next]_vars => [Response!Next]_Sent
    <2> SUFFICES ASSUME Inv, [Next]_vars, ~SendReturns
                 PROVE  Sent' = Sent
      BY SendMaps
    <2>1. CASE TaskMoves
      BY <2>1, TaskFrame DEF Inv, sendVars, wireVars, Sent
    <2>2. CASE ThreadMoves
      BY <2>2 DEF ThreadMoves, SendStep, SendStarts, SendRaises, ThreadStarts, AppStep,
         AppCalls, StartRefused, StartHalfway, StartResponse, AppYields, AppReturns,
         AppRaises, sendVars, wireVars, Sent
    <2>3. CASE UNCHANGED vars
      BY <2>3 DEF vars, sendVars, wireVars, Sent
    <2> QED  BY <2>1, <2>2, <2>3 DEF Next, TaskMoves, ThreadMoves
  <1> QED  BY <1>1, <1>2, Invariance, PTL DEF Spec, ImplementsResponse, Response!Spec

=============================================================================
