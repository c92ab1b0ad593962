---------------------------- MODULE HttpResponse ----------------------------
(***************************************************************************)
(* What an ASGI server may see of one HTTP response: one start message,    *)
(* then any number of body messages, then one that says there is no more.  *)
(* The sender may stop at any point; nothing comes twice or afterwards.    *)
(***************************************************************************)
EXTENDS Sequences

VARIABLE sent  \* the kinds of the messages sent, in order

Init == sent = <<>>

\* The response has begun and is not complete.
Open == sent # <<>> /\ sent[Len(sent)] # "last"

Start    == sent = <<>> /\ sent' = <<"start">>
Body     == Open /\ sent' = Append(sent, "body")
Complete == Open /\ sent' = Append(sent, "last")

Next == Start \/ Body \/ Complete

Spec == Init /\ [][Next]_sent
=============================================================================
