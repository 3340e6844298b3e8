------------------------------ MODULE Subscription ------------------------------
(***************************************************************************)
(* What one GraphQL subscription promises from end to end, from the        *)
(* iterator a resolver returns on the server to the iterator somebody      *)
(* reads on the client: results are received in the order they were sent   *)
(* and without gaps, and the client's iterator only ends normally after    *)
(* the source has ended normally and everything was received.  In all      *)
(* other cases it breaks off.                                              *)
(***************************************************************************)
EXTENDS Naturals, Sequences

VARIABLES
  source,                \* "open", "done" or "failed"
  sent,                  \* how many results were sent: the n-th one is n
  received,              \* the results received, in order
  consumer               \* "reading", "complete" or "broken"

vars == <<source, sent, received, consumer>>

Init ==
  /\ source = "open"
  /\ sent = 0
  /\ received = <<>>
  /\ consumer = "reading"

Send ==
  /\ source = "open"
  /\ sent' = sent + 1
  /\ UNCHANGED <<source, received, consumer>>

SourceEnds ==
  /\ source = "open"
  /\ source' \in {"done", "failed"}
  /\ UNCHANGED <<sent, received, consumer>>

Receive ==
  /\ consumer = "reading"
  /\ Len(received) < sent
  /\ received' = Append(received, Len(received) + 1)
  /\ UNCHANGED <<source, sent, consumer>>

Complete ==
  /\ consumer = "reading"
  /\ source = "done"
  /\ Len(received) = sent
  /\ consumer' = "complete"
  /\ UNCHANGED <<source, sent, received>>

Break ==
  /\ consumer = "reading"
  /\ consumer' = "broken"
  /\ UNCHANGED <<source, sent, received>>

Next == Send \/ SourceEnds \/ Receive \/ Complete \/ Break

Spec == Init /\ [][Next]_vars

=================================================================================
