--------------------------------- MODULE Stream ---------------------------------
(***************************************************************************)
(* What an AsyncPushIterator promises to the code that pushes into it and  *)
(* to the code that iterates over it: a first-in first-out stream that     *)
(* accepts values while it is open, hands every accepted value out once,   *)
(* ends only after the last accepted value when it was finished, and hands *)
(* out nothing once it has ended.                                          *)
(***************************************************************************)
EXTENDS Sequences

CONSTANT Values          \* the values that may be pushed

VARIABLES
  phase,                 \* "open", "finishing", "drained" or "aborted"
  pending,               \* accepted values that nobody has received yet
  delivered              \* the values handed out, in order

vars == <<phase, pending, delivered>>

Init ==
  /\ phase = "open"
  /\ pending = <<>>
  /\ delivered = <<>>

Accept(v) ==
  /\ phase = "open"
  /\ pending' = Append(pending, v)
  /\ UNCHANGED <<phase, delivered>>

Deliver ==
  /\ phase \in {"open", "finishing"}
  /\ pending # <<>>
  /\ delivered' = Append(delivered, Head(pending))
  /\ pending' = Tail(pending)
  /\ UNCHANGED phase

\* No further value is accepted; the accepted ones are still handed out.
Finish ==
  /\ phase = "open"
  /\ phase' = "finishing"
  /\ UNCHANGED <<pending, delivered>>

\* A finished stream ends once every accepted value was handed out.
Drain ==
  /\ phase = "finishing"
  /\ pending = <<>>
  /\ phase' = "drained"
  /\ UNCHANGED <<pending, delivered>>

\* Either side may give up: what was not handed out is dropped.
Abort ==
  /\ phase \in {"open", "finishing"}
  /\ phase' = "aborted"
  /\ pending' = <<>>
  /\ UNCHANGED delivered

Next ==
  \/ \E v \in Values : Accept(v)
  \/ Deliver
  \/ Finish
  \/ Drain
  \/ Abort

Spec == Init /\ [][Next]_vars

=================================================================================
