-------------------------- MODULE ReliableDelivery --------------------------
(***************************************************************************)
(* What the reliable channel promises its user: messages come out intact,  *)
(* each once, in the order they were queued.  ReliableChannel implements   *)
(* this specification.                                                     *)
(***************************************************************************)
EXTENDS Naturals, Sequences

CONSTANT Payload
VARIABLES
  queued,   \* every message accepted for delivery, in order
  received  \* every message handed to the receiving side, in order

vars == <<queued, received>>

Init == queued = <<>> /\ received = <<>>

Queue(m) ==
  /\ queued' = Append(queued, m)
  /\ UNCHANGED received

\* One arrival may complete a gap and release several messages at once.
Deliver(n) ==
  /\ received' = received \o SubSeq(queued, Len(received) + 1, n)
  /\ UNCHANGED queued

DeliverNext == \E n \in Len(received) + 1 .. Len(queued) : Deliver(n)

Next == (\E m \in Payload : Queue(m)) \/ DeliverNext

Spec == Init /\ [][Next]_vars
=============================================================================
