-------------------------- MODULE ReliableChannel ---------------------------
(***************************************************************************)
(* One direction of one reliable channel: a ReliableSender and a           *)
(* ReliableReceiver, each driven by the tick of the program that owns it,  *)
(* joined by UDP.  Datagrams may be lost, duplicated and reordered.        *)
(*                                                                         *)
(* A datagram is lost when it is sent: Collect and SendAck choose what of  *)
(* their output enters the network, and MaxLosses bounds how often.  A     *)
(* datagram in the network is received any number of times, in any order.  *)
(***************************************************************************)
EXTENDS ReliableEnds

CONSTANTS
  MaxMessages,  \* bound: messages queued in one behaviour
  MaxLosses,    \* bound: datagrams the network loses in one behaviour
  Copies        \* what a reception may leave in the network: TRUE another
                \* copy of the datagram, FALSE none

ASSUME BoundsAssumption == MaxMessages \in Nat /\ MaxLosses \in Nat /\ Copies \subseteq BOOLEAN

VARIABLES
  snd,        \* the ReliableSender
  rcv,        \* the ReliableReceiver
  ackDue,     \* the receiving side owes an acknowledgement
  stream,     \* kReliableStream datagrams in flight
  acks,       \* kReliableAck datagrams in flight
  losses,     \* how many datagrams were lost so far
  log,        \* history: every message Queue() took, in order
  delivered,  \* history: every message Accept() released, in order
  gaveUp      \* history: ids Collect() dropped

vars == <<snd, rcv, ackDue, stream, acks, losses, log, delivered, gaveUp>>

Init ==
  /\ snd = NewSender
  /\ rcv = NewReceiver
  /\ ackDue = FALSE
  /\ stream = {} /\ acks = {} /\ losses = 0
  /\ log = <<>> /\ delivered = <<>> /\ gaveUp = {}

Queue(m) ==
  /\ snd.last < MaxMessages
  /\ ~Refuses(snd, m)
  /\ snd' = Queued(snd, m)
  /\ log' = Append(log, m)
  /\ UNCHANGED <<rcv, ackDue, stream, acks, losses, delivered, gaveUp>>

Tick ==
  /\ \E e \in snd.pending : ~IsDue(e)
  /\ snd' = Aged(snd)
  /\ UNCHANGED <<rcv, ackDue, stream, acks, losses, log, delivered, gaveUp>>

Collect(lost) ==
  /\ Due(snd) # {} \/ Exhausted(snd) # {}
  /\ losses + Cardinality(lost) \in 0 .. MaxLosses
  /\ snd' = Collected(snd)
  /\ stream' = stream \cup (Emitted(snd) \ lost)
  /\ losses' = losses + Cardinality(lost)
  /\ gaveUp' = gaveUp \cup {e.id : e \in Exhausted(snd)}
  /\ UNCHANGED <<rcv, ackDue, acks, log, delivered>>

\* The tick of the sending side, over the losses the network may choose.
CollectSome == \E lost \in SUBSET Emitted(snd) : Collect(lost)

\* keep: another copy of the datagram is still under way.
ReceiveFragment(f, keep) ==
  LET r == Stored(rcv, f) IN
  /\ f \in stream
  /\ stream' = IF keep THEN stream ELSE stream \ {f}
  /\ \E n \in 0 .. ReorderWindow :
       /\ Releases(r, n)
       /\ rcv' = Released(r, n)
       /\ delivered' = delivered \o Output(r, n)
  /\ ackDue' = TRUE
  /\ UNCHANGED <<snd, acks, losses, log, gaveUp>>

SendAck(lost) ==
  /\ ackDue
  /\ ackDue' = FALSE
  /\ IF lost THEN losses < MaxLosses /\ losses' = losses + 1 /\ UNCHANGED acks
             ELSE acks' = acks \cup {BuildAck(rcv)} /\ UNCHANGED losses
  /\ UNCHANGED <<snd, rcv, stream, log, delivered, gaveUp>>

ReceiveAck(a, keep) ==
  /\ a \in acks
  /\ acks' = IF keep THEN acks ELSE acks \ {a}
  /\ snd' = Acknowledged(snd, a)
  /\ UNCHANGED <<rcv, ackDue, stream, losses, log, delivered, gaveUp>>

Next ==
  \/ \E m \in Payload : Queue(m)
  \/ Tick
  \/ CollectSome
  \/ \E f \in stream, keep \in Copies : ReceiveFragment(f, keep)
  \/ \E lost \in BOOLEAN : SendAck(lost)
  \/ \E a \in acks, keep \in Copies : ReceiveAck(a, keep)

Spec == Init /\ [][Next]_vars

-----------------------------------------------------------------------------
TypeOK ==
  /\ snd \in Sender
  /\ rcv \in Receiver
  /\ ackDue \in BOOLEAN
  /\ stream \in SUBSET Fragment
  /\ acks \in SUBSET AckMsg
  /\ losses \in Nat
  /\ log \in Seq(Payload)
  /\ delivered \in Seq(SUBSET Piece)
  /\ gaveUp \in SUBSET (Nat \ {0})

(* Messages come out in the order they were queued, none twice, none skipped,
   each reassembled from its own bytes alone: "duplicates are dropped" and
   "delivered in the order they were queued". *)
DeliveredInOrder ==
  /\ Len(delivered) = rcv.through
  /\ Len(delivered) <= Len(log)
  /\ \A i \in 1 .. Len(delivered) : delivered[i] = Pieces(log[i])

(* A message leaves the sender's queue only because the receiver has all of
   it, delivered or held for its turn, or because the sender gave up: an
   acknowledgement, however late, never retires what did not arrive. *)
NothingVanishes ==
  \A i \in 1 .. snd.last :
    \/ \E e \in snd.pending : e.id = i
    \/ i <= rcv.through
    \/ Complete(rcv, i)
    \/ i \in gaveUp

(* Whatever the receiver holds out of order, the acknowledgement bitfield can
   describe, and a message whose turn it is is never left held. *)
HeldIsDescribable ==
  /\ \A f \in rcv.held : f.id > rcv.through /\ f.id <= rcv.through + AckBits
  /\ ~Complete(rcv, rcv.through + 1)

(* The channel implements ordered, exactly-once delivery. *)
Received == [i \in 1 .. Len(delivered) |-> CHOOSE m \in Payload : delivered[i] = Pieces(m)]
Delivery == INSTANCE ReliableDelivery WITH queued <- log, received <- Received
DeliverySpec == Delivery!Spec
=============================================================================
