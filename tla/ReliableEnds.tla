---------------------------- MODULE ReliableEnds ----------------------------
(***************************************************************************)
(* The two halves of the reliable message channel, as operators on the     *)
(* state one ReliableSender and one ReliableReceiver keep                  *)
(* (src/skate3_multiplayer_reliable_channel.h).  The class is free of      *)
(* sockets, threads and clocks, and so is this module: ReliableChannel     *)
(* joins one sender and one receiver by a network.                         *)
(*                                                                         *)
(* A message is a member of Payload, cut in Frags[m] fragments.  A         *)
(* fragment carries the message it was cut from, so that a reassembled     *)
(* message shows which bytes of which messages it mixes.  The sender's     *)
(* next_send_us is kept relative to the clock: wait is the number of ticks *)
(* until the entry is due again.                                           *)
(***************************************************************************)
EXTENDS Naturals, FiniteSets, Sequences

CONSTANTS
  Payload,               \* the messages that may be queued
  Frags,                 \* ReliableFragmentCount of each of them
  MaximumFragments,      \* kReliableMaximumFragments
  MaximumAttempts,       \* kReliableMaximumAttempts
  MaximumQueuedMessages, \* kReliableMaximumQueuedMessages
  RetransmitInterval,    \* kReliableRetransmitIntervalUs, in ticks
  ReorderWindow,         \* kReliableReorderWindow
  AckBits                \* width of ReliableAck.ahead_bits

ASSUME FragsAssumption == Frags \in [Payload -> Nat \ {0}]
ASSUME LimitsAssumption ==
  /\ MaximumFragments \in Nat \ {0}
  /\ MaximumAttempts \in Nat \ {0}
  /\ MaximumQueuedMessages \in Nat \ {0}
  /\ RetransmitInterval \in Nat \ {0}
\* "32 matches the ack bitfield exactly": the two literals agree.
ASSUME WindowAssumption == ReorderWindow \in Nat \ {0} /\ AckBits = ReorderWindow

Entry == [id : Nat \ {0}, body : Payload, attempts : Nat, wait : Nat]
Fragment == [id : Nat \ {0}, index : Nat, body : Payload]
Piece == Nat \X Payload
AckMsg == [contiguous : Nat, ahead : SUBSET Nat]
Sender == [last : Nat, pending : SUBSET Entry]
Receiver == [through : Nat, held : SUBSET Fragment]

-----------------------------------------------------------------------------
(* ReliableSender *)

NewSender == [last |-> 0, pending |-> {}]

\* Queue() returns 0: the message is too large or the queue is at its limit.
Refuses(s, m) ==
  \/ Frags[m] > MaximumFragments
  \/ Cardinality(s.pending) >= MaximumQueuedMessages

NewEntry(i, m) == [id |-> i, body |-> m, attempts |-> 0, wait |-> 0]

\* mutant: the id is taken before the counter moves
QueuedPostIncrement(s, m) ==
  [last |-> s.last + 1, pending |-> s.pending \cup {NewEntry(s.last, m)}]

Queued(s, m) ==
  [last |-> s.last + 1, pending |-> s.pending \cup {NewEntry(s.last + 1, m)}]

IsDue(e) == e.wait = 0

\* mutant: a message is given up one attempt early
ExhaustedEarly(s) == {e \in s.pending : IsDue(e) /\ e.attempts + 1 >= MaximumAttempts}

\* What the next Collect() drops: due, and out of attempts.
Exhausted(s) == {e \in s.pending : IsDue(e) /\ e.attempts >= MaximumAttempts}

Due(s) == {e \in s.pending : IsDue(e)} \ Exhausted(s)

Resent(e) == [e EXCEPT !.attempts = @ + 1, !.wait = RetransmitInterval]

\* mutant: a message out of attempts is no longer sent but stays queued
CollectedKeepsExhausted(s) ==
  [s EXCEPT !.pending =
      {e \in s.pending : ~IsDue(e)} \cup Exhausted(s) \cup {Resent(e) : e \in Due(s)}]

Collected(s) ==
  [s EXCEPT !.pending =
      {e \in s.pending : ~IsDue(e)} \cup {Resent(e) : e \in Due(s)}]

\* Every fragment of every due message: a message is resent whole.
Emitted(s) ==
  UNION {{[id |-> e.id, index |-> i, body |-> e.body] : i \in 0 .. Frags[e.body] - 1}
            : e \in Due(s)}

\* One tick of the clock that Collect() is handed.
Aged(s) ==
  [s EXCEPT !.pending = {[e EXCEPT !.wait = IF @ = 0 THEN 0 ELSE @ - 1] : e \in s.pending}]

\* mutant: takes the count of contiguous messages for the next id
CoversNext(a, i) ==
  \/ i <= a.contiguous + 1
  \/ i > a.contiguous /\ i - a.contiguous \in a.ahead

Covers(a, i) ==
  \/ i <= a.contiguous
  \/ i > a.contiguous /\ i - a.contiguous \in a.ahead

Acknowledged(s, a) == [s EXCEPT !.pending = {e \in @ : ~Covers(a, e.id)}]

-----------------------------------------------------------------------------
(* ReliableReceiver *)

NewReceiver == [through |-> 0, held |-> {}]

Held(r, i) == {f \in r.held : f.id = i}

Complete(r, i) ==
  \E f \in Held(r, i) : {g.index : g \in Held(r, i)} = 0 .. Frags[f.body] - 1

\* mutant: no reorder window
AdmissibleAnywhere(r, f) ==
  /\ f.id > r.through
  /\ \A g \in Held(r, f.id) : Frags[g.body] = Frags[f.body] /\ g.index # f.index

\* The early returns of Accept(): already delivered, beyond the reorder
\* window, contradicting the first fragment held, or held already.
Admissible(r, f) ==
  /\ f.id > r.through
  /\ f.id - r.through <= ReorderWindow
  /\ \A g \in Held(r, f.id) : Frags[g.body] = Frags[f.body] /\ g.index # f.index

Stored(r, f) == IF Admissible(r, f) THEN [r EXCEPT !.held = @ \cup {f}] ELSE r

\* ReleaseInOrder() stops after n messages: all of them complete, the next not.
Releases(r, n) ==
  /\ \A i \in 1 .. n : Complete(r, r.through + i)
  /\ ~Complete(r, r.through + n + 1)

Released(r, n) ==
  [through |-> r.through + n, held |-> {f \in r.held : f.id > r.through + n}]

\* The n messages released, each as the pieces its bytes come from.
Output(r, n) ==
  [i \in 1 .. n |-> {<<f.index, f.body>> : f \in Held(r, r.through + i)}]

\* What a message released intact is made of.
Pieces(m) == {<<i, m>> : i \in 0 .. Frags[m] - 1}

\* mutant: the bitfield also covers messages still being assembled
BuildAckUnassembled(r) ==
  [contiguous |-> r.through,
   ahead |-> {d \in 1 .. AckBits : Held(r, r.through + d) # {}}]

BuildAck(r) ==
  [contiguous |-> r.through,
   ahead |-> {d \in 1 .. AckBits : Complete(r, r.through + d)}]
=============================================================================
