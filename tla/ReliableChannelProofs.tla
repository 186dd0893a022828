----------------------- MODULE ReliableChannelProofs ------------------------
(***************************************************************************)
(* The delivery guarantees of ReliableChannel for every set of messages,   *)
(* every limit and every window.  The inductive invariant adds to the      *)
(* invariants of the runs what they rest on: every fragment in flight or   *)
(* held is a genuine piece of the message its id names, and every          *)
(* acknowledgement in flight, however old, speaks only of messages the     *)
(* receiver still has or has delivered.                                    *)
(***************************************************************************)
EXTENDS ReliableChannel, SequenceTheorems, TLAPS

Genuine(f) ==
  /\ f.id <= snd.last
  /\ f.body = log[f.id]
  /\ f.index < Frags[f.body]

SenderInv ==
  /\ Len(log) = snd.last
  /\ \A e \in snd.pending : e.id <= snd.last /\ e.body = log[e.id]

FragmentInv == \A f \in stream \cup rcv.held : Genuine(f)

AckInv ==
  \A a \in acks :
    /\ a.contiguous <= rcv.through
    /\ \A d \in a.ahead : \/ a.contiguous + d <= rcv.through
                          \/ Complete(rcv, a.contiguous + d)

IInv ==
  /\ TypeOK
  /\ SenderInv
  /\ FragmentInv
  /\ AckInv
  /\ DeliveredInOrder
  /\ NothingVanishes
  /\ HeldIsDescribable

-----------------------------------------------------------------------------
(* Storing a genuine fragment keeps every complete message complete: a       *)
(* complete message has every index, so the fragment is not admissible.      *)
LEMMA StoredComplete ==
  ASSUME NEW r \in Receiver, NEW f \in Fragment, NEW i \in Nat,
         f.index < Frags[f.body],
         Complete(r, i)
  PROVE  Complete(Stored(r, f), i)
<1>1. CASE ~Admissible(r, f)
  BY <1>1 DEF Stored
<1>2. CASE Admissible(r, f)
  <2>1. PICK g \in Held(r, i) : {h.index : h \in Held(r, i)} = 0 .. Frags[g.body] - 1
    BY DEF Complete
  <2>2. f.id # i
    <3>1. SUFFICES ASSUME f.id = i PROVE FALSE
      OBVIOUS
    <3>2. Frags[g.body] = Frags[f.body]
      BY <1>2, <2>1, <3>1 DEF Admissible
    <3>3. f.index \in 0 .. Frags[g.body] - 1
      BY <3>2, FragsAssumption DEF Fragment
    <3>4. PICK h \in Held(r, i) : h.index = f.index
      BY <2>1, <3>3
    <3>5. QED
      BY <1>2, <3>1, <3>4 DEF Admissible
  <2>3. Held(Stored(r, f), i) = Held(r, i)
    BY <1>2, <2>2 DEF Stored, Held, Receiver
  <2>4. QED
    BY <2>1, <2>3 DEF Complete
<1>3. QED
  BY <1>1, <1>2

(* Releasing n messages leaves alone what is held beyond them. *)
LEMMA ReleasedHeld ==
  ASSUME NEW r \in Receiver, NEW n \in Nat, NEW i \in Nat, i > r.through + n
  PROVE  /\ Held(Released(r, n), i) = Held(r, i)
         /\ Complete(Released(r, n), i) <=> Complete(r, i)
<1>1. Held(Released(r, n), i) = Held(r, i)
  BY DEF Held, Released, Receiver, Fragment
<1>2. QED
  BY <1>1 DEF Complete

LEMMA StoredType ==
  ASSUME NEW r \in Receiver, NEW f \in Fragment
  PROVE  /\ Stored(r, f) \in Receiver
         /\ Stored(r, f).through = r.through
         /\ Stored(r, f).held \subseteq r.held \cup {f}
         /\ f \in Stored(r, f).held \/ Stored(r, f) = r
  BY DEF Stored, Receiver

(* The sender's operators keep every entry's id and message. *)
LEMMA AgedEntries ==
  ASSUME NEW s \in Sender
  PROVE  /\ Aged(s) \in Sender
         /\ Aged(s).last = s.last
         /\ \A e \in s.pending : \E x \in Aged(s).pending : x.id = e.id
         /\ \A x \in Aged(s).pending : \E e \in s.pending : x.id = e.id /\ x.body = e.body
<1> DEFINE Older(e) == [e EXCEPT !.wait = IF @ = 0 THEN 0 ELSE @ - 1]
<1>1. \A e \in Entry : Older(e) \in Entry /\ Older(e).id = e.id /\ Older(e).body = e.body
  BY DEF Entry
<1>2. Aged(s).last = s.last /\ Aged(s).pending = {Older(e) : e \in s.pending}
  BY DEF Aged, Sender
<1>3. Aged(s) = [last |-> s.last, pending |-> {Older(e) : e \in s.pending}]
  BY DEF Aged, Sender
<1> HIDE DEF Older
<1>4. s.pending \subseteq Entry /\ s.last \in Nat
  BY DEF Sender
<1>5. QED
  BY <1>1, <1>2, <1>3, <1>4 DEF Sender

LEMMA CollectedEntries ==
  ASSUME NEW s \in Sender
  PROVE  /\ Collected(s) \in Sender
         /\ Collected(s).last = s.last
         /\ \A e \in s.pending \ Exhausted(s) : \E x \in Collected(s).pending : x.id = e.id
         /\ \A x \in Collected(s).pending : \E e \in s.pending : x.id = e.id /\ x.body = e.body
<1>1. \A e \in Entry : Resent(e) \in Entry /\ Resent(e).id = e.id /\ Resent(e).body = e.body
  <2>1. TAKE e \in Entry
  <2>2. RetransmitInterval \in Nat /\ e.attempts + 1 \in Nat
    BY LimitsAssumption DEF Entry
  <2>3. [e EXCEPT !.attempts = e.attempts + 1] \in Entry
    BY <2>2 DEF Entry
  <2>4. QED
    BY <2>2, <2>3 DEF Entry, Resent
<1> DEFINE P == {e \in s.pending : ~IsDue(e)} \cup {Resent(e) : e \in Due(s)}
<1>2. Collected(s).last = s.last /\ Collected(s).pending = P /\ Collected(s) = [last |-> s.last, pending |-> P]
  BY DEF Collected, Sender
<1>3. s.pending \subseteq Entry /\ s.last \in Nat /\ Due(s) \subseteq s.pending
  BY DEF Sender, Due
<1>4. \A e \in s.pending \ Exhausted(s) : e \in Due(s) \/ ~IsDue(e)
  BY DEF Due
<1>5. QED
  BY <1>1, <1>2, <1>3, <1>4 DEF Sender

-----------------------------------------------------------------------------
LEMMA InitIInv == Init => IInv
<1> SUFFICES ASSUME Init PROVE IInv
  OBVIOUS
<1>1. TypeOK
  <2>1. NewSender \in Sender /\ NewReceiver \in Receiver
    BY DEF NewSender, NewReceiver, Sender, Receiver
  <2>2. log \in Seq(Payload) /\ delivered \in Seq(SUBSET Piece)
    BY EmptySeq DEF Init
  <2>3. QED
    BY <2>1, <2>2 DEF Init, TypeOK
<1>2. SenderInv /\ FragmentInv /\ AckInv /\ DeliveredInOrder
  BY DEF Init, SenderInv, FragmentInv, AckInv, DeliveredInOrder, NewSender, NewReceiver
<1>3. NothingVanishes /\ HeldIsDescribable
  BY DEF Init, NothingVanishes, HeldIsDescribable, Complete, Held, NewSender, NewReceiver
<1>4. QED
  BY <1>1, <1>2, <1>3 DEF IInv

LEMMA QueueIInv ==
  ASSUME IInv, NEW m \in Payload, Queue(m)
  PROVE  IInv'
<1> USE DEF IInv, Queue
<1>1. TypeOK'
  BY DEF TypeOK, Sender, Entry, Queued, NewEntry
<1>2. /\ Len(log') = Len(log) + 1
      /\ log'[Len(log) + 1] = m
      /\ \A i \in 1 .. Len(log) : log'[i] = log[i]
  BY DEF TypeOK
<1>3. SenderInv'
  BY <1>2 DEF TypeOK, SenderInv, Sender, Entry, Queued, NewEntry
<1>4. FragmentInv'
  BY <1>2 DEF TypeOK, SenderInv, FragmentInv, Genuine, Queued, Receiver, Sender, Fragment
<1>5. AckInv' /\ HeldIsDescribable'
  BY DEF AckInv, HeldIsDescribable
<1>6. DeliveredInOrder'
  BY <1>2 DEF TypeOK, DeliveredInOrder, Receiver
<1>7. NothingVanishes'
  <2>1. snd'.last = snd.last + 1 /\ snd.last \in Nat
    BY DEF Queued, TypeOK, Sender
  <2>2. /\ snd.pending \subseteq snd'.pending
        /\ NewEntry(snd.last + 1, m) \in snd'.pending
        /\ NewEntry(snd.last + 1, m).id = snd.last + 1
    BY DEF Queued, NewEntry
  <2>3. QED
    BY <2>1, <2>2 DEF NothingVanishes
<1>8. QED
  BY <1>1, <1>3, <1>4, <1>5, <1>6, <1>7

LEMMA TickIInv ==
  ASSUME IInv, Tick
  PROVE  IInv'
<1> USE DEF IInv, Tick
<1>1. /\ snd' \in Sender
      /\ snd'.last = snd.last
      /\ \A e \in snd.pending : \E x \in snd'.pending : x.id = e.id
      /\ \A x \in snd'.pending : \E e \in snd.pending : x.id = e.id /\ x.body = e.body
  BY AgedEntries DEF TypeOK
<1>2. TypeOK'
  BY <1>1 DEF TypeOK
<1>3. SenderInv' /\ FragmentInv'
  BY <1>1 DEF SenderInv, FragmentInv, Genuine
<1>4. AckInv' /\ DeliveredInOrder' /\ HeldIsDescribable'
  BY DEF AckInv, DeliveredInOrder, HeldIsDescribable
<1>5. NothingVanishes'
  BY <1>1 DEF NothingVanishes
<1>6. QED
  BY <1>2, <1>3, <1>4, <1>5

LEMMA CollectIInv ==
  ASSUME IInv, NEW lost \in SUBSET Emitted(snd), Collect(lost)
  PROVE  IInv'
<1> USE DEF IInv, Collect
<1>1. /\ snd' \in Sender
      /\ snd'.last = snd.last
      /\ \A x \in snd'.pending : \E e \in snd.pending : x.id = e.id /\ x.body = e.body
  BY CollectedEntries DEF TypeOK
<1>2. \A e \in snd.pending :
         (\E x \in snd'.pending : x.id = e.id) \/ e.id \in gaveUp'
  BY CollectedEntries DEF TypeOK
<1>3. \A f \in Emitted(snd) : f \in Fragment /\ Genuine(f)
  <2>1. TAKE f \in Emitted(snd)
  <2>2. PICK e \in Due(snd) :
          \E i \in 0 .. Frags[e.body] - 1 : f = [id |-> e.id, index |-> i, body |-> e.body]
    BY DEF Emitted
  <2>3. e \in Entry /\ e \in snd.pending /\ Frags[e.body] \in Nat
    BY <2>2, FragsAssumption DEF Due, TypeOK, Sender, Entry
  <2>4. QED
    BY <2>2, <2>3 DEF SenderInv, Genuine, Fragment, Entry
<1>4. TypeOK'
  <2>1. {e.id : e \in Exhausted(snd)} \subseteq Nat \ {0}
    BY DEF TypeOK, Exhausted, Sender, Entry
  <2>2. stream' \subseteq Fragment /\ losses' \in Nat
    BY <1>3, BoundsAssumption DEF TypeOK
  <2>3. QED
    BY <1>1, <2>1, <2>2 DEF TypeOK
<1>5. SenderInv' /\ FragmentInv'
  BY <1>1, <1>3 DEF SenderInv, FragmentInv, Genuine
<1>6. AckInv' /\ DeliveredInOrder' /\ HeldIsDescribable'
  BY DEF AckInv, DeliveredInOrder, HeldIsDescribable
<1>7. NothingVanishes'
  BY <1>1, <1>2 DEF NothingVanishes
<1>8. QED
  BY <1>4, <1>5, <1>6, <1>7

LEMMA SendAckIInv ==
  ASSUME IInv, NEW lost \in BOOLEAN, SendAck(lost)
  PROVE  IInv'
<1> USE DEF IInv, SendAck
<1>1. BuildAck(rcv) \in AckMsg
  BY WindowAssumption DEF TypeOK, BuildAck, AckMsg, Receiver
<1>2. TypeOK'
  <2>1. acks' \subseteq AckMsg /\ losses' \in Nat
    BY <1>1 DEF TypeOK
  <2>2. QED
    BY <2>1 DEF TypeOK
<1>3. SenderInv' /\ FragmentInv' /\ DeliveredInOrder' /\ HeldIsDescribable' /\ NothingVanishes'
  BY DEF SenderInv, FragmentInv, Genuine, DeliveredInOrder, HeldIsDescribable, NothingVanishes
<1>4. AckInv'
  <2>1. BuildAck(rcv).contiguous <= rcv.through
    BY DEF BuildAck, TypeOK, Receiver
  <2>2. \A d \in BuildAck(rcv).ahead : Complete(rcv, BuildAck(rcv).contiguous + d)
    BY DEF BuildAck
  <2>3. QED
    BY <2>1, <2>2 DEF AckInv
<1>5. QED
  BY <1>2, <1>3, <1>4

LEMMA ReceiveAckIInv ==
  ASSUME IInv, NEW a \in acks, NEW keep \in BOOLEAN, ReceiveAck(a, keep)
  PROVE  IInv'
<1> USE DEF IInv, ReceiveAck
<1>1. snd'.last = snd.last /\ snd'.pending \subseteq snd.pending /\ snd' \in Sender
  BY DEF TypeOK, Sender, Acknowledged
<1>2. TypeOK'
  BY <1>1 DEF TypeOK
<1>3. SenderInv' /\ FragmentInv' /\ AckInv' /\ DeliveredInOrder' /\ HeldIsDescribable'
  BY <1>1 DEF SenderInv, FragmentInv, Genuine, AckInv, DeliveredInOrder, HeldIsDescribable
<1>4. \A e \in snd.pending \ snd'.pending : e.id <= rcv.through \/ Complete(rcv, e.id)
  <2>1. TAKE e \in snd.pending \ snd'.pending
  <2>2. Covers(a, e.id)
    BY DEF Acknowledged, TypeOK, Sender
  <2>3. a \in AckMsg /\ e.id \in Nat /\ rcv.through \in Nat
    BY DEF TypeOK, Sender, Entry, Receiver
  <2>4. CASE e.id <= a.contiguous
    BY <2>3, <2>4 DEF AckInv, AckMsg
  <2>5. CASE e.id > a.contiguous /\ e.id - a.contiguous \in a.ahead
    <3>1. a.contiguous + (e.id - a.contiguous) = e.id
      BY <2>3 DEF AckMsg
    <3>2. QED
      BY <2>5, <3>1 DEF AckInv
  <2>6. QED
    BY <2>2, <2>4, <2>5 DEF Covers
<1>5. NothingVanishes'
  BY <1>1, <1>4 DEF NothingVanishes
<1>6. QED
  BY <1>2, <1>3, <1>5
-----------------------------------------------------------------------------
LEMMA ReceiveFragmentIInv ==
  ASSUME IInv, NEW f \in stream, NEW keep \in BOOLEAN, ReceiveFragment(f, keep)
  PROVE  IInv'
<1> USE DEF IInv
<1> DEFINE r == Stored(rcv, f)
<1>1. PICK n \in 0 .. ReorderWindow :
        /\ Releases(r, n)
        /\ rcv' = Released(r, n)
        /\ delivered' = delivered \o Output(r, n)
  BY DEF ReceiveFragment
<1>2. /\ f \in Fragment /\ Genuine(f) /\ f.index < Frags[f.body]
      /\ rcv \in Receiver /\ rcv.through \in Nat /\ n \in Nat
      /\ log \in Seq(Payload) /\ snd.last \in Nat
  BY WindowAssumption DEF TypeOK, FragmentInv, Genuine, Receiver, Sender
<1>3. /\ r \in Receiver
      /\ r.through = rcv.through
      /\ r.held \subseteq rcv.held \cup {f}
  BY <1>2, StoredType
<1>4. \A g \in r.held : g \in Fragment /\ Genuine(g)
  BY <1>2, <1>3 DEF FragmentInv, Receiver
<1>5. /\ rcv'.through = rcv.through + n
      /\ rcv'.held \subseteq r.held
      /\ rcv' \in Receiver
      /\ \A g \in rcv'.held : g.id > rcv.through + n
  BY <1>1, <1>2, <1>3 DEF Released, Receiver
<1>6. UNCHANGED <<snd, acks, losses, log, gaveUp>> /\ stream' \subseteq stream /\ ackDue' = TRUE
  BY DEF ReceiveFragment
\* A complete message stays complete until it is released.
<1>7. \A i \in Nat : Complete(rcv, i) => i <= rcv'.through \/ Complete(rcv', i)
  <2>1. SUFFICES ASSUME NEW i \in Nat, Complete(rcv, i), ~(i <= rcv'.through)
                 PROVE  Complete(rcv', i)
    OBVIOUS
  <2>2. Complete(r, i)
    BY <1>2, <2>1, StoredComplete
  <2>3. i > r.through + n
    BY <1>2, <1>3, <1>5, <2>1
  <2>4. QED
    BY <1>1, <1>2, <1>3, <2>2, <2>3, ReleasedHeld
\* What is released is what was queued.
<1>8. \A i \in 1 .. n : /\ rcv.through + i <= snd.last
                        /\ Output(r, n)[i] = Pieces(log[rcv.through + i])
  <2>1. TAKE i \in 1 .. n
  <2> DEFINE H == Held(r, rcv.through + i)
             m == log[rcv.through + i]
  <2>2. PICK g \in H : {h.index : h \in H} = 0 .. Frags[g.body] - 1
    BY <1>1, <1>3 DEF Releases, Complete
  <2>3. \A h \in H : h.id = rcv.through + i /\ h.body = m /\ h.id <= snd.last
    BY <1>4 DEF Held, Genuine
  <2>4. Output(r, n)[i] = {<<h.index, h.body>> : h \in H}
    BY <1>3 DEF Output
  <2> HIDE DEF H, m
  <2>5. {<<h.index, h.body>> : h \in H} = {<<k, m>> : k \in {h.index : h \in H}}
    BY <2>3
  <2>6. {<<k, m>> : k \in {h.index : h \in H}} = Pieces(m)
    BY <2>2, <2>3 DEF Pieces
  <2>7. QED
    BY <2>2, <2>3, <2>4, <2>5, <2>6 DEF m
<1>9. Output(r, n) \in Seq(SUBSET Piece) /\ Len(Output(r, n)) = n
  <2>1. \A i \in 1 .. n :
          {<<h.index, h.body>> : h \in Held(r, r.through + i)} \in SUBSET Piece
    BY <1>3 DEF Held, Receiver, Fragment, Piece
  <2>2. QED
    BY <1>2, <2>1 DEF Output
<1>10. /\ delivered' \in Seq(SUBSET Piece)
       /\ Len(delivered') = Len(delivered) + n
       /\ \A i \in 1 .. Len(delivered) : delivered'[i] = delivered[i]
       /\ \A i \in 1 .. n : delivered'[Len(delivered) + i] = Output(r, n)[i]
  <2>1. delivered \in Seq(SUBSET Piece) /\ Len(delivered) \in Nat
    BY LenProperties DEF TypeOK
  <2>2. /\ delivered' \in Seq(SUBSET Piece)
        /\ Len(delivered') = Len(delivered) + n
        /\ \A i \in 1 .. Len(delivered) + n :
             delivered'[i] = IF i <= Len(delivered) THEN delivered[i]
                                                    ELSE Output(r, n)[i - Len(delivered)]
    BY <1>1, <1>9, <2>1, ConcatProperties
  <2>3. \A i \in 1 .. n : Len(delivered) + i \in 1 .. Len(delivered) + n
                          /\ ~(Len(delivered) + i <= Len(delivered))
                          /\ Len(delivered) + i - Len(delivered) = i
    BY <1>2, <2>1
  <2>4. \A i \in 1 .. Len(delivered) : i \in 1 .. Len(delivered) + n /\ i <= Len(delivered)
    BY <1>2, <2>1
  <2>5. QED
    BY <2>2, <2>3, <2>4
<1>11. TypeOK'
  BY <1>5, <1>6, <1>10 DEF TypeOK
<1>12. SenderInv' /\ FragmentInv'
  BY <1>4, <1>5, <1>6 DEF SenderInv, FragmentInv, Genuine
<1>13. AckInv'
  <2>1. SUFFICES ASSUME NEW a \in acks
                 PROVE  /\ a.contiguous <= rcv'.through
                        /\ \A d \in a.ahead : \/ a.contiguous + d <= rcv'.through
                                              \/ Complete(rcv', a.contiguous + d)
    BY <1>6 DEF AckInv
  <2>2. a \in AckMsg
    BY DEF TypeOK
  <2>3. a.contiguous <= rcv'.through
    BY <1>2, <1>5, <2>2 DEF AckInv, AckMsg
  <2>4. ASSUME NEW d \in a.ahead
        PROVE  a.contiguous + d <= rcv'.through \/ Complete(rcv', a.contiguous + d)
    <3>1. a.contiguous + d \in Nat
      BY <2>2 DEF AckMsg
    <3>2. CASE a.contiguous + d <= rcv.through
      BY <1>2, <1>5, <3>1, <3>2
    <3>3. CASE Complete(rcv, a.contiguous + d)
      BY <1>7, <3>1, <3>3
    <3>4. QED
      BY <3>2, <3>3 DEF AckInv
  <2>5. QED
    BY <2>3, <2>4
<1>14. DeliveredInOrder'
  <2>1. Len(delivered) = rcv.through /\ Len(log) = snd.last /\ Len(delivered) <= Len(log)
    BY DEF DeliveredInOrder, SenderInv
  <2>2. Len(delivered') = rcv'.through
    BY <1>5, <1>10, <2>1
  <2>3. Len(delivered') <= Len(log)
    <3>1. CASE n = 0
      BY <1>2, <1>10, <2>1, <3>1
    <3>2. CASE n # 0
      <4>1. n \in 1 .. n
        BY <1>2, <3>2
      <4>2. QED
        BY <1>2, <1>8, <1>10, <2>1, <4>1
    <3>3. QED
      BY <3>1, <3>2
  <2>4. ASSUME NEW i \in 1 .. Len(delivered')
        PROVE  delivered'[i] = Pieces(log[i])
    <3>1. CASE i <= Len(delivered)
      BY <1>2, <1>10, <2>1, <3>1 DEF DeliveredInOrder
    <3>2. CASE i > Len(delivered)
      <4>1. i - Len(delivered) \in 1 .. n /\ rcv.through + (i - Len(delivered)) = i
            /\ Len(delivered) + (i - Len(delivered)) = i
        BY <1>2, <1>10, <2>1, <3>2
      <4>2. QED
        BY <1>8, <1>10, <4>1
    <3>3. QED
      BY <1>2, <1>10, <2>1, <3>1, <3>2
  <2>5. QED
    BY <1>6, <2>2, <2>3, <2>4 DEF DeliveredInOrder
<1>15. NothingVanishes'
  <2>1. SUFFICES ASSUME NEW i \in 1 .. snd.last
                 PROVE  \/ \E e \in snd.pending : e.id = i
                        \/ i <= rcv'.through
                        \/ Complete(rcv', i)
                        \/ i \in gaveUp
    BY <1>6 DEF NothingVanishes
  <2>2. CASE i <= rcv.through
    BY <1>2, <1>5, <2>2
  <2>3. CASE Complete(rcv, i)
    BY <1>2, <1>7, <2>3
  <2>4. QED
    BY <2>2, <2>3 DEF NothingVanishes
<1>16. HeldIsDescribable'
  <2>1. ASSUME NEW g \in rcv'.held
        PROVE  g.id > rcv'.through /\ g.id <= rcv'.through + AckBits
    <3>1. g \in r.held /\ g.id \in Nat /\ g.id > rcv'.through
      BY <1>5 DEF Receiver, Fragment
    <3>2. g.id <= rcv.through + AckBits
      <4>1. CASE g \in rcv.held
        BY <4>1 DEF HeldIsDescribable
      <4>2. CASE g \notin rcv.held
        <5>1. g = f /\ Admissible(rcv, f)
          BY <1>3, <3>1, <4>2 DEF Stored
        <5>2. QED
          BY <1>2, <3>1, <5>1, WindowAssumption DEF Admissible
      <4>3. QED
        BY <4>1, <4>2
    <3>3. AckBits \in Nat
      BY WindowAssumption
    <3>4. QED
      BY <1>2, <1>5, <3>1, <3>2, <3>3
  <2>2. ~Complete(rcv', rcv'.through + 1)
    <3>1. rcv'.through + 1 = r.through + n + 1 /\ r.through + n + 1 > r.through + n
          /\ r.through + n + 1 \in Nat
      BY <1>2, <1>3, <1>5
    <3>2. ~Complete(r, r.through + n + 1)
      BY <1>1 DEF Releases
    <3>3. QED
      BY <1>1, <1>2, <1>3, <3>1, <3>2, ReleasedHeld
  <2>3. QED
    BY <2>1, <2>2 DEF HeldIsDescribable
<1>17. QED
  BY <1>11, <1>12, <1>13, <1>14, <1>15, <1>16

-----------------------------------------------------------------------------
LEMMA NextIInv == IInv /\ [Next]_vars => IInv'
<1> SUFFICES ASSUME IInv, [Next]_vars PROVE IInv'
  OBVIOUS
<1>1. CASE \E m \in Payload : Queue(m)
  BY <1>1, QueueIInv
<1>2. CASE Tick
  BY <1>2, TickIInv
<1>3. CASE CollectSome
  BY <1>3, CollectIInv DEF CollectSome
<1>4. CASE \E f \in stream, keep \in Copies : ReceiveFragment(f, keep)
  BY <1>4, ReceiveFragmentIInv, BoundsAssumption
<1>5. CASE \E lost \in BOOLEAN : SendAck(lost)
  BY <1>5, SendAckIInv
<1>6. CASE \E a \in acks, keep \in Copies : ReceiveAck(a, keep)
  BY <1>6, ReceiveAckIInv, BoundsAssumption
<1>7. CASE UNCHANGED vars
  <2>1. TypeOK' /\ SenderInv' /\ FragmentInv' /\ AckInv'
    BY <1>7 DEF IInv, vars, TypeOK, SenderInv, FragmentInv, Genuine, AckInv
  <2>2. DeliveredInOrder' /\ NothingVanishes' /\ HeldIsDescribable'
    BY <1>7 DEF IInv, vars, DeliveredInOrder, NothingVanishes, HeldIsDescribable
  <2>3. QED
    BY <2>1, <2>2 DEF IInv
<1>8. QED
  BY <1>1, <1>2, <1>3, <1>4, <1>5, <1>6, <1>7 DEF Next

LEMMA Invariance == Spec => []IInv
  BY InitIInv, NextIInv, PTL DEF Spec

(* Every variable keeps the type the two classes give it. *)
THEOREM ChannelTypeOK == Spec => []TypeOK
<1>1. IInv => TypeOK
  BY DEF IInv
<1>2. QED
  BY <1>1, Invariance, PTL

(* For every window, limit and set of messages, and any loss, duplication and
   reordering: what Accept() releases is a prefix of what Queue() took, each
   message rebuilt from its own fragments. *)
THEOREM ChannelDeliversInOrder == Spec => []DeliveredInOrder
<1>1. IInv => DeliveredInOrder
  BY DEF IInv
<1>2. QED
  BY <1>1, Invariance, PTL

(* No acknowledgement, however old, retires a message the receiver does not
   have: only giving up loses one. *)
THEOREM ChannelLosesOnlyWhatItGivesUp == Spec => []NothingVanishes
<1>1. IInv => NothingVanishes
  BY DEF IInv
<1>2. QED
  BY <1>1, Invariance, PTL

(* The receiver holds only what the acknowledgement bitfield can describe, and
   never the message whose turn it is. *)
THEOREM ChannelHeldIsDescribable == Spec => []HeldIsDescribable
<1>1. IInv => HeldIsDescribable
  BY DEF IInv
<1>2. QED
  BY <1>1, Invariance, PTL

-----------------------------------------------------------------------------
(* Under the invariant, the messages received are the first ones queued. *)
ReceivedIsPrefix ==
  /\ Received \in Seq(Payload)
  /\ Len(Received) = Len(delivered)
  /\ \A i \in 1 .. Len(delivered) : Received[i] = log[i]

LEMMA ReceivedPrefix == IInv => ReceivedIsPrefix
<1> SUFFICES ASSUME IInv PROVE ReceivedIsPrefix
  OBVIOUS
<1>1. Len(delivered) \in Nat /\ Len(log) \in Nat /\ Len(delivered) <= Len(log)
  BY LenProperties DEF IInv, TypeOK, DeliveredInOrder
<1>2. \A i \in 1 .. Len(delivered) : log[i] \in Payload
  BY <1>1, ElementOfSeq DEF IInv, TypeOK
<1>3. ASSUME NEW i \in 1 .. Len(delivered)
      PROVE  (CHOOSE m \in Payload : delivered[i] = Pieces(m)) = log[i]
  <2>1. \A m, k \in Payload : Pieces(m) = Pieces(k) => m = k
    <3>1. SUFFICES ASSUME NEW m \in Payload, NEW k \in Payload, Pieces(m) = Pieces(k)
                   PROVE  m = k
      OBVIOUS
    <3>2. 0 \in 0 .. Frags[m] - 1
      BY FragsAssumption
    <3>3. <<0, m>> \in Pieces(k)
      BY <3>1, <3>2 DEF Pieces
    <3>4. PICK i2 \in 0 .. Frags[k] - 1 : <<0, m>> = <<i2, k>>
      BY <3>3 DEF Pieces
    <3>5. QED
      BY <3>4
  <2>2. delivered[i] = Pieces(log[i]) /\ log[i] \in Payload
    BY <1>2 DEF IInv, DeliveredInOrder
  <2>3. QED
    BY <2>1, <2>2
<1>4. Received = [i \in 1 .. Len(delivered) |-> log[i]]
  BY <1>3, Zenon DEF Received
<1>5. QED
  BY <1>1, <1>2, <1>4 DEF ReceivedIsPrefix

LEMMA ReceivedPrefixNext == IInv' => ReceivedIsPrefix'
  BY ReceivedPrefix, PTL

LEMMA StepRefines == IInv /\ IInv' /\ [Next]_vars => [Delivery!Next]_(Delivery!vars)
<1> SUFFICES ASSUME IInv, IInv', [Next]_vars PROVE [Delivery!Next]_(Delivery!vars)
  OBVIOUS
<1>1. CASE \E m \in Payload : Queue(m)
  <2>1. Received' = Received
    BY <1>1 DEF Queue, Received
  <2>2. QED
    BY <1>1, <2>1 DEF Queue, Delivery!Next, Delivery!Queue
<1>2. CASE \E f \in stream, keep \in Copies : ReceiveFragment(f, keep)
  <2>1. log' = log
    BY <1>2 DEF ReceiveFragment
  <2>2. Len(delivered') \in Nat /\ Len(delivered) \in Nat /\ Len(log) \in Nat
    BY <2>1, LenProperties DEF IInv, TypeOK
  <2>3. Len(delivered') <= Len(log) /\ Len(delivered) <= Len(delivered')
    <3>1. Len(delivered') <= Len(log)
      BY <2>1 DEF IInv, DeliveredInOrder
    <3>2. PICK f \in stream, n \in 0 .. ReorderWindow : rcv' = Released(Stored(rcv, f), n)
      BY <1>2 DEF ReceiveFragment
    <3>3. rcv'.through = rcv.through + n /\ rcv.through \in Nat
      BY <3>2, StoredType DEF IInv, TypeOK, Released, Receiver
    <3>4. QED
      BY <3>1, <3>2, <3>3, WindowAssumption DEF IInv, DeliveredInOrder
  <2>4. /\ Received \in Seq(Payload) /\ Len(Received) = Len(delivered)
        /\ \A i \in 1 .. Len(delivered) : Received[i] = log[i]
    BY ReceivedPrefix DEF ReceivedIsPrefix
  <2>5. /\ Received' \in Seq(Payload) /\ Len(Received') = Len(delivered')
        /\ \A i \in 1 .. Len(delivered') : Received'[i] = log[i]
    BY <2>1, ReceivedPrefixNext DEF ReceivedIsPrefix
  <2>6. CASE Len(delivered') = Len(delivered)
    <3>1. Received' = Received
      BY <2>4, <2>5, <2>6, SeqEqual
    <3>2. QED
      BY <2>1, <3>1 DEF Delivery!vars
  <2>7. CASE Len(delivered') > Len(delivered)
    <3> DEFINE tail == SubSeq(log, Len(Received) + 1, Len(delivered'))
    <3>1. /\ tail \in Seq(Payload)
          /\ Len(tail) = Len(delivered') - Len(delivered)
          /\ \A i \in 1 .. Len(delivered') - Len(delivered) : tail[i] = log[Len(delivered) + i]
      BY <2>2, <2>3, <2>4, <2>7 DEF IInv, TypeOK
    <3>2. /\ Received \o tail \in Seq(Payload)
          /\ Len(Received \o tail) = Len(delivered')
          /\ \A i \in 1 .. Len(delivered') :
               (Received \o tail)[i] = IF i <= Len(delivered) THEN Received[i]
                                                             ELSE tail[i - Len(delivered)]
      <4>1. Len(Received) + Len(tail) = Len(delivered')
        BY <2>2, <2>4, <2>7, <3>1
      <4> HIDE DEF tail
      <4>2. /\ Received \o tail \in Seq(Payload)
            /\ Len(Received \o tail) = Len(Received) + Len(tail)
            /\ \A i \in 1 .. Len(Received) + Len(tail) :
                 (Received \o tail)[i] = IF i <= Len(Received) THEN Received[i]
                                                              ELSE tail[i - Len(Received)]
        BY <2>4, <3>1, ConcatProperties
      <4>3. QED
        BY <2>4, <4>1, <4>2
    <3>3. \A i \in 1 .. Len(delivered') : (Received \o tail)[i] = log[i]
      BY <2>2, <2>4, <3>1, <3>2
    <3>4. Received' = Received \o tail
      BY <2>5, <3>2, <3>3, SeqEqual
    <3>5. Len(delivered') \in Len(Received) + 1 .. Len(log)
      BY <2>2, <2>3, <2>4, <2>7
    <3>6. QED
      BY <2>1, <3>4, <3>5 DEF Delivery!Next, Delivery!DeliverNext, Delivery!Deliver
  <2>8. QED
    BY <2>2, <2>3, <2>6, <2>7
<1>3. CASE Tick \/ CollectSome \/ (\E lost \in BOOLEAN : SendAck(lost))
           \/ (\E a \in acks, keep \in Copies : ReceiveAck(a, keep)) \/ UNCHANGED vars
  <2>1. UNCHANGED <<log, delivered>>
    BY <1>3 DEF Tick, CollectSome, Collect, SendAck, ReceiveAck, vars
  <2>2. QED
    BY <2>1 DEF Delivery!vars, Received
<1>4. QED
  BY <1>1, <1>2, <1>3 DEF Next

(* The channel implements ordered, exactly-once delivery (ReliableDelivery),
   whatever the network loses, duplicates or reorders. *)
THEOREM ChannelImplementsDelivery == Spec => DeliverySpec
<1>1. Init => Delivery!Init
  BY DEF Init, Delivery!Init, Received
<1>2. QED
  BY <1>1, Invariance, StepRefines, PTL DEF Spec, DeliverySpec, Delivery!Spec
=============================================================================
