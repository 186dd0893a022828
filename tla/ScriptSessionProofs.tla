------------------------ MODULE ScriptSessionProofs ------------------------
(***************************************************************************)
(* The script session's theorems, for events of one datagram each: a       *)
(* server that forgets a connection numbers its messages from 1 again, and *)
(* of two messages with one number a receiver can put a fragment of each   *)
(* together.                                                               *)
(*                                                                         *)
(* What scripts are told stays in order because a number stands for one    *)
(* event wherever it is met: at the sender, under way, and in the receiver *)
(* of any channel.  The client's numbers last as long as its process, so   *)
(* this holds for them across connections and channels; the server's are   *)
(* only unique among what can still reach the client, together with what   *)
(* it has heard.                                                           *)
(***************************************************************************)
EXTENDS ScriptSession, FiniteSetTheorems, SequenceTheorems, WellFoundedInduction, TLAPS

OneDatagramEach == \A m \in Payload : Frags[m] = 1

Whole == [id : Nat \ {0}, index : {0}, body : Payload]

SenderOK(s) ==
  /\ s \in Sender
  /\ \A e \in s.pending : e.id <= s.last
  /\ \A e, g \in s.pending : e.id = g.id => e = g

ReceiverOK(r) ==
  /\ r \in [through : Nat, held : SUBSET Whole]
  /\ \A f, g \in r.held : f.id = g.id => f = g

\* What numbers stand for.
Pairs(S) == {<<e.id, e.body>> : e \in S}

Increasing(q) == \A i, j \in DOMAIN q : i < j => q[i] < q[j]

-----------------------------------------------------------------------------
(* Queueing.                                                               *)

(* What holds of 0, and of each number up to n if of the one before, holds of
   all of them. *)
LEMMA UpToN ==
  ASSUME NEW n \in Nat, NEW W, 0 \in W, \A i \in 1 .. n : i - 1 \in W => i \in W
  PROVE  \A i \in 0 .. n : i \in W
<1> DEFINE T == {i \in 0 .. n : i \notin W}
<1>1. SUFFICES ASSUME T # {} PROVE FALSE
  OBVIOUS
<1>2. IsWellFoundedOn(OpToRel(<, Nat), Nat)
  BY NatLessThanWellFounded
<1>3. T \subseteq Nat
  OBVIOUS
<1> HIDE DEF T
<1>4. PICK i \in T : \A j \in T : ~ (<<j, i>> \in OpToRel(<, Nat))
  BY <1>1, <1>2, <1>3, WFMin
<1>5. \A j \in T : ~ (j < i)
  BY <1>3, <1>4 DEF OpToRel
<1>6. i \in 1 .. n /\ i \notin W
  BY DEF T
<1>7. i - 1 \in 0 .. n /\ i - 1 < i
  BY <1>6
<1>8. i - 1 \in W
  BY <1>5, <1>7 DEF T
<1> QED
  BY <1>6, <1>8

OneQueued(s, m) == IF Refuses(s, m) THEN s ELSE Queued(s, m)

\* f holds what QueueAll has after each of the first n events.
Stages(f, s, pending, n) ==
  f = [i \in 0 .. n |-> IF i = 0 THEN s ELSE OneQueued(f[i - 1], pending[i])]

LEMMA StagesExist ==
  ASSUME NEW s, NEW pending, NEW n \in Nat
  PROVE  \E f : Stages(f, s, pending, n)
<1> DEFINE W == {i \in 0 .. n : \E f : Stages(f, s, pending, i)}
<1>1. 0 \in W
  <2> DEFINE f == [i \in 0 .. 0 |-> s]
  <2>1. Stages(f, s, pending, 0)
    BY DEF Stages
  <2> QED
    BY <2>1
<1>2. ASSUME NEW i \in 1 .. n, i - 1 \in W
      PROVE  i \in W
  <2>1. PICK f : Stages(f, s, pending, i - 1)
    BY <1>2
  <2> DEFINE g == [j \in 0 .. i |-> IF j = i THEN OneQueued(f[i - 1], pending[i]) ELSE f[j]]
  <2>2. ASSUME NEW j \in 0 .. i
        PROVE  g[j] = IF j = 0 THEN s ELSE OneQueued(g[j - 1], pending[j])
    <3>1. CASE j = i
      <4>1. i # 0 /\ i - 1 \in 0 .. i /\ i - 1 # i
        OBVIOUS
      <4> QED
        BY <3>1, <4>1
    <3>2. CASE j # i
      <4>1. j \in 0 .. i - 1 /\ (j # 0 => j - 1 \in 0 .. i /\ j - 1 # i)
        BY <3>2
      <4>2. f[j] = IF j = 0 THEN s ELSE OneQueued(f[j - 1], pending[j])
        BY <2>1, <4>1 DEF Stages
      <4> QED
        BY <3>2, <4>1, <4>2
    <3> QED
      BY <3>1, <3>2
  <2>3. g = [j \in 0 .. i |-> IF j = 0 THEN s ELSE OneQueued(g[j - 1], pending[j])]
    <3> DEFINE h == [j \in 0 .. i |-> IF j = 0 THEN s ELSE OneQueued(g[j - 1], pending[j])]
    <3>1. \A j \in 0 .. i : g[j] = h[j]
      BY <2>2
    <3>2. g = [j \in 0 .. i |-> g[j]]
      OBVIOUS
    <3>3. h = [j \in 0 .. i |-> h[j]]
      OBVIOUS
    <3> HIDE DEF g, h
    <3>4. g = h
      BY <3>1, <3>2, <3>3
    <3> QED
      BY <3>4 DEF h
  <2>4. Stages(g, s, pending, i)
    BY <2>3 DEF Stages
  <2> HIDE DEF g
  <2> QED
    BY <2>4
<1> HIDE DEF W
<1>3. \A i \in 0 .. n : i \in W
  BY <1>1, <1>2, UpToN
<1>4. n \in W
  BY <1>3
<1> QED
  BY <1>4 DEF W

LEMMA QueueAllStages ==
  ASSUME NEW s, NEW pending, Len(pending) \in Nat
  PROVE  \E f : Stages(f, s, pending, Len(pending)) /\ QueueAll(s, pending) = f[Len(pending)]
<1> DEFINE F(f) == [i \in 0 .. Len(pending) |->
                      IF i = 0 THEN s
                      ELSE IF Refuses(f[i - 1], pending[i]) THEN f[i - 1]
                      ELSE Queued(f[i - 1], pending[i])]
           stages == CHOOSE f : f = F(f)
<1>1. QueueAll(s, pending) = stages[Len(pending)]
  BY DEF QueueAll
<1>2. PICK g : Stages(g, s, pending, Len(pending))
  BY StagesExist
<1>3. g = F(g)
  BY <1>2 DEF Stages, OneQueued
<1> HIDE DEF F
<1>4. stages = F(stages)
  BY <1>3
<1>5. Stages(stages, s, pending, Len(pending))
  BY <1>4 DEF F, Stages, OneQueued
<1> HIDE DEF stages
<1> QED
  BY <1>1, <1>5

(* A sender stays one, what was queued stays, and what is new has new numbers
   in the order of the events. *)
QueuedOK(s, pending, i, t) ==
  /\ SenderOK(t) /\ s.last <= t.last /\ s.pending \subseteq t.pending
  /\ \A e \in t.pending \ s.pending : e.id > s.last /\ \E j \in 1 .. i : e.body = pending[j]
  /\ \A e, g \in t.pending \ s.pending : e.id < g.id => e.body < g.body

LEMMA OneMoreQueued ==
  ASSUME NEW s, SenderOK(s), NEW pending \in Seq(Payload), Increasing(pending),
         NEW i \in 1 .. Len(pending), NEW t, QueuedOK(s, pending, i - 1, t)
  PROVE  QueuedOK(s, pending, i, OneQueued(t, pending[i]))
<1>0. Payload \subseteq Nat
  BY SessionBounds, EventsArePayload
<1>1. pending[i] \in Payload /\ i \in DOMAIN pending
  OBVIOUS
<1>2. t \in Sender /\ t.last \in Nat /\ t.pending \subseteq Entry /\ s.last \in Nat
  BY DEF QueuedOK, SenderOK, Sender
<1>3. \A j \in 1 .. i - 1 : j \in 1 .. i /\ j \in DOMAIN pending /\ j < i
  OBVIOUS
<1>4. CASE Refuses(t, pending[i])
  <2>1. OneQueued(t, pending[i]) = t
    BY <1>4 DEF OneQueued
  <2> QED
    BY <1>3, <2>1 DEF QueuedOK
<1>5. CASE ~Refuses(t, pending[i])
  <2> DEFINE new == NewEntry(t.last + 1, pending[i])
             u == Queued(t, pending[i])
  <2>1. new \in Entry /\ new.id = t.last + 1 /\ new.body = pending[i]
    BY <1>1, <1>2 DEF NewEntry, Entry
  <2>2. u = [last |-> t.last + 1, pending |-> t.pending \cup {new}]
    BY DEF Queued
  <2> HIDE DEF new, u
  <2>3. u \in Sender /\ u.last = t.last + 1 /\ u.pending = t.pending \cup {new}
    BY <1>2, <2>1, <2>2 DEF Sender
  <2>4. \A e \in t.pending : e.id \in Nat /\ e.body \in Nat /\ e.id <= t.last
    BY <1>0, <1>2 DEF QueuedOK, SenderOK, Entry
  <2>5. SenderOK(u)
    BY <1>2, <2>1, <2>3, <2>4 DEF QueuedOK, SenderOK
  <2>6. \A e \in u.pending \ s.pending : e = new \/ e \in t.pending \ s.pending
    BY <2>3
  <2>7. s.last <= u.last /\ s.pending \subseteq u.pending /\ new.id > s.last
    BY <1>2, <2>1, <2>3 DEF QueuedOK
  <2>8. ASSUME NEW e \in u.pending \ s.pending
        PROVE  e.id > s.last /\ \E j \in 1 .. i : e.body = pending[j]
    BY <1>3, <2>1, <2>6, <2>7 DEF QueuedOK
  <2>9. ASSUME NEW e \in t.pending \ s.pending
        PROVE  e.body < new.body /\ e.id < new.id
    <3>1. PICK j \in 1 .. i - 1 : e.body = pending[j]
      BY DEF QueuedOK
    <3>2. pending[j] < pending[i]
      BY <1>1, <1>3 DEF Increasing
    <3> QED
      BY <1>2, <2>1, <2>4, <3>1, <3>2
  <2>10. ASSUME NEW e \in u.pending \ s.pending, NEW g \in u.pending \ s.pending, e.id < g.id
         PROVE  e.body < g.body
    <3>1. CASE g = new
      <4>1. e # new
        BY <1>2, <2>1, <2>10, <3>1
      <4> QED
        BY <2>6, <2>9, <3>1, <4>1
    <3>2. CASE g # new
      <4>1. g \in t.pending \ s.pending
        BY <2>6, <3>2
      <4>2. e # new
        BY <1>2, <2>1, <2>4, <2>10, <4>1
      <4> QED
        BY <2>6, <2>10, <4>1, <4>2 DEF QueuedOK
    <3> QED
      BY <3>1, <3>2
  <2>11. QueuedOK(s, pending, i, u)
    BY <2>5, <2>7, <2>8, <2>10 DEF QueuedOK
  <2>12. OneQueued(t, pending[i]) = u
    BY <1>5 DEF OneQueued, u
  <2> QED
    BY <2>11, <2>12
<1> QED
  BY <1>4, <1>5

LEMMA QueueAllQueues ==
  ASSUME NEW s, SenderOK(s), NEW pending \in Seq(Payload), Increasing(pending)
  PROVE  QueuedOK(s, pending, Len(pending), QueueAll(s, pending))
<1> DEFINE n == Len(pending)
<1>1. n \in Nat
  OBVIOUS
<1>2. PICK f : Stages(f, s, pending, n) /\ QueueAll(s, pending) = f[n]
  BY <1>1, QueueAllStages
<1> DEFINE W == {i \in 0 .. n : QueuedOK(s, pending, i, f[i])}
<1>3. 0 \in W
  <2>1. f[0] = s
    BY <1>1, <1>2 DEF Stages
  <2>2. s.last \in Nat
    BY DEF SenderOK, Sender
  <2>3. QueuedOK(s, pending, 0, s)
    BY <2>2 DEF QueuedOK
  <2> QED
    BY <1>1, <2>1, <2>3
<1>4. ASSUME NEW i \in 1 .. n, i - 1 \in W
      PROVE  i \in W
  <2>1. QueuedOK(s, pending, i - 1, f[i - 1])
    BY <1>4
  <2>2. f[i] = OneQueued(f[i - 1], pending[i])
    BY <1>1, <1>2 DEF Stages
  <2>3. QueuedOK(s, pending, i, f[i])
    BY <2>1, <2>2, OneMoreQueued
  <2> QED
    BY <1>1, <2>3
<1> HIDE DEF W
<1>5. \A i \in 0 .. n : i \in W
  BY <1>1, <1>3, <1>4, UpToN
<1>6. n \in W
  BY <1>1, <1>5
<1> QED
  BY <1>2, <1>6 DEF W

-----------------------------------------------------------------------------
(* Sending.                                                                *)

(* Time passes without a message coming or going. *)
LEMMA ClockedKeeps ==
  ASSUME NEW s, SenderOK(s), NEW passed \in BOOLEAN
  PROVE  /\ SenderOK(Clocked(s, passed)) /\ Clocked(s, passed).last = s.last
         /\ Pairs(Clocked(s, passed).pending) = Pairs(s.pending)
<1>1. CASE ~passed
  BY <1>1 DEF Clocked
<1>2. CASE passed
  <2> DEFINE older(e) == [e EXCEPT !.wait = IF @ = 0 THEN 0 ELSE @ - 1]
             pending == {older(e) : e \in s.pending}
             t == [s EXCEPT !.pending = pending]
  <2>1. Clocked(s, passed) = t
    BY <1>2 DEF Clocked, Aged
  <2>2. s \in Sender /\ s.pending \subseteq Entry
    BY DEF SenderOK, Sender
  <2>3. ASSUME NEW e \in s.pending
        PROVE  older(e) \in Entry /\ older(e).id = e.id /\ older(e).body = e.body
    <3>1. e \in Entry
      BY <2>2
    <3> QED
      BY <3>1 DEF Entry
  <2>4. /\ pending \subseteq Entry
        /\ \A e \in pending : \E g \in s.pending : e = older(g) /\ e.id = g.id
    BY <2>3
  <2>5. Pairs(pending) = Pairs(s.pending)
    <3>1. \A e \in pending : \E g \in s.pending : e.id = g.id /\ e.body = g.body
      BY <2>3
    <3>2. \A g \in s.pending : \E e \in pending : e.id = g.id /\ e.body = g.body
      BY <2>3
    <3> HIDE DEF pending
    <3>3. Pairs(pending) \subseteq Pairs(s.pending)
      BY <3>1 DEF Pairs
    <3>4. Pairs(s.pending) \subseteq Pairs(pending)
      BY <3>2 DEF Pairs
    <3> QED
      BY <3>3, <3>4
  <2> HIDE DEF older, pending
  <2>6. t \in Sender /\ t.last = s.last /\ t.pending = pending
    BY <2>2, <2>4 DEF Sender
  <2> HIDE DEF t
  <2>7. SenderOK(t)
    BY <2>4, <2>6 DEF SenderOK
  <2> QED
    BY <2>1, <2>5, <2>6, <2>7
<1> QED
  BY <1>1, <1>2

(* What is sent is not yet forgotten; what is given up is. *)
LEMMA CollectedKeeps ==
  ASSUME NEW s, SenderOK(s)
  PROVE  /\ SenderOK(Collected(s)) /\ Collected(s).last = s.last
         /\ Pairs(Collected(s).pending) \subseteq Pairs(s.pending)
         /\ Pairs(s.pending) \subseteq Pairs(Collected(s).pending) \cup Pairs(Exhausted(s))
<1> DEFINE pending == {e \in s.pending : ~IsDue(e)} \cup {Resent(e) : e \in Due(s)}
           t == [s EXCEPT !.pending = pending]
<1>1. Collected(s) = t
  BY DEF Collected
<1>2. s \in Sender /\ s.pending \subseteq Entry /\ Due(s) \subseteq s.pending
  BY DEF SenderOK, Sender, Due
<1>3. RetransmitInterval \in Nat
  BY LimitsAssumption
<1>4. ASSUME NEW e \in s.pending
      PROVE  Resent(e) \in Entry /\ Resent(e).id = e.id /\ Resent(e).body = e.body
  <2>1. e \in Entry
    BY <1>2
  <2>2. e.attempts + 1 \in Nat
    BY <2>1 DEF Entry
  <2>3. Resent(e) \in Entry
    BY <1>3, <2>1, <2>2 DEF Resent, Entry
  <2>4. Resent(e).id = e.id /\ Resent(e).body = e.body
    BY <2>1 DEF Resent, Entry
  <2> QED
    BY <2>3, <2>4
<1>5. \A e \in pending : /\ e \in Entry
                         /\ \E g \in s.pending : /\ e = (IF IsDue(g) THEN Resent(g) ELSE g)
                                                 /\ e.id = g.id /\ e.body = g.body
  <2>1. \A g \in Due(s) : g \in s.pending /\ IsDue(g)
    BY DEF Due
  <2> QED
    BY <1>2, <1>4, <2>1
<1>6. \A e \in s.pending : e \in Exhausted(s) \/ e \in pending \/ Resent(e) \in pending
  BY DEF Due
<1>7. Pairs(pending) \subseteq Pairs(s.pending)
  BY <1>5 DEF Pairs
<1>8. Pairs(s.pending) \subseteq Pairs(pending) \cup Pairs(Exhausted(s))
  BY <1>4, <1>6 DEF Pairs
<1> HIDE DEF pending
<1>9. pending \subseteq Entry
  BY <1>5
<1>10. t \in Sender /\ t.last = s.last /\ t.pending = pending
  BY <1>2, <1>9 DEF Sender
<1> HIDE DEF t
<1>11. SenderOK(t)
  BY <1>5, <1>10 DEF SenderOK
<1> QED
  BY <1>1, <1>7, <1>8, <1>10, <1>11

LEMMA EmittedIsWhole ==
  ASSUME OneDatagramEach, NEW s, SenderOK(s)
  PROVE  Emitted(s) \subseteq Whole /\ Pairs(Emitted(s)) \subseteq Pairs(s.pending)
<1>1. SUFFICES ASSUME NEW f \in Emitted(s)
               PROVE  f \in Whole /\ <<f.id, f.body>> \in Pairs(s.pending)
  BY DEF Pairs
<1>2. PICK e \in Due(s) : \E i \in 0 .. Frags[e.body] - 1 :
        f = [id |-> e.id, index |-> i, body |-> e.body]
  BY DEF Emitted
<1>3. e \in s.pending /\ e \in Entry
  BY DEF Due, SenderOK, Sender
<1>4. e.body \in Payload /\ e.id \in Nat \ {0}
  BY <1>3 DEF Entry
<1>5. f = [id |-> e.id, index |-> 0, body |-> e.body]
  <2>1. Frags[e.body] = 1
    BY <1>4 DEF OneDatagramEach
  <2>2. 0 .. Frags[e.body] - 1 = {0}
    BY <2>1
  <2> QED
    BY <1>2, <2>2
<1> QED
  BY <1>3, <1>4, <1>5 DEF Whole, Pairs

LEMMA AcknowledgedKeeps ==
  ASSUME NEW s, SenderOK(s), NEW a
  PROVE  /\ SenderOK(Acknowledged(s, a)) /\ Acknowledged(s, a).last = s.last
         /\ Acknowledged(s, a).pending = {e \in s.pending : ~Covers(a, e.id)}
<1> DEFINE t == Acknowledged(s, a)
<1>1. s \in Sender
  BY DEF SenderOK
<1>2. t \in Sender /\ t.last = s.last /\ t.pending = {e \in s.pending : ~Covers(a, e.id)}
  BY <1>1 DEF Acknowledged, Sender
<1> HIDE DEF t
<1>3. SenderOK(t)
  BY <1>2 DEF SenderOK
<1> QED
  BY <1>2, <1>3 DEF t

-----------------------------------------------------------------------------
(* Receiving.                                                              *)

LEMMA StoredKeeps ==
  ASSUME NEW r, ReceiverOK(r), NEW f \in Whole
  PROVE  /\ ReceiverOK(Stored(r, f)) /\ Stored(r, f).through = r.through
         /\ r.held \subseteq Stored(r, f).held /\ Stored(r, f).held \subseteq r.held \cup {f}
<1> DEFINE t == [r EXCEPT !.held = @ \cup {f}]
<1>1. CASE ~Admissible(r, f)
  BY <1>1 DEF Stored
<1>2. CASE Admissible(r, f)
  <2>1. Stored(r, f) = t
    BY <1>2 DEF Stored
  <2>2. t \in [through : Nat, held : SUBSET Whole]
        /\ t.through = r.through /\ t.held = r.held \cup {f}
    BY DEF ReceiverOK
  <2>3. \A g \in r.held : g.id # f.id
    <3>1. \A g \in r.held : g.index = 0 /\ f.index = 0
      BY DEF ReceiverOK, Whole
    <3> QED
      BY <1>2, <3>1 DEF Admissible, Held
  <2> HIDE DEF t
  <2>4. ReceiverOK(t)
    BY <2>2, <2>3 DEF ReceiverOK
  <2> QED
    BY <2>1, <2>2, <2>4
<1> QED
  BY <1>1, <1>2

(* A message of one datagram is complete once that is held. *)
LEMMA CompleteIsHeld ==
  ASSUME OneDatagramEach, NEW r, ReceiverOK(r), NEW i
  PROVE  Complete(r, i) <=> \E f \in r.held : f.id = i
<1>1. ASSUME NEW f \in r.held, f.id = i
      PROVE  Complete(r, i)
  <2>1. Held(r, i) = {f}
    BY <1>1 DEF Held, ReceiverOK
  <2>2. f.index = 0 /\ f.body \in Payload
    BY DEF ReceiverOK, Whole
  <2>3. Frags[f.body] = 1
    BY <2>2 DEF OneDatagramEach
  <2>4. {g.index : g \in Held(r, i)} = {0}
    BY <2>1, <2>2
  <2>5. 0 .. Frags[f.body] - 1 = {0}
    BY <2>3
  <2> QED
    BY <2>1, <2>4, <2>5 DEF Complete
<1>2. Complete(r, i) => \E f \in r.held : f.id = i
  BY DEF Complete, Held
<1> QED
  BY <1>1, <1>2

(* What is released is what is held under the next numbers. *)
LEMMA ReleasedBodies ==
  ASSUME OneDatagramEach, NEW r, ReceiverOK(r), NEW n \in Nat, Releases(r, n)
  PROVE  /\ Bodies(r, n) \in Seq(Payload) /\ Len(Bodies(r, n)) = n
         /\ \A i \in 1 .. n : <<r.through + i, Bodies(r, n)[i]>> \in Pairs(r.held)
<1>1. ASSUME NEW i \in 1 .. n
      PROVE  /\ Bodies(r, n)[i] \in Payload
             /\ <<r.through + i, Bodies(r, n)[i]>> \in Pairs(r.held)
  <2>1. PICK f \in r.held : f.id = r.through + i
    BY CompleteIsHeld DEF Releases
  <2>2. f.index = 0 /\ f.body \in Payload
    BY DEF ReceiverOK, Whole
  <2>3. Held(r, r.through + i) = {f}
    BY <2>1 DEF Held, ReceiverOK
  <2>4. Output(r, n)[i] = {<<0, f.body>>}
    BY <2>2, <2>3 DEF Output
  <2>5. ASSUME NEW m \in Payload
        PROVE  Pieces(m) = {<<0, m>>}
    <3>1. Frags[m] = 1
      BY DEF OneDatagramEach
    <3>2. 0 .. Frags[m] - 1 = {0}
      BY <3>1
    <3> QED
      BY <3>2 DEF Pieces
  <2>6. \A m \in Payload : Output(r, n)[i] = Pieces(m) <=> m = f.body
    <3>1. \A m \in Payload : <<0, f.body>> = <<0, m>> <=> m = f.body
      OBVIOUS
    <3>2. \A x, y : {x} = {y} <=> x = y
      OBVIOUS
    <3>3. \A m \in Payload : {<<0, f.body>>} = {<<0, m>>} <=> m = f.body
      BY <3>1, <3>2
    <3> QED
      BY <2>4, <2>5, <3>3
  <2>7. (CHOOSE m \in Payload : Output(r, n)[i] = Pieces(m)) = f.body
    BY <2>2, <2>6
  <2>8. Bodies(r, n)[i] = f.body
    BY <2>7 DEF Bodies
  <2> QED
    BY <2>1, <2>2, <2>8 DEF Pairs
<1> DEFINE bodies == Bodies(r, n)
<1>2. bodies = [i \in 1 .. n |-> bodies[i]]
  BY DEF Bodies
<1>3. \A i \in 1 .. n : bodies[i] \in Payload
  BY <1>1
<1> HIDE DEF bodies
<1>4. bodies \in [1 .. n -> Payload]
  BY <1>2, <1>3
<1>5. bodies \in Seq(Payload) /\ Len(bodies) = n
  BY <1>4, SeqDef
<1> QED
  BY <1>1, <1>5 DEF bodies

LEMMA ReleasedKeeps ==
  ASSUME NEW r, ReceiverOK(r), NEW n \in Nat
  PROVE  /\ ReceiverOK(Released(r, n)) /\ Released(r, n).through = r.through + n
         /\ Released(r, n).held = {f \in r.held : f.id > r.through + n}
<1> DEFINE t == Released(r, n)
<1>1. t.through = r.through + n /\ t.held = {f \in r.held : f.id > r.through + n}
  BY DEF Released
<1>2. t \in [through : Nat, held : SUBSET Whole]
  BY DEF Released, ReceiverOK
<1> HIDE DEF t
<1>3. ReceiverOK(t)
  BY <1>1, <1>2 DEF ReceiverOK
<1> QED
  BY <1>1, <1>3 DEF t

LEMMA BuildAckIsAck ==
  ASSUME NEW r, ReceiverOK(r)
  PROVE  BuildAck(r) \in AckMsg
<1>1. 1 .. AckBits \subseteq Nat
  BY WindowAssumption
<1> QED
  BY <1>1 DEF BuildAck, AckMsg, ReceiverOK

-----------------------------------------------------------------------------
(* Types, and the budget of roles: one is given to a connection once, and  *)
(* once more whenever the server has forgotten it.                         *)

ChannelOK(ch) == ch \in Channel /\ SenderOK(ch.snd) /\ ReceiverOK(ch.rcv)

ClientInv ==
  /\ connection \in 0 .. MaxJoins
  /\ phase \in {"offline", "registering", "playing"}
  /\ phase # "offline" => connection # 0
  /\ SenderOK(sender) /\ ReceiverOK(receiver) /\ ackDue \in BOOLEAN

ServerInv ==
  /\ issued \in Nat
  /\ \A c \in DOMAIN roles : roles[c] \in 1 .. issued
  /\ \A c, d \in DOMAIN roles : roles[c] = roles[d] => c = d
  /\ DOMAIN roles \subseteq addresses /\ addresses \subseteq 1 .. connection
  /\ DOMAIN channels \subseteq addresses
  /\ \A c \in DOMAIN channels : ChannelOK(channels[c])
  /\ issued <= connection + forgets
  /\ (connection \notin DOMAIN roles /\ connection # 0) => issued < connection + forgets

NetworkInv ==
  /\ up \subseteq (1 .. connection) \X Whole /\ upAcks \subseteq (1 .. connection) \X AckMsg
  /\ down \subseteq {connection} \X Whole /\ downAcks \subseteq {connection} \X AckMsg
  /\ phase = "offline" => down = {} /\ downAcks = {}

\* Events are queued in the order of their numbers.
QueuesInv ==
  /\ said \in Nat /\ told \in Nat /\ said + told <= MaxEvents
  /\ outbound \in Seq(Payload) /\ Increasing(outbound)
  /\ events \in Seq(Payload) /\ Increasing(events)
  /\ \A i \in DOMAIN outbound : outbound[i] <= said
  /\ \A i \in DOMAIN events : events[i] <= told

HistoryInv ==
  /\ forgets \in 0 .. MaxForgets /\ losses \in 0 .. MaxLosses
  /\ handled \in Seq((1 .. issued) \X Payload) /\ heard \in Seq(Payload)
  /\ gaveUp \subseteq Payload

TypeInv == ClientInv /\ ServerInv /\ NetworkInv /\ QueuesInv /\ HistoryInv

LEMMA BoundsAreNat ==
  /\ MaxEvents \in Nat /\ MaxJoins \in Nat /\ MaxForgets \in Nat /\ MaxLosses \in Nat
  /\ Payload = 1 .. MaxEvents
BY SessionBounds, EventsArePayload

LEMMA NewEndsAreSound == SenderOK(NewSender) /\ ReceiverOK(NewReceiver) /\ ChannelOK(NewChannel)
<1>1. SenderOK(NewSender) /\ ReceiverOK(NewReceiver)
  BY DEF NewSender, NewReceiver, SenderOK, ReceiverOK, Sender
<1>2. NewChannel \in Channel
  BY DEF NewChannel, Channel, Sender, Receiver, NewSender, NewReceiver
<1>3. NewChannel.snd = NewSender /\ NewChannel.rcv = NewReceiver
  BY DEF NewChannel
<1> QED
  BY <1>1, <1>2, <1>3 DEF ChannelOK

LEMMA ChannelOfIsSound ==
  ASSUME ServerInv, NEW c
  PROVE  ChannelOK(ChannelOf(c))
BY NewEndsAreSound DEF ServerInv, ChannelOf

LEMMA OneMoreSaid ==
  ASSUME NEW q \in Seq(Payload), Increasing(q), NEW n \in Nat, n + 1 <= MaxEvents,
         \A i \in DOMAIN q : q[i] <= n
  PROVE  /\ Append(q, n + 1) \in Seq(Payload) /\ Increasing(Append(q, n + 1))
         /\ \A i \in DOMAIN Append(q, n + 1) : Append(q, n + 1)[i] <= n + 1
<1> DEFINE r == Append(q, n + 1)
<1>1. n + 1 \in Payload
  BY BoundsAreNat
<1>2. r \in Seq(Payload) /\ DOMAIN r = 1 .. Len(q) + 1 /\ DOMAIN q = 1 .. Len(q) /\ Len(q) \in Nat
      /\ r[Len(q) + 1] = n + 1 /\ \A i \in 1 .. Len(q) : r[i] = q[i]
  BY <1>1
<1> HIDE DEF r
<1>3. \A i \in 1 .. Len(q) : q[i] \in Nat /\ q[i] <= n
  <2>1. Payload \subseteq Nat
    BY BoundsAreNat
  <2>2. \A i \in 1 .. Len(q) : q[i] \in Payload
    OBVIOUS
  <2> QED
    BY <1>2, <2>1, <2>2
<1>4. \A i \in DOMAIN r : i \in 1 .. Len(q) \/ i = Len(q) + 1
  BY <1>2
<1>5. \A i \in DOMAIN r : r[i] <= n + 1
  BY <1>2, <1>3, <1>4
<1>6. ASSUME NEW i \in DOMAIN r, NEW j \in DOMAIN r, i < j
      PROVE  r[i] < r[j]
  <2>1. i \in 1 .. Len(q)
    BY <1>2, <1>4, <1>6
  <2>2. CASE j = Len(q) + 1
    BY <1>2, <1>3, <2>1, <2>2
  <2>3. CASE j \in 1 .. Len(q)
    BY <1>2, <1>6, <2>1, <2>3 DEF Increasing
  <2> QED
    BY <1>4, <2>2, <2>3
<1> QED
  BY <1>2, <1>5, <1>6 DEF Increasing, r

(* A channel that a datagram reaches. *)
LEMMA WithChannelKeeps ==
  ASSUME ServerInv, NEW c \in 1 .. connection, NEW ch, ChannelOK(ch),
         channels' = WithChannel(c, ch), addresses' = addresses \cup {c},
         UNCHANGED <<connection, roles, issued, forgets>>
  PROVE  ServerInv'
<1>1. DOMAIN channels' = DOMAIN channels \cup {c}
      /\ \A d \in DOMAIN channels' : channels'[d] = IF d = c THEN ch ELSE channels[d]
  BY DEF WithChannel
<1>2. \A d \in DOMAIN channels' : ChannelOK(channels'[d])
  BY <1>1 DEF ServerInv
<1> QED
  BY <1>1, <1>2 DEF ServerInv, ChannelOK, SenderOK, ReceiverOK

LEMMA InitTypeInv == Init => TypeInv
<1> SUFFICES ASSUME Init PROVE TypeInv
  OBVIOUS
<1>1. ClientInv
  <2>1. 0 \in 0 .. MaxJoins
    BY BoundsAreNat
  <2>2. ackDue \in BOOLEAN
    BY DEF Init
  <2> QED
    BY <2>1, <2>2, NewEndsAreSound DEF Init, ClientInv
<1>2. ServerInv
  BY DEF Init, ServerInv
<1>3. NetworkInv
  BY DEF Init, NetworkInv
<1>4. QueuesInv
  BY BoundsAreNat DEF Init, QueuesInv, Increasing
<1>5. HistoryInv
  BY BoundsAreNat DEF Init, HistoryInv
<1> QED
  BY <1>1, <1>2, <1>3, <1>4, <1>5 DEF TypeInv

(* The client's connections. *)
LEMMA ConnectingTypeInv ==
  ASSUME TypeInv, Join \/ ReceiveRegisterAck \/ Leave
  PROVE  TypeInv'
<1>1. /\ connection \in Nat /\ connection' \in {connection, connection + 1}
      /\ connection' \in 0 .. MaxJoins
      /\ phase' \in {"offline", "registering", "playing"}
      /\ phase' # "offline" => connection' # 0
      /\ connection' # connection => phase = "offline"
      /\ phase' = "offline" => down' = {} /\ downAcks' = {}
  BY BoundsAreNat DEF Join, ReceiveRegisterAck, Leave, TypeInv, ClientInv
<1>2. /\ (down' = down /\ downAcks' = downAcks) \/ (down' = {} /\ downAcks' = {})
      /\ UNCHANGED <<outbound, sender, receiver, ackDue, server, events, up, upAcks, bounds, history>>
  BY DEF Join, ReceiveRegisterAck, Leave, network
<1>3. phase = "offline" => down' = {} /\ downAcks' = {}
  BY <1>2 DEF TypeInv, NetworkInv
<1>4. ClientInv'
  BY <1>1, <1>2 DEF TypeInv, ClientInv, SenderOK, ReceiverOK
<1>5. ServerInv'
  <2>1. 1 .. connection \subseteq 1 .. connection'
    BY <1>1
  <2>2. forgets \in Nat /\ issued \in Nat
    BY BoundsAreNat DEF TypeInv, HistoryInv, ServerInv
  <2>3. /\ issued <= connection' + forgets
        /\ (connection' \notin DOMAIN roles /\ connection' # 0) => issued < connection' + forgets
    <3>1. /\ issued <= connection + forgets
          /\ (connection \notin DOMAIN roles /\ connection # 0) => issued < connection + forgets
      BY DEF TypeInv, ServerInv
    <3>2. CASE connection' = connection
      BY <3>1, <3>2
    <3>3. CASE connection' = connection + 1
      <4>1. issued < connection' + forgets /\ issued <= connection' + forgets
        BY <1>1, <2>2, <3>1, <3>3
      <4> QED
        BY <4>1
    <3> QED
      BY <1>1, <3>2, <3>3
  <2>4. UNCHANGED <<roles, issued, addresses, channels, forgets>>
    BY <1>2 DEF server, bounds
  <2> QED
    BY <2>1, <2>3, <2>4 DEF TypeInv, ServerInv, ChannelOK, SenderOK, ReceiverOK
<1>6. NetworkInv'
  <2>1. 1 .. connection \subseteq 1 .. connection'
    BY <1>1
  <2>2. up' \subseteq (1 .. connection') \X Whole /\ upAcks' \subseteq (1 .. connection') \X AckMsg
    BY <1>2, <2>1 DEF TypeInv, NetworkInv
  <2>3. down' \subseteq {connection'} \X Whole /\ downAcks' \subseteq {connection'} \X AckMsg
    BY <1>1, <1>2, <1>3 DEF TypeInv, NetworkInv
  <2> QED
    BY <1>1, <2>2, <2>3 DEF NetworkInv
<1>7. QueuesInv'
  BY <1>2 DEF TypeInv, QueuesInv, Increasing, bounds
<1>8. HistoryInv'
  BY <1>2 DEF TypeInv, HistoryInv, bounds, history, server
<1> QED
  BY <1>4, <1>5, <1>6, <1>7, <1>8 DEF TypeInv

(* The scripts of both sides. *)
LEMMA SayingTypeInv ==
  ASSUME TypeInv, SendScriptEvent \/ QueueClientScriptEvent
  PROVE  TypeInv'
<1>1. /\ UNCHANGED <<client, server, network, forgets, losses, history>>
      /\ said + told < MaxEvents
      /\ \/ /\ said' = said + 1 /\ outbound' = Append(outbound, said + 1)
            /\ UNCHANGED <<told, events>>
         \/ /\ told' = told + 1 /\ events' = Append(events, told + 1)
            /\ UNCHANGED <<said, outbound>>
  BY DEF SendScriptEvent, QueueClientScriptEvent
<1>2. ClientInv' /\ HistoryInv'
  BY <1>1 DEF TypeInv, ClientInv, HistoryInv, client, history, server, SenderOK, ReceiverOK
<1>3. ServerInv'
  BY <1>1 DEF TypeInv, ServerInv, ChannelOK, SenderOK, ReceiverOK, client, server
<1>4. NetworkInv'
  BY <1>1 DEF TypeInv, NetworkInv, client, network
<1>5. QueuesInv'
  <2>1. /\ said \in Nat /\ told \in Nat /\ MaxEvents \in Nat
        /\ outbound \in Seq(Payload) /\ Increasing(outbound)
        /\ events \in Seq(Payload) /\ Increasing(events)
        /\ \A i \in DOMAIN outbound : outbound[i] <= said
        /\ \A i \in DOMAIN events : events[i] <= told
    BY BoundsAreNat DEF TypeInv, QueuesInv
  <2>2. CASE said' = said + 1
    <3>1. outbound' = Append(outbound, said + 1) /\ UNCHANGED <<told, events>>
      BY <1>1, <2>1, <2>2
    <3>2. said + 1 <= MaxEvents /\ said' + told' <= MaxEvents
      BY <1>1, <2>1, <2>2, <3>1
    <3>3. /\ outbound' \in Seq(Payload) /\ Increasing(outbound')
          /\ \A i \in DOMAIN outbound' : outbound'[i] <= said'
      BY <2>1, <2>2, <3>1, <3>2, OneMoreSaid
    <3> QED
      BY <2>1, <2>2, <3>1, <3>2, <3>3 DEF QueuesInv, Increasing
  <2>3. CASE told' = told + 1
    <3>1. events' = Append(events, told + 1) /\ UNCHANGED <<said, outbound>>
      BY <1>1, <2>1, <2>3
    <3>2. told + 1 <= MaxEvents /\ said' + told' <= MaxEvents
      BY <1>1, <2>1, <2>3, <3>1
    <3>3. /\ events' \in Seq(Payload) /\ Increasing(events')
          /\ \A i \in DOMAIN events' : events'[i] <= told'
      BY <2>1, <2>3, <3>1, <3>2, OneMoreSaid
    <3> QED
      BY <2>1, <2>3, <3>1, <3>2, <3>3 DEF QueuesInv, Increasing
  <2> QED
    BY <1>1, <2>2, <2>3
<1> QED
  BY <1>2, <1>3, <1>4, <1>5 DEF TypeInv

(* The client sends. *)
LEMMA DrainTypeInv ==
  ASSUME OneDatagramEach, TypeInv, NEW passed \in BOOLEAN, DrainScriptEventOutbound(passed)
  PROVE  TypeInv'
<1> DEFINE t == QueueAll(sender, outbound)
           s == Clocked(t, passed)
           sent == To(connection, Emitted(s))
<1>1. /\ outbound' = <<>> /\ sender' = Collected(s) /\ ackDue' = FALSE
      /\ gaveUp' = gaveUp \cup {e.body : e \in Exhausted(s)}
      /\ \E lost \in {{}} \cup {{d} : d \in sent} :
           Loses(lost) /\ up' = up \cup (sent \ lost)
      /\ upAcks' = IF ackDue THEN upAcks \cup To(connection, {BuildAck(receiver)}) ELSE upAcks
      /\ UNCHANGED <<connection, phase, receiver, server, events, down, downAcks, said,
                     told, forgets, handled, heard>>
      /\ phase = "playing"
  BY DEF DrainScriptEventOutbound
<1>2. SenderOK(t)
  <2>1. SenderOK(sender) /\ outbound \in Seq(Payload) /\ Increasing(outbound)
    BY DEF TypeInv, ClientInv, QueuesInv
  <2> QED
    BY <2>1, QueueAllQueues DEF QueuedOK
<1> HIDE DEF t
<1>3. SenderOK(s)
  BY <1>2, ClockedKeeps
<1> HIDE DEF s
<1>4. SenderOK(Collected(s)) /\ Emitted(s) \subseteq Whole /\ Exhausted(s) \subseteq Entry
  BY <1>3, CollectedKeeps, EmittedIsWhole DEF SenderOK, Sender, Exhausted
<1>5. connection \in 1 .. connection /\ sent \subseteq (1 .. connection) \X Whole
  <2>1. connection \in Nat /\ connection # 0
    BY <1>1, BoundsAreNat DEF TypeInv, ClientInv
  <2>2. connection \in 1 .. connection
    BY <2>1
  <2> QED
    BY <1>4, <2>2 DEF To
<1> HIDE DEF sent
<1>6. ClientInv'
  BY <1>1, <1>4 DEF TypeInv, ClientInv, ReceiverOK, SenderOK
<1>7. ServerInv'
  BY <1>1 DEF TypeInv, ServerInv, ChannelOK, SenderOK, ReceiverOK, server
<1>8. NetworkInv'
  <2>1. up' \subseteq (1 .. connection) \X Whole
    BY <1>1, <1>5 DEF TypeInv, NetworkInv
  <2>2. BuildAck(receiver) \in AckMsg
    BY BuildAckIsAck DEF TypeInv, ClientInv
  <2>3. To(connection, {BuildAck(receiver)}) \subseteq (1 .. connection) \X AckMsg
    BY <1>5, <2>2 DEF To
  <2>4. upAcks' \subseteq (1 .. connection) \X AckMsg
    BY <1>1, <2>3 DEF TypeInv, NetworkInv
  <2> QED
    BY <1>1, <2>1, <2>4 DEF TypeInv, NetworkInv
<1>9. QueuesInv'
  BY <1>1 DEF TypeInv, QueuesInv, Increasing
<1>10. HistoryInv'
  <2>1. gaveUp' \subseteq Payload
    BY <1>1, <1>4 DEF TypeInv, HistoryInv, Entry
  <2>2. losses' \in 0 .. MaxLosses
    <3>1. PICK lost \in {{}} \cup {{d} : d \in sent} : Loses(lost)
      BY <1>1
    <3>2. Cardinality(lost) \in Nat
      BY <3>1, FS_EmptySet, FS_Singleton, FS_CardinalityType
    <3> QED
      BY <3>1, <3>2, BoundsAreNat DEF Loses, TypeInv, HistoryInv
  <2> QED
    BY <1>1, <2>1, <2>2 DEF TypeInv, HistoryInv, server
<1> QED
  BY <1>6, <1>7, <1>8, <1>9, <1>10 DEF TypeInv

(* The client receives. *)
LEMMA ClientReceivesTypeInv ==
  ASSUME OneDatagramEach, TypeInv, NEW c, NEW d,
         ClientReceivesStream(c, d) \/ ClientReceivesAck(c, d)
  PROVE  TypeInv'
<1>1. /\ UNCHANGED <<connection, phase, outbound, server, events, up, upAcks, bounds, handled, gaveUp>>
      /\ down' \subseteq down /\ downAcks' \subseteq downAcks
  BY DEF ClientReceivesStream, ClientReceivesAck, history
<1>2. SenderOK(sender') /\ ReceiverOK(receiver') /\ ackDue' \in BOOLEAN /\ heard' \in Seq(Payload)
  <2>0. SenderOK(sender) /\ ReceiverOK(receiver) /\ ackDue \in BOOLEAN /\ heard \in Seq(Payload)
    BY DEF TypeInv, ClientInv, HistoryInv
  <2>1. CASE ClientReceivesStream(c, d)
    <3> DEFINE r == Stored(receiver, d)
    <3>1. PICK n \in 0 .. ReorderWindow :
            Releases(r, n) /\ receiver' = Released(r, n) /\ heard' = heard \o Bodies(r, n)
      BY <2>1 DEF ClientReceivesStream
    <3>2. d \in Whole
      BY <2>1 DEF ClientReceivesStream, TypeInv, NetworkInv
    <3>3. n \in Nat
      BY WindowAssumption
    <3>4. ReceiverOK(r)
      BY <2>0, <3>2, StoredKeeps
    <3> HIDE DEF r
    <3>5. ReceiverOK(Released(r, n))
      BY <3>3, <3>4, ReleasedKeeps
    <3>6. Bodies(r, n) \in Seq(Payload)
      BY <3>1, <3>3, <3>4, ReleasedBodies
    <3>7. heard \o Bodies(r, n) \in Seq(Payload)
      BY <2>0, <3>6
    <3> QED
      BY <2>0, <2>1, <3>1, <3>5, <3>7 DEF ClientReceivesStream
  <2>2. CASE ClientReceivesAck(c, d)
    BY <2>0, <2>2, AcknowledgedKeeps DEF ClientReceivesAck, history
  <2> QED
    BY <2>1, <2>2
<1>3. ClientInv'
  BY <1>1, <1>2 DEF TypeInv, ClientInv
<1>4. ServerInv'
  BY <1>1 DEF TypeInv, ServerInv, ChannelOK, SenderOK, ReceiverOK, server, bounds
<1>5. NetworkInv'
  BY <1>1 DEF TypeInv, NetworkInv
<1>6. QueuesInv'
  BY <1>1 DEF TypeInv, QueuesInv, Increasing, bounds
<1>7. HistoryInv'
  BY <1>1, <1>2 DEF TypeInv, HistoryInv, bounds, server
<1> QED
  BY <1>3, <1>4, <1>5, <1>6, <1>7 DEF TypeInv

(* Registrations. *)
LEMMA RegisterTypeInv ==
  ASSUME TypeInv, NEW c \in Connections, ReceiveRegister(c)
  PROVE  TypeInv'
<1>1. /\ c = connection /\ c \notin DOMAIN roles /\ issued' = issued + 1
      /\ roles' = [d \in DOMAIN roles \cup {c} |-> IF d = c THEN issued' ELSE roles[d]]
      /\ addresses' = addresses \cup {c}
      /\ UNCHANGED <<client, outbound, channels, events, network, bounds, history>>
  BY DEF ReceiveRegister
<1>2. /\ c \in 1 .. connection /\ connection # 0 /\ connection \in Nat
      /\ issued \in Nat /\ forgets \in Nat
  BY <1>1, BoundsAreNat DEF Connections, TypeInv, ServerInv, HistoryInv, ClientInv
<1>3. ClientInv'
  BY <1>1 DEF TypeInv, ClientInv, client, SenderOK, ReceiverOK
<1>4. ServerInv'
  <2>1. /\ DOMAIN roles' = DOMAIN roles \cup {c} /\ roles'[c] = issued + 1
        /\ \A d \in DOMAIN roles : d # c /\ roles'[d] = roles[d] /\ roles[d] \in 1 .. issued
    BY <1>1 DEF TypeInv, ServerInv
  <2>2. \A d \in DOMAIN roles' : roles'[d] \in 1 .. issued'
    BY <1>1, <1>2, <2>1
  <2>3. \A d \in DOMAIN roles : roles'[d] # roles'[c]
    BY <1>2, <2>1
  <2>4. \A d, e \in DOMAIN roles' : roles'[d] = roles'[e] => d = e
    BY <2>1, <2>3 DEF TypeInv, ServerInv
  <2>5. issued' \in Nat /\ issued' <= connection + forgets /\ connection \in DOMAIN roles'
    BY <1>1, <1>2, <2>1 DEF TypeInv, ServerInv
  <2>6. UNCHANGED <<connection, channels, forgets>>
    BY <1>1 DEF client, bounds
  <2> QED
    BY <1>1, <1>2, <2>1, <2>2, <2>4, <2>5, <2>6
    DEF TypeInv, ServerInv, ChannelOK, SenderOK, ReceiverOK
<1>5. NetworkInv' /\ QueuesInv'
  BY <1>1 DEF TypeInv, NetworkInv, QueuesInv, Increasing, client, network, bounds
<1>6. HistoryInv'
  <2>1. 1 .. issued \subseteq 1 .. issued'
    BY <1>1, <1>2
  <2>2. handled \in Seq((1 .. issued') \X Payload)
    BY <2>1 DEF TypeInv, HistoryInv
  <2> QED
    BY <1>1, <2>2 DEF TypeInv, HistoryInv, bounds, history
<1> QED
  BY <1>3, <1>4, <1>5, <1>6 DEF TypeInv

(* The server receives. *)
LEMMA ServerReceivesTypeInv ==
  ASSUME OneDatagramEach, TypeInv, NEW c, NEW d,
         ServerReceivesStream(c, d) \/ ServerReceivesAck(c, d)
  PROVE  TypeInv'
<1>1. /\ UNCHANGED <<client, outbound, roles, issued, events, down, downAcks, bounds, heard, gaveUp>>
      /\ up' \subseteq up /\ upAcks' \subseteq upAcks /\ addresses' = addresses \cup {c}
  BY DEF ServerReceivesStream, ServerReceivesAck, history
<1>2. c \in 1 .. connection /\ (ServerReceivesStream(c, d) => d \in Whole)
  BY DEF ServerReceivesStream, ServerReceivesAck, TypeInv, NetworkInv
<1>3. ServerInv /\ ChannelOK(ChannelOf(c)) /\ handled \in Seq((1 .. issued) \X Payload)
  BY ChannelOfIsSound DEF TypeInv, HistoryInv
<1>4. PICK ch : ChannelOK(ch) /\ channels' = WithChannel(c, ch)
  <2>1. CASE ServerReceivesStream(c, d)
    <3> DEFINE r == Stored(ChannelOf(c).rcv, d)
    <3>1. PICK n \in 0 .. ReorderWindow :
            channels' = WithChannel(c, [ChannelOf(c) EXCEPT !.rcv = Released(r, n), !.ackDue = TRUE])
      BY <2>1 DEF ServerReceivesStream
    <3> DEFINE q == Released(r, n)
               ch == [ChannelOf(c) EXCEPT !.rcv = q, !.ackDue = TRUE]
    <3>2. d \in Whole /\ n \in Nat
      BY <1>2, <2>1, WindowAssumption
    <3>3. ReceiverOK(r)
      BY <1>3, <3>2, StoredKeeps DEF ChannelOK
    <3> HIDE DEF r
    <3>4. ReceiverOK(q)
      BY <3>2, <3>3, ReleasedKeeps
    <3> HIDE DEF q
    <3>5. Whole \subseteq Fragment
      BY DEF Whole, Fragment
    <3>6. q \in Receiver
      BY <3>4, <3>5 DEF ReceiverOK, Receiver
    <3>7. ch \in Channel /\ ch.rcv = q
      BY <1>3, <3>6 DEF ChannelOK, Channel
    <3>8. ch.snd = ChannelOf(c).snd
      BY <1>3 DEF ChannelOK, Channel
    <3> HIDE DEF ch
    <3>9. ChannelOK(ch)
      BY <1>3, <3>4, <3>7, <3>8 DEF ChannelOK
    <3> QED
      BY <3>1, <3>9 DEF ch, q
  <2>2. CASE ServerReceivesAck(c, d)
    <3> DEFINE q == Acknowledged(ChannelOf(c).snd, d)
               ch == [ChannelOf(c) EXCEPT !.snd = q]
    <3>1. channels' = WithChannel(c, ch)
      BY <2>2 DEF ServerReceivesAck
    <3>2. SenderOK(q)
      BY <1>3, AcknowledgedKeeps DEF ChannelOK
    <3> HIDE DEF q
    <3>3. ch \in Channel /\ ch.snd = q /\ ch.rcv = ChannelOf(c).rcv
      BY <1>3, <3>2 DEF ChannelOK, Channel, SenderOK
    <3> HIDE DEF ch
    <3>4. ChannelOK(ch)
      BY <1>3, <3>2, <3>3 DEF ChannelOK
    <3> QED
      BY <3>1, <3>4
  <2> QED
    BY <2>1, <2>2
<1>5. ServerInv'
  <2>1. UNCHANGED <<connection, roles, issued, forgets>>
    BY <1>1 DEF client, bounds
  <2> QED
    BY <1>1, <1>2, <1>3, <1>4, <2>1, WithChannelKeeps
<1>6. handled' \in Seq((1 .. issued) \X Payload)
  <2>1. CASE ServerReceivesStream(c, d)
    <3> DEFINE r == Stored(ChannelOf(c).rcv, d)
    <3>1. PICK n \in 0 .. ReorderWindow :
            Releases(r, n) /\ handled' = handled \o Attributed(c, Bodies(r, n))
      BY <2>1 DEF ServerReceivesStream
    <3>2. d \in Whole /\ n \in Nat
      BY <1>2, <2>1, WindowAssumption
    <3>3. ReceiverOK(r)
      BY <1>3, <3>2, StoredKeeps DEF ChannelOK
    <3> HIDE DEF r
    <3>4. Bodies(r, n) \in Seq(Payload)
      BY <3>1, <3>2, <3>3, ReleasedBodies
    <3>5. Attributed(c, Bodies(r, n)) \in Seq((1 .. issued) \X Payload)
      BY <1>3, <3>4 DEF Attributed, ServerInv
    <3> QED
      BY <1>3, <3>1, <3>5
  <2>2. CASE ServerReceivesAck(c, d)
    BY <1>3, <2>2 DEF ServerReceivesAck, history
  <2> QED
    BY <2>1, <2>2
<1>7. ClientInv'
  BY <1>1 DEF TypeInv, ClientInv, client, SenderOK, ReceiverOK
<1>8. NetworkInv'
  BY <1>1 DEF TypeInv, NetworkInv, client
<1>9. QueuesInv'
  BY <1>1 DEF TypeInv, QueuesInv, Increasing, bounds
<1>10. HistoryInv'
  BY <1>1, <1>6 DEF TypeInv, HistoryInv, bounds
<1> QED
  BY <1>5, <1>7, <1>8, <1>9, <1>10 DEF TypeInv

\* What a tick does to the channel of a connection, with what was queued in t:
\* it is kept, it receives nothing, and it sends what t has.
Ticked(c, t) ==
  /\ ChannelOK(channels'[c]) /\ channels'[c].rcv = ChannelOf(c).rcv
  /\ QueuedOK(ChannelOf(c).snd, events, Len(events), t)
  /\ Pairs(channels'[c].snd.pending) \subseteq Pairs(t.pending)

LEMMA TickChannels ==
  ASSUME OneDatagramEach, TypeInv, NEW gone \in SUBSET DOMAIN roles, NEW passed \in BOOLEAN,
         ServerTick(gone, passed)
  PROVE  /\ DOMAIN channels' \subseteq addresses \ gone
         /\ (DOMAIN channels) \cap (addresses \ gone) \subseteq DOMAIN channels'
         /\ \E t : /\ \A c \in DOMAIN channels' : Ticked(c, t[c])
                  /\ \A x \in down' \ down :
                       /\ phase # "offline" /\ x[1] = connection /\ x \in {connection} \X Whole
                       /\ connection \in DOMAIN channels'
                       /\ <<x[2].id, x[2].body>> \in Pairs(t[connection].pending)
         /\ \A x \in downAcks' \ downAcks :
              /\ phase # "offline" /\ x \in {connection} \X AckMsg
              /\ x[2] = BuildAck(ChannelOf(connection).rcv)
<1> DEFINE players == DOMAIN roles \ gone
           known == addresses \ gone
           addressed == Addressed(players)
           chs == Kept(addressed, known)
           Out(c) == Clocked(chs[c].snd, passed)
           sent == UNION {To(c, Emitted(Out(c))) : c \in DOMAIN chs}
           answered == {c \in DOMAIN chs : chs[c].ackDue}
           t == [c \in DOMAIN chs |-> chs[c].snd]
<1>1. /\ channels' = [c \in DOMAIN chs |->
                        [chs[c] EXCEPT !.snd = Collected(Out(c)), !.ackDue = FALSE]]
      /\ \E lost \in {{}} \cup {{d} : d \in sent} :
           Loses(lost) /\ down' = down \cup Reachable(sent \ lost)
      /\ downAcks' = downAcks \cup Reachable({<<c, BuildAck(chs[c].rcv)>> : c \in answered})
  BY DEF ServerTick
<1>2. ServerInv /\ events \in Seq(Payload) /\ Increasing(events)
  BY DEF TypeInv, QueuesInv
<1>3. ASSUME NEW c \in DOMAIN addressed
      PROVE  /\ ChannelOK(addressed[c]) /\ addressed[c].rcv = ChannelOf(c).rcv
             /\ QueuedOK(ChannelOf(c).snd, events, Len(events), addressed[c].snd)
  <2> DEFINE ch == ChannelOf(c)
             q == QueueAll(ch.snd, events)
             w == [ch EXCEPT !.snd = q]
  <2>1. addressed[c] = w \/ addressed[c] = ch
    BY DEF Addressed
  <2>2. ChannelOK(ch)
    BY <1>2, ChannelOfIsSound
  <2> HIDE DEF ch, addressed
  <2>3. SenderOK(ch.snd)
    BY <2>2 DEF ChannelOK
  <2>4. QueuedOK(ch.snd, events, Len(events), q) /\ SenderOK(q)
    BY <1>2, <2>3, QueueAllQueues DEF QueuedOK
  <2>5. QueuedOK(ch.snd, events, Len(events), ch.snd)
    BY <2>3 DEF QueuedOK, SenderOK, Sender
  <2> HIDE DEF q
  <2>6. w \in Channel /\ w.snd = q /\ w.rcv = ch.rcv
    BY <2>2, <2>4 DEF ChannelOK, Channel, SenderOK
  <2> HIDE DEF w
  <2>7. ChannelOK(w)
    BY <2>2, <2>4, <2>6 DEF ChannelOK
  <2> QED
    BY <2>1, <2>2, <2>4, <2>5, <2>6, <2>7 DEF ch
<1>4. DOMAIN chs = DOMAIN addressed \cap known /\ \A c \in DOMAIN chs : chs[c] = addressed[c]
  BY DEF Kept
<1>5. DOMAIN channels \subseteq DOMAIN addressed
  BY DEF Addressed
<1>6. DOMAIN channels' = DOMAIN chs
  BY <1>1
<1> HIDE DEF addressed, chs
<1>7. ASSUME NEW c \in DOMAIN chs
      PROVE  /\ Ticked(c, t[c])
             /\ Emitted(Out(c)) \subseteq Whole /\ Pairs(Emitted(Out(c))) \subseteq Pairs(t[c].pending)
  <2> DEFINE ch == chs[c]
             o == Out(c)
             w == [ch EXCEPT !.snd = Collected(o), !.ackDue = FALSE]
  <2>1. /\ ChannelOK(ch) /\ ch.rcv = ChannelOf(c).rcv
        /\ QueuedOK(ChannelOf(c).snd, events, Len(events), ch.snd)
    BY <1>3, <1>4
  <2>2. t[c] = ch.snd
    OBVIOUS
  <2>3. SenderOK(ch.snd)
    BY <2>1 DEF ChannelOK
  <2>4. SenderOK(o) /\ Pairs(o.pending) = Pairs(ch.snd.pending)
    BY <2>3, ClockedKeeps
  <2>5. channels'[c] = w
    BY <1>1
  <2> HIDE DEF ch, o, t
  <2>6. SenderOK(Collected(o)) /\ Pairs(Collected(o).pending) \subseteq Pairs(ch.snd.pending)
        /\ Emitted(o) \subseteq Whole /\ Pairs(Emitted(o)) \subseteq Pairs(ch.snd.pending)
    BY <2>4, CollectedKeeps, EmittedIsWhole
  <2>7. w \in Channel /\ w.snd = Collected(o) /\ w.rcv = ch.rcv
    BY <2>1, <2>6 DEF ChannelOK, Channel, SenderOK
  <2> HIDE DEF w
  <2>8. ChannelOK(w)
    BY <2>1, <2>6, <2>7 DEF ChannelOK
  <2>9. Ticked(c, t[c])
    BY <2>1, <2>2, <2>5, <2>6, <2>7, <2>8 DEF Ticked
  <2> QED
    BY <2>2, <2>6, <2>9 DEF o
<1>8. ASSUME NEW x \in down' \ down
      PROVE  /\ phase # "offline" /\ x[1] = connection /\ x \in {connection} \X Whole
             /\ connection \in DOMAIN channels'
             /\ <<x[2].id, x[2].body>> \in Pairs(t[connection].pending)
  <2>1. x \in sent /\ phase # "offline" /\ x[1] = connection
    BY <1>1 DEF Reachable
  <2>2. PICK c \in DOMAIN chs : x \in To(c, Emitted(Out(c)))
    BY <2>1
  <2> HIDE DEF Out, t
  <2>3. PICK f \in Emitted(Out(c)) : x = <<c, f>>
    BY <2>2 DEF To
  <2>4. f \in Whole /\ <<f.id, f.body>> \in Pairs(t[c].pending)
    BY <1>7 DEF Pairs
  <2> QED
    BY <1>6, <2>1, <2>3, <2>4
<1>9. ASSUME NEW x \in downAcks' \ downAcks
      PROVE  /\ phase # "offline" /\ x \in {connection} \X AckMsg
             /\ x[2] = BuildAck(ChannelOf(connection).rcv)
  <2>1. x \in {<<c, BuildAck(chs[c].rcv)>> : c \in answered} /\ phase # "offline" /\ x[1] = connection
    BY <1>1 DEF Reachable
  <2>2. PICK c \in DOMAIN chs : x = <<c, BuildAck(chs[c].rcv)>>
    BY <2>1
  <2>3. chs[c].rcv = ChannelOf(c).rcv /\ ReceiverOK(ChannelOf(c).rcv)
    BY <1>2, <1>3, <1>4, ChannelOfIsSound DEF ChannelOK
  <2>4. BuildAck(ChannelOf(c).rcv) \in AckMsg
    BY <2>3, BuildAckIsAck
  <2> QED
    BY <2>1, <2>2, <2>3, <2>4
<1>10. \A c \in DOMAIN channels' : Ticked(c, t[c])
  BY <1>6, <1>7
<1> HIDE DEF t
<1> QED
  BY <1>4, <1>5, <1>6, <1>8, <1>9, <1>10

(* The server forgets, queues and sends. *)
LEMMA TickTypeInv ==
  ASSUME OneDatagramEach, TypeInv, NEW gone \in SUBSET DOMAIN roles, NEW passed \in BOOLEAN,
         ServerTick(gone, passed)
  PROVE  TypeInv'
<1>1. /\ forgets + Cardinality(gone) <= MaxForgets /\ forgets' = forgets + Cardinality(gone)
      /\ roles' = Restrict(roles, DOMAIN roles \ gone) /\ addresses' = addresses \ gone
      /\ events' = <<>> /\ \E lost : Loses(lost) /\ Cardinality(lost) \in Nat
      /\ UNCHANGED <<client, outbound, issued, up, upAcks, said, told, history>>
  <2>1. Cardinality({}) = 0
    BY FS_EmptySet
  <2>2. \A d : Cardinality({d}) = 1
    BY FS_Singleton
  <2>3. ASSUME NEW sent, NEW lost \in {{}} \cup {{d} : d \in sent}
        PROVE  Cardinality(lost) \in Nat
    <3>1. CASE lost = {}
      BY <2>1, <3>1
    <3>2. ASSUME NEW d, lost = {d}
          PROVE  Cardinality(lost) \in Nat
      BY <2>2, <3>2
    <3> QED
      BY <3>1, <3>2
  <2> QED
    BY <2>3 DEF ServerTick
<1>2. /\ DOMAIN channels' \subseteq addresses \ gone
      /\ \A c \in DOMAIN channels' : ChannelOK(channels'[c])
      /\ \A x \in down' \ down : phase # "offline" /\ x \in {connection} \X Whole
      /\ \A x \in downAcks' \ downAcks : phase # "offline" /\ x \in {connection} \X AckMsg
  BY TickChannels DEF Ticked
<1>3. /\ IsFiniteSet(gone) /\ Cardinality(gone) \in Nat
      /\ connection \in gone => Cardinality(gone) # 0
  <2>1. connection \in Nat
    BY BoundsAreNat DEF TypeInv, ClientInv
  <2>2. gone \subseteq 1 .. connection
    BY DEF TypeInv, ServerInv
  <2>3. IsFiniteSet(1 .. connection)
    BY <2>1, FS_Interval
  <2> QED
    BY <2>2, <2>3, FS_Subset, FS_EmptySet, FS_CardinalityType
<1>4. ClientInv'
  BY <1>1 DEF TypeInv, ClientInv, client, SenderOK, ReceiverOK
<1>5. ServerInv'
  <2>1. /\ DOMAIN roles' = DOMAIN roles \ gone /\ \A c \in DOMAIN roles' : roles'[c] = roles[c]
    BY <1>1 DEF Restrict
  <2>2. connection \in Nat /\ issued \in Nat /\ forgets \in Nat
    BY BoundsAreNat DEF TypeInv, ClientInv, ServerInv, HistoryInv
  <2>3. /\ issued <= connection + forgets
        /\ (connection \notin DOMAIN roles /\ connection # 0) => issued < connection + forgets
    BY DEF TypeInv, ServerInv
  <2>4. issued <= connection + forgets'
    BY <1>1, <1>3, <2>2, <2>3
  <2>5. ASSUME connection \notin DOMAIN roles', connection # 0
        PROVE  issued < connection + forgets'
    <3>1. CASE connection \in gone
      <4>1. Cardinality(gone) # 0
        BY <1>3, <3>1
      <4> QED
        BY <1>1, <1>3, <2>2, <2>3, <4>1
    <3>2. CASE connection \notin gone
      <4>1. issued < connection + forgets
        BY <2>1, <2>3, <2>5, <3>2
      <4> QED
        BY <1>1, <1>3, <2>2, <4>1
    <3> QED
      BY <3>1, <3>2
  <2>6. UNCHANGED <<connection, issued>>
    BY <1>1 DEF client
  <2> QED
    BY <1>1, <1>2, <2>1, <2>4, <2>5, <2>6 DEF TypeInv, ServerInv, ChannelOK, SenderOK, ReceiverOK
<1>6. NetworkInv'
  BY <1>1, <1>2 DEF TypeInv, NetworkInv, client
<1>7. QueuesInv'
  BY <1>1 DEF TypeInv, QueuesInv, Increasing
<1>8. HistoryInv'
  <2>1. losses' \in 0 .. MaxLosses /\ forgets' \in 0 .. MaxForgets
    BY <1>1, <1>3, BoundsAreNat DEF TypeInv, HistoryInv, Loses
  <2> QED
    BY <1>1, <2>1 DEF TypeInv, HistoryInv, history
<1> QED
  BY <1>4, <1>5, <1>6, <1>7, <1>8 DEF TypeInv

(* Every step keeps the types. *)
LEMMA StepTypeInv ==
  ASSUME OneDatagramEach, TypeInv, [Next]_vars
  PROVE  TypeInv'
<1>1. CASE UNCHANGED vars
  BY <1>1 DEF vars, client, server, network, bounds, history, TypeInv, ClientInv, ServerInv,
     NetworkInv, QueuesInv, HistoryInv
<1>2. CASE Join \/ ReceiveRegisterAck \/ Leave
  BY <1>2, ConnectingTypeInv
<1>3. CASE SendScriptEvent \/ QueueClientScriptEvent
  BY <1>3, SayingTypeInv
<1>4. CASE \E passed \in BOOLEAN : DrainScriptEventOutbound(passed)
  BY <1>4, DrainTypeInv
<1>5. CASE \/ \E d \in down : ClientReceivesStream(d[1], d[2])
           \/ \E d \in downAcks : ClientReceivesAck(d[1], d[2])
  BY <1>5, ClientReceivesTypeInv
<1>6. CASE \E c \in Connections : ReceiveRegister(c)
  BY <1>6, RegisterTypeInv
<1>7. CASE \/ \E d \in up : ServerReceivesStream(d[1], d[2])
           \/ \E d \in upAcks : ServerReceivesAck(d[1], d[2])
  BY <1>7, ServerReceivesTypeInv
<1>8. CASE \E gone \in SUBSET DOMAIN roles, passed \in BOOLEAN : ServerTick(gone, passed)
  BY <1>8, TickTypeInv
<1> QED
  BY <1>1, <1>2, <1>3, <1>4, <1>5, <1>6, <1>7, <1>8 DEF Next

LEMMA AlwaysTypeInv == OneDatagramEach => (Spec => []TypeInv)
<1> SUFFICES ASSUME OneDatagramEach PROVE Spec => []TypeInv
  OBVIOUS
<1>1. TypeInv /\ [Next]_vars => TypeInv'
  BY StepTypeInv
<1> QED
  BY InitTypeInv, <1>1, PTL DEF Spec

(* The state both programs keep of their script channel is well formed: no
   more roles are given out than connections the client opened and the server
   forgot, every channel belongs to a connection whose address is known, and
   nothing reaches a socket the client closed. *)
THEOREM ScriptTypeOK == OneDatagramEach => (Spec => []TypeOK)
<1> SUFFICES ASSUME OneDatagramEach PROVE Spec => []TypeOK
  OBVIOUS
<1>1. TypeInv => TypeOK
  <2> SUFFICES ASSUME TypeInv PROVE TypeOK
    OBVIOUS
  <2>1. Whole \subseteq Fragment
    BY DEF Whole, Fragment
  <2>2. SenderOK(sender) /\ ReceiverOK(receiver) /\ connection \in 0 .. MaxJoins
    BY DEF TypeInv, ClientInv
  <2>3. sender \in Sender /\ receiver \in Receiver
    BY <2>1, <2>2 DEF SenderOK, ReceiverOK, Receiver
  <2>4. 1 .. connection \subseteq Connections
    BY <2>2, BoundsAreNat DEF Connections
  <2>5. phase # "offline" => connection \in 1 .. connection
    BY <2>2, BoundsAreNat DEF TypeInv, ClientInv
  <2>6. addresses \subseteq Connections /\ \A c \in DOMAIN channels : channels[c] \in Channel
    BY <2>4 DEF TypeInv, ServerInv, ChannelOK
  <2>7. up \subseteq Connections \X Fragment /\ upAcks \subseteq Connections \X AckMsg
    BY <2>1, <2>4 DEF TypeInv, NetworkInv
  <2>8. down \subseteq Connections \X Fragment /\ downAcks \subseteq Connections \X AckMsg
    BY <2>1, <2>4, <2>5 DEF TypeInv, NetworkInv
  <2>9. issued \in 0 .. MaxJoins + MaxForgets
    BY <2>2, BoundsAreNat DEF TypeInv, ServerInv, HistoryInv
  <2>10. said \in 0 .. MaxEvents /\ told \in 0 .. MaxEvents
    BY BoundsAreNat DEF TypeInv, QueuesInv
  <2> QED
    BY <2>2, <2>3, <2>6, <2>7, <2>8, <2>9, <2>10
    DEF TypeOK, TypeInv, ClientInv, ServerInv, QueuesInv, HistoryInv
<1> QED
  BY AlwaysTypeInv, <1>1, PTL

-----------------------------------------------------------------------------
(* The numbers of the client's events.                                     *)

\* What is still to be acknowledged, under way, or waiting at the server.
Sent ==
  Pairs(sender.pending) \cup Pairs({d[2] : d \in up})
    \cup UNION {Pairs(channels[c].rcv.held) : c \in DOMAIN channels}

\* Numbers are given in the order of the events, each to one.
Numbered(S) ==
  \A x, y \in S : /\ x[1] < y[1] => x[2] < y[2]
                  /\ x[1] = y[1] => x[2] = y[2]

SentInv ==
  /\ Numbered(Sent)
  /\ \A x \in Sent : x[1] <= sender.last /\ x[2] <= said
  /\ \A i \in DOMAIN outbound, x \in Sent : x[2] < outbound[i]

\* What a player can still be handled as saying is later than what was.
HandledInv ==
  /\ \A k \in DOMAIN handled : handled[k][2] <= said
  /\ \A k \in DOMAIN handled, i \in DOMAIN outbound : handled[k][2] < outbound[i]
  /\ \A k \in DOMAIN handled, c \in DOMAIN roles, x \in Sent :
       (handled[k][1] = roles[c] /\ x[1] > ChannelOf(c).rcv.through) => handled[k][2] < x[2]
  /\ \A i, j \in DOMAIN handled :
       (i < j /\ handled[i][1] = handled[j][1]) => handled[i][2] < handled[j][2]

UpInv == SentInv /\ HandledInv

LEMMA SentIsNumbers ==
  ASSUME TypeInv
  PROVE  Sent \subseteq (Nat \ {0}) \X Payload
<1>1. ASSUME NEW S, S \subseteq Entry \/ S \subseteq Whole
      PROVE  Pairs(S) \subseteq (Nat \ {0}) \X Payload
  BY <1>1 DEF Pairs, Entry, Whole
<1>2. sender.pending \subseteq Entry /\ {d[2] : d \in up} \subseteq Whole
  BY DEF TypeInv, ClientInv, SenderOK, Sender, NetworkInv
<1>3. \A c \in DOMAIN channels : channels[c].rcv.held \subseteq Whole
  BY DEF TypeInv, ServerInv, ChannelOK, ReceiverOK
<1> QED
  BY <1>1, <1>2, <1>3 DEF Sent

LEMMA HandledIsEvents ==
  ASSUME TypeInv
  PROVE  \A k \in DOMAIN handled : handled[k][1] \in 1 .. issued /\ handled[k][2] \in Payload
<1>1. handled \in Seq((1 .. issued) \X Payload)
  BY DEF TypeInv, HistoryInv
<1>2. \A k \in DOMAIN handled : handled[k] \in (1 .. issued) \X Payload
  BY <1>1
<1> QED
  BY <1>2

(* A step that numbers no event and hands none over. *)
LEMMA QuietUpInv ==
  ASSUME UpInv, Sent' \subseteq Sent, sender'.last = sender.last,
         UNCHANGED <<said, outbound, handled>>,
         \A c \in DOMAIN roles' :
            /\ c \in DOMAIN roles /\ roles'[c] = roles[c]
            /\ ChannelOf(c)'.rcv.through = ChannelOf(c).rcv.through
  PROVE  UpInv'
<1>1. SentInv'
  BY DEF UpInv, SentInv, Numbered
<1>2. HandledInv'
  BY DEF UpInv, HandledInv
<1> QED
  BY <1>1, <1>2 DEF UpInv

LEMMA InitUpInv == Init => UpInv
<1> SUFFICES ASSUME Init PROVE UpInv
  OBVIOUS
<1>1. Sent = {}
  BY DEF Init, Sent, Pairs, NewSender
<1> QED
  BY <1>1 DEF Init, UpInv, SentInv, HandledInv, Numbered

(* Steps that leave the client's events and what the server handled alone. *)
LEMMA ElsewhereUpInv ==
  ASSUME TypeInv, UpInv,
         \/ UNCHANGED vars \/ Join \/ ReceiveRegisterAck \/ Leave \/ QueueClientScriptEvent
         \/ \E d \in down : ClientReceivesStream(d[1], d[2])
  PROVE  UpInv' /\ Sent' \subseteq Sent
<1>1. UNCHANGED <<sender, outbound, roles, channels, up, said, handled>>
  BY DEF vars, client, server, network, bounds, history, Join, ReceiveRegisterAck, Leave,
     QueueClientScriptEvent, ClientReceivesStream
<1>2. Sent' = Sent /\ \A c : ChannelOf(c)' = ChannelOf(c)
  BY <1>1 DEF Sent, ChannelOf
<1> QED
  BY <1>1, <1>2, QuietUpInv

(* Acknowledgements only take events out of the senders' hands. *)
LEMMA AckedUpInv ==
  ASSUME TypeInv, UpInv, NEW c, NEW a, ClientReceivesAck(c, a) \/ ServerReceivesAck(c, a)
  PROVE  UpInv' /\ Sent' \subseteq Sent /\ \A d : ChannelOf(d)'.rcv = ChannelOf(d).rcv
<1>1. UNCHANGED <<outbound, roles, up, said, handled>>
  BY DEF ClientReceivesAck, ServerReceivesAck, client, server, bounds, history
<1>2. sender'.last = sender.last /\ sender'.pending \subseteq sender.pending
  <2>1. SenderOK(sender)
    BY DEF TypeInv, ClientInv
  <2>2. CASE ClientReceivesAck(c, a)
    BY <2>1, <2>2, AcknowledgedKeeps DEF ClientReceivesAck
  <2>3. CASE ServerReceivesAck(c, a)
    BY <2>3 DEF ServerReceivesAck, client
  <2> QED
    BY <2>2, <2>3
<1>3. /\ \A d \in DOMAIN channels' \ DOMAIN channels : channels'[d].rcv = NewReceiver
      /\ \A d \in DOMAIN channels : d \in DOMAIN channels' /\ channels'[d].rcv = channels[d].rcv
  <2>1. CASE ClientReceivesAck(c, a)
    BY <2>1 DEF ClientReceivesAck, server
  <2>2. CASE ServerReceivesAck(c, a)
    <3> DEFINE ch == [ChannelOf(c) EXCEPT !.snd = Acknowledged(@, a)]
    <3>1. channels' = WithChannel(c, ch)
      BY <2>2 DEF ServerReceivesAck
    <3>2. ChannelOf(c) \in Channel
      BY ChannelOfIsSound DEF TypeInv, ChannelOK
    <3>3. ch.rcv = ChannelOf(c).rcv
      BY <3>2 DEF Channel
    <3> HIDE DEF ch
    <3>4. ch.rcv = (IF c \in DOMAIN channels THEN channels[c].rcv ELSE NewReceiver)
      BY <3>3 DEF ChannelOf, NewChannel
    <3> QED
      BY <3>1, <3>4 DEF WithChannel
  <2> QED
    BY <2>1, <2>2
<1>4. \A d : ChannelOf(d)'.rcv = ChannelOf(d).rcv
  BY <1>3 DEF ChannelOf, NewChannel
<1>5. Sent' \subseteq Sent
  <2>1. Pairs(NewReceiver.held) = {}
    BY DEF NewReceiver, Pairs
  <2>2. Pairs(sender'.pending) \subseteq Pairs(sender.pending)
    BY <1>2 DEF Pairs
  <2> QED
    BY <1>1, <1>3, <2>1, <2>2 DEF Sent
<1> QED
  BY <1>1, <1>2, <1>4, <1>5, QuietUpInv

LEMMA SendUpInv ==
  ASSUME TypeInv, UpInv, SendScriptEvent
  PROVE  UpInv'
<1>1. /\ said' = said + 1 /\ outbound' = Append(outbound, said + 1)
      /\ UNCHANGED <<sender, roles, channels, up, handled>>
  BY DEF SendScriptEvent, client, server, network, history
<1>2. Sent' = Sent /\ \A c : ChannelOf(c)' = ChannelOf(c)
  BY <1>1 DEF Sent, ChannelOf
<1>3. /\ said \in Nat /\ sender.last \in Nat /\ Payload \subseteq Nat /\ outbound \in Seq(Payload)
      /\ Sent \subseteq (Nat \ {0}) \X Payload /\ handled \in Seq((1 .. issued) \X Payload)
  BY SentIsNumbers, BoundsAreNat
  DEF TypeInv, QueuesInv, HistoryInv, ClientInv, SenderOK, Sender
<1>4. \A i \in DOMAIN outbound' :
         outbound'[i] = said + 1 \/ (i \in DOMAIN outbound /\ outbound'[i] = outbound[i])
  BY <1>1, <1>3
<1>5. \A n \in Nat : n <= said => n <= said + 1 /\ n < said + 1
  BY <1>3
<1>6. \A x \in Sent : x[2] <= said + 1 /\ x[2] < said + 1
  <2>1. \A x \in Sent : x[2] \in Payload
    BY <1>3
  <2>2. \A x \in Sent : x[2] \in Nat
    BY <1>3, <2>1
  <2> QED
    BY <1>5, <2>2 DEF UpInv, SentInv
<1>7. \A k \in DOMAIN handled : handled[k][2] <= said + 1 /\ handled[k][2] < said + 1
  <2>1. \A k \in DOMAIN handled : handled[k][2] \in Payload
    BY HandledIsEvents
  <2>2. \A k \in DOMAIN handled : handled[k][2] \in Nat
    BY <1>3, <2>1
  <2> QED
    BY <1>5, <2>2 DEF UpInv, HandledInv
<1>8. SentInv'
  <2>1. \A i \in DOMAIN outbound', x \in Sent : x[2] < outbound'[i]
    BY <1>4, <1>6 DEF UpInv, SentInv
  <2> QED
    BY <1>1, <1>2, <1>6, <2>1 DEF UpInv, SentInv, Numbered
<1>9. HandledInv'
  <2>1. \A k \in DOMAIN handled, i \in DOMAIN outbound' : handled[k][2] < outbound'[i]
    BY <1>4, <1>7 DEF UpInv, HandledInv
  <2> QED
    BY <1>1, <1>2, <1>7, <2>1 DEF UpInv, HandledInv
<1> QED
  BY <1>8, <1>9 DEF UpInv

(* New numbers are greater than any, and so are their events. *)
LEMMA NumberedGrows ==
  ASSUME NEW S, NEW s, SenderOK(s), NEW pending \in Seq(Payload), NEW n \in 0 .. Len(pending), NEW t,
         QueuedOK(s, pending, n, t),
         S \subseteq (Nat \ {0}) \X Payload, Numbered(S),
         \A x \in S : x[1] <= s.last,
         \A i \in DOMAIN pending, x \in S : x[2] < pending[i]
  PROVE  /\ Numbered(S \cup Pairs(t.pending \ s.pending))
         /\ \A x \in S : x[1] <= t.last
         /\ \A x \in Pairs(t.pending \ s.pending) :
              /\ x \in (Nat \ {0}) \X Payload /\ x[1] <= t.last
              /\ \E i \in DOMAIN pending : x[2] = pending[i]
<1> DEFINE N == Pairs(t.pending \ s.pending)
<1>1. s.last \in Nat /\ t.last \in Nat /\ s.last <= t.last /\ SenderOK(t) /\ Payload \subseteq Nat
  BY BoundsAreNat DEF QueuedOK, SenderOK, Sender
<1>2. \A i \in 1 .. n : i \in DOMAIN pending
  OBVIOUS
<1>3. \A e \in t.pending : e.id \in Nat \ {0} /\ e.body \in Payload /\ e.body \in Nat
  BY <1>1 DEF SenderOK, Sender, Entry
<1>4. ASSUME NEW x \in N
      PROVE  /\ x \in (Nat \ {0}) \X Payload /\ x[1] <= t.last /\ x[1] > s.last
             /\ \E i \in DOMAIN pending : x[2] = pending[i]
  <2>1. PICK e \in t.pending \ s.pending : x = <<e.id, e.body>>
    BY DEF Pairs
  <2>2. e.id <= t.last /\ e.id > s.last /\ \E i \in 1 .. n : e.body = pending[i]
    BY <1>1 DEF QueuedOK, SenderOK
  <2> QED
    BY <1>2, <1>3, <2>1, <2>2
<1>5. ASSUME NEW x \in N, NEW y \in N
      PROVE  (x[1] < y[1] => x[2] < y[2]) /\ (x[1] = y[1] => x[2] = y[2])
  <2>1. PICK e \in t.pending \ s.pending : x = <<e.id, e.body>>
    BY DEF Pairs
  <2>2. PICK g \in t.pending \ s.pending : y = <<g.id, g.body>>
    BY DEF Pairs
  <2> QED
    BY <1>1, <2>1, <2>2 DEF QueuedOK, SenderOK
<1> HIDE DEF N
<1>6. ASSUME NEW x \in S, NEW y \in N
      PROVE  x[1] < y[1] /\ x[2] < y[2]
  <2>1. x[1] \in Nat /\ x[1] <= s.last /\ y[1] \in Nat /\ y[1] > s.last
    BY <1>4
  <2>2. x[2] < y[2]
    BY <1>4
  <2> QED
    BY <1>1, <2>1, <2>2
<1>7. ASSUME NEW x \in S \cup N, NEW y \in S \cup N
      PROVE  (x[1] < y[1] => x[2] < y[2]) /\ (x[1] = y[1] => x[2] = y[2])
  <2>1. \A z \in S \cup N : z[1] \in Nat
    BY <1>4
  <2>2. CASE x \in S /\ y \in S
    BY <2>2 DEF Numbered
  <2>3. CASE x \in N /\ y \in N
    BY <1>5, <2>3
  <2>4. CASE x \in S /\ y \in N
    BY <1>6, <2>1, <2>4
  <2>5. CASE x \in N /\ y \in S
    <3>1. y[1] < x[1] /\ x[1] \in Nat /\ y[1] \in Nat
      BY <1>6, <2>1, <2>5
    <3> QED
      BY <3>1
  <2> QED
    BY <2>2, <2>3, <2>4, <2>5
<1>8. \A x \in S : x[1] <= t.last
  <2>1. \A x \in S : x[1] \in Nat /\ x[1] <= s.last
    OBVIOUS
  <2> QED
    BY <1>1, <2>1
<1> QED
  BY <1>4, <1>7, <1>8 DEF Numbered, N

LEMMA DrainUpInv ==
  ASSUME OneDatagramEach, TypeInv, UpInv, NEW passed \in BOOLEAN, DrainScriptEventOutbound(passed)
  PROVE  UpInv'
<1> DEFINE t == QueueAll(sender, outbound)
           s == Clocked(t, passed)
           new == Pairs(t.pending \ sender.pending)
<1>1. /\ outbound' = <<>> /\ sender' = Collected(s)
      /\ up' \subseteq up \cup To(connection, Emitted(s))
      /\ UNCHANGED <<roles, channels, said, handled>>
  BY DEF DrainScriptEventOutbound, server
<1>2. SenderOK(sender) /\ outbound \in Seq(Payload) /\ Increasing(outbound) /\ said \in Nat
      /\ \A i \in DOMAIN outbound : outbound[i] <= said
  BY DEF TypeInv, ClientInv, QueuesInv
<1>3. QueuedOK(sender, outbound, Len(outbound), t) /\ SenderOK(t)
  BY <1>2, QueueAllQueues DEF QueuedOK
<1> HIDE DEF t
<1>4. SenderOK(s) /\ s.last = t.last /\ Pairs(s.pending) = Pairs(t.pending)
  BY <1>3, ClockedKeeps
<1> HIDE DEF s
<1>5. /\ sender'.last = t.last /\ Pairs(sender'.pending) \subseteq Pairs(t.pending)
      /\ Pairs(Emitted(s)) \subseteq Pairs(t.pending)
  BY <1>1, <1>4, CollectedKeeps, EmittedIsWhole
<1>6. Pairs(t.pending) \subseteq Pairs(sender.pending) \cup new
  BY DEF Pairs
<1>7. Pairs({d[2] : d \in up'}) \subseteq Pairs({d[2] : d \in up}) \cup Pairs(Emitted(s))
  BY <1>1 DEF Pairs, To
<1>8. Sent' \subseteq Sent \cup new
  <2>1. UNION {Pairs(channels[c].rcv.held) : c \in DOMAIN channels}'
          = UNION {Pairs(channels[c].rcv.held) : c \in DOMAIN channels}
    BY <1>1
  <2> QED
    BY <1>5, <1>6, <1>7, <2>1 DEF Sent
<1>9. /\ Numbered(Sent \cup new)
      /\ \A x \in Sent : x[1] <= t.last
      /\ \A x \in new : x[1] <= t.last /\ \E i \in DOMAIN outbound : x[2] = outbound[i]
  <2>1. Len(outbound) \in 0 .. Len(outbound)
    BY <1>2
  <2>2. Numbered(Sent) /\ (\A x \in Sent : x[1] <= sender.last)
        /\ \A i \in DOMAIN outbound, x \in Sent : x[2] < outbound[i]
    BY DEF UpInv, SentInv
  <2> QED
    BY <1>2, <1>3, <2>1, <2>2, SentIsNumbers, NumberedGrows
<1> HIDE DEF new
<1>10. SentInv'
  <2>1. \A x \in Sent' : x[1] <= sender'.last /\ x[2] <= said
    BY <1>2, <1>5, <1>8, <1>9 DEF UpInv, SentInv
  <2>2. Numbered(Sent')
    BY <1>8, <1>9 DEF Numbered
  <2> QED
    BY <1>1, <2>1, <2>2 DEF SentInv, Numbered
<1>11. HandledInv'
  <2>1. \A c : ChannelOf(c)' = ChannelOf(c)
    BY <1>1 DEF ChannelOf
  <2>2. ASSUME NEW k \in DOMAIN handled, NEW x \in new
        PROVE  handled[k][2] < x[2]
    BY <1>9, <2>2 DEF UpInv, HandledInv
  <2> QED
    BY <1>1, <1>8, <2>1, <2>2 DEF UpInv, HandledInv
<1> QED
  BY <1>10, <1>11 DEF UpInv

LEMMA RegisterUpInv ==
  ASSUME TypeInv, UpInv, NEW c \in Connections, ReceiveRegister(c)
  PROVE  UpInv' /\ Sent' \subseteq Sent
<1>1. /\ c \notin DOMAIN roles /\ issued' = issued + 1
      /\ roles' = [d \in DOMAIN roles \cup {c} |-> IF d = c THEN issued' ELSE roles[d]]
      /\ UNCHANGED <<sender, outbound, channels, up, said, handled>>
  BY DEF ReceiveRegister, client, network, bounds, history
<1>2. Sent' = Sent /\ \A d : ChannelOf(d)' = ChannelOf(d)
  BY <1>1 DEF Sent, ChannelOf
<1>3. /\ DOMAIN roles' = DOMAIN roles \cup {c} /\ roles'[c] = issued + 1
      /\ \A d \in DOMAIN roles : roles'[d] = roles[d]
  BY <1>1
<1>4. \A k \in DOMAIN handled : handled[k][1] # issued + 1
  BY HandledIsEvents DEF TypeInv, ServerInv
<1>5. SentInv'
  BY <1>1, <1>2 DEF UpInv, SentInv, Numbered
<1>6. HandledInv'
  BY <1>1, <1>2, <1>3, <1>4 DEF UpInv, HandledInv
<1> QED
  BY <1>2, <1>5, <1>6 DEF UpInv

(* A connection that stays a player has the receiver it had. *)
LEMMA TickUpInv ==
  ASSUME OneDatagramEach, TypeInv, UpInv, NEW gone \in SUBSET DOMAIN roles, NEW passed \in BOOLEAN,
         ServerTick(gone, passed)
  PROVE  UpInv' /\ Sent' \subseteq Sent
<1>1. /\ roles' = Restrict(roles, DOMAIN roles \ gone)
      /\ UNCHANGED <<sender, outbound, up, said, handled>>
  BY DEF ServerTick, client, history
<1>2. /\ DOMAIN roles' \subseteq DOMAIN roles \ gone
      /\ \A c \in DOMAIN roles' : roles'[c] = roles[c]
  BY <1>1 DEF Restrict
<1>3. /\ (DOMAIN channels) \cap (addresses \ gone) \subseteq DOMAIN channels'
      /\ \A c \in DOMAIN channels' : channels'[c].rcv = ChannelOf(c).rcv
  BY TickChannels DEF Ticked
<1>4. ASSUME NEW c \in DOMAIN roles'
      PROVE  ChannelOf(c)'.rcv = ChannelOf(c).rcv
  <2>1. c \in addresses \ gone
    BY <1>2 DEF TypeInv, ServerInv
  <2> QED
    BY <1>3, <2>1 DEF ChannelOf
<1>5. Sent' \subseteq Sent
  <2>1. ASSUME NEW c \in DOMAIN channels'
        PROVE  Pairs(channels'[c].rcv.held) \subseteq Sent
    <3>1. CASE c \in DOMAIN channels
      BY <1>3, <3>1 DEF ChannelOf, Sent
    <3>2. CASE c \notin DOMAIN channels
      BY <1>3, <3>2 DEF ChannelOf, NewChannel, NewReceiver, Pairs
    <3> QED
      BY <3>1, <3>2
  <2> QED
    BY <1>1, <2>1 DEF Sent
<1> QED
  BY <1>1, <1>2, <1>4, <1>5, QuietUpInv

LEMMA OneAfterAnother ==
  ASSUME NEW S, NEW q \in Seq(S), NEW r \in Seq(S)
  PROVE  /\ DOMAIN (q \o r) = 1 .. Len(q) + Len(r)
         /\ \A k \in 1 .. Len(q) : (q \o r)[k] = q[k]
         /\ \A k \in Len(q) + 1 .. Len(q) + Len(r) : (q \o r)[k] = r[k - Len(q)]
<1>1. q \o r \in Seq(S) /\ Len(q \o r) = Len(q) + Len(r)
      /\ \A k \in 1 .. Len(q) + Len(r) : (q \o r)[k] = IF k <= Len(q) THEN q[k] ELSE r[k - Len(q)]
  BY ConcatProperties
<1>2. Len(q) \in Nat /\ Len(r) \in Nat
  OBVIOUS
<1> DEFINE z == q \o r
<1>3. DOMAIN z = 1 .. Len(q) + Len(r)
  <2> HIDE DEF z
  <2> QED
    BY <1>1 DEF z
<1> HIDE DEF z
<1>4. \A k \in 1 .. Len(q) : k \in 1 .. Len(q) + Len(r) /\ k <= Len(q)
  BY <1>2
<1>5. \A k \in Len(q) + 1 .. Len(q) + Len(r) : k \in 1 .. Len(q) + Len(r) /\ ~ (k <= Len(q))
  BY <1>2
<1> QED
  BY <1>1, <1>3, <1>4, <1>5 DEF z

(* What is handed to the server's scripts has the next numbers of what is
   still held. *)
HandedOver(c, old, new, n, bodies) ==
  /\ Len(bodies) = n /\ new.through = old.through + n
  /\ handled' = handled \o Attributed(c, bodies)
  /\ \A i \in 1 .. n : <<old.through + i, bodies[i]>> \in Sent
  /\ \A g \in old.held : g.id > old.through + n => g \in new.held

LEMMA ServerReceives ==
  ASSUME OneDatagramEach, TypeInv, NEW c, NEW f, ServerReceivesStream(c, f)
  PROVE  /\ Sent' \subseteq Sent
         /\ \E n \in Nat, bodies \in Seq(Payload) :
              HandedOver(c, ChannelOf(c).rcv, ChannelOf(c)'.rcv, n, bodies)
         /\ \A d : d # c => ChannelOf(d)' = ChannelOf(d)
<1> DEFINE old == ChannelOf(c).rcv
           r == Stored(old, f)
<1>1. /\ <<c, f>> \in up /\ up' \subseteq up
      /\ UNCHANGED <<sender, outbound, roles, said>>
  BY DEF ServerReceivesStream, client, bounds
<1>2. PICK n \in 0 .. ReorderWindow :
        /\ Releases(r, n)
        /\ channels' = WithChannel(c, [ChannelOf(c) EXCEPT !.rcv = Released(r, n), !.ackDue = TRUE])
        /\ handled' = handled \o Attributed(c, Bodies(r, n))
  BY DEF ServerReceivesStream
<1> DEFINE q == Released(r, n)
           bodies == Bodies(r, n)
           ch == [ChannelOf(c) EXCEPT !.rcv = q, !.ackDue = TRUE]
<1>3. f \in Whole /\ n \in Nat /\ ChannelOf(c) \in Channel /\ ReceiverOK(old)
  BY <1>1, WindowAssumption, ChannelOfIsSound DEF TypeInv, NetworkInv, ChannelOK
<1>4. <<f.id, f.body>> \in Sent
  <2>1. f \in {d[2] : d \in up}
    <3>1. <<c, f>>[2] = f
      OBVIOUS
    <3> QED
      BY <1>1, <3>1
  <2> QED
    BY <2>1 DEF Sent, Pairs
<1>5. Pairs(old.held) \subseteq Sent
  BY DEF ChannelOf, Sent, Pairs, NewChannel, NewReceiver
<1>6. channels' = WithChannel(c, ch) /\ ch.rcv = q
  <2>1. channels' = WithChannel(c, ch)
    BY <1>2
  <2> HIDE DEF q
  <2>2. ch.rcv = q
    BY <1>3 DEF Channel
  <2> QED
    BY <2>1, <2>2
<1> HIDE DEF ch, old
<1>7. /\ ReceiverOK(r) /\ r.through = old.through /\ r.through \in Nat
      /\ Pairs(r.held) \subseteq Sent /\ old.held \subseteq r.held
  <2>1. /\ ReceiverOK(r) /\ r.through = old.through
        /\ r.held \subseteq old.held \cup {f} /\ old.held \subseteq r.held
    BY <1>3, StoredKeeps
  <2> QED
    BY <1>4, <1>5, <2>1 DEF Pairs, ReceiverOK
<1> HIDE DEF r
<1>8. /\ q.through = r.through + n /\ Pairs(q.held) \subseteq Pairs(r.held)
      /\ \A g \in r.held : g.id > r.through + n => g \in q.held
  <2>1. q.through = r.through + n /\ q.held = {g \in r.held : g.id > r.through + n}
    BY <1>3, <1>7, ReleasedKeeps
  <2> HIDE DEF q
  <2> QED
    BY <2>1 DEF Pairs
<1> HIDE DEF q
<1>9. /\ bodies \in Seq(Payload) /\ Len(bodies) = n
      /\ \A i \in 1 .. n : <<r.through + i, bodies[i]>> \in Sent
  BY <1>2, <1>3, <1>7, ReleasedBodies
<1> HIDE DEF bodies
<1>10. ChannelOf(c)'.rcv = q /\ \A d : d # c => ChannelOf(d)' = ChannelOf(d)
  BY <1>6 DEF WithChannel, ChannelOf
<1>11. Sent' \subseteq Sent
  <2>1. ASSUME NEW d \in DOMAIN channels'
        PROVE  Pairs(channels'[d].rcv.held) \subseteq Sent
    <3>1. CASE d = c
      BY <1>6, <1>7, <1>8, <3>1 DEF WithChannel
    <3>2. CASE d # c
      BY <1>6, <3>2 DEF WithChannel, Sent
    <3> QED
      BY <3>1, <3>2
  <2>2. Pairs({d[2] : d \in up'}) \subseteq Pairs({d[2] : d \in up})
    BY <1>1 DEF Pairs
  <2> QED
    BY <1>1, <2>1, <2>2 DEF Sent
<1>12. HandedOver(c, old, ChannelOf(c)'.rcv, n, bodies)
  BY <1>2, <1>7, <1>8, <1>9, <1>10 DEF HandedOver, bodies
<1> QED
  BY <1>3, <1>9, <1>10, <1>11, <1>12 DEF old

LEMMA ServerReceivesUpInv ==
  ASSUME OneDatagramEach, TypeInv, UpInv, NEW c, NEW f, ServerReceivesStream(c, f)
  PROVE  UpInv'
<1> DEFINE old == ChannelOf(c).rcv
<1>1. /\ Sent' \subseteq Sent /\ \A d : d # c => ChannelOf(d)' = ChannelOf(d)
      /\ UNCHANGED <<sender, outbound, roles, said>>
  BY ServerReceives DEF ServerReceivesStream, client, bounds
<1>2. PICK n \in Nat, bodies \in Seq(Payload) : HandedOver(c, old, ChannelOf(c)'.rcv, n, bodies)
  BY ServerReceives
<1>3. old.through \in Nat
  BY ChannelOfIsSound DEF TypeInv, ChannelOK, ReceiverOK
<1> HIDE DEF old
<1>4. /\ Len(bodies) = n /\ ChannelOf(c)'.rcv.through = old.through + n
      /\ handled' = handled \o Attributed(c, bodies)
      /\ \A i \in 1 .. n : <<old.through + i, bodies[i]>> \in Sent
  BY <1>2 DEF HandedOver
<1>5. SentInv'
  BY <1>1 DEF UpInv, SentInv, Numbered
<1>6. CASE c \notin DOMAIN roles
  <2>1. handled' = handled
    BY <1>4, <1>6 DEF Attributed, TypeInv, HistoryInv
  <2>2. \A d \in DOMAIN roles : ChannelOf(d)' = ChannelOf(d)
    BY <1>1, <1>6
  <2> QED
    BY <1>1, <2>1, <2>2, QuietUpInv
<1>7. CASE c \in DOMAIN roles
  <2> DEFINE m == Len(handled)
  <2>1. m \in Nat /\ DOMAIN handled = 1 .. m
    BY DEF TypeInv, HistoryInv
  <2>2. /\ DOMAIN handled' = 1 .. m + n
        /\ \A k \in 1 .. m : handled'[k] = handled[k]
        /\ \A k \in m + 1 .. m + n : handled'[k] = <<roles[c], bodies[k - m]>>
    <3> DEFINE new == Attributed(c, bodies)
    <3>1. new = [i \in 1 .. n |-> <<roles[c], bodies[i]>>]
      BY <1>4, <1>7 DEF Attributed
    <3>2. new \in Seq((1 .. issued) \X Payload) /\ Len(new) = n
      BY <1>2, <1>4, <1>7, <3>1 DEF TypeInv, ServerInv
    <3>3. handled' = handled \o new /\ handled \in Seq((1 .. issued) \X Payload)
      BY <1>4 DEF TypeInv, HistoryInv
    <3> HIDE DEF new
    <3>4. /\ DOMAIN handled' = 1 .. m + n
          /\ \A k \in 1 .. m : handled'[k] = handled[k]
          /\ \A k \in m + 1 .. m + n : handled'[k] = new[k - m]
      BY <3>2, <3>3, OneAfterAnother
    <3>5. \A k \in m + 1 .. m + n : k - m \in 1 .. n
      BY <1>2, <2>1
    <3> QED
      BY <3>1, <3>4, <3>5
  <2>3. ASSUME NEW k \in m + 1 .. m + n
        PROVE  /\ handled'[k][1] = roles[c] /\ k - m \in 1 .. n
               /\ <<old.through + (k - m), handled'[k][2]>> \in Sent
    <3>1. k - m \in 1 .. n
      BY <1>2, <2>1
    <3>2. handled'[k] = <<roles[c], bodies[k - m]>>
      BY <2>2
    <3>3. handled'[k][1] = roles[c] /\ handled'[k][2] = bodies[k - m]
      BY <3>2
    <3>4. <<old.through + (k - m), bodies[k - m]>> \in Sent
      BY <1>4, <3>1
    <3> QED
      BY <3>1, <3>3, <3>4
  <2>4. \A k \in DOMAIN handled' : k \in DOMAIN handled \/ k \in m + 1 .. m + n
    BY <1>2, <2>1, <2>2
  <2>5. \A k \in DOMAIN handled' : /\ handled'[k][2] <= said
                                    /\ \A i \in DOMAIN outbound : handled'[k][2] < outbound[i]
    BY <2>1, <2>2, <2>3, <2>4 DEF UpInv, SentInv, HandledInv
  <2>6. ASSUME NEW k \in DOMAIN handled', NEW d \in DOMAIN roles, NEW x \in Sent',
               handled'[k][1] = roles[d], x[1] > ChannelOf(d)'.rcv.through
        PROVE  handled'[k][2] < x[2]
    <3>1. x \in Sent /\ x[1] \in Nat
      BY <1>1, SentIsNumbers
    <3>2. CASE k \in DOMAIN handled
      <4>1. handled'[k] = handled[k]
        BY <2>1, <2>2, <3>2
      <4>2. x[1] > ChannelOf(d).rcv.through
        <5>1. CASE d # c
          BY <1>1, <2>6, <5>1
        <5>2. CASE d = c
          <6>1. x[1] > old.through + n
            BY <1>1, <1>4, <2>6, <5>2
          <6>2. x[1] > old.through
            BY <1>2, <1>3, <3>1, <6>1
          <6> QED
            BY <1>3, <5>2, <6>2 DEF old
        <5> QED
          BY <5>1, <5>2
      <4> QED
        BY <2>6, <3>1, <3>2, <4>1, <4>2 DEF UpInv, HandledInv
    <3>3. CASE k \in m + 1 .. m + n
      <4>1. d = c
        BY <1>7, <2>3, <2>6, <3>3 DEF TypeInv, ServerInv
      <4>2. x[1] > old.through + n
        BY <1>1, <1>4, <2>6, <4>1
      <4>3. old.through + (k - m) < x[1]
        <5>1. k - m \in 1 .. n
          BY <2>3, <3>3
        <5> QED
          BY <1>2, <1>3, <3>1, <4>2, <5>1
      <4> QED
        BY <2>3, <3>1, <3>3, <4>3 DEF UpInv, SentInv, Numbered
    <3> QED
      BY <2>4, <3>2, <3>3
  <2>7. ASSUME NEW i \in DOMAIN handled', NEW j \in DOMAIN handled', i < j,
               handled'[i][1] = handled'[j][1]
        PROVE  handled'[i][2] < handled'[j][2]
    <3>1. CASE j \in DOMAIN handled
      <4>1. i \in DOMAIN handled
        BY <2>1, <2>2, <2>7, <3>1
      <4> QED
        BY <2>1, <2>2, <2>7, <3>1, <4>1 DEF UpInv, HandledInv
    <3>2. CASE j \in m + 1 .. m + n /\ i \in DOMAIN handled
      <4> DEFINE y == <<old.through + (j - m), handled'[j][2]>>
      <4>1. y \in Sent /\ j - m \in 1 .. n /\ handled'[j][1] = roles[c]
        BY <2>3, <3>2
      <4>2. y[1] > ChannelOf(c).rcv.through
        BY <1>2, <1>3, <4>1 DEF old
      <4>3. handled'[i] = handled[i]
        BY <2>1, <2>2, <3>2
      <4>4. handled[i][2] < y[2]
        BY <1>7, <2>7, <3>2, <4>1, <4>2, <4>3 DEF UpInv, HandledInv
      <4> QED
        BY <4>3, <4>4
    <3>3. CASE j \in m + 1 .. m + n /\ i \in m + 1 .. m + n
      <4>1. old.through + (i - m) < old.through + (j - m)
        BY <1>3, <2>1, <2>7, <3>3
      <4> QED
        BY <2>3, <3>3, <4>1 DEF UpInv, SentInv, Numbered
    <3> QED
      BY <2>4, <3>1, <3>2, <3>3
  <2>8. HandledInv'
    BY <1>1, <2>5, <2>6, <2>7 DEF HandledInv
  <2> QED
    BY <1>5, <2>8 DEF UpInv
<1> QED
  BY <1>6, <1>7

LEMMA StepUpInv ==
  ASSUME OneDatagramEach, TypeInv, UpInv, [Next]_vars
  PROVE  UpInv'
<1>1. CASE \/ UNCHANGED vars \/ Join \/ ReceiveRegisterAck \/ Leave \/ QueueClientScriptEvent
           \/ \E d \in down : ClientReceivesStream(d[1], d[2])
  BY <1>1, ElsewhereUpInv
<1>2. CASE SendScriptEvent
  BY <1>2, SendUpInv
<1>3. CASE \E passed \in BOOLEAN : DrainScriptEventOutbound(passed)
  BY <1>3, DrainUpInv
<1>4. CASE \/ \E d \in downAcks : ClientReceivesAck(d[1], d[2])
           \/ \E d \in upAcks : ServerReceivesAck(d[1], d[2])
  BY <1>4, AckedUpInv
<1>5. CASE \E c \in Connections : ReceiveRegister(c)
  BY <1>5, RegisterUpInv
<1>6. CASE \E d \in up : ServerReceivesStream(d[1], d[2])
  BY <1>6, ServerReceivesUpInv
<1>7. CASE \E gone \in SUBSET DOMAIN roles, passed \in BOOLEAN : ServerTick(gone, passed)
  BY <1>7, TickUpInv
<1> QED
  BY <1>1, <1>2, <1>3, <1>4, <1>5, <1>6, <1>7 DEF Next

-----------------------------------------------------------------------------
(* The numbers of the server's events, among what reaches the client.      *)

\* What the client holds, can still receive from the channel of its current
\* connection, and has heard.
Down ==
  Pairs(receiver.held) \cup Pairs({d[2] : d \in down})
    \cup Pairs(ChannelOf(connection).snd.pending) \cup {<<i, heard[i]>> : i \in DOMAIN heard}

\* No event has two numbers, and those still to be numbered are the latest.
DownInv ==
  /\ Len(heard) = receiver.through
  /\ \A x, y \in Down : x[2] = y[2] => x[1] = y[1]
  /\ \A x \in Down : x[2] <= told
  /\ \A i \in DOMAIN events, x \in Down : x[2] < events[i]

LEMMA DownIsEvents ==
  ASSUME TypeInv
  PROVE  \A x \in Down : x[1] \in Nat /\ x[2] \in Payload
<1>1. ASSUME NEW S, S \subseteq Entry \/ S \subseteq Whole
      PROVE  \A x \in Pairs(S) : x[1] \in Nat /\ x[2] \in Payload
  BY <1>1 DEF Pairs, Entry, Whole
<1>2. receiver.held \subseteq Whole /\ {d[2] : d \in down} \subseteq Whole
  BY DEF TypeInv, ClientInv, ReceiverOK, NetworkInv
<1>3. ChannelOf(connection).snd.pending \subseteq Entry
  BY ChannelOfIsSound DEF TypeInv, ChannelOK, SenderOK, Sender
<1>4. \A i \in DOMAIN heard : i \in Nat /\ heard[i] \in Payload
  BY DEF TypeInv, HistoryInv
<1> QED
  BY <1>1, <1>2, <1>3, <1>4 DEF Down

(* A step that numbers no event of the server's. *)
LEMMA QuietDownInv ==
  ASSUME DownInv, Down' \subseteq Down, told' = told, events' = events \/ events' = <<>>,
         Len(heard') = receiver'.through
  PROVE  DownInv'
BY DEF DownInv

LEMMA InitDownInv == Init => DownInv
<1> SUFFICES ASSUME Init PROVE DownInv
  OBVIOUS
<1>1. Down = {}
  BY DEF Init, Down, Pairs, NewReceiver, ChannelOf, NewChannel, NewSender
<1> QED
  BY <1>1 DEF Init, DownInv, NewReceiver

(* A socket just opened has no channel yet, and nothing is under way to it. *)
LEMMA ElsewhereDownInv ==
  ASSUME TypeInv, DownInv,
         \/ UNCHANGED vars \/ Join \/ ReceiveRegisterAck \/ Leave \/ SendScriptEvent
         \/ \E passed \in BOOLEAN : DrainScriptEventOutbound(passed)
         \/ \E d \in downAcks : ClientReceivesAck(d[1], d[2])
         \/ \E c \in Connections : ReceiveRegister(c)
  PROVE  DownInv'
<1>1. /\ UNCHANGED <<receiver, channels, events, told, heard>>
      /\ down' \subseteq down
      /\ connection' = connection \/ connection' = connection + 1
  BY DEF vars, client, server, network, bounds, history, Join, ReceiveRegisterAck, Leave,
     SendScriptEvent, DrainScriptEventOutbound, ClientReceivesAck, ReceiveRegister
<1>2. Pairs(ChannelOf(connection)'.snd.pending) \subseteq Pairs(ChannelOf(connection).snd.pending)
  <2>1. CASE connection' = connection
    BY <1>1, <2>1 DEF ChannelOf
  <2>2. CASE connection' = connection + 1
    <3>1. connection + 1 \notin DOMAIN channels
      BY BoundsAreNat DEF TypeInv, ServerInv, ClientInv
    <3> QED
      BY <1>1, <2>2, <3>1 DEF ChannelOf, NewChannel, NewSender, Pairs
  <2> QED
    BY <1>1, <2>1, <2>2
<1>3. Down' \subseteq Down
  <2>1. Pairs({d[2] : d \in down'}) \subseteq Pairs({d[2] : d \in down})
    BY <1>1 DEF Pairs
  <2> QED
    BY <1>1, <1>2, <2>1 DEF Down
<1> QED
  BY <1>1, <1>3, QuietDownInv DEF DownInv

LEMMA ServerReceivesDownInv ==
  ASSUME TypeInv, DownInv, NEW c, NEW d, ServerReceivesStream(c, d) \/ ServerReceivesAck(c, d)
  PROVE  DownInv'
<1>1. UNCHANGED <<connection, receiver, events, down, told, heard>>
  BY DEF ServerReceivesStream, ServerReceivesAck, client, bounds, history
<1>2. ChannelOf(c) \in Channel /\ SenderOK(ChannelOf(c).snd)
  BY ChannelOfIsSound DEF TypeInv, ChannelOK
<1>3. PICK ch : channels' = WithChannel(c, ch) /\ ch.snd.pending \subseteq ChannelOf(c).snd.pending
  <2>1. CASE ServerReceivesStream(c, d)
    <3>1. PICK q : channels' = WithChannel(c, [ChannelOf(c) EXCEPT !.rcv = q, !.ackDue = TRUE])
      BY <2>1 DEF ServerReceivesStream
    <3>2. [ChannelOf(c) EXCEPT !.rcv = q, !.ackDue = TRUE].snd = ChannelOf(c).snd
      BY <1>2 DEF Channel
    <3> QED
      BY <3>1, <3>2
  <2>2. CASE ServerReceivesAck(c, d)
    <3> DEFINE q == Acknowledged(ChannelOf(c).snd, d)
               ch == [ChannelOf(c) EXCEPT !.snd = q]
    <3>1. channels' = WithChannel(c, ch)
      BY <2>2 DEF ServerReceivesAck
    <3>2. q.pending \subseteq ChannelOf(c).snd.pending
      BY <1>2, AcknowledgedKeeps
    <3> HIDE DEF q
    <3>3. ch.snd = q
      BY <1>2 DEF Channel
    <3> QED
      BY <3>1, <3>2, <3>3
  <2> QED
    BY <2>1, <2>2
<1>4. Pairs(ChannelOf(connection)'.snd.pending) \subseteq Pairs(ChannelOf(connection).snd.pending)
  <2>1. CASE connection = c
    BY <1>1, <1>3, <2>1 DEF ChannelOf, WithChannel, Pairs
  <2>2. CASE connection # c
    BY <1>1, <1>3, <2>2 DEF ChannelOf, WithChannel
  <2> QED
    BY <2>1, <2>2
<1>5. Down' \subseteq Down
  BY <1>1, <1>4 DEF Down
<1> QED
  BY <1>1, <1>5, QuietDownInv DEF DownInv

LEMMA ToldDownInv ==
  ASSUME TypeInv, DownInv, QueueClientScriptEvent
  PROVE  DownInv'
<1>1. /\ told' = told + 1 /\ events' = Append(events, told + 1)
      /\ UNCHANGED <<connection, receiver, channels, down, heard>>
  BY DEF QueueClientScriptEvent, client, server, network, history
<1>2. Down' = Down
  BY <1>1 DEF Down, ChannelOf
<1>3. told \in Nat /\ events \in Seq(Payload)
  BY DEF TypeInv, QueuesInv
<1>4. \A i \in DOMAIN events' :
         events'[i] = told + 1 \/ (i \in DOMAIN events /\ events'[i] = events[i])
  BY <1>1, <1>3
<1>5. \A n \in Nat : n <= told => n <= told + 1 /\ n < told + 1
  BY <1>3
<1>6. \A x \in Down : x[2] <= told + 1 /\ x[2] < told + 1
  <2>1. \A x \in Down : x[2] \in Nat
    BY DownIsEvents, BoundsAreNat
  <2> QED
    BY <1>5, <2>1 DEF DownInv
<1> QED
  BY <1>1, <1>2, <1>4, <1>6 DEF DownInv

(* What the client hears had its number when it arrived. *)
LEMMA ClientReceivesDownInv ==
  ASSUME OneDatagramEach, TypeInv, DownInv, NEW c, NEW f, ClientReceivesStream(c, f)
  PROVE  DownInv'
<1> DEFINE r == Stored(receiver, f)
<1>1. /\ <<c, f>> \in down /\ down' \subseteq down
      /\ UNCHANGED <<connection, channels, events, told>>
  BY DEF ClientReceivesStream, server, bounds
<1>2. PICK n \in 0 .. ReorderWindow :
        Releases(r, n) /\ receiver' = Released(r, n) /\ heard' = heard \o Bodies(r, n)
  BY DEF ClientReceivesStream
<1> DEFINE bodies == Bodies(r, n)
<1>3. f \in Whole /\ n \in Nat /\ ReceiverOK(receiver) /\ heard \in Seq(Payload)
  BY <1>1, WindowAssumption DEF TypeInv, NetworkInv, ClientInv, HistoryInv
<1>4. <<f.id, f.body>> \in Down
  <2>1. f \in {d[2] : d \in down}
    <3>1. <<c, f>>[2] = f
      OBVIOUS
    <3> QED
      BY <1>1, <3>1
  <2> QED
    BY <2>1 DEF Down, Pairs
<1>5. ReceiverOK(r) /\ r.through = receiver.through /\ Pairs(r.held) \subseteq Down
  <2>1. ReceiverOK(r) /\ r.through = receiver.through /\ r.held \subseteq receiver.held \cup {f}
    BY <1>3, StoredKeeps
  <2>2. Pairs(receiver.held) \subseteq Down
    BY DEF Down
  <2> QED
    BY <1>4, <2>1, <2>2 DEF Pairs
<1> HIDE DEF r
<1>6. /\ bodies \in Seq(Payload) /\ Len(bodies) = n
      /\ \A i \in 1 .. n : <<r.through + i, bodies[i]>> \in Down
  BY <1>2, <1>3, <1>5, ReleasedBodies
<1>7. receiver'.through = r.through + n /\ Pairs(receiver'.held) \subseteq Pairs(r.held)
  <2> DEFINE q == Released(r, n)
  <2>1. q.through = r.through + n /\ q.held = {g \in r.held : g.id > r.through + n}
    BY <1>3, <1>5, ReleasedKeeps
  <2> HIDE DEF q
  <2>2. receiver' = q
    BY <1>2 DEF q
  <2> QED
    BY <2>1, <2>2 DEF Pairs
<1>8. heard' = heard \o bodies
  BY <1>2
<1> HIDE DEF bodies
<1>9. Len(heard) = r.through /\ r.through \in Nat
  BY <1>3, <1>5 DEF DownInv
<1>10. Len(heard') = receiver'.through
  <2>1. Len(heard \o bodies) = Len(heard) + Len(bodies)
    BY <1>3, <1>6, ConcatProperties
  <2> QED
    BY <1>6, <1>7, <1>8, <1>9, <2>1
<1>11. ASSUME NEW i \in DOMAIN heard'
       PROVE  <<i, heard'[i]>> \in Down
  <2>1. /\ DOMAIN heard' = 1 .. Len(heard) + Len(bodies)
        /\ \A k \in 1 .. Len(heard) : heard'[k] = heard[k]
        /\ \A k \in Len(heard) + 1 .. Len(heard) + Len(bodies) : heard'[k] = bodies[k - Len(heard)]
    BY <1>3, <1>6, <1>8, OneAfterAnother
  <2>2. CASE i \in 1 .. Len(heard)
    BY <1>3, <2>1, <2>2 DEF Down
  <2>3. CASE i \in r.through + 1 .. r.through + n
    <3>1. i - r.through \in 1 .. n /\ r.through + (i - r.through) = i
      BY <1>3, <1>9, <2>3
    <3> QED
      BY <1>6, <1>9, <2>1, <2>3, <3>1
  <2> QED
    BY <1>3, <1>6, <1>9, <2>1, <2>2, <2>3
<1>12. Down' \subseteq Down
  <2>1. Pairs({d[2] : d \in down'}) \subseteq Pairs({d[2] : d \in down})
    BY <1>1 DEF Pairs
  <2>2. ChannelOf(connection)' = ChannelOf(connection)
    BY <1>1 DEF ChannelOf
  <2>3. Pairs(receiver'.held) \subseteq Down
    BY <1>5, <1>7
  <2> QED
    BY <1>11, <2>1, <2>2, <2>3 DEF Down
<1> QED
  BY <1>1, <1>10, <1>12, QuietDownInv

LEMMA TickDownInv ==
  ASSUME OneDatagramEach, TypeInv, DownInv, NEW gone \in SUBSET DOMAIN roles, NEW passed \in BOOLEAN,
         ServerTick(gone, passed)
  PROVE  DownInv'
<1>1. events' = <<>> /\ UNCHANGED <<connection, receiver, told, heard>>
  BY DEF ServerTick, client, history
<1>2. PICK t : /\ \A c \in DOMAIN channels' : Ticked(c, t[c])
               /\ \A x \in down' \ down :
                    /\ connection \in DOMAIN channels'
                    /\ <<x[2].id, x[2].body>> \in Pairs(t[connection].pending)
  BY TickChannels
<1>3. CASE connection \notin DOMAIN channels'
  <2>1. ChannelOf(connection)'.snd.pending = {}
    BY <1>1, <1>3 DEF ChannelOf, NewChannel, NewSender
  <2>2. down' \subseteq down
    BY <1>2, <1>3
  <2>3. Pairs({d[2] : d \in down'}) \subseteq Pairs({d[2] : d \in down}) /\ Pairs({}) = {}
    BY <2>2 DEF Pairs
  <2>4. Down' \subseteq Down
    BY <1>1, <2>1, <2>3 DEF Down
  <2> QED
    BY <1>1, <2>4, QuietDownInv DEF DownInv
<1>4. CASE connection \in DOMAIN channels'
  <2> DEFINE s == ChannelOf(connection).snd
             u == t[connection]
             new == Pairs(u.pending \ s.pending)
  <2>1. /\ QueuedOK(s, events, Len(events), u)
        /\ Pairs(channels'[connection].snd.pending) \subseteq Pairs(u.pending)
    BY <1>2, <1>4 DEF Ticked
  <2>2. Pairs(u.pending) \subseteq Pairs(s.pending) \cup new
    BY DEF Pairs
  <2>3. Pairs({d[2] : d \in down'}) \subseteq Pairs({d[2] : d \in down}) \cup Pairs(u.pending)
    BY <1>2 DEF Pairs
  <2>4. Down' \subseteq Down \cup new
    <3>1. ChannelOf(connection)' = channels'[connection]
      BY <1>1, <1>4 DEF ChannelOf
    <3> HIDE DEF new
    <3> QED
      BY <1>1, <2>1, <2>2, <2>3, <3>1 DEF Down
  <2>5. events \in Seq(Payload) /\ told \in Nat /\ \A i \in DOMAIN events : events[i] <= told
    BY DEF TypeInv, QueuesInv
  <2>6. \A i \in 1 .. Len(events) : i \in DOMAIN events
    BY <2>5
  <2>7. ASSUME NEW x \in new
        PROVE  \E i \in DOMAIN events : x[2] = events[i]
    BY <2>1, <2>6 DEF QueuedOK, Pairs
  <2>8. ASSUME NEW x \in new, NEW y \in new, x[2] = y[2]
        PROVE  x[1] = y[1]
    <3>1. PICK e \in u.pending \ s.pending : x = <<e.id, e.body>>
      BY DEF Pairs
    <3>2. PICK g \in u.pending \ s.pending : y = <<g.id, g.body>>
      BY DEF Pairs
    <3>3. e.id \in Nat /\ g.id \in Nat /\ e.body \in Nat /\ g.body \in Nat
      BY <2>1, BoundsAreNat DEF QueuedOK, SenderOK, Sender, Entry
    <3>4. (e.id < g.id => e.body < g.body) /\ (g.id < e.id => g.body < e.body)
      BY <2>1 DEF QueuedOK
    <3> QED
      BY <2>8, <3>1, <3>2, <3>3, <3>4
  <2> HIDE DEF new
  <2>9. ASSUME NEW x \in Down, NEW y \in new
        PROVE  x[2] # y[2]
    <3>1. x[2] \in Nat /\ x[2] < y[2]
      BY <2>7, DownIsEvents, BoundsAreNat DEF DownInv
    <3>2. y[2] \in Nat
      BY <2>5, <2>7, BoundsAreNat
    <3> QED
      BY <3>1, <3>2
  <2>10. \A x, y \in Down' : x[2] = y[2] => x[1] = y[1]
    BY <2>4, <2>8, <2>9 DEF DownInv
  <2>11. \A x \in Down' : x[2] <= told
    BY <2>4, <2>5, <2>7 DEF DownInv
  <2> QED
    BY <1>1, <2>10, <2>11 DEF DownInv
<1> QED
  BY <1>3, <1>4

LEMMA StepDownInv ==
  ASSUME OneDatagramEach, TypeInv, DownInv, [Next]_vars
  PROVE  DownInv'
<1>1. CASE \/ UNCHANGED vars \/ Join \/ ReceiveRegisterAck \/ Leave \/ SendScriptEvent
           \/ \E passed \in BOOLEAN : DrainScriptEventOutbound(passed)
           \/ \E d \in downAcks : ClientReceivesAck(d[1], d[2])
           \/ \E c \in Connections : ReceiveRegister(c)
  BY <1>1, ElsewhereDownInv
<1>2. CASE QueueClientScriptEvent
  BY <1>2, ToldDownInv
<1>3. CASE \E d \in down : ClientReceivesStream(d[1], d[2])
  BY <1>3, ClientReceivesDownInv
<1>4. CASE \/ \E d \in up : ServerReceivesStream(d[1], d[2])
           \/ \E d \in upAcks : ServerReceivesAck(d[1], d[2])
  BY <1>4, ServerReceivesDownInv
<1>5. CASE \E gone \in SUBSET DOMAIN roles, passed \in BOOLEAN : ServerTick(gone, passed)
  BY <1>5, TickDownInv
<1> QED
  BY <1>1, <1>2, <1>3, <1>4, <1>5 DEF Next

(* Neither side's scripts are told an event twice, and the server's are told
   those of a player in the order he sent them: connections come and go under
   them, the server forgets channels and makes new ones, datagrams are lost,
   repeated and overtake each other. *)
THEOREM ScriptEventsOnceInOrder == OneDatagramEach => (Spec => []EventsOnceInOrder)
<1> SUFFICES ASSUME OneDatagramEach PROVE Spec => []EventsOnceInOrder
  OBVIOUS
<1> DEFINE Inv == TypeInv /\ UpInv /\ DownInv
<1>1. Init => Inv
  BY InitTypeInv, InitUpInv, InitDownInv
<1>2. Inv /\ [Next]_vars => Inv'
  BY StepTypeInv, StepUpInv, StepDownInv
<1>3. Inv => EventsOnceInOrder
  <2> SUFFICES ASSUME UpInv, DownInv PROVE EventsOnceInOrder
    OBVIOUS
  <2>1. ASSUME NEW i \in DOMAIN heard, NEW j \in DOMAIN heard, heard[i] = heard[j]
        PROVE  i = j
    <3> DEFINE x == <<i, heard[i]>>
               y == <<j, heard[j]>>
    <3>1. x \in Down /\ y \in Down /\ x[2] = y[2]
      BY <2>1 DEF Down
    <3>2. x[1] = y[1]
      BY <3>1 DEF DownInv
    <3> QED
      BY <3>2
  <2> QED
    BY <2>1 DEF EventsOnceInOrder, UpInv, HandledInv
<1> HIDE DEF Inv
<1> QED
  BY <1>1, <1>2, <1>3, PTL DEF Spec

-----------------------------------------------------------------------------
(* Where the client's events are.  An event that Queue() refuses has no     *)
(* number, and the numbers of those after it are not the scripts' any more: *)
(* the results of this part are for no more events than the queue holds.    *)

NothingIsRefused == MaxEvents <= MaximumQueuedMessages

\* Numbers are given once, so a queue is no longer than the last of them.
LEMMA PendingIsFewer ==
  ASSUME NEW s, SenderOK(s)
  PROVE  Cardinality(s.pending) \in Nat /\ Cardinality(s.pending) <= s.last
<1> DEFINE f == [e \in s.pending |-> e.id]
<1>1. s.last \in Nat /\ \A e \in s.pending : e.id \in 1 .. s.last
  BY DEF SenderOK, Sender, Entry
<1>2. f \in Injection(s.pending, 1 .. s.last)
  <2>1. f \in [s.pending -> 1 .. s.last]
    BY <1>1
  <2>2. \A e, g \in DOMAIN f : f[e] = f[g] => e = g
    BY DEF SenderOK
  <2> HIDE DEF f
  <2> QED
    BY <2>1, <2>2 DEF Injection, IsInjective
<1>3. IsFiniteSet(1 .. s.last) /\ Cardinality(1 .. s.last) = s.last
  <2>1. 1 \in Int /\ s.last \in Int
    BY <1>1
  <2>2. /\ IsFiniteSet(1 .. s.last)
        /\ Cardinality(1 .. s.last) = IF 1 > s.last THEN 0 ELSE s.last - 1 + 1
    BY <2>1, FS_Interval
  <2> QED
    BY <1>1, <2>2
<1> HIDE DEF f
<1>4. IsFiniteSet(s.pending) /\ Cardinality(s.pending) <= Cardinality(1 .. s.last)
  BY <1>2, <1>3, FS_Injection
<1> QED
  BY <1>3, <1>4, FS_CardinalityType

\* The first i of the events are queued, each with itself for its number.
AllQueued(s, i, t) ==
  /\ t.last = s.last + i
  /\ \A e \in t.pending : e \in s.pending \/ e.id = e.body
  /\ \A n \in s.last + 1 .. s.last + i : \E e \in t.pending : e.id = n

LEMMA QueueAllTakesAll ==
  ASSUME OneDatagramEach, NothingIsRefused, NEW s, SenderOK(s),
         NEW pending \in Seq(Payload), Increasing(pending),
         \A i \in DOMAIN pending : pending[i] = s.last + i, s.last + Len(pending) <= MaxEvents
  PROVE  AllQueued(s, Len(pending), QueueAll(s, pending))
<1> DEFINE n == Len(pending)
<1>1. n \in Nat /\ s.last \in Nat
  BY DEF SenderOK, Sender
<1>2. PICK f : Stages(f, s, pending, n) /\ QueueAll(s, pending) = f[n]
  BY <1>1, QueueAllStages
<1> DEFINE W == {i \in 0 .. n : QueuedOK(s, pending, i, f[i]) /\ AllQueued(s, i, f[i])}
<1>3. 0 \in W
  <2>1. f[0] = s
    BY <1>1, <1>2 DEF Stages
  <2>2. QueuedOK(s, pending, 0, s)
    BY <1>1 DEF QueuedOK
  <2>3. AllQueued(s, 0, s)
    BY <1>1 DEF AllQueued
  <2> QED
    BY <1>1, <2>1, <2>2, <2>3
<1>4. ASSUME NEW i \in 1 .. n, i - 1 \in W
      PROVE  i \in W
  <2> DEFINE t == f[i - 1]
             m == pending[i]
             u == f[i]
  <2>1. QueuedOK(s, pending, i - 1, t) /\ AllQueued(s, i - 1, t)
    BY <1>4
  <2>2. u = OneQueued(t, m)
    BY <1>1, <1>2 DEF Stages
  <2>3. m \in Payload /\ m = s.last + i /\ s.last + i <= MaxEvents /\ MaxEvents \in Nat
    BY <1>1, BoundsAreNat
  <2> HIDE DEF t, m, u
  <2>4. QueuedOK(s, pending, i, u)
    BY <2>1, <2>2, OneMoreQueued DEF m
  <2>5. t.last = s.last + i - 1 /\ SenderOK(t)
    BY <1>1, <2>1 DEF AllQueued, QueuedOK
  <2>6. ~Refuses(t, m)
    <3>1. ~(Frags[m] > MaximumFragments)
      BY <2>3, LimitsAssumption DEF OneDatagramEach
    <3>2. Cardinality(t.pending) < MaximumQueuedMessages
      <4>1. Cardinality(t.pending) \in Nat /\ Cardinality(t.pending) <= t.last
        BY <2>5, PendingIsFewer
      <4> QED
        BY <1>1, <2>3, <2>5, <4>1, LimitsAssumption DEF NothingIsRefused
    <3>3. ~(Cardinality(t.pending) >= MaximumQueuedMessages)
      <4>1. Cardinality(t.pending) \in Nat /\ MaximumQueuedMessages \in Nat
        BY <2>5, PendingIsFewer, LimitsAssumption
      <4> QED
        BY <3>2, <4>1
    <3> QED
      BY <3>1, <3>3 DEF Refuses
  <2>7. u.last = m /\ u.pending = t.pending \cup {NewEntry(m, m)}
    <3>1. u = Queued(t, m)
      BY <2>2, <2>6 DEF OneQueued
    <3>2. t.last + 1 = m
      BY <1>1, <2>3, <2>5
    <3> QED
      BY <3>1, <3>2 DEF Queued
  <2>8. NewEntry(m, m).id = m /\ NewEntry(m, m).body = m
    BY DEF NewEntry
  <2>9. ASSUME NEW k \in s.last + 1 .. s.last + i
        PROVE  \E e \in u.pending : e.id = k
    <3>1. k = m \/ k \in s.last + 1 .. s.last + (i - 1)
      BY <1>1, <2>3
    <3> QED
      BY <2>1, <2>7, <2>8, <3>1 DEF AllQueued
  <2>10. AllQueued(s, i, u)
    BY <2>1, <2>3, <2>7, <2>8, <2>9 DEF AllQueued
  <2> QED
    BY <1>1, <2>4, <2>10 DEF u
<1> HIDE DEF W
<1>5. \A i \in 0 .. n : i \in W
  BY <1>1, <1>3, <1>4, UpToN
<1>6. n \in W
  BY <1>1, <1>5
<1> QED
  BY <1>2, <1>6 DEF W

\* Events are numbered by what they are.
NumberInv ==
  /\ sender.last + Len(outbound) = said
  /\ \A i \in DOMAIN outbound : outbound[i] = sender.last + i
  /\ \A x \in Sent : x[1] = x[2]

\* The client's first connection, never forgotten.
First == connection <= 1 /\ forgets = 0

Waits(n) == \E f \in ChannelOf(1).rcv.held : f.id = n

\* Then who is acknowledged is a player, and what is acknowledged was handled
\* or waits.
FirstInv ==
  /\ (phase = "playing" \/ up # {}) => 1 \in DOMAIN roles
  /\ \A i \in 1 .. ChannelOf(1).rcv.through : i \in HandledEvents
  /\ \A a \in downAcks, i \in Nat \ {0} :
       Covers(a[2], i) => i <= ChannelOf(1).rcv.through \/ Waits(i)
  /\ \A n \in 1 .. sender.last :
       \/ \E e \in sender.pending : e.id = n
       \/ n \in HandledEvents \cup gaveUp
       \/ Waits(n)

HandInv == NumberInv /\ (First => FirstInv)

LEMMA InitHandInv == Init => HandInv
<1> SUFFICES ASSUME Init PROVE HandInv
  OBVIOUS
<1>1. Sent = {}
  BY DEF Init, Sent, Pairs, NewSender
<1>2. sender.last = 0 /\ ChannelOf(1).rcv.through = 0 /\ downAcks = {} /\ up = {} /\ phase = "offline"
  BY DEF Init, NewSender, ChannelOf, NewChannel, NewReceiver
<1>3. NumberInv
  BY <1>1, <1>2 DEF Init, NumberInv
<1>4. FirstInv
  BY <1>2 DEF FirstInv
<1> QED
  BY <1>3, <1>4 DEF HandInv

(* Steps that leave both ends of the client's events alone. *)
LEMMA ElsewhereHandInv ==
  ASSUME TypeInv, UpInv, HandInv,
         \/ UNCHANGED vars \/ Join \/ ReceiveRegisterAck \/ Leave \/ QueueClientScriptEvent
         \/ \E d \in down : ClientReceivesStream(d[1], d[2])
         \/ \E c \in Connections : ReceiveRegister(c)
  PROVE  HandInv'
<1>1. /\ UNCHANGED <<sender, outbound, channels, up, said, handled, gaveUp, forgets>>
      /\ downAcks' \subseteq downAcks
      /\ connection' = connection \/ connection' = connection + 1
  BY DEF vars, client, server, network, bounds, history, Join, ReceiveRegisterAck, Leave,
     QueueClientScriptEvent, ClientReceivesStream, ReceiveRegister
<1>2. Sent' \subseteq Sent
  BY ElsewhereUpInv, RegisterUpInv
<1>3. NumberInv'
  BY <1>1, <1>2 DEF HandInv, NumberInv
<1>4. ASSUME First'
      PROVE  FirstInv'
  <2>1. First /\ FirstInv
    BY <1>1, <1>4, BoundsAreNat DEF First, HandInv, TypeInv, ClientInv
  <2>2. ChannelOf(1)' = ChannelOf(1) /\ HandledEvents' = HandledEvents
    BY <1>1 DEF ChannelOf, HandledEvents
  <2>3. 1 \in DOMAIN roles => 1 \in DOMAIN roles'
    BY DEF vars, client, server, network, bounds, history, Join, ReceiveRegisterAck, Leave,
       QueueClientScriptEvent, ClientReceivesStream, ReceiveRegister
  <2>4. phase' = "playing" => phase = "playing" \/ 1 \in DOMAIN roles
    <3>1. CASE ReceiveRegisterAck
      <4>1. connection = 1
        BY <2>1, <3>1, BoundsAreNat DEF ReceiveRegisterAck, First, TypeInv, ClientInv
      <4> QED
        BY <3>1, <4>1 DEF ReceiveRegisterAck
    <3>2. CASE ~ReceiveRegisterAck
      BY <3>2 DEF vars, client, server, network, bounds, history, Join, Leave,
         QueueClientScriptEvent, ClientReceivesStream, ReceiveRegister
    <3> QED
      BY <3>1, <3>2
  <2> QED
    BY <1>1, <2>1, <2>2, <2>3, <2>4 DEF FirstInv, Waits
<1> QED
  BY <1>3, <1>4 DEF HandInv

LEMMA SendHandInv ==
  ASSUME TypeInv, HandInv, SendScriptEvent
  PROVE  HandInv'
<1>1. /\ said' = said + 1 /\ outbound' = Append(outbound, said + 1)
      /\ UNCHANGED <<sender, channels, up, downAcks, roles, handled, gaveUp, phase, connection, forgets>>
  BY DEF SendScriptEvent, client, server, network, history
<1>2. Sent' = Sent /\ ChannelOf(1)' = ChannelOf(1) /\ HandledEvents' = HandledEvents
  BY <1>1 DEF Sent, ChannelOf, HandledEvents
<1>3. outbound \in Seq(Payload) /\ sender.last \in Nat /\ said = sender.last + Len(outbound)
  BY DEF TypeInv, QueuesInv, ClientInv, SenderOK, Sender, HandInv, NumberInv
<1>4. Len(outbound') = Len(outbound) + 1
  BY <1>1, <1>3
<1>5. \A i \in DOMAIN outbound' : outbound'[i] = sender.last + i
  <2>1. \A i \in DOMAIN outbound' :
          \/ i \in DOMAIN outbound /\ outbound'[i] = outbound[i]
          \/ i = Len(outbound) + 1 /\ outbound'[i] = said + 1
    BY <1>1, <1>3
  <2>2. sender.last + (Len(outbound) + 1) = said + 1
    BY <1>3
  <2> QED
    BY <2>1, <2>2 DEF HandInv, NumberInv
<1>6. sender.last + Len(outbound') = said'
  <2>1. Len(outbound) \in Nat /\ said' = said + 1
    BY <1>1, <1>3
  <2>2. \A a, b, d \in Nat : d = a + b => a + (b + 1) = d + 1
    OBVIOUS
  <2>3. said \in Nat
    BY DEF TypeInv, QueuesInv
  <2> QED
    BY <1>3, <1>4, <2>1, <2>2, <2>3
<1>7. NumberInv'
  BY <1>1, <1>2, <1>5, <1>6 DEF HandInv, NumberInv
<1>8. (First => FirstInv)'
  BY <1>1, <1>2 DEF HandInv, First, FirstInv, Waits
<1> QED
  BY <1>7, <1>8 DEF HandInv

(* What leaves the queue without being acknowledged was given up. *)
LEMMA DrainHandInv ==
  ASSUME OneDatagramEach, NothingIsRefused, TypeInv, UpInv, HandInv,
         NEW passed \in BOOLEAN, DrainScriptEventOutbound(passed)
  PROVE  HandInv'
<1> DEFINE t == QueueAll(sender, outbound)
           s == Clocked(t, passed)
<1>1. /\ phase = "playing" /\ outbound' = <<>> /\ sender' = Collected(s)
      /\ gaveUp' = gaveUp \cup {e.body : e \in Exhausted(s)}
      /\ up' \subseteq up \cup To(connection, Emitted(s))
      /\ UNCHANGED <<connection, phase, roles, channels, downAcks, said, forgets, handled>>
  BY DEF DrainScriptEventOutbound, server
<1>2. /\ SenderOK(sender) /\ sender.last \in Nat /\ outbound \in Seq(Payload)
      /\ Increasing(outbound) /\ said \in Nat /\ said <= MaxEvents
  BY BoundsAreNat DEF TypeInv, ClientInv, QueuesInv, SenderOK, Sender
<1>3. /\ sender.last + Len(outbound) = said
      /\ \A i \in DOMAIN outbound : outbound[i] = sender.last + i
      /\ \A x \in Sent : x[1] = x[2]
  BY DEF HandInv, NumberInv
<1>4. QueuedOK(sender, outbound, Len(outbound), t) /\ SenderOK(t)
  BY <1>2, QueueAllQueues DEF QueuedOK
<1>5. AllQueued(sender, Len(outbound), t)
  BY <1>2, <1>3, QueueAllTakesAll
<1> HIDE DEF t
<1>6. t.last = said
  BY <1>3, <1>5 DEF AllQueued
<1>7. \A e \in t.pending : e.id = e.body
  <2>1. \A e \in sender.pending : e.id = e.body
    <3>1. \A e \in sender.pending : <<e.id, e.body>> \in Sent
      BY DEF Sent, Pairs
    <3> QED
      BY <1>3, <3>1
  <2> QED
    BY <1>5, <2>1 DEF AllQueued
<1>8. SenderOK(s) /\ s.last = t.last /\ Pairs(s.pending) = Pairs(t.pending)
  BY <1>4, ClockedKeeps
<1> HIDE DEF s
<1>9. /\ sender'.last = said /\ Pairs(sender'.pending) \subseteq Pairs(t.pending)
      /\ Pairs(s.pending) \subseteq Pairs(sender'.pending) \cup Pairs(Exhausted(s))
      /\ Pairs(Emitted(s)) \subseteq Pairs(t.pending)
  BY <1>1, <1>6, <1>8, CollectedKeeps, EmittedIsWhole
<1>10. \A x \in Pairs(t.pending) : x[1] = x[2]
  BY <1>7 DEF Pairs
<1>11. NumberInv'
  <2>1. Pairs({d[2] : d \in up'}) \subseteq Pairs({d[2] : d \in up}) \cup Pairs(Emitted(s))
    BY <1>1 DEF Pairs, To
  <2>2. UNION {Pairs(channels[c].rcv.held) : c \in DOMAIN channels}'
          = UNION {Pairs(channels[c].rcv.held) : c \in DOMAIN channels}
    BY <1>1
  <2>3. Sent' \subseteq Sent \cup Pairs(t.pending)
    BY <1>9, <2>1, <2>2 DEF Sent
  <2>4. \A x \in Sent' : x[1] = x[2]
    BY <1>3, <1>10, <2>3
  <2>5. sender'.last + Len(outbound') = said'
    <3>1. Len(outbound') = 0
      BY <1>1
    <3> QED
      BY <1>1, <1>2, <1>9, <3>1
  <2> QED
    BY <1>1, <2>4, <2>5 DEF NumberInv
<1>12. ASSUME First'
       PROVE  FirstInv'
  <2>1. FirstInv
    BY <1>1, <1>12 DEF First, HandInv
  <2>2. ChannelOf(1)' = ChannelOf(1) /\ HandledEvents' = HandledEvents
    BY <1>1 DEF ChannelOf, HandledEvents
  <2>3. ASSUME NEW n \in 1 .. said
        PROVE  \/ \E e \in sender'.pending : e.id = n
               \/ n \in HandledEvents \cup gaveUp'
               \/ Waits(n)
    <3>1. CASE n \in 1 .. sender.last /\ ~ \E e \in sender.pending : e.id = n
      BY <1>1, <2>1, <3>1 DEF FirstInv
    <3>2. CASE n \notin 1 .. sender.last \/ \E e \in sender.pending : e.id = n
      <4>1. \E e \in t.pending : e.id = n
        <5>1. CASE n \notin 1 .. sender.last
          <6>1. n \in sender.last + 1 .. sender.last + Len(outbound)
            BY <1>2, <1>3, <5>1
          <6> QED
            BY <1>5, <6>1 DEF AllQueued
        <5>2. CASE \E e \in sender.pending : e.id = n
          BY <1>4, <5>2 DEF QueuedOK
        <5> QED
          BY <3>2, <5>1, <5>2
      <4>2. <<n, n>> \in Pairs(s.pending)
        BY <1>7, <1>8, <4>1 DEF Pairs
      <4>3. CASE <<n, n>> \in Pairs(sender'.pending)
        BY <4>3 DEF Pairs
      <4>4. CASE <<n, n>> \in Pairs(Exhausted(s))
        <5>1. \E e \in Exhausted(s) : e.body = n
          BY <4>4 DEF Pairs
        <5> QED
          BY <1>1, <5>1
      <4> QED
        BY <1>9, <4>2, <4>3, <4>4
    <3> QED
      BY <3>1, <3>2
  <2>4. 1 \in DOMAIN roles'
    BY <1>1, <2>1 DEF FirstInv
  <2>5. Waits(1)' = Waits(1) /\ \A n : Waits(n)' = Waits(n)
    BY <2>2 DEF Waits
  <2> QED
    BY <1>1, <1>9, <2>1, <2>2, <2>3, <2>4, <2>5 DEF FirstInv
<1> QED
  BY <1>11, <1>12 DEF HandInv

(* The sender forgets what an acknowledgement covers, and no more. *)
LEMMA AckedHandInv ==
  ASSUME TypeInv, UpInv, HandInv, NEW c, NEW a, ClientReceivesAck(c, a) \/ ServerReceivesAck(c, a)
  PROVE  HandInv'
<1>1. /\ UNCHANGED <<connection, phase, outbound, roles, up, said, forgets, handled, gaveUp>>
      /\ downAcks' \subseteq downAcks
  BY DEF ClientReceivesAck, ServerReceivesAck, client, server, bounds, history
<1>2. SenderOK(sender)
  BY DEF TypeInv, ClientInv
<1>3. /\ sender'.last = sender.last
      /\ \A e \in sender.pending :
           e \in sender'.pending \/ (ClientReceivesAck(c, a) /\ Covers(a, e.id))
  <2>1. CASE ClientReceivesAck(c, a)
    BY <1>2, <2>1, AcknowledgedKeeps DEF ClientReceivesAck
  <2>2. CASE ServerReceivesAck(c, a)
    BY <2>2 DEF ServerReceivesAck, client
  <2> QED
    BY <2>1, <2>2
<1>4. /\ Sent' \subseteq Sent /\ ChannelOf(1)'.rcv = ChannelOf(1).rcv
      /\ HandledEvents' = HandledEvents
  BY <1>1, AckedUpInv DEF HandledEvents
<1>5. NumberInv'
  BY <1>1, <1>3, <1>4 DEF HandInv, NumberInv
<1>6. ASSUME First'
      PROVE  FirstInv'
  <2>1. FirstInv
    BY <1>1, <1>6 DEF First, HandInv
  <2>2. \A n : Waits(n)' = Waits(n)
    BY <1>4 DEF Waits
  <2>3. ASSUME NEW n \in 1 .. sender.last
        PROVE  \/ \E e \in sender'.pending : e.id = n
               \/ n \in HandledEvents \cup gaveUp
               \/ Waits(n)
    <3>1. CASE ClientReceivesAck(c, a) /\ Covers(a, n)
      <4>1. <<c, a>> \in downAcks /\ <<c, a>>[2] = a /\ n \in Nat \ {0}
        BY <3>1 DEF ClientReceivesAck
      <4>2. n <= ChannelOf(1).rcv.through \/ Waits(n)
        BY <2>1, <3>1, <4>1 DEF FirstInv
      <4>3. ChannelOf(1).rcv.through \in Nat
        BY ChannelOfIsSound DEF TypeInv, ChannelOK, ReceiverOK
      <4>4. n \in 1 .. ChannelOf(1).rcv.through \/ Waits(n)
        BY <4>1, <4>2, <4>3
      <4> QED
        BY <2>1, <4>4 DEF FirstInv
    <3>2. CASE ~(ClientReceivesAck(c, a) /\ Covers(a, n))
      BY <1>3, <2>1, <3>2 DEF FirstInv
    <3> QED
      BY <3>1, <3>2
  <2> QED
    BY <1>1, <1>3, <1>4, <2>1, <2>2, <2>3 DEF FirstInv
<1> QED
  BY <1>5, <1>6 DEF HandInv

(* What the server's receiver releases, the scripts handle: who sends is a
   player. *)
LEMMA ServerReceivesHandInv ==
  ASSUME OneDatagramEach, TypeInv, UpInv, HandInv, NEW c, NEW f, ServerReceivesStream(c, f)
  PROVE  HandInv'
<1> DEFINE old == ChannelOf(c).rcv
<1>1. /\ Sent' \subseteq Sent /\ <<c, f>> \in up
      /\ up' \subseteq up
      /\ UNCHANGED <<connection, phase, sender, outbound, roles, said, forgets, downAcks, gaveUp>>
  BY ServerReceives DEF ServerReceivesStream, client, bounds
<1>2. PICK n \in Nat, bodies \in Seq(Payload) : HandedOver(c, old, ChannelOf(c)'.rcv, n, bodies)
  BY ServerReceives
<1>3. NumberInv'
  BY <1>1 DEF HandInv, NumberInv
<1>4. ASSUME First'
      PROVE  FirstInv'
  <2>1. First /\ FirstInv
    BY <1>1, <1>4 DEF First, HandInv
  <2>2. c = 1 /\ 1 \in DOMAIN roles
    <3>1. c \in 1 .. connection
      BY <1>1 DEF TypeInv, NetworkInv
    <3> QED
      BY <1>1, <2>1, <3>1 DEF First, FirstInv, TypeInv, ClientInv
  <2>3. old.through \in Nat
    BY ChannelOfIsSound DEF TypeInv, ChannelOK, ReceiverOK
  <2>4. /\ Len(bodies) = n /\ ChannelOf(1)'.rcv.through = old.through + n
        /\ handled' = handled \o Attributed(1, bodies)
        /\ \A i \in 1 .. n : <<old.through + i, bodies[i]>> \in Sent
        /\ \A g \in old.held : g.id > old.through + n => g \in ChannelOf(1)'.rcv.held
    BY <1>2, <2>2 DEF HandedOver
  <2>5. \A i \in 1 .. n : bodies[i] = old.through + i
    BY <2>4 DEF HandInv, NumberInv
  <2>6. /\ HandledEvents \subseteq HandledEvents'
        /\ \A i \in 1 .. n : old.through + i \in HandledEvents'
    <3> DEFINE new == Attributed(1, bodies)
               m == Len(handled)
    <3>1. new = [i \in 1 .. n |-> <<roles[1], bodies[i]>>]
      BY <2>2, <2>4 DEF Attributed
    <3>2. new \in Seq((1 .. issued) \X Payload) /\ Len(new) = n
      BY <2>2, <2>4, <3>1 DEF TypeInv, ServerInv
    <3>3. handled \in Seq((1 .. issued) \X Payload) /\ m \in Nat /\ DOMAIN handled = 1 .. m
      BY DEF TypeInv, HistoryInv
    <3>4. \A i \in 1 .. n : new[i][2] = old.through + i
      BY <2>5, <3>1
    <3>5. handled' = handled \o new
      BY <2>4
    <3> HIDE DEF new
    <3>6. /\ DOMAIN handled' = 1 .. m + n
          /\ \A k \in 1 .. m : handled'[k] = handled[k]
          /\ \A k \in m + 1 .. m + n : handled'[k] = new[k - m]
      BY <3>5, <3>2, <3>3, OneAfterAnother
    <3>7. ASSUME NEW i \in 1 .. n
          PROVE  old.through + i \in HandledEvents'
      <4>1. m + i \in m + 1 .. m + n /\ (m + i) - m = i /\ m + i \in 1 .. m + n
        BY <3>3
      <4>2. handled'[m + i][2] = old.through + i
        BY <3>4, <3>6, <4>1
      <4> QED
        BY <3>6, <4>1, <4>2 DEF HandledEvents
    <3>8. 1 .. m \subseteq 1 .. m + n
      BY <3>3
    <3>9. HandledEvents \subseteq HandledEvents'
      BY <3>3, <3>6, <3>8 DEF HandledEvents
    <3> QED
      BY <3>7, <3>9
  <2>7. ASSUME NEW i \in 1 .. old.through + n
        PROVE  i \in HandledEvents'
    <3>1. CASE i \in 1 .. old.through
      BY <2>1, <2>2, <2>6, <3>1 DEF FirstInv
    <3>2. CASE i \notin 1 .. old.through
      <4>1. i - old.through \in 1 .. n /\ old.through + (i - old.through) = i
        BY <2>3, <3>2
      <4> QED
        BY <2>6, <4>1
    <3> QED
      BY <3>1, <3>2
  <2>8. ASSUME NEW i \in Nat \ {0}, Waits(i)
        PROVE  i \in 1 .. old.through + n \/ Waits(i)'
    <3>1. PICK g \in old.held : g.id = i
      BY <2>2, <2>8 DEF Waits
    <3>2. CASE i > old.through + n
      BY <2>4, <3>1, <3>2 DEF Waits
    <3>3. CASE ~(i > old.through + n)
      BY <2>3, <3>3
    <3> QED
      BY <3>2, <3>3
  <2>9. \A i \in Nat : i <= old.through => i <= old.through + n
    BY <2>3
  <2>10. \A i \in 1 .. old.through + n : i <= old.through + n
    BY <2>3
  <2>11. \A a \in downAcks, i \in Nat \ {0} :
           Covers(a[2], i) => i <= ChannelOf(1)'.rcv.through \/ Waits(i)'
    BY <2>1, <2>2, <2>4, <2>8, <2>9, <2>10 DEF FirstInv
  <2>12. ASSUME NEW i \in 1 .. sender.last
         PROVE  \/ \E e \in sender.pending : e.id = i
                \/ i \in HandledEvents' \cup gaveUp
                \/ Waits(i)'
    <3>1. i \in Nat \ {0}
      OBVIOUS
    <3> QED
      BY <2>1, <2>6, <2>7, <2>8, <3>1 DEF FirstInv
  <2> QED
    BY <1>1, <2>1, <2>2, <2>4, <2>7, <2>11, <2>12 DEF FirstInv
<1> QED
  BY <1>3, <1>4 DEF HandInv

(* What the server acknowledges it handled or holds. *)
LEMMA TickHandInv ==
  ASSUME OneDatagramEach, TypeInv, UpInv, HandInv,
         NEW gone \in SUBSET DOMAIN roles, NEW passed \in BOOLEAN, ServerTick(gone, passed)
  PROVE  HandInv'
<1>1. /\ roles' = Restrict(roles, DOMAIN roles \ gone) /\ forgets' = forgets + Cardinality(gone)
      /\ UNCHANGED <<connection, phase, sender, outbound, up, said, handled, gaveUp>>
  BY DEF ServerTick, client, history
<1>2. Sent' \subseteq Sent
  BY TickUpInv
<1>3. NumberInv'
  BY <1>1, <1>2 DEF HandInv, NumberInv
<1>4. ASSUME First'
      PROVE  FirstInv'
  <2>1. IsFiniteSet(gone) /\ Cardinality(gone) \in Nat
    <3>1. connection \in Nat
      BY BoundsAreNat DEF TypeInv, ClientInv
    <3>2. gone \subseteq 1 .. connection
      BY DEF TypeInv, ServerInv
    <3>3. IsFiniteSet(1 .. connection)
      BY <3>1, FS_Interval
    <3> QED
      BY <3>2, <3>3, FS_Subset, FS_CardinalityType
  <2>2. forgets = 0 /\ Cardinality(gone) = 0
    BY <1>1, <1>4, <2>1, BoundsAreNat DEF First, TypeInv, HistoryInv
  <2>3. gone = {}
    BY <2>1, <2>2, FS_EmptySet
  <2>4. First /\ FirstInv
    BY <1>1, <1>4, <2>2 DEF First, HandInv
  <2>5. DOMAIN roles' = DOMAIN roles
    BY <1>1, <2>3 DEF Restrict
  <2>6. /\ DOMAIN channels \subseteq DOMAIN channels'
        /\ \A c \in DOMAIN channels' : channels'[c].rcv = ChannelOf(c).rcv
        /\ \A x \in downAcks' \ downAcks :
             phase # "offline" /\ x[2] = BuildAck(ChannelOf(connection).rcv)
    <3>1. (DOMAIN channels) \cap (addresses \ gone) \subseteq DOMAIN channels'
      BY TickChannels
    <3> QED
      BY <2>3, <3>1, TickChannels DEF Ticked, TypeInv, ServerInv
  <2>7. ChannelOf(1)'.rcv = ChannelOf(1).rcv
    BY <2>6 DEF ChannelOf
  <2>8. HandledEvents' = HandledEvents /\ \A n : Waits(n)' = Waits(n)
    BY <1>1, <2>7 DEF HandledEvents, Waits
  <2>9. ASSUME NEW x \in downAcks' \ downAcks, NEW i \in Nat \ {0}, Covers(x[2], i)
        PROVE  i <= ChannelOf(1).rcv.through \/ Waits(i)
    <3> DEFINE r == ChannelOf(1).rcv
    <3>1. connection = 1
      BY <2>4, <2>6, BoundsAreNat DEF First, TypeInv, ClientInv
    <3>2. x[2] = BuildAck(r)
      BY <2>6, <3>1
    <3>3. ReceiverOK(r)
      BY ChannelOfIsSound DEF TypeInv, ChannelOK
    <3> HIDE DEF r
    <3>4. BuildAck(r).contiguous = r.through
          /\ \A d \in BuildAck(r).ahead : Complete(r, r.through + d)
      BY DEF BuildAck
    <3>5. i <= r.through \/ (i > r.through /\ Complete(r, r.through + (i - r.through)))
      BY <2>9, <3>2, <3>4 DEF Covers
    <3>6. i > r.through => r.through + (i - r.through) = i
      BY <3>3 DEF ReceiverOK
    <3>7. i <= r.through \/ Complete(r, i)
      BY <3>5, <3>6
    <3>8. Complete(r, i) => \E f \in r.held : f.id = i
      BY <3>3, CompleteIsHeld
    <3> QED
      BY <3>7, <3>8 DEF Waits, r
  <2> QED
    BY <1>1, <2>4, <2>5, <2>7, <2>8, <2>9 DEF FirstInv
<1> QED
  BY <1>3, <1>4 DEF HandInv

LEMMA StepHandInv ==
  ASSUME OneDatagramEach, NothingIsRefused, TypeInv, UpInv, HandInv, [Next]_vars
  PROVE  HandInv'
<1>1. CASE \/ UNCHANGED vars \/ Join \/ ReceiveRegisterAck \/ Leave \/ QueueClientScriptEvent
           \/ \E d \in down : ClientReceivesStream(d[1], d[2])
           \/ \E c \in Connections : ReceiveRegister(c)
  BY <1>1, ElsewhereHandInv
<1>2. CASE SendScriptEvent
  BY <1>2, SendHandInv
<1>3. CASE \E passed \in BOOLEAN : DrainScriptEventOutbound(passed)
  BY <1>3, DrainHandInv
<1>4. CASE \/ \E d \in downAcks : ClientReceivesAck(d[1], d[2])
           \/ \E d \in upAcks : ServerReceivesAck(d[1], d[2])
  BY <1>4, AckedHandInv
<1>5. CASE \E d \in up : ServerReceivesStream(d[1], d[2])
  BY <1>5, ServerReceivesHandInv
<1>6. CASE \E gone \in SUBSET DOMAIN roles, passed \in BOOLEAN : ServerTick(gone, passed)
  BY <1>6, TickHandInv
<1> QED
  BY <1>1, <1>2, <1>3, <1>4, <1>5, <1>6 DEF Next

(* On a first connection that the server never forgot, an event that left the
   client's queue was handled by the server's scripts, waits there for one
   before it, or was given up: no acknowledgement stands for an event that the
   server took from somebody it does not know as a player. *)
THEOREM ScriptRetiredWereHandled ==
  OneDatagramEach /\ NothingIsRefused => (Spec => []RetiredWereHandled)
<1> SUFFICES ASSUME OneDatagramEach, NothingIsRefused PROVE Spec => []RetiredWereHandled
  OBVIOUS
<1> DEFINE Inv == TypeInv /\ UpInv /\ HandInv
<1>1. Init => Inv
  BY InitTypeInv, InitUpInv, InitHandInv
<1>2. Inv /\ [Next]_vars => Inv'
  BY StepTypeInv, StepUpInv, StepHandInv
<1>3. Inv => RetiredWereHandled
  <2> SUFFICES ASSUME Inv, connection = 1, forgets = 0, NEW n \in 1 .. sender.last
               PROVE  \/ \E e \in sender.pending : e.id = n
                      \/ n \in HandledEvents \cup gaveUp
                      \/ Complete(ChannelOf(1).rcv, n)
    BY DEF RetiredWereHandled
  <2>1. FirstInv
    BY DEF First, HandInv
  <2>2. ReceiverOK(ChannelOf(1).rcv)
    BY ChannelOfIsSound DEF TypeInv, ChannelOK
  <2>3. Waits(n) => Complete(ChannelOf(1).rcv, n)
    BY <2>2, CompleteIsHeld DEF Waits
  <2> QED
    BY <2>1, <2>3 DEF FirstInv
<1> HIDE DEF Inv
<1> QED
  BY <1>1, <1>2, <1>3, PTL DEF Spec
=============================================================================
