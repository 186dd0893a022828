------------------------- MODULE ServerLocksProofs -------------------------
(***************************************************************************)
(* The order of the server's mutexes, for every number of workers and      *)
(* whatever scripts call.                                                  *)
(*                                                                         *)
(* A thread may be put more to do at any time, by a script or by an event, *)
(* in front of what it has left.  That is sound because each sequence      *)
(* gives back what it takes: the proof labels what a thread has left to do *)
(* with the mutexes it may hold before every step, and composes labelled   *)
(* sequences.                                                              *)
(***************************************************************************)
EXTENDS ServerLocks, SequenceTheorems, TLAPS

Places == {"worker", "loop", "dropped"}
Steps == ({"take", "give"} \X Locks) \cup {Script(p) : p \in Places}
           \cup {<<"raise">>, <<"push">>, <<"drop">>}

\* What only the relay thread may hold while it takes the host's mutex.
Excepted(t) == IF t = Relay THEN {"drops"} ELSE {}

\* What may be held when a mutex is taken.
Below(t, lock) == (IF lock = "host" THEN {} ELSE {"host"}) \cup Excepted(t)

\* Thread t may come to a step holding A at most, and then holds B at most.
StepSafe(t, step, A, B) ==
  /\ step[1] = "take" => A \subseteq Below(t, step[2]) /\ A \cup {step[2]} \subseteq B
  /\ step[1] = "give" => A \ {step[2]} \subseteq B
  /\ step[1] = "script" => A \subseteq {"host"} \cup Excepted(t)
  /\ step[1] = "raise" => A = {}
  /\ step[1] = "drop" => A \subseteq Excepted(t)
  /\ step[1] \notin {"take", "give"} => A \subseteq B

\* The same of a sequence of steps.
Safe(t, steps, A, B) ==
  /\ steps \in Seq(Steps)
  /\ \E h \in [1 .. Len(steps) + 1 -> SUBSET Locks] :
       /\ A \subseteq h[1] /\ h[Len(steps) + 1] \subseteq B
       /\ \A i \in 1 .. Len(steps) : StepSafe(t, steps[i], h[i], h[i + 1])

-----------------------------------------------------------------------------
(* Sequences of steps.                                                     *)

LEMMA NothingIsSafe ==
  ASSUME NEW t, NEW A \in SUBSET Locks, NEW B, A \subseteq B
  PROVE  Safe(t, << >>, A, B)
<1> DEFINE h == [i \in 1 .. 1 |-> A]
<1>1. h \in [1 .. Len(<< >>) + 1 -> SUBSET Locks] /\ h[1] = A /\ Len(<< >>) = 0
  OBVIOUS
<1> HIDE DEF h
<1> QED
  BY <1>1 DEF Safe

LEMMA OneStepIsSafe ==
  ASSUME NEW t, NEW A \in SUBSET Locks, NEW B \in SUBSET Locks,
         NEW step \in Steps, StepSafe(t, step, A, B)
  PROVE  Safe(t, <<step>>, A, B)
<1> DEFINE h == [i \in 1 .. 2 |-> IF i = 1 THEN A ELSE B]
           q == <<step>>
<1>1. q \in Seq(Steps) /\ Len(q) = 1 /\ q[1] = step
  OBVIOUS
<1>2. h \in [1 .. Len(q) + 1 -> SUBSET Locks] /\ h[1] = A /\ h[2] = B
  BY <1>1
<1> HIDE DEF h, q
<1>3. \A i \in 1 .. Len(q) : StepSafe(t, q[i], h[i], h[i + 1])
  BY <1>1, <1>2
<1> QED
  BY <1>1, <1>2, <1>3 DEF Safe, q

LEMMA OneAfterAnother ==
  ASSUME NEW t, NEW A, NEW B, NEW C, NEW p, NEW q, Safe(t, p, A, B), Safe(t, q, B, C)
  PROVE  Safe(t, p \o q, A, C)
<1> DEFINE m == Len(p)
           n == Len(q)
           r == p \o q
<1>1. p \in Seq(Steps) /\ q \in Seq(Steps) /\ m \in Nat /\ n \in Nat
  BY DEF Safe
<1>2. PICK g \in [1 .. m + 1 -> SUBSET Locks] :
        /\ A \subseteq g[1] /\ g[m + 1] \subseteq B
        /\ \A i \in 1 .. m : StepSafe(t, p[i], g[i], g[i + 1])
  BY DEF Safe
<1>3. PICK h \in [1 .. n + 1 -> SUBSET Locks] :
        /\ B \subseteq h[1] /\ h[n + 1] \subseteq C
        /\ \A i \in 1 .. n : StepSafe(t, q[i], h[i], h[i + 1])
  BY DEF Safe
<1>4. r \in Seq(Steps) /\ Len(r) = m + n
      /\ \A i \in 1 .. m + n : r[i] = IF i <= m THEN p[i] ELSE q[i - m]
  BY <1>1, ConcatProperties
<1> DEFINE k == [i \in 1 .. m + n + 1 |-> IF i <= m THEN g[i] ELSE h[i - m]]
<1> HIDE DEF m, n, r
<1>5. \A i \in 1 .. m + n + 1 : i <= m => i \in 1 .. m + 1
  BY <1>1
<1>6. \A i \in 1 .. m + n + 1 : ~(i <= m) => i - m \in 1 .. n + 1
  BY <1>1
<1>7. k \in [1 .. m + n + 1 -> SUBSET Locks]
  BY <1>2, <1>3, <1>5, <1>6
<1>8. A \subseteq k[1]
  <2>1. CASE m = 0
    <3>1. k[1] = h[1]
      BY <1>1, <2>1
    <3>2. m + 1 = 1
      BY <2>1
    <3> QED
      BY <1>2, <1>3, <3>1, <3>2
  <2>2. CASE m # 0
    <3>1. k[1] = g[1]
      BY <1>1, <2>2
    <3> QED
      BY <1>2, <3>1
  <2> QED
    BY <2>1, <2>2
<1>9. k[m + n + 1] \subseteq C
  <2>1. k[m + n + 1] = h[n + 1]
    BY <1>1
  <2> QED
    BY <1>3, <2>1
<1>10. ASSUME NEW i \in 1 .. m + n
       PROVE  StepSafe(t, r[i], k[i], k[i + 1])
  <2>1. CASE i < m
    <3>1. r[i] = p[i] /\ k[i] = g[i] /\ k[i + 1] = g[i + 1] /\ i \in 1 .. m
      BY <1>1, <1>4, <2>1
    <3> QED
      BY <1>2, <3>1
  <2>2. CASE i = m
    <3>1. r[i] = p[i] /\ k[i] = g[i] /\ k[i + 1] = h[1] /\ i \in 1 .. m
      BY <1>1, <1>4, <2>2
    <3>2. StepSafe(t, p[i], g[i], g[i + 1]) /\ g[i + 1] \subseteq h[1]
      BY <1>2, <1>3, <2>2, <3>1
    <3> QED
      BY <3>1, <3>2 DEF StepSafe
  <2>3. CASE i > m
    <3>1. r[i] = q[i - m] /\ k[i] = h[i - m] /\ i - m \in 1 .. n
      BY <1>1, <1>4, <2>3
    <3>2. k[i + 1] = h[(i - m) + 1]
      BY <1>1, <2>3
    <3> QED
      BY <1>3, <3>1, <3>2
  <2> QED
    BY <1>1, <2>1, <2>2, <2>3
<1> HIDE DEF k
<1> QED
  BY <1>4, <1>7, <1>8, <1>9, <1>10 DEF Safe, r

(* A thread that is done holds nothing. *)
LEMMA NothingIsLeft ==
  ASSUME NEW t, NEW A, NEW B, Safe(t, << >>, A, B)
  PROVE  A \subseteq B
BY DEF Safe

(* One step, and then the others. *)
LEMMA FirstStep ==
  ASSUME NEW t, NEW A, NEW B, NEW s, Safe(t, s, A, B), s # << >>
  PROVE  /\ Head(s) \in Steps
         /\ \E C \in SUBSET Locks : StepSafe(t, Head(s), A, C) /\ Safe(t, Tail(s), C, B)
<1> DEFINE n == Len(s)
           r == Tail(s)
<1>1. s \in Seq(Steps) /\ n \in Nat \ {0} /\ Head(s) = s[1] /\ s[1] \in Steps
  BY DEF Safe
<1>2. r \in Seq(Steps) /\ Len(r) = n - 1 /\ \A i \in 1 .. n - 1 : r[i] = s[i + 1]
  BY <1>1
<1>3. PICK h \in [1 .. n + 1 -> SUBSET Locks] :
        /\ A \subseteq h[1] /\ h[n + 1] \subseteq B
        /\ \A i \in 1 .. n : StepSafe(t, s[i], h[i], h[i + 1])
  BY DEF Safe
<1> HIDE DEF n, r
<1> DEFINE k == [i \in 1 .. n |-> h[i + 1]]
<1>4. k \in [1 .. n -> SUBSET Locks] /\ k[1] = h[2] /\ k[n] = h[n + 1]
  BY <1>1, <1>3
<1>5. ASSUME NEW i \in 1 .. n - 1
      PROVE  StepSafe(t, r[i], k[i], k[i + 1])
  <2>1. r[i] = s[i + 1] /\ k[i] = h[i + 1] /\ k[i + 1] = h[(i + 1) + 1] /\ i + 1 \in 1 .. n
    BY <1>1, <1>2
  <2> QED
    BY <1>3, <2>1
<1> HIDE DEF k
<1>6. Safe(t, r, h[2], B)
  <2>1. (n - 1) + 1 = n
    BY <1>1
  <2> QED
    BY <1>2, <1>3, <1>4, <1>5, <2>1 DEF Safe
<1>7. StepSafe(t, s[1], A, h[2]) /\ h[2] \in SUBSET Locks
  <2>1. StepSafe(t, s[1], h[1], h[2]) /\ A \subseteq h[1]
    BY <1>1, <1>3
  <2>2. 2 \in 1 .. n + 1
    BY <1>1
  <2> QED
    BY <1>3, <2>1, <2>2 DEF StepSafe
<1> QED
  BY <1>1, <1>6, <1>7 DEF r

(* A scope takes its mutex in order and gives it back. *)
LEMMA SectionIsSafe ==
  ASSUME NEW t, NEW A \in SUBSET Locks, NEW lock \in Locks, A \subseteq Below(t, lock),
         NEW body, Safe(t, body, A \cup {lock}, A \cup {lock})
  PROVE  Safe(t, Section(lock, body), A, A)
<1> DEFINE take == <<"take", lock>>
           give == <<"give", lock>>
           within == A \cup {lock}
<1>1. take \in Steps /\ give \in Steps
  BY DEF Steps
<1>2. within \in SUBSET Locks
  OBVIOUS
<1>3. StepSafe(t, take, A, within) /\ StepSafe(t, give, within, A)
  BY DEF StepSafe
<1> HIDE DEF take, give, within
<1>4. Safe(t, <<take>>, A, within) /\ Safe(t, <<give>>, within, A)
  BY <1>1, <1>2, <1>3, OneStepIsSafe
<1>5. Safe(t, body, within, within)
  BY DEF within
<1>6. Safe(t, <<take>> \o body, A, within)
  BY <1>4, <1>5, OneAfterAnother
<1>7. Safe(t, (<<take>> \o body) \o <<give>>, A, A)
  BY <1>4, <1>6, OneAfterAnother
<1> QED
  BY <1>7 DEF Section, take, give

-----------------------------------------------------------------------------
(* What the threads do.                                                    *)

LEMMA ScriptIsSafe ==
  ASSUME NEW t, NEW A \in SUBSET Locks, A \subseteq {"host"} \cup Excepted(t), NEW p \in Places
  PROVE  Safe(t, <<Script(p)>>, A, A)
<1>1. Script(p) \in Steps
  BY DEF Steps
<1>2. StepSafe(t, Script(p), A, A)
  BY DEF StepSafe, Script
<1> QED
  BY <1>1, <1>2, OneStepIsSafe

LEMMA EntryIsSafe ==
  ASSUME NEW t, NEW A \in SUBSET Excepted(t), NEW p \in Places
  PROVE  Safe(t, Entry(p), A, A)
<1>1. A \in SUBSET Locks /\ "host" \in Locks
  BY DEF Excepted, Locks
<1>2. A \subseteq Below(t, "host")
  BY DEF Below
<1>3. Safe(t, <<Script(p)>>, A \cup {"host"}, A \cup {"host"})
  BY <1>1, ScriptIsSafe
<1> QED
  BY <1>1, <1>2, <1>3, SectionIsSafe DEF Entry

(* A queue's mutex, with nothing taken under it. *)
LEMMA QueueIsSafe ==
  ASSUME NEW t, NEW A \in SUBSET ({"host"} \cup Excepted(t)), NEW lock \in Locks \ {"host"}
  PROVE  Safe(t, Section(lock, << >>), A, A)
<1>1. A \in SUBSET Locks /\ A \subseteq Below(t, lock)
  BY DEF Excepted, Locks, Below
<1>2. Safe(t, << >>, A \cup {lock}, A \cup {lock})
  BY <1>1, NothingIsSafe
<1> QED
  BY <1>1, <1>2, SectionIsSafe

LEMMA NativeIsSafe ==
  ASSUME NEW t, NEW A \in SUBSET ({"host"} \cup Excepted(t)), NEW native \in Natives
  PROVE  Safe(t, Native(native), A, A)
<1>1. A \in SUBSET Locks
  BY DEF Excepted, Locks
<1>2. CASE native = "DropPlayer"
  <2>1. "drops" \in Locks /\ A \subseteq Below(t, "drops") /\ A \cup {"drops"} \in SUBSET Locks
    BY <1>1 DEF Locks, Below
  <2>2. <<"push">> \in Steps /\ StepSafe(t, <<"push">>, A \cup {"drops"}, A \cup {"drops"})
    BY DEF Steps, StepSafe
  <2>3. Safe(t, << <<"push">> >>, A \cup {"drops"}, A \cup {"drops"})
    BY <2>1, <2>2, OneStepIsSafe
  <2>4. Safe(t, Section("drops", << <<"push">> >>), A, A)
    BY <1>1, <2>1, <2>3, SectionIsSafe
  <2> QED
    BY <1>2, <2>4 DEF Native
<1>3. CASE native = "GetResourceMetrics"
  BY <1>1, <1>3, NothingIsSafe DEF Native, Metrics
<1>4. CASE native \notin {"DropPlayer", "GetResourceMetrics"}
  <2>1. \A lock \in Locks \ {"host"} : Safe(t, Section(lock, << >>), A, A)
    BY QueueIsSafe
  <2>2. \E lock \in Locks \ {"host"} : Native(native) = Section(lock, << >>)
    BY <1>4 DEF Native, Natives, Locks
  <2> QED
    BY <2>1, <2>2
<1> QED
  BY <1>2, <1>3, <1>4

LEMMA RaiseIsSafe ==
  ASSUME NEW t
  PROVE  Safe(t, <<Raise>>, {}, {})
<1>1. Raise \in Steps /\ StepSafe(t, Raise, {}, {})
  BY DEF Raise, Steps, StepSafe
<1> QED
  BY <1>1, OneStepIsSafe

LEMMA IterationIsSafe == Safe(Relay, Iteration, {}, {})
<1>1. \A lock \in Locks \ {"host"} : Safe(Relay, Section(lock, << >>), {}, {})
  BY QueueIsSafe
<1>2. Safe(Relay, <<Raise, Raise>>, {}, {})
  <2>1. <<Raise, Raise>> = <<Raise>> \o <<Raise>>
    OBVIOUS
  <2> QED
    BY <2>1, RaiseIsSafe, OneAfterAnother
<1>3. Safe(Relay, Section("drops", << <<"drop">> >>), {}, {})
  <2>1. <<"drop">> \in Steps /\ StepSafe(Relay, <<"drop">>, {} \cup {"drops"}, {} \cup {"drops"})
    BY DEF Steps, StepSafe, Excepted
  <2>2. "drops" \in Locks /\ {} \cup {"drops"} \in SUBSET Locks
    BY DEF Locks
  <2>3. Safe(Relay, << <<"drop">> >>, {} \cup {"drops"}, {} \cup {"drops"})
    BY <2>1, <2>2, OneStepIsSafe
  <2> QED
    BY <2>2, <2>3, SectionIsSafe
<1>4. Safe(Relay, Entry("loop"), {}, {})
  BY EntryIsSafe DEF Places
<1> DEFINE b == Section("buckets", << >>)
           n == Section("names", << >>)
           d == Section("drops", << <<"drop">> >>)
           p == Section("players", << >>)
           e == Section("events", << >>)
<1>5. /\ Safe(Relay, b, {}, {}) /\ Safe(Relay, n, {}, {}) /\ Safe(Relay, p, {}, {})
      /\ Safe(Relay, e, {}, {}) /\ Safe(Relay, d, {}, {})
  BY <1>1, <1>3 DEF Locks
<1> HIDE DEF b, n, d, p, e
<1>6. Safe(Relay, <<Raise, Raise>> \o b \o n \o d, {}, {})
  BY <1>2, <1>5, OneAfterAnother
<1>7. Safe(Relay, <<Raise, Raise>> \o b \o n \o d \o p \o p, {}, {})
  BY <1>5, <1>6, OneAfterAnother
<1>8. Safe(Relay, <<Raise, Raise>> \o b \o n \o d \o p \o p \o <<Raise>> \o Entry("loop") \o e, {}, {})
  BY <1>4, <1>5, <1>7, RaiseIsSafe, OneAfterAnother
<1> QED
  BY <1>8 DEF Iteration, b, n, d, p, e

LEMMA RequestIsSafe ==
  ASSUME NEW t, NEW request \in Requests
  PROVE  Safe(t, request, {}, {})
<1>1. \A lock \in Locks \ {"host"} : Safe(t, Section(lock, << >>), {}, {})
  BY QueueIsSafe
<1>2. Safe(t, Entry("worker"), {}, {})
  BY EntryIsSafe DEF Places
<1>3. Safe(t, Rename, {}, {})
  <2> DEFINE p == Section("players", << >>)
             n == Section("names", << >>)
             e == Section("events", << >>)
  <2>1. Safe(t, p, {}, {}) /\ Safe(t, n, {}, {}) /\ Safe(t, e, {}, {})
    BY <1>1 DEF Locks
  <2> HIDE DEF p, n, e
  <2>2. Safe(t, p \o n \o e, {}, {})
    BY <2>1, OneAfterAnother
  <2>3. Safe(t, p \o n \o e \o p \o e, {}, {})
    BY <2>1, <2>2, OneAfterAnother
  <2> QED
    BY <2>3 DEF Rename, p, n, e
<1>4. Safe(t, Restart, {}, {})
  <2> DEFINE host == {} \cup {"host"}
             s == <<Script("worker")>>
             c == Section("commands", << >>)
  <2>1. host \in SUBSET Locks /\ "host" \in Locks /\ host \subseteq {"host"} \cup Excepted(t)
    BY DEF Locks
  <2>2. Safe(t, s, host, host)
    BY <2>1, ScriptIsSafe DEF Places
  <2>3. Safe(t, c, host, host)
    BY <2>1, QueueIsSafe DEF Locks
  <2> HIDE DEF s, c
  <2>4. Safe(t, s \o c \o s, host, host)
    BY <2>2, <2>3, OneAfterAnother
  <2>5. Safe(t, Section("host", s \o c \o s), {}, {})
    BY <2>1, <2>4, SectionIsSafe
  <2> QED
    BY <2>5 DEF Restart, s, c
<1>5. Safe(t, Execute, {}, {})
  <2>1. Safe(t, Section("commands", << >>), {}, {})
    BY <1>1 DEF Locks
  <2> QED
    BY <1>2, <2>1, OneAfterAnother DEF Execute
<1> QED
  BY <1>2, <1>3, <1>4, <1>5 DEF Requests

-----------------------------------------------------------------------------
(* The threads together.                                                   *)

HeldBy(t) == {lock \in Locks : holder[lock] = t}

\* What a thread has left to do can be done from what it holds, and leaves it
\* with nothing.
Inv ==
  /\ holder \in [Locks -> Threads \cup {Nobody}]
  /\ DOMAIN todo = Threads
  /\ \A t \in Threads : Safe(t, todo[t], HeldBy(t), {})

LEMMA InitInv == Init => Inv
<1> SUFFICES ASSUME Init PROVE Inv
  OBVIOUS
<1>1. holder \in [Locks -> Threads \cup {Nobody}] /\ DOMAIN todo = Threads
  BY DEF Init
<1>2. ASSUME NEW t \in Threads
      PROVE  Safe(t, todo[t], HeldBy(t), {})
  <2>1. HeldBy(t) = {} /\ todo[t] = << >>
    BY LockBounds DEF Init, HeldBy, Threads
  <2> QED
    BY <2>1, NothingIsSafe
<1> QED
  BY <1>1, <1>2 DEF Inv

(* A thread that goes on, and no other holds more than before. *)
LEMMA GoesOn ==
  ASSUME Inv, NEW t \in Threads, NEW steps, NEW B,
         todo' = [todo EXCEPT ![t] = steps], Safe(t, steps, B, {}), HeldBy(t)' \subseteq B,
         holder' \in [Locks -> Threads \cup {Nobody}],
         \A u \in Threads \ {t} : HeldBy(u)' \subseteq HeldBy(u)
  PROVE  Inv'
<1>1. \A u, s, A, C : Safe(u, s, A, {}) /\ C \subseteq A => Safe(u, s, C, {})
  BY DEF Safe
<1>2. todo'[t] = steps /\ DOMAIN todo' = Threads /\ \A u \in Threads \ {t} : todo'[u] = todo[u]
  BY DEF Inv
<1>3. ASSUME NEW u \in Threads
      PROVE  Safe(u, todo'[u], HeldBy(u)', {})
  <2>1. CASE u = t
    BY <1>1, <1>2, <2>1
  <2>2. CASE u # t
    <3>1. Safe(u, todo[u], HeldBy(u), {}) /\ HeldBy(u)' \subseteq HeldBy(u)
      BY <2>2 DEF Inv
    <3> QED
      BY <1>1, <1>2, <2>2, <3>1
  <2> QED
    BY <2>1, <2>2
<1> QED
  BY <1>2, <1>3 DEF Inv

(* An idle thread starts what is safe from nothing. *)
LEMMA StartKeepsInv ==
  ASSUME Inv, NEW t \in Threads, todo[t] = << >>, NEW steps, Safe(t, steps, {}, {}),
         todo' = [todo EXCEPT ![t] = steps], UNCHANGED holder
  PROVE  Inv'
<1>1. HeldBy(t) = {}
  BY NothingIsLeft DEF Inv
<1>2. \A u : HeldBy(u)' = HeldBy(u)
  BY DEF HeldBy
<1> QED
  BY <1>1, <1>2, GoesOn DEF Inv

(* A step that takes or gives no mutex may put something safe before the rest. *)
LEMMA ContinueKeepsInv ==
  ASSUME Inv, NEW t \in Threads, todo[t] # << >>, Head(todo[t])[1] \notin {"take", "give"},
         NEW steps, Safe(t, steps, HeldBy(t), HeldBy(t)), Continue(t, steps), UNCHANGED holder
  PROVE  Inv'
<1> DEFINE s == todo[t]
           A == HeldBy(t)
<1>1. Safe(t, s, A, {})
  BY DEF Inv
<1>2. PICK C \in SUBSET Locks : StepSafe(t, Head(s), A, C) /\ Safe(t, Tail(s), C, {})
  BY <1>1, FirstStep
<1>3. A \subseteq C
  BY <1>2 DEF StepSafe
<1>4. Safe(t, Tail(s), A, {})
  BY <1>2, <1>3 DEF Safe
<1>5. Safe(t, steps \o Tail(s), A, {})
  BY <1>4, OneAfterAnother
<1>6. \A u : HeldBy(u)' = HeldBy(u)
  BY DEF HeldBy
<1>7. todo' = [todo EXCEPT ![t] = steps \o Tail(s)]
  BY DEF Continue
<1> QED
  BY <1>5, <1>6, <1>7, GoesOn DEF Inv

(* What a step finds held. *)
LEMMA AtStep ==
  ASSUME Inv, NEW t \in Threads, todo[t] # << >>
  PROVE  /\ Head(todo[t]) \in Steps
         /\ HeldBy(t) \in SUBSET Locks
         /\ Faces(t, "take") => HeldBy(t) \subseteq Below(t, Head(todo[t])[2])
         /\ Faces(t, "script") => HeldBy(t) \subseteq {"host"} \cup Excepted(t)
         /\ Faces(t, "raise") => HeldBy(t) = {}
         /\ Faces(t, "drop") => HeldBy(t) \subseteq Excepted(t)
<1>1. Safe(t, todo[t], HeldBy(t), {}) /\ HeldBy(t) \in SUBSET Locks
  BY DEF Inv, HeldBy
<1>2. /\ Head(todo[t]) \in Steps
      /\ \E C \in SUBSET Locks : StepSafe(t, Head(todo[t]), HeldBy(t), C)
  BY <1>1, FirstStep
<1> QED
  BY <1>1, <1>2 DEF Faces, StepSafe

LEMMA TakeGiveInv ==
  ASSUME Inv, NEW t \in Threads, Take(t) \/ Give(t)
  PROVE  Inv'
<1> DEFINE s == todo[t]
           A == HeldBy(t)
           lock == Head(s)[2]
<1>1. s # << >> /\ Head(s)[1] \in {"take", "give"}
  BY DEF Take, Give, Faces
<1>2. Safe(t, s, A, {}) /\ holder \in [Locks -> Threads \cup {Nobody}]
  BY DEF Inv
<1>3. Head(s) \in Steps
  BY <1>1, <1>2, FirstStep
<1>4. lock \in Locks
  BY <1>1, <1>3 DEF Steps, Script
<1>5. PICK C \in SUBSET Locks : StepSafe(t, Head(s), A, C) /\ Safe(t, Tail(s), C, {})
  BY <1>1, <1>2, FirstStep
<1>6. todo' = [todo EXCEPT ![t] = Tail(s)]
  <2>1. << >> \o Tail(s) = Tail(s)
    <3>1. Tail(s) \in Seq(Steps)
      BY <1>5 DEF Safe
    <3> QED
      BY <3>1
  <2> QED
    BY <2>1 DEF Take, Give, Continue
<1>7. CASE Take(t)
  <2>1. holder' = [holder EXCEPT ![lock] = t] /\ Head(s)[1] = "take"
    BY <1>7 DEF Take, Faces
  <2>2. holder' \in [Locks -> Threads \cup {Nobody}]
    BY <1>2, <2>1
  <2>3. A \cup {lock} \subseteq C
    BY <1>5, <2>1 DEF StepSafe
  <2>4. HeldBy(t)' \subseteq C
    BY <1>2, <1>4, <2>1, <2>3 DEF HeldBy
  <2>5. \A u \in Threads \ {t} : HeldBy(u)' \subseteq HeldBy(u)
    BY <1>2, <1>4, <2>1 DEF HeldBy
  <2> QED
    BY <1>5, <1>6, <2>2, <2>4, <2>5, GoesOn
<1>8. CASE Give(t)
  <2>1. holder' = [holder EXCEPT ![lock] = Nobody] /\ Head(s)[1] = "give"
    BY <1>8 DEF Give, Faces
  <2>2. holder' \in [Locks -> Threads \cup {Nobody}]
    BY <1>2, <2>1
  <2>3. A \ {lock} \subseteq C
    BY <1>5, <2>1 DEF StepSafe
  <2>4. Nobody \notin Threads
    BY LockBounds DEF Threads
  <2>5. \A u \in Threads : HeldBy(u)' = HeldBy(u) \ {lock}
    BY <1>2, <1>4, <2>1, <2>4 DEF HeldBy
  <2>6. /\ HeldBy(t)' \subseteq C
        /\ \A u \in Threads \ {t} : HeldBy(u)' \subseteq HeldBy(u)
    BY <2>3, <2>5
  <2> QED
    BY <1>5, <1>6, <2>2, <2>6, GoesOn
<1> QED
  BY <1>7, <1>8

LEMMA NextInv ==
  ASSUME Inv, [Next]_vars
  PROVE  Inv'
<1>1. CASE UNCHANGED vars
  BY <1>1 DEF vars, Inv, HeldBy
<1>2. CASE Iterate
  BY <1>2, IterationIsSafe, StartKeepsInv DEF Iterate, Threads
<1>3. ASSUME NEW w \in Workers, StartRequest(w)
      PROVE  Inv'
  BY <1>3, RequestIsSafe, StartKeepsInv DEF StartRequest, Threads
<1>4. ASSUME NEW t \in Threads, Take(t) \/ Give(t)
      PROVE  Inv'
  BY <1>4, TakeGiveInv
<1>5. ASSUME NEW t \in Threads, RaiseEvent(t)
      PROVE  Inv'
  <2>1. todo[t] # << >> /\ Head(todo[t])[1] = "raise" /\ HeldBy(t) = {}
    BY <1>5, AtStep DEF RaiseEvent, Faces
  <2>2. Safe(t, Entry("loop"), {}, {}) /\ Safe(t, << >>, {}, {})
    BY EntryIsSafe, NothingIsSafe DEF Places
  <2> QED
    BY <1>5, <2>1, <2>2, ContinueKeepsInv DEF RaiseEvent
<1>6. ASSUME NEW t \in Threads, PushDrop(t) \/ DropsDone(t) \/ ReturnFromScript(t)
      PROVE  Inv'
  <2>1. todo[t] # << >> /\ Head(todo[t])[1] \in {"push", "drop", "script"}
    BY <1>6 DEF PushDrop, DropsDone, ReturnFromScript, Faces
  <2>2. Safe(t, << >>, HeldBy(t), HeldBy(t))
    BY <2>1, AtStep, NothingIsSafe
  <2> QED
    BY <1>6, <2>1, <2>2, ContinueKeepsInv DEF PushDrop, DropsDone, ReturnFromScript
<1>7. ASSUME NEW t \in Threads, ApplyDrop(t)
      PROVE  Inv'
  <2> DEFINE A == HeldBy(t)
             rest == << <<"drop">> >>
  <2>1. /\ todo[t] # << >> /\ Head(todo[t])[1] = "drop"
        /\ A \in SUBSET Excepted(t) /\ A \in SUBSET Locks
    BY <1>7, AtStep DEF ApplyDrop, Faces
  <2>2. <<"drop">> \in Steps /\ StepSafe(t, <<"drop">>, A, A)
    BY <2>1 DEF Steps, StepSafe
  <2>3. Safe(t, rest, A, A)
    BY <2>1, <2>2, OneStepIsSafe
  <2>4. Safe(t, Entry("dropped"), A, A)
    BY <2>1, EntryIsSafe DEF Places
  <2> HIDE DEF A
  <2>5. Safe(t, Entry("dropped") \o rest, A, A)
    BY <2>3, <2>4, OneAfterAnother
  <2> QED
    BY <1>7, <2>1, <2>3, <2>5, ContinueKeepsInv DEF ApplyDrop, A
<1>8. ASSUME NEW t \in Threads, NEW native \in Natives, CallNative(t, native)
      PROVE  Inv'
  <2> DEFINE A == HeldBy(t)
             step == Head(todo[t])
  <2>1. /\ todo[t] # << >> /\ step[1] = "script" /\ step \in Steps
        /\ A \in SUBSET ({"host"} \cup Excepted(t)) /\ A \in SUBSET Locks
    BY <1>8, AtStep DEF CallNative, Faces
  <2>2. StepSafe(t, step, A, A)
    BY <2>1 DEF StepSafe
  <2>3. Safe(t, <<step>>, A, A) /\ Safe(t, Native(native), A, A)
    BY <2>1, <2>2, OneStepIsSafe, NativeIsSafe
  <2> HIDE DEF A
  <2>4. Safe(t, Native(native) \o <<step>>, A, A)
    BY <2>3, OneAfterAnother
  <2> QED
    BY <1>8, <2>1, <2>4, ContinueKeepsInv DEF CallNative, A
<1> QED
  BY <1>1, <1>2, <1>3, <1>4, <1>5, <1>6, <1>7, <1>8 DEF Next, Work

(* The host's mutex is never asked for by a thread that holds a queue's, and a
   queue's only by one that holds none but the host's, whatever scripts call
   and from which thread; the drop phase of the relay loop is the exception. *)
THEOREM LocksAreOrdered == Spec => []LocksAreTakenInOrder
<1>1. Inv => LocksAreTakenInOrder
  <2> SUFFICES ASSUME Inv, NEW t \in Threads, NEW lock \in Locks, NEW held \in Locks,
                      Waits(t, lock), holder[held] = t
               PROVE  Rank(held) < Rank(lock) \/ (t = Relay /\ held = "drops")
    BY DEF LocksAreTakenInOrder
  <2>1. HeldBy(t) \subseteq Below(t, lock)
    BY AtStep DEF Waits, Faces
  <2>2. held \in Below(t, lock)
    BY <2>1 DEF HeldBy
  <2>3. (held = "host" /\ lock # "host") \/ (t = Relay /\ held = "drops")
    BY <2>2 DEF Below, Excepted
  <2> QED
    BY <2>3 DEF Rank
<1>2. Inv /\ [Next]_vars => Inv'
  BY NextInv
<1> QED
  BY InitInv, <1>1, <1>2, PTL DEF Spec
=============================================================================
