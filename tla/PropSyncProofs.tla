--------------------------- MODULE PropSyncProofs ---------------------------
(***************************************************************************)
(* The prop client's theorems, for any servers, places, capacity and       *)
(* number of inputs: its variables keep their types, no placement is lost  *)
(* while posts succeed, and the version it waits past is covered by what   *)
(* it knows.                                                               *)
(***************************************************************************)
EXTENDS PropSync, FiniteSetTheorems, SequenceTheorems, TLAPS

StoreOK(st) ==
  /\ st \in [next : Nat, version : Nat, props : SUBSET Prop]
  /\ st.next <= st.version
  /\ IsFiniteSet(st.props) /\ Cardinality(st.props) <= Capacity

Poll ==
  [phase : {"idle", "bound", "asked", "parked", "versioned", "answered"},
   world : Worlds, since : Nat, place : Places \cup {Nowhere},
   version : Versions, ids : SUBSET PropIds]

Post ==
  [phase : {"idle", "bound", "sending", "posted"}, world : Worlds,
   batch : Batch, ok : BOOLEAN]

ServersInv ==
  /\ DOMAIN store = Servers /\ store = [s \in Servers |-> store[s]]
  /\ \A s \in Servers : StoreOK(store[s])
  /\ restarts \in [Servers -> Nat]
  /\ \A s \in Servers : restarts[s] <= inputs

ClientInv ==
  /\ life \in {"running", "closing", "closed"}
  /\ host \in Servers /\ place \in Places /\ queried \in Places \cup {Nowhere}
  /\ version \in Versions /\ known \subseteq PropIds /\ pending \subseteq known
  /\ merged \subseteq Worlds

PollInv ==
  /\ poll \in Poll
  /\ poll.phase \notin {"idle", "bound"} => poll.place \in Places

PostInv ==
  /\ outbox \in Batch
  /\ post \in Post
  /\ post.phase \in {"idle", "bound"} => post.batch = <<>>
  /\ post.phase \in {"sending", "posted"} => post.batch # <<>>
  /\ post.phase = "bound" => outbox # <<>>

CountInv ==
  /\ inputs \in 0 .. MaxInputs /\ placed \in 0 .. inputs
  /\ stored \subseteq 1 .. placed /\ forgone \subseteq 1 .. placed

\* Placements that may still be added to a store: of the batch, all but the one
\* that the server the service is talking to has added already.
Unanswered == post.phase = "posted" /\ post.ok /\ Served(post)
Unposted == IF Unanswered THEN Len(post.batch) - 1 ELSE Len(post.batch)
Unsent == Len(outbox) + Unposted

\* What will ever be added to a store was paid for by an input: a placement, or
\* the fault that made a placement be sent again.
Budget == \A s \in Servers : store[s].version + Unsent <= inputs

Numbered ==
  /\ \A i \in DOMAIN outbox : outbox[i][1] \in 1 .. placed
  /\ \A i \in DOMAIN post.batch : post.batch[i][1] \in 1 .. placed

TypeInv ==
  /\ ServersInv /\ ClientInv /\ PollInv /\ PostInv /\ CountInv
  /\ Budget /\ Numbered

-----------------------------------------------------------------------------
LEMMA BoundsAreNat == Capacity \in Nat /\ MaxInputs \in Nat
BY PropBounds

LEMMA UnsentIsNat ==
  ASSUME PostInv
  PROVE  Len(outbox) \in Nat /\ Len(post.batch) \in Nat /\ Unposted \in Nat /\ Unsent \in Nat
<1>1. Len(outbox) \in Nat /\ Len(post.batch) \in Nat
  BY LenProperties DEF PostInv, Post, Batch
<1>2. Unposted \in Nat
  BY <1>1, EmptySeq DEF Unposted, Unanswered, PostInv, Post, Batch
<1> QED
  BY <1>1, <1>2 DEF Unsent

(* Whose request is out, and how much of it, is a matter of `post` alone. *)
LEMMA SamePost ==
  ASSUME UNCHANGED <<post, restarts>>
  PROVE  Unposted' = Unposted
<1>1. Unanswered' <=> Unanswered
  BY DEF Unanswered, Served, World
<1> QED
  BY <1>1 DEF Unposted

LEMMA TypeInvTypes == TypeInv => TypeOK
<1> SUFFICES ASSUME TypeInv PROVE TypeOK
  OBVIOUS
<1>1. Unsent \in Nat
  BY UnsentIsNat DEF TypeInv
<1>2. \A s \in Servers : store[s].version <= MaxInputs /\ store[s].next <= MaxInputs
  BY <1>1, BoundsAreNat DEF TypeInv, ServersInv, StoreOK, CountInv, Budget
<1>3. \A s \in Servers : restarts[s] \in 0 .. MaxInputs
  BY BoundsAreNat DEF TypeInv, ServersInv, CountInv
<1> QED
  BY <1>2, <1>3 DEF TypeInv, TypeOK, ServersInv, ClientInv, PollInv, PostInv, CountInv,
                    StoreOK, Versions, Poll, Post
LEMMA InitTypes == Init => TypeInv
<1> SUFFICES ASSUME Init PROVE TypeInv
  OBVIOUS
<1>1. IsFiniteSet({}) /\ Cardinality({}) = 0
  BY FS_EmptySet
<1>2. ServersInv
  <2>1. StoreOK(NewStore)
    BY <1>1, BoundsAreNat DEF StoreOK, NewStore
  <2> QED
    BY <2>1 DEF Init, ServersInv
<1>3. <<>> \in Batch /\ Len(<<>>) = 0
  BY EmptySeq DEF Batch
<1>4. \A s \in Servers : <<s, 0>> \in Worlds
  BY BoundsAreNat DEF Worlds
<1>5. ClientInv /\ PollInv /\ CountInv
  <2>1. 0 \in Versions /\ 0 \in 0 .. MaxInputs
    BY BoundsAreNat DEF Versions
  <2>2. ClientInv
    BY <2>1, Scene DEF Init, ClientInv
  <2>3. CountInv
    BY <2>1 DEF Init, CountInv
  <2>4. PollInv
    BY <1>4, <2>1, Scene DEF Init, PollInv, NoPoll, Poll
  <2> QED
    BY <2>2, <2>4, <2>3
<1>6. PostInv /\ Numbered
  BY <1>3, <1>4, Scene DEF Init, PostInv, NoPost, Post, Numbered
<1>7. Budget
  BY <1>3 DEF Init, Budget, Unsent, Unposted, Unanswered, NoPost, NewStore
<1> QED
  BY <1>2, <1>5, <1>6, <1>7 DEF TypeInv

(* A prop is added to a store that is not full. *)
LEMMA AddedOK ==
  ASSUME NEW st, StoreOK(st), ~Full(st), NEW x \in Places, st.version < MaxInputs
  PROVE  StoreOK(Add(st, x)) /\ Add(st, x).version = st.version + 1
<1> DEFINE p == [id |-> st.next + 1, place |-> x, at |-> st.version + 1]
<1>1. p \in Prop
  BY BoundsAreNat DEF StoreOK, Prop, PropIds, Versions
<1>2. IsFiniteSet(st.props \cup {p}) /\ Cardinality(st.props \cup {p}) <= Capacity
  <2>1. Cardinality(st.props) \in Nat /\ Cardinality(st.props) < Capacity
    BY FS_CardinalityType, BoundsAreNat DEF StoreOK, Full
  <2>2. IsFiniteSet(st.props)
    BY DEF StoreOK
  <2>3. /\ IsFiniteSet(st.props \cup {p})
        /\ Cardinality(st.props \cup {p}) \in {Cardinality(st.props), Cardinality(st.props) + 1}
    BY <2>2, FS_AddElement
  <2> QED
    BY <2>1, <2>3, BoundsAreNat
<1> QED
  BY <1>1, <1>2 DEF StoreOK, Add

LEMMA RemovedOK ==
  ASSUME NEW st, StoreOK(st), NEW i
  PROVE  StoreOK(Removed(st, i)) /\ Removed(st, i).version = st.version + 1
<1> DEFINE kept == {p \in st.props : p.id # i}
<1>1. IsFiniteSet(kept) /\ Cardinality(kept) <= Cardinality(st.props)
  BY FS_Subset DEF StoreOK
<1>2. Cardinality(st.props) \in Nat /\ Cardinality(kept) \in Nat
  BY <1>1, FS_CardinalityType DEF StoreOK
<1>3. Removed(st, i) = [st EXCEPT !.version = st.version + 1, !.props = kept]
  BY DEF Removed
<1> HIDE DEF kept
<1>4. kept \in SUBSET Prop
  BY DEF StoreOK, kept
<1>5. Cardinality(kept) <= Capacity
  BY <1>1, <1>2, BoundsAreNat DEF StoreOK
<1>6. st \in [next : Nat, version : Nat, props : SUBSET Prop] /\ st.next <= st.version
  BY DEF StoreOK
<1>7. st.version + 1 \in Nat /\ st.next <= st.version + 1
  BY <1>6
<1>8. Removed(st, i) \in [next : Nat, version : Nat, props : SUBSET Prop]
  BY <1>3, <1>4, <1>6, <1>7
<1>9. Removed(st, i).next = st.next /\ Removed(st, i).version = st.version + 1
  BY <1>3, <1>6
<1>10. Removed(st, i).props = kept
  BY <1>3, <1>6
<1> QED
  BY <1>1, <1>5, <1>7, <1>8, <1>9, <1>10 DEF StoreOK

LEMMA WorldsOfServers ==
  ASSUME ServersInv, CountInv, NEW s \in Servers
  PROVE  World(s) \in Worlds
BY BoundsAreNat DEF World, Worlds, ServersInv, CountInv

(* Steps that touch neither the stores nor the placements, and spend at most *)
(* an input.                                                                 *)
LEMMA QuietTypes ==
  ASSUME TypeInv, UNCHANGED <<store, restarts, outbox, post, placed, forgone, stored>>,
         inputs' = inputs \/ Input
  PROVE  ServersInv' /\ PostInv' /\ CountInv' /\ Budget' /\ Numbered'
<1>1. inputs' \in 0 .. MaxInputs /\ inputs' >= inputs
  BY BoundsAreNat DEF TypeInv, CountInv, Input
<1>2. Unsent' = Unsent
  BY SamePost DEF Unsent
<1> QED
  BY <1>1, <1>2, UnsentIsNat DEF TypeInv, ServersInv, PostInv, CountInv, Budget, Numbered, StoreOK

LEMMA GameTypes ==
  ASSUME TypeInv,
         \/ \E s \in Servers : Configure(s)
         \/ \E x \in Places : SetLocalPosition(x)
         \/ TakeSpawns \/ Shutdown
  PROVE  TypeInv'
<1> USE DEF service, counts, heard
<1>1. ASSUME NEW s \in Servers, Configure(s)
      PROVE  TypeInv'
  <2>1. ServersInv' /\ PostInv' /\ CountInv' /\ Budget' /\ Numbered'
    BY <1>1, QuietTypes DEF Configure
  <2>2. ClientInv'
    BY <1>1 DEF TypeInv, ClientInv, Configure, KnownOn
  <2>3. PollInv'
    BY <1>1 DEF TypeInv, PollInv, Configure
  <2> QED
    BY <2>1, <2>2, <2>3 DEF TypeInv
<1>2. ASSUME NEW x \in Places, SetLocalPosition(x)
      PROVE  TypeInv'
  <2>1. ServersInv' /\ PostInv' /\ CountInv' /\ Budget' /\ Numbered'
    BY <1>2, QuietTypes DEF SetLocalPosition
  <2>2. ClientInv' /\ PollInv'
    BY <1>2 DEF TypeInv, ClientInv, PollInv, SetLocalPosition
  <2> QED
    BY <2>1, <2>2 DEF TypeInv
<1>3. CASE TakeSpawns
  <2>1. ServersInv' /\ PostInv' /\ CountInv' /\ Budget' /\ Numbered'
    BY <1>3, QuietTypes DEF TakeSpawns
  <2>2. ClientInv' /\ PollInv'
    BY <1>3 DEF TypeInv, ClientInv, PollInv, TakeSpawns
  <2> QED
    BY <2>1, <2>2 DEF TypeInv
<1>4. CASE Shutdown
  <2>1. ServersInv' /\ PostInv' /\ CountInv' /\ Budget' /\ Numbered'
    BY <1>4, QuietTypes DEF Shutdown
  <2>2. ClientInv' /\ PollInv'
    BY <1>4 DEF TypeInv, ClientInv, PollInv, Shutdown
  <2> QED
    BY <2>1, <2>2 DEF TypeInv
<1> QED
  BY <1>1, <1>2, <1>3, <1>4

(* The streaming thread: what it reads of a store has the store's types. *)
LEMMA PollTypes ==
  ASSUME TypeInv,
         Bind \/ Ask \/ ReadVersion \/ Unpark \/ ReadProps \/ Merge \/ PollFails
  PROVE  TypeInv'
<1> USE DEF service, counts, heard
<1>1. NoPoll \in Poll
  BY BoundsAreNat, Scene DEF NoPoll, Poll, Worlds, Versions
<1>2. ServersInv' /\ PostInv' /\ CountInv' /\ Budget' /\ Numbered'
  BY QuietTypes DEF Bind, Ask, ReadVersion, Unpark, ReadProps, Merge, PollFails
<1>3. /\ poll \in Poll /\ poll.world[1] \in Servers
      /\ StoreOK(ServerOf(poll)) /\ ServerOf(poll).version \in Versions
      /\ {p.id : p \in Near(ServerOf(poll), poll.place)} \subseteq PropIds
  <2>1. poll \in Poll /\ poll.world[1] \in Servers
    BY DEF TypeInv, PollInv, Poll, Worlds
  <2>2. StoreOK(ServerOf(poll)) /\ ServerOf(poll).version \in Versions
    <3>1. ServerOf(poll).version + Unsent <= inputs
      BY <2>1 DEF TypeInv, Budget, ServerOf
    <3> QED
      BY <2>1, <3>1, UnsentIsNat, BoundsAreNat
      DEF TypeInv, ServersInv, CountInv, StoreOK, ServerOf, Versions
  <2> QED
    BY <2>1, <2>2 DEF StoreOK, Near, Prop
<1>4. CASE Bind
  <2>1. ClientInv'
    BY <1>4 DEF TypeInv, ClientInv, Bind
  <2>2. World(host) \in Worlds
    BY WorldsOfServers DEF TypeInv, ClientInv
  <2>3. PollInv'
    BY <1>1, <1>4, <2>2 DEF Bind, PollInv, Poll
  <2> QED
    BY <1>2, <2>1, <2>3 DEF TypeInv
<1>5. CASE Ask
  <2>1. ClientInv'
    BY <1>5 DEF TypeInv, ClientInv, Ask
  <2>2. Since \in Nat /\ place \in Places
    BY DEF TypeInv, ClientInv, Since, Versions
  <2>3. PollInv'
    BY <1>3, <1>5, <2>2 DEF Ask, PollInv, Poll
  <2> QED
    BY <1>2, <2>1, <2>3 DEF TypeInv
<1>6. CASE ReadVersion \/ Unpark
  <2>1. ClientInv'
    BY <1>6 DEF TypeInv, ClientInv, ReadVersion, Unpark
  <2>2. PollInv'
    BY <1>3, <1>6 DEF ReadVersion, Unpark, TypeInv, PollInv, Poll
  <2> QED
    BY <1>2, <2>1, <2>2 DEF TypeInv
<1>7. CASE ReadProps
  <2>1. ClientInv'
    BY <1>7 DEF TypeInv, ClientInv, ReadProps
  <2>2. PollInv'
    BY <1>3, <1>7 DEF ReadProps, TypeInv, PollInv, Poll
  <2> QED
    BY <1>2, <2>1, <2>2 DEF TypeInv
<1>8. CASE Merge
  <2>1. PollInv'
    BY <1>1, <1>8 DEF Merge, PollInv, NoPoll
  <2>2. poll.place \in Places /\ poll.ids \subseteq PropIds /\ poll.world \in Worlds
        /\ poll.version \in Versions
    BY <1>8 DEF Merge, TypeInv, PollInv, Poll
  <2>3. ClientInv'
    BY <1>8, <2>2 DEF Merge, TypeInv, ClientInv
  <2> QED
    BY <1>2, <2>1, <2>3 DEF TypeInv
<1>9. CASE PollFails
  <2>1. ClientInv' /\ PollInv'
    BY <1>1, <1>9 DEF PollFails, TypeInv, ClientInv, PollInv, NoPoll
  <2> QED
    BY <1>2, <2>1 DEF TypeInv
<1> QED
  BY <1>4, <1>5, <1>6, <1>7, <1>8, <1>9

(* A server takes one step; the sender's threads do not notice, unless it is *)
(* the server that has just answered, and is gone.                           *)
LEMMA ServerTypes ==
  ASSUME TypeInv, NEW s \in Servers,
         \/ \E x \in Places : OthersAdd(s, x)
         \/ \E i \in PropIds : Remove(s, i)
         \/ Restart(s)
  PROVE  TypeInv'
<1> USE DEF service, counts, heard
<1>1. /\ inputs' = inputs + 1 /\ inputs' \in 0 .. MaxInputs
      /\ UNCHANGED <<service, outbox, poll, post, placed, forgone, stored, heard>>
  BY BoundsAreNat DEF OthersAdd, Remove, Restart, Input, TypeInv, CountInv
<1>2. ClientInv' /\ PollInv' /\ PostInv' /\ CountInv' /\ Numbered'
  BY <1>1, BoundsAreNat DEF TypeInv, ClientInv, PollInv, PostInv, CountInv, Numbered
<1>3. StoreOK(store[s]) /\ store[s].version < MaxInputs
  <2>1. store[s].version + Unsent <= inputs /\ inputs < MaxInputs
    BY DEF OthersAdd, Remove, Restart, Input, TypeInv, Budget
  <2> QED
    BY <2>1, UnsentIsNat, BoundsAreNat DEF TypeInv, ServersInv, CountInv, StoreOK
<1>4. inputs \in Nat /\ Unsent \in Nat /\ \A t \in Servers : store[t].version \in Nat
  BY UnsentIsNat, BoundsAreNat DEF TypeInv, CountInv, ServersInv, StoreOK
<1>5. CASE ~Restart(s)
  <2>1. /\ restarts' = restarts
        /\ \E st : /\ StoreOK(st) /\ st.version = store[s].version + 1
                   /\ store' = [store EXCEPT ![s] = st]
    BY <1>3, <1>5, AddedOK, RemovedOK DEF OthersAdd, Remove
  <2>2. PICK st : /\ StoreOK(st) /\ st.version = store[s].version + 1
                  /\ store' = [store EXCEPT ![s] = st]
    BY <2>1
  <2>3. ServersInv'
    BY <1>1, <2>1, <2>2, BoundsAreNat DEF TypeInv, ServersInv, CountInv
  <2>4. Unsent' = Unsent
    BY <1>1, <2>1, SamePost DEF Unsent
  <2>5. Budget'
    BY <1>1, <1>4, <2>2, <2>4 DEF TypeInv, ServersInv, Budget
  <2> QED
    BY <1>2, <2>3, <2>5 DEF TypeInv
<1>6. CASE Restart(s)
  <2>1. /\ store' = [store EXCEPT ![s] = NewStore]
        /\ restarts' = [restarts EXCEPT ![s] = @ + 1]
    BY <1>6 DEF Restart
  <2>2. StoreOK(NewStore) /\ NewStore.version = 0
    BY FS_EmptySet, BoundsAreNat DEF StoreOK, NewStore
  <2>3. ServersInv'
    BY <1>1, <2>1, <2>2, BoundsAreNat DEF TypeInv, ServersInv, CountInv
  <2>4. Unsent' \in Int /\ Unsent' <= Unsent + 1
    <3>1. Len(outbox) \in Nat /\ Len(post.batch) \in Nat
      BY UnsentIsNat DEF TypeInv
    <3>2. outbox' = outbox /\ post' = post
      BY <1>1
    <3> QED
      BY <3>1, <3>2 DEF Unsent, Unposted
  <2>5. Budget'
    BY <1>1, <1>4, <2>1, <2>2, <2>4 DEF TypeInv, ServersInv, Budget
  <2> QED
    BY <1>2, <2>3, <2>5 DEF TypeInv
<1> QED
  BY <1>5, <1>6

LEMMA HeadAndTail ==
  ASSUME NEW S, NEW q \in Seq(S), q # <<>>
  PROVE  /\ Len(q) \in Nat \ {0} /\ Head(q) = q[1] /\ q[1] \in S
         /\ 1 \in DOMAIN q /\ DOMAIN q = 1 .. Len(q)
         /\ Tail(q) \in Seq(S) /\ Len(Tail(q)) = Len(q) - 1
         /\ DOMAIN Tail(q) = 1 .. Len(q) - 1
         /\ \A i \in DOMAIN Tail(q) : Tail(q)[i] = q[i + 1]
<1>1. Len(q) \in Nat \ {0}
  BY EmptySeq
<1>2. Head(q) = q[1] /\ DOMAIN q = 1 .. Len(q)
  BY <1>1, LenProperties
<1>3. q[1] \in S /\ 1 \in DOMAIN q
  BY <1>1, <1>2, ElementOfSeq
<1>4. /\ Tail(q) \in Seq(S) /\ Len(Tail(q)) = Len(q) - 1
      /\ \A i \in 1 .. Len(Tail(q)) : Tail(q)[i] = q[i + 1]
  BY HeadTailProperties
<1>5. DOMAIN Tail(q) = 1 .. Len(Tail(q))
  BY <1>4, LenProperties
<1> QED
  BY <1>1, <1>2, <1>3, <1>4, <1>5

LEMMA Appended ==
  ASSUME NEW S, NEW q \in Seq(S), NEW e \in S
  PROVE  /\ Append(q, e) \in Seq(S) /\ Len(Append(q, e)) = Len(q) + 1 /\ Len(q) \in Nat
         /\ DOMAIN Append(q, e) = 1 .. Len(q) + 1 /\ DOMAIN q = 1 .. Len(q)
         /\ Append(q, e) # <<>>
         /\ Append(q, e)[Len(q) + 1] = e
         /\ \A i \in 1 .. Len(q) : Append(q, e)[i] = q[i]
<1>1. Append(q, e) \in Seq(S) /\ Len(Append(q, e)) = Len(q) + 1 /\ Len(q) \in Nat
  BY LenProperties
<1>2. DOMAIN Append(q, e) = 1 .. Len(q) + 1 /\ DOMAIN q = 1 .. Len(q)
  BY <1>1, LenProperties
<1>3. Append(q, e) # <<>>
  BY <1>1, EmptySeq
<1> QED
  BY <1>1, <1>2, <1>3

LEMMA PlaceTypes ==
  ASSUME TypeInv, Place
  PROVE  TypeInv'
<1> USE DEF service, counts, heard
<1> DEFINE e == <<placed + 1, place>>
<1>1. /\ inputs' = inputs + 1 /\ inputs' \in 0 .. MaxInputs
      /\ placed' = placed + 1 /\ placed' \in 1 .. inputs' /\ placed' \in 1 .. MaxInputs
      /\ outbox' = Append(outbox, e)
      /\ UNCHANGED <<store, restarts, service, poll, post, forgone, stored, heard>>
  BY BoundsAreNat DEF Place, Input, TypeInv, CountInv
<1>2. e \in (1 .. MaxInputs) \X Places /\ outbox \in Batch
  BY <1>1 DEF TypeInv, ClientInv, PostInv
<1>3. /\ outbox' \in Batch /\ outbox' # <<>>
      /\ Len(outbox') = Len(outbox) + 1 /\ Len(outbox) \in Nat
      /\ DOMAIN outbox' = 1 .. Len(outbox) + 1 /\ DOMAIN outbox = 1 .. Len(outbox)
      /\ outbox'[Len(outbox) + 1] = e
      /\ \A i \in 1 .. Len(outbox) : outbox'[i] = outbox[i]
  BY <1>1, <1>2, Appended DEF Batch
<1>4. ServersInv'
  BY <1>1 DEF TypeInv, ServersInv, CountInv
<1>5. ClientInv' /\ PollInv'
  BY <1>1 DEF TypeInv, ClientInv, PollInv
<1>6. PostInv'
  BY <1>1, <1>3 DEF TypeInv, PostInv
<1>7. CountInv'
  BY <1>1 DEF TypeInv, CountInv
<1>8. Unsent' = Unsent + 1
  <2>1. Unposted' = Unposted /\ Unposted \in Nat
    BY <1>1, SamePost, UnsentIsNat DEF TypeInv
  <2> QED
    BY <1>3, <2>1 DEF Unsent
<1>9. Budget'
  BY <1>1, <1>8, UnsentIsNat DEF TypeInv, Budget, ServersInv, StoreOK, CountInv
<1>10. Numbered'
  <2>1. ASSUME NEW i \in DOMAIN outbox'
        PROVE  outbox'[i][1] \in 1 .. placed'
    <3>1. CASE i = Len(outbox) + 1
      BY <1>1, <1>3, <3>1
    <3>2. CASE i # Len(outbox) + 1
      <4>1. i \in DOMAIN outbox /\ outbox'[i] = outbox[i]
        BY <1>3, <3>2
      <4> QED
        BY <1>1, <4>1 DEF TypeInv, Numbered, CountInv
    <3> QED
      BY <3>1, <3>2
  <2>2. \A i \in DOMAIN post'.batch : post'.batch[i][1] \in 1 .. placed'
    BY <1>1 DEF TypeInv, Numbered, CountInv
  <2> QED
    BY <2>1, <2>2 DEF Numbered
<1> QED
  BY <1>4, <1>5, <1>6, <1>7, <1>9, <1>10 DEF TypeInv

LEMMA JoinedTypes ==
  ASSUME TypeInv, Joined
  PROVE  TypeInv'
<1> USE DEF service, counts, heard
<1>1. /\ UNCHANGED <<store, restarts, poll, post, inputs, placed, forgone>>
      /\ outbox' = <<>> /\ post.phase = "idle"
      /\ stored' = 1 .. placed
  BY DEF Joined
<1>2. <<>> \in Batch /\ Len(<<>>) = 0
  BY EmptySeq DEF Batch
<1>3. ServersInv' /\ ClientInv' /\ PollInv'
  BY <1>1 DEF TypeInv, ServersInv, ClientInv, PollInv, Joined
<1>4. PostInv'
  BY <1>1, <1>2 DEF TypeInv, PostInv
<1>5. CountInv' /\ Numbered'
  BY <1>1 DEF TypeInv, CountInv, Numbered
<1>6. Budget'
  <2>1. Unsent' <= Unsent /\ Unsent' \in Nat /\ Unsent \in Nat
    <3>1. Unposted' = Unposted
      BY <1>1, SamePost
    <3>2. Unsent = Len(outbox) + Unposted /\ Unsent' = 0 + Unposted
      BY <1>1, <1>2, <3>1 DEF Unsent
    <3>3. Len(outbox) \in Nat /\ Unposted \in Nat
      BY UnsentIsNat DEF TypeInv
    <3> QED
      BY <3>2, <3>3
  <2> QED
    BY <1>1, <2>1 DEF TypeInv, Budget, ServersInv, StoreOK, CountInv
<1> QED
  BY <1>3, <1>4, <1>5, <1>6 DEF TypeInv

(* The sending thread up to its request: a batch is the whole outbox. *)
LEMMA SenderTypes ==
  ASSUME TypeInv, WakeSender \/ SwapOutbox
  PROVE  TypeInv'
<1> USE DEF service, counts, heard
<1>1. UNCHANGED <<store, restarts, service, poll, counts, stored, heard>>
  BY DEF WakeSender, SwapOutbox
<1>2. ServersInv' /\ ClientInv' /\ PollInv' /\ CountInv'
  BY <1>1 DEF TypeInv, ServersInv, ClientInv, PollInv, CountInv
<1>3. <<>> \in Batch /\ Len(<<>>) = 0
  BY EmptySeq DEF Batch
<1>4. /\ Len(outbox) \in Nat /\ Unsent \in Nat
      /\ post \in Post /\ outbox \in Batch
  BY UnsentIsNat DEF TypeInv, PostInv
<1>5. CASE WakeSender
  <2>1. /\ post' = [NoPost EXCEPT !.phase = "bound", !.world = World(host)]
        /\ outbox' = outbox /\ outbox # <<>> /\ post.phase = "idle"
    BY <1>5 DEF WakeSender
  <2>2. World(host) \in Worlds
    BY WorldsOfServers DEF TypeInv, ClientInv
  <2>3. post' \in Post /\ post'.phase = "bound" /\ post'.batch = <<>>
    BY <1>3, <2>1, <2>2 DEF NoPost, Post
  <2>4. PostInv'
    BY <1>4, <2>1, <2>3 DEF PostInv
  <2>5. Unposted' = 0 /\ Unposted = 0
    BY <1>3, <2>1, <2>3 DEF Unposted, Unanswered, TypeInv, PostInv
  <2>6. Unsent' = Unsent
    BY <2>1, <2>5 DEF Unsent
  <2>7. Budget' /\ Numbered'
    BY <1>1, <2>1, <2>3, <2>6 DEF TypeInv, Budget, Numbered
  <2> QED
    BY <1>2, <2>4, <2>7 DEF TypeInv
<1>6. CASE SwapOutbox
  <2>1. /\ post' = [post EXCEPT !.phase = "sending", !.batch = outbox]
        /\ outbox' = <<>> /\ outbox # <<>> /\ post.phase = "bound" /\ post.batch = <<>>
    BY <1>6 DEF SwapOutbox, TypeInv, PostInv
  <2>2. post' \in Post /\ post'.phase = "sending" /\ post'.batch = outbox
    BY <1>4, <2>1 DEF Post
  <2>3. PostInv'
    BY <1>3, <2>1, <2>2 DEF PostInv
  <2>4. Unposted' = Len(outbox) /\ Unposted = 0
    BY <1>3, <2>1, <2>2 DEF Unposted, Unanswered
  <2>5. Unsent' = Unsent
    BY <1>3, <1>4, <2>1, <2>4 DEF Unsent
  <2>6. Budget' /\ Numbered'
    BY <1>1, <2>1, <2>2, <2>5 DEF TypeInv, Budget, Numbered
  <2> QED
    BY <1>2, <2>3, <2>6 DEF TypeInv
<1> QED
  BY <1>5, <1>6

(* A placement arrives: it is a prop of the store, and one placement less is *)
(* waited with; a refusal changes neither.                                   *)
LEMMA ArrivalTypes ==
  ASSUME TypeInv, PostArrives
  PROVE  TypeInv'
<1> USE DEF service, counts, heard
<1> DEFINE s == post.world[1]
           first == Head(post.batch)
<1>1. /\ UNCHANGED <<restarts, service, outbox, poll, counts, heard>>
      /\ post.phase = "sending" /\ Served(post) /\ ServerOf(post) = store[s]
  BY DEF PostArrives, ServerOf
<1>2. ClientInv' /\ PollInv'
  BY <1>1 DEF TypeInv, ClientInv, PollInv
<1>3. /\ post \in Post /\ s \in Servers
      /\ post.batch \in Batch /\ post.batch # <<>>
  BY <1>1 DEF TypeInv, PostInv, Post, Worlds
<1>4. /\ Len(post.batch) \in Nat \ {0} /\ first = post.batch[1]
      /\ first[1] \in 1 .. placed /\ first[2] \in Places
  BY <1>3, HeadAndTail DEF Batch, TypeInv, Numbered
<1>5. Len(outbox) \in Nat /\ Unsent \in Nat /\ Unsent = Len(outbox) + Len(post.batch)
  BY <1>1, UnsentIsNat DEF TypeInv, Unsent, Unposted, Unanswered
<1>6. CASE Full(ServerOf(post))
  <2>1. /\ post' = [post EXCEPT !.phase = "posted", !.ok = FALSE]
        /\ UNCHANGED <<store, stored>>
    BY <1>6 DEF PostArrives
  <2>2. post' \in Post /\ post'.phase = "posted" /\ post'.batch = post.batch
    BY <1>3, <2>1 DEF Post
  <2>3. ~post'.ok
    BY <1>3, <2>1 DEF Post
  <2>4. PostInv'
    BY <1>1, <1>3, <2>2 DEF TypeInv, PostInv
  <2>5. ServersInv' /\ CountInv' /\ Numbered'
    BY <1>1, <2>1, <2>2 DEF TypeInv, ServersInv, CountInv, Numbered
  <2>6. Unsent' = Unsent
    BY <1>1, <1>5, <2>2, <2>3 DEF Unsent, Unposted, Unanswered
  <2>7. Budget'
    BY <1>1, <2>1, <2>6 DEF TypeInv, Budget
  <2> QED
    BY <1>2, <2>4, <2>5, <2>7 DEF TypeInv
<1>7. CASE ~Full(ServerOf(post))
  <2>1. /\ post' = [post EXCEPT !.phase = "posted", !.ok = TRUE]
        /\ store' = [store EXCEPT ![s] = Add(@, first[2])]
        /\ stored' = stored \cup {first[1]}
    BY <1>7 DEF PostArrives
  <2>2. post' \in Post /\ post'.phase = "posted" /\ post'.batch = post.batch
    BY <1>3, <2>1 DEF Post
  <2>3. post'.ok /\ post'.world = post.world
    BY <1>3, <2>1 DEF Post
  <2>4. PostInv'
    BY <1>1, <1>3, <2>2 DEF TypeInv, PostInv
  <2>5. store[s].version < MaxInputs /\ StoreOK(store[s])
    <3>1. store[s].version + Unsent <= inputs /\ StoreOK(store[s])
      BY <1>3 DEF TypeInv, Budget, ServersInv
    <3>2. Unsent >= 1
      BY <1>4, <1>5
    <3>3. store[s].version \in Nat /\ inputs \in 0 .. MaxInputs
      BY <3>1 DEF TypeInv, CountInv, StoreOK
    <3> QED
      BY <1>5, <3>1, <3>2, <3>3, BoundsAreNat
  <2>6. StoreOK(Add(store[s], first[2]))
        /\ Add(store[s], first[2]).version = store[s].version + 1
    BY <1>1, <1>4, <1>7, <2>5, AddedOK
  <2> HIDE DEF first
  <2>7. ServersInv'
    BY <1>1, <1>3, <2>1, <2>6 DEF TypeInv, ServersInv
  <2>8. CountInv' /\ Numbered'
    BY <1>1, <1>4, <2>1, <2>2 DEF TypeInv, CountInv, Numbered
  <2>9. Unsent' = Unsent - 1
    <3>1. Unanswered'
      BY <1>1, <2>2, <2>3 DEF Unanswered, Served, World
    <3> QED
      BY <1>1, <1>5, <2>2, <3>1 DEF Unsent, Unposted
  <2>10. Budget'
    <3>1. \A t \in Servers : store[t].version \in Nat
      BY DEF TypeInv, ServersInv, StoreOK
    <3>2. \A t \in Servers : store'[t].version <= store[t].version + 1
      BY <1>3, <2>1, <2>6, <3>1 DEF TypeInv, ServersInv
    <3>3. \A t \in Servers : store'[t].version \in Nat
      BY <2>7 DEF ServersInv, StoreOK
    <3>4. inputs' = inputs /\ inputs \in Nat
          /\ \A t \in Servers : store[t].version + Unsent <= inputs
      BY <1>1 DEF TypeInv, Budget, CountInv
    <3>5. Unsent \in Nat
      BY <1>5
    <3> QED
      BY <2>9, <3>1, <3>2, <3>3, <3>4, <3>5 DEF Budget
  <2> QED
    BY <1>2, <2>4, <2>7, <2>8, <2>10 DEF TypeInv
<1> QED
  BY <1>6, <1>7
(* The thread goes on with what is behind, or waits. *)
LEMMA SuccessTypes ==
  ASSUME TypeInv, PostSucceeds
  PROVE  TypeInv'
<1> USE DEF service, counts, heard
<1>1. /\ UNCHANGED <<store, restarts, service, outbox, poll, counts, stored, heard>>
      /\ post.phase = "posted" /\ Unanswered /\ post' = AfterSuccess
  BY DEF PostSucceeds, Unanswered
<1>2. ServersInv' /\ ClientInv' /\ PollInv' /\ CountInv'
  BY <1>1 DEF TypeInv, ServersInv, ClientInv, PollInv, CountInv
<1>3. <<>> \in Batch /\ Len(<<>>) = 0
  BY EmptySeq DEF Batch
<1>4. /\ post \in Post /\ outbox \in Batch
      /\ post.batch \in Batch /\ post.batch # <<>>
  BY <1>1 DEF TypeInv, PostInv, Post
<1>5. /\ Len(post.batch) \in Nat \ {0} /\ DOMAIN post.batch = 1 .. Len(post.batch)
      /\ Tail(post.batch) \in Batch /\ Len(Tail(post.batch)) = Len(post.batch) - 1
      /\ DOMAIN Tail(post.batch) = 1 .. Len(post.batch) - 1
      /\ \A i \in DOMAIN Tail(post.batch) : Tail(post.batch)[i] = post.batch[i + 1]
  BY <1>4, HeadAndTail DEF Batch
<1>6. Unposted = Len(post.batch) - 1
  BY <1>1 DEF Unposted
<1>7. CASE Len(post.batch) = 1
  <2>1. post' = NoPost
    BY <1>1, <1>7 DEF AfterSuccess
  <2>2. post' \in Post /\ post'.phase = "idle" /\ post'.batch = <<>>
    BY <1>3, <2>1, BoundsAreNat, Scene DEF NoPost, Post, Worlds
  <2>3. PostInv'
    BY <1>1, <1>4, <2>2 DEF PostInv
  <2>4. Unposted' = Unposted
    BY <1>3, <1>6, <1>7, <2>2 DEF Unposted, Unanswered
  <2>5. Budget' /\ Numbered'
    BY <1>1, <2>2, <2>4 DEF TypeInv, Budget, Numbered, Unsent
  <2> QED
    BY <1>2, <2>3, <2>5 DEF TypeInv
<1>8. CASE Len(post.batch) # 1
  <2> DEFINE rest == Tail(post.batch)
  <2>1. post' = [post EXCEPT !.phase = "sending", !.batch = rest]
    BY <1>1, <1>8 DEF AfterSuccess
  <2>2. rest \in Batch /\ rest # <<>> /\ Len(rest) = Len(post.batch) - 1
    <3>1. rest \in Batch /\ Len(rest) = Len(post.batch) - 1
      BY <1>5
    <3> HIDE DEF rest
    <3>2. Len(rest) # 0
      BY <1>5, <1>8, <3>1
    <3> QED
      BY <1>3, <3>1, <3>2
  <2> HIDE DEF rest
  <2>3. post' \in Post /\ post'.phase = "sending" /\ post'.batch = rest
    BY <1>4, <2>1, <2>2 DEF Post
  <2>4. PostInv'
    BY <1>1, <1>4, <2>2, <2>3 DEF PostInv
  <2>5. Unposted' = Unposted
    BY <1>6, <2>2, <2>3 DEF Unposted, Unanswered
  <2>6. Budget'
    BY <1>1, <2>5 DEF TypeInv, Budget, Unsent
  <2>7. Numbered'
    <3>1. \A i \in DOMAIN rest : i + 1 \in DOMAIN post.batch /\ rest[i] = post.batch[i + 1]
      BY <1>5 DEF rest
    <3> QED
      BY <1>1, <2>3, <3>1 DEF TypeInv, Numbered
  <2> QED
    BY <1>2, <2>4, <2>6, <2>7 DEF TypeInv
<1> QED
  BY <1>7, <1>8

(* What failed is in the outbox again, at the price of an input unless the   *)
(* server is not there any more.                                             *)
LEMMA FailureTypes ==
  ASSUME TypeInv, PostFails
  PROVE  TypeInv'
<1> USE DEF service, counts, heard
<1> DEFINE first == Head(post.batch)
<1>1. /\ UNCHANGED <<store, restarts, service, poll, placed, stored, heard>>
      /\ post.phase \in {"sending", "posted"}
      /\ outbox' = Append(outbox, first) /\ post' = NoPost
      /\ forgone' = forgone \cup {n[1] : n \in Range(Tail(post.batch))}
      /\ \/ inputs' = inputs /\ ~Unanswered
         \/ Input
  BY DEF PostFails, OutboxAfterFailure, Unanswered
<1>2. inputs \in 0 .. MaxInputs /\ inputs' \in 0 .. MaxInputs /\ inputs' >= inputs
      /\ (Unanswered => inputs' = inputs + 1)
  BY <1>1, BoundsAreNat DEF TypeInv, CountInv, Input
<1>3. ServersInv' /\ ClientInv' /\ PollInv'
  BY <1>1, <1>2 DEF TypeInv, ServersInv, ClientInv, PollInv
<1>4. CountInv'
  <2>1. {n[1] : n \in Range(Tail(post.batch))} \subseteq 1 .. placed
    <3>1. post.batch \in Batch /\ post.batch # <<>>
      BY <1>1 DEF TypeInv, PostInv, Post
    <3>2. \A i \in DOMAIN Tail(post.batch) :
             i + 1 \in DOMAIN post.batch /\ Tail(post.batch)[i] = post.batch[i + 1]
      BY <3>1, HeadAndTail DEF Batch
    <3> QED
      BY <3>2 DEF TypeInv, Numbered, Range
  <2>2. forgone' \subseteq 1 .. placed /\ UNCHANGED <<placed, stored>>
    <3>1. forgone \subseteq 1 .. placed
      BY DEF TypeInv, CountInv
    <3> QED
      BY <1>1, <2>1, <3>1
  <2>3. inputs \in Nat /\ inputs' \in Nat /\ placed \in 0 .. inputs /\ stored \subseteq 1 .. placed
    BY <1>2 DEF TypeInv, CountInv
  <2>4. placed' \in 0 .. inputs'
    BY <1>2, <2>2, <2>3
  <2> QED
    BY <1>2, <2>2, <2>3, <2>4 DEF CountInv
<1>5. /\ outbox \in Batch
      /\ post.batch \in Batch /\ post.batch # <<>>
  BY <1>1 DEF TypeInv, PostInv, Post
<1>6. /\ Len(post.batch) \in Nat \ {0} /\ first \in (1 .. MaxInputs) \X Places
      /\ first[1] \in 1 .. placed
  BY <1>5, HeadAndTail DEF Batch, TypeInv, Numbered
<1> HIDE DEF first
<1>7. /\ outbox' \in Batch /\ outbox' # <<>>
      /\ Len(outbox') = Len(outbox) + 1 /\ Len(outbox) \in Nat
      /\ DOMAIN outbox' = 1 .. Len(outbox) + 1 /\ DOMAIN outbox = 1 .. Len(outbox)
      /\ outbox'[Len(outbox) + 1] = first
      /\ \A i \in 1 .. Len(outbox) : outbox'[i] = outbox[i]
  <2> DEFINE Pairs == (1 .. MaxInputs) \X Places
  <2>1. outbox \in Seq(Pairs) /\ first \in Pairs /\ outbox' = Append(outbox, first)
    BY <1>1, <1>5, <1>6 DEF Batch
  <2> HIDE DEF Pairs
  <2>2. /\ outbox' \in Seq(Pairs) /\ outbox' # <<>>
        /\ Len(outbox') = Len(outbox) + 1 /\ Len(outbox) \in Nat
        /\ DOMAIN outbox' = 1 .. Len(outbox) + 1 /\ DOMAIN outbox = 1 .. Len(outbox)
        /\ outbox'[Len(outbox) + 1] = first
        /\ \A i \in 1 .. Len(outbox) : outbox'[i] = outbox[i]
    BY <2>1, Appended
  <2> QED
    BY <2>2 DEF Batch, Pairs
<1>8. <<>> \in Batch /\ Len(<<>>) = 0
  BY EmptySeq DEF Batch
<1>9. post' \in Post /\ post'.phase = "idle" /\ post'.batch = <<>>
  BY <1>1, <1>8, BoundsAreNat, Scene DEF NoPost, Post, Worlds
<1>10. PostInv'
  BY <1>7, <1>9 DEF PostInv
<1>11. Unsent' = Len(outbox) + 1 /\ Unsent \in Nat
  BY <1>7, <1>8, <1>9, UnsentIsNat DEF TypeInv, Unsent, Unposted, Unanswered
<1>12. \/ Unsent' <= Unsent
       \/ Unsent' <= Unsent + 1 /\ inputs' = inputs + 1
  <2>1. CASE Unanswered
    <3>1. Unsent = Len(outbox) + (Len(post.batch) - 1)
      BY <2>1 DEF Unsent, Unposted
    <3> QED
      BY <1>2, <1>6, <1>7, <1>11, <2>1, <3>1
  <2>2. CASE ~Unanswered
    <3>1. Unsent = Len(outbox) + Len(post.batch)
      BY <2>2 DEF Unsent, Unposted
    <3> QED
      BY <1>2, <1>6, <1>7, <1>11, <3>1
  <2> QED
    BY <2>1, <2>2
<1>13. Budget'
  <2>1. \A s \in Servers : store[s].version \in Nat /\ store[s].version + Unsent <= inputs
    BY DEF TypeInv, ServersInv, StoreOK, Budget
  <2>2. Unsent' \in Nat /\ Unsent \in Nat /\ inputs \in Nat /\ inputs' \in Nat
    BY <1>2, <1>7, <1>11
  <2>3. store' = store
    BY <1>1
  <2>4. \A s \in Servers : store[s].version + Unsent' <= inputs'
    BY <1>2, <1>12, <2>1, <2>2
  <2> QED
    BY <2>3, <2>4 DEF Budget
<1>14. Numbered'
  <2>1. ASSUME NEW i \in DOMAIN outbox'
        PROVE  outbox'[i][1] \in 1 .. placed
    <3>1. CASE i = Len(outbox) + 1
      BY <1>6, <1>7, <3>1
    <3>2. CASE i # Len(outbox) + 1
      BY <1>7, <3>2 DEF TypeInv, Numbered
    <3> QED
      BY <3>1, <3>2
  <2> QED
    BY <1>1, <1>9, <2>1 DEF Numbered
<1> QED
  BY <1>3, <1>4, <1>10, <1>13, <1>14 DEF TypeInv

LEMMA TypeStep == TypeInv /\ [Next]_vars => TypeInv'
<1> SUFFICES ASSUME TypeInv, [Next]_vars PROVE TypeInv'
  OBVIOUS
<1>1. CASE UNCHANGED vars
  <2>1. UNCHANGED <<store, restarts, outbox, poll, post, inputs, placed, forgone, stored,
                    merged, life, host, place, queried, version, known, pending>>
    BY <1>1 DEF vars, service, counts, heard
  <2>2. ServersInv' /\ PostInv' /\ CountInv' /\ Budget' /\ Numbered'
    BY <2>1, QuietTypes
  <2>3. ClientInv' /\ PollInv'
    BY <2>1 DEF TypeInv, ClientInv, PollInv
  <2> QED
    BY <2>2, <2>3 DEF TypeInv
<1>2. CASE Next
  BY <1>2, GameTypes, PollTypes, ServerTypes, PlaceTypes, JoinedTypes, SenderTypes,
     ArrivalTypes, SuccessTypes, FailureTypes DEF Next
<1> QED
  BY <1>1, <1>2

LEMMA TypeInvariant == Spec => []TypeInv
<1> QED
  BY InitTypes, TypeStep, PTL DEF Spec

(* Every variable of the service, of its two threads and of the servers keeps *)
(* its type: ids and versions stay within what the inputs pay for, a store    *)
(* never holds more than its capacity, and the sending thread has a placement *)
(* whenever it sends.                                                         *)
THEOREM PropsTypeOK == Spec => []TypeOK
<1> QED
  BY TypeInvariant, TypeInvTypes, PTL

-----------------------------------------------------------------------------
(* Placements.  One that no failed post has dropped is stored, or it is in   *)
(* the outbox, or it is in the batch of the sending thread.  The one that    *)
(* leaves the batch is the one that the server has added, or it goes back.   *)
Queued(n) ==
  \/ \E i \in DOMAIN outbox : outbox[i][1] = n
  \/ \E i \in DOMAIN post.batch : post.batch[i][1] = n

KeptInv ==
  /\ \A n \in (1 .. placed) \ forgone : n \in stored \/ Queued(n)
  /\ post.phase = "posted" /\ post.ok => Head(post.batch)[1] \in stored

LEMMA KeptIsKept == TypeInv /\ KeptInv => PlacementsAreKept
<1> SUFFICES ASSUME TypeInv, KeptInv, NEW n \in 1 .. placed, Queued(n)
             PROVE  \E x \in Places : <<n, x>> \in Range(outbox) \cup Range(post.batch)
  BY DEF PlacementsAreKept, KeptInv
<1>1. ASSUME NEW q \in Batch, NEW i \in DOMAIN q, q[i][1] = n
      PROVE  \E x \in Places : <<n, x>> \in Range(q)
  <2>1. q[i] \in (1 .. MaxInputs) \X Places /\ q[i] \in Range(q)
    BY <1>1, LenProperties, ElementOfSeq DEF Batch, Range
  <2> QED
    BY <1>1, <2>1
<1>2. outbox \in Batch /\ post.batch \in Batch
  BY DEF TypeInv, PostInv, Post
<1> QED
  BY <1>1, <1>2 DEF Queued

LEMMA QuietKept ==
  ASSUME KeptInv, UNCHANGED <<outbox, post, placed, forgone, stored>>
  PROVE  KeptInv'
BY DEF KeptInv, Queued

LEMMA KeptStep == TypeInv /\ KeptInv /\ [Next]_vars => KeptInv'
<1> SUFFICES ASSUME TypeInv, KeptInv, [Next]_vars PROVE KeptInv'
  OBVIOUS
<1> USE DEF service, counts, heard
<1>1. ASSUME UNCHANGED <<outbox, post, placed, forgone, stored>>
      PROVE  KeptInv'
  BY <1>1, QuietKept
<1>2. CASE Place
  <2> DEFINE e == <<placed + 1, place>>
  <2>1. /\ placed \in Nat /\ placed' = placed + 1 /\ outbox' = Append(outbox, e)
        /\ UNCHANGED <<post, forgone, stored>>
    BY <1>2 DEF Place, TypeInv, CountInv
  <2>2. outbox \in Seq((1 .. MaxInputs) \X Places) /\ e \in (1 .. MaxInputs) \X Places
    BY <1>2, BoundsAreNat DEF Place, Input, TypeInv, ClientInv, PostInv, CountInv, Batch
  <2>3. e[1] = placed + 1
    OBVIOUS
  <2> HIDE DEF e
  <2>4. /\ DOMAIN outbox' = 1 .. Len(outbox) + 1 /\ DOMAIN outbox = 1 .. Len(outbox)
        /\ outbox'[Len(outbox) + 1] = e /\ Len(outbox) \in Nat
        /\ \A i \in 1 .. Len(outbox) : outbox'[i] = outbox[i]
    BY <2>1, <2>2, Appended
  <2>5. ASSUME NEW n \in 1 .. placed, Queued(n)
        PROVE  Queued(n)'
    <3>1. \A i \in DOMAIN outbox : i \in DOMAIN outbox' /\ outbox'[i] = outbox[i]
      BY <2>4
    <3> QED
      BY <2>1, <2>5, <3>1 DEF Queued
  <2>6. ASSUME NEW n, n = placed + 1
        PROVE  Queued(n)'
    <3>1. Len(outbox) + 1 \in DOMAIN outbox' /\ outbox'[Len(outbox) + 1][1] = n
      BY <2>3, <2>4, <2>6
    <3> QED
      BY <2>1, <3>1 DEF Queued
  <2>7. \A n \in 1 .. placed + 1 : n \in 1 .. placed \/ n = placed + 1
    BY <2>1
  <2>8. \A n \in (1 .. placed') \ forgone' : n \in stored' \/ Queued(n)'
    <3>1. SUFFICES ASSUME NEW n \in (1 .. placed + 1) \ forgone, n \notin stored
                   PROVE  Queued(n)'
      BY <2>1
    <3>2. n \in 1 .. placed => Queued(n)
      BY <3>1 DEF KeptInv
    <3> QED
      BY <2>5, <2>6, <2>7, <3>2
  <2> QED
    BY <2>1, <2>8 DEF KeptInv
<1>3. CASE Joined
  BY <1>3 DEF Joined, KeptInv
<1>4. CASE WakeSender
  <2>1. /\ post.batch = <<>> /\ post'.batch = <<>> /\ post'.phase = "bound"
        /\ UNCHANGED <<outbox, placed, forgone, stored>>
    BY <1>4 DEF WakeSender, TypeInv, PostInv, NoPost
  <2>2. \A n \in 1 .. placed : Queued(n) => Queued(n)'
    BY <2>1 DEF Queued
  <2> QED
    BY <2>1, <2>2 DEF KeptInv
<1>5. CASE SwapOutbox
  <2>1. /\ post \in Post /\ post.batch = <<>> /\ outbox \in Batch
        /\ post' = [post EXCEPT !.phase = "sending", !.batch = outbox]
        /\ outbox' = <<>> /\ UNCHANGED <<placed, forgone, stored>>
    BY <1>5 DEF SwapOutbox, TypeInv, PostInv
  <2>2. post'.batch = outbox /\ post'.phase = "sending"
    BY <2>1 DEF Post
  <2>3. DOMAIN post.batch = {}
    BY <2>1, EmptySeq
  <2>4. \A n \in 1 .. placed : Queued(n) => Queued(n)'
    BY <2>2, <2>3 DEF Queued
  <2> QED
    BY <2>1, <2>2, <2>4 DEF KeptInv
<1>6. CASE PostArrives
  <2>1. /\ post \in Post /\ UNCHANGED <<outbox, placed, forgone>>
        /\ post'.batch = post.batch
    BY <1>6 DEF PostArrives, TypeInv, PostInv, Post
  <2>2. \A n \in 1 .. placed : Queued(n) => Queued(n)'
    BY <2>1 DEF Queued
  <2>3. CASE Full(ServerOf(post))
    <3>1. ~post'.ok /\ stored' = stored
      BY <1>6, <2>1, <2>3 DEF PostArrives, Post
    <3> QED
      BY <2>1, <2>2, <3>1 DEF KeptInv
  <2>4. CASE ~Full(ServerOf(post))
    <3>1. stored' = stored \cup {Head(post.batch)[1]}
      BY <1>6, <2>4 DEF PostArrives
    <3> QED
      BY <2>1, <2>2, <3>1 DEF KeptInv
  <2> QED
    BY <2>3, <2>4
<1>7. CASE PostSucceeds
  <2>1. /\ UNCHANGED <<outbox, placed, forgone, stored>>
        /\ post.phase = "posted" /\ post' = AfterSuccess
        /\ Head(post.batch)[1] \in stored
        /\ post \in Post /\ post.batch \in Batch /\ post.batch # <<>>
    BY <1>7 DEF PostSucceeds, KeptInv, TypeInv, PostInv, Post
  <2>2. post'.phase # "posted"
    BY <2>1 DEF AfterSuccess, NoPost, Post
  <2>3. /\ Len(post.batch) \in Nat \ {0} /\ Head(post.batch) = post.batch[1]
        /\ DOMAIN post.batch = 1 .. Len(post.batch)
        /\ DOMAIN Tail(post.batch) = 1 .. Len(post.batch) - 1
        /\ \A i \in DOMAIN Tail(post.batch) : Tail(post.batch)[i] = post.batch[i + 1]
    BY <2>1, HeadAndTail DEF Batch
  <2>4. ASSUME NEW i \in DOMAIN post.batch, i # 1
        PROVE  \E j \in DOMAIN post'.batch : post'.batch[j] = post.batch[i]
    <3>1. Len(post.batch) # 1 /\ i - 1 \in DOMAIN Tail(post.batch) /\ (i - 1) + 1 = i
      BY <2>3, <2>4
    <3>2. post'.batch = Tail(post.batch)
      BY <2>1, <3>1 DEF AfterSuccess, Post
    <3> QED
      BY <2>3, <3>1, <3>2
  <2>5. \A n \in 1 .. placed : Queued(n) => n \in stored \/ Queued(n)'
    BY <2>1, <2>3, <2>4 DEF Queued
  <2> QED
    BY <2>1, <2>2, <2>5 DEF KeptInv
<1>8. CASE PostFails
  <2> DEFINE first == Head(post.batch)
  <2>1. /\ UNCHANGED <<placed, stored>> /\ outbox' = Append(outbox, first)
        /\ post' = NoPost /\ post.phase \in {"sending", "posted"}
        /\ forgone' = forgone \cup {n[1] : n \in Range(Tail(post.batch))}
    BY <1>8 DEF PostFails, OutboxAfterFailure
  <2>2. outbox \in Batch /\ post.batch \in Batch /\ post.batch # <<>>
    BY <2>1 DEF TypeInv, PostInv, Post
  <2>3. /\ Len(post.batch) \in Nat \ {0} /\ first = post.batch[1]
        /\ first \in (1 .. MaxInputs) \X Places
        /\ DOMAIN post.batch = 1 .. Len(post.batch)
        /\ DOMAIN Tail(post.batch) = 1 .. Len(post.batch) - 1
        /\ \A i \in DOMAIN Tail(post.batch) : Tail(post.batch)[i] = post.batch[i + 1]
    BY <2>2, HeadAndTail DEF Batch
  <2> HIDE DEF first
  <2>4. /\ Len(outbox) + 1 \in DOMAIN outbox' /\ outbox'[Len(outbox) + 1] = first
        /\ \A i \in DOMAIN outbox : i \in DOMAIN outbox' /\ outbox'[i] = outbox[i]
    BY <2>1, <2>2, <2>3, Appended DEF Batch
  <2>5. ASSUME NEW n, Queued(n), n \notin forgone'
        PROVE  Queued(n)'
    <3>1. CASE \E i \in DOMAIN outbox : outbox[i][1] = n
      BY <2>4, <3>1 DEF Queued
    <3>2. CASE post.batch[1][1] = n
      BY <2>3, <2>4, <3>2 DEF Queued
    <3>3. ASSUME NEW i \in DOMAIN post.batch, i # 1, post.batch[i][1] = n
          PROVE  FALSE
      <4>1. i - 1 \in DOMAIN Tail(post.batch) /\ Tail(post.batch)[i - 1] = post.batch[i]
        BY <2>3, <3>3
      <4>2. post.batch[i] \in Range(Tail(post.batch))
        BY <4>1 DEF Range
      <4> QED
        BY <2>1, <2>5, <3>3, <4>2
    <3> QED
      BY <2>5, <3>1, <3>2, <3>3 DEF Queued
  <2>6. post'.phase # "posted"
    BY <2>1 DEF NoPost
  <2> QED
    BY <2>1, <2>5, <2>6 DEF KeptInv
<1> QED
  BY <1>1, <1>2, <1>3, <1>4, <1>5, <1>6, <1>7, <1>8
  DEF Next, vars, OthersAdd, Remove, Restart, Configure, SetLocalPosition, TakeSpawns,
      Shutdown, Bind, Ask, ReadVersion, Unpark, ReadProps, Merge, PollFails

(* No placement is lost to a failure of its own post, whatever is placed in  *)
(* the meantime and whatever server the service is pointed at.               *)
THEOREM PropsPlacementsAreKept == Spec => []PlacementsAreKept
<1>1. Init => KeptInv
  BY EmptySeq DEF Init, KeptInv, NoPost
<1> QED
  BY <1>1, KeptStep, KeptIsKept, TypeInvariant, PTL DEF Spec

-----------------------------------------------------------------------------
(* Versions.  What was read as a store's version before its props were read  *)
(* is covered by those props, because whatever is added afterwards comes     *)
(* with a later version; and an answer of a world that is gone never counts  *)
(* as one of the world that took its place, which has a later number.        *)
Covers(st, x, v, ids) ==
  /\ v <= st.version
  /\ \A p \in st.props : (p.place = x /\ p.at <= v) => p.id \in ids

VersionInv ==
  /\ merged = {} => queried = Nowhere
  /\ \A w \in merged \cup {poll.world} : w[2] <= restarts[w[1]]
  /\ (OneWorld /\ merged # {}) => Covers(store[host], queried, version, known)
  /\ (Served(poll) /\ poll.phase = "versioned") => poll.version <= ServerOf(poll).version
  /\ (Served(poll) /\ poll.phase = "answered") =>
       Covers(ServerOf(poll), poll.place, poll.version, poll.ids)

LEMMA VersionCovers == TypeInv /\ VersionInv => VersionCoversProps
<1> SUFFICES ASSUME TypeInv, VersionInv, OneWorld,
                    NEW p \in store[host].props, p.place = queried, p.at <= version
             PROVE  p.id \in known
  BY DEF VersionCoversProps
<1>1. queried # Nowhere
  BY Scene DEF TypeInv, ClientInv, ServersInv, StoreOK, Prop
<1> QED
  BY <1>1 DEF VersionInv, Covers

\* From st to a later state of it in the same world.
Follows(st, later) ==
  /\ st.version <= later.version
  /\ \A p \in later.props : p \in st.props \/ p.at > st.version

LEMMA FollowingCovers ==
  ASSUME NEW st, NEW later, StoreOK(st), StoreOK(later), Follows(st, later),
         NEW x, NEW v \in Nat, NEW ids, Covers(st, x, v, ids)
  PROVE  Covers(later, x, v, ids)
<1>1. st.version \in Nat /\ later.version \in Nat /\ v <= st.version
  BY DEF StoreOK, Covers
<1>2. \A p \in later.props : p.at \in Nat
  BY BoundsAreNat DEF StoreOK, Prop, Versions
<1> QED
  BY <1>1, <1>2 DEF Follows, Covers

LEMMA AddedFollows ==
  ASSUME NEW st, StoreOK(st), NEW x
  PROVE  Follows(st, Add(st, x))
BY DEF StoreOK, Follows, Add

LEMMA RemovedFollows ==
  ASSUME NEW st, StoreOK(st), NEW i
  PROVE  Follows(st, Removed(st, i))
<1>1. Removed(st, i).version = st.version + 1 /\ st.version \in Nat
  BY RemovedOK DEF StoreOK
<1>2. Removed(st, i).props = {p \in st.props : p.id # i}
  BY DEF Removed, StoreOK
<1> QED
  BY <1>1, <1>2 DEF Follows

(* Stores go on, and the client has no part in it. *)
LEMMA StoresFollow ==
  ASSUME TypeInv, TypeInv', VersionInv,
         \A s \in Servers : Follows(store[s], store'[s]),
         UNCHANGED <<restarts, host, queried, version, known, poll, merged>>
  PROVE  VersionInv'
<1>1. /\ version \in Nat /\ host \in Servers
      /\ poll.version \in Nat /\ poll.world[1] \in Servers
  BY BoundsAreNat DEF TypeInv, ClientInv, PollInv, Poll, Versions, Worlds
<1>2. \A s \in Servers : /\ StoreOK(store[s]) /\ StoreOK(store'[s])
                         /\ store[s].version \in Nat /\ store'[s].version \in Nat
                         /\ store[s].version <= store'[s].version
  BY DEF TypeInv, ServersInv, StoreOK, Follows
<1>3. (OneWorld' <=> OneWorld) /\ (Served(poll)' <=> Served(poll))
  BY DEF OneWorld, Served, World
<1>4. ServerOf(poll) = store[poll.world[1]] /\ ServerOf(poll)' = store'[poll.world[1]]
  BY DEF ServerOf
<1>5. (OneWorld /\ merged # {}) => Covers(store'[host], queried, version, known)
  BY <1>1, <1>2, FollowingCovers DEF VersionInv
<1>6. (Served(poll) /\ poll.phase = "versioned") => poll.version <= store'[poll.world[1]].version
  BY <1>1, <1>2, <1>4 DEF VersionInv
<1>7. (Served(poll) /\ poll.phase = "answered") =>
        Covers(store'[poll.world[1]], poll.place, poll.version, poll.ids)
  BY <1>1, <1>2, <1>4, FollowingCovers DEF VersionInv
<1> QED
  BY <1>3, <1>4, <1>5, <1>6, <1>7 DEF VersionInv, Covers

(* A restarted server is a world nobody has heard of. *)
LEMMA RestartVersions ==
  ASSUME TypeInv, VersionInv, NEW s \in Servers, Restart(s)
  PROVE  VersionInv'
<1>1. /\ restarts' = [restarts EXCEPT ![s] = @ + 1] /\ store' = [store EXCEPT ![s] = NewStore]
      /\ UNCHANGED <<host, queried, version, known, poll, merged>>
  BY DEF Restart, service, heard
<1>2. /\ DOMAIN store = Servers /\ restarts \in [Servers -> Nat]
      /\ host \in Servers /\ poll.world \in Worlds
      /\ \A w \in merged \cup {poll.world} : w \in Worlds /\ w[2] <= restarts[w[1]]
  BY DEF TypeInv, ServersInv, ClientInv, PollInv, Poll, VersionInv
<1>3. \A w \in Worlds : w[1] \in Servers /\ w[2] \in Nat
  BY BoundsAreNat DEF Worlds
<1>4. \A t \in Servers : restarts[t] \in Nat /\ restarts'[t] >= restarts[t]
  BY <1>1, <1>2
<1>5. \A w \in merged \cup {poll.world} : w[2] <= restarts'[w[1]]
  <2> TAKE w \in merged \cup {poll.world}
  <2>1. w[1] \in Servers /\ w[2] \in Nat /\ w[2] <= restarts[w[1]]
    BY <1>2, <1>3
  <2> QED
    BY <1>1, <1>2, <1>4, <2>1
<1>6. ASSUME NEW w \in merged \cup {poll.world}, w = World(w[1])'
      PROVE  w[1] # s /\ World(w[1])' = World(w[1])
  <2>1. w[1] \in Servers /\ w[2] \in Nat /\ w[2] <= restarts[w[1]]
    BY <1>2, <1>3
  <2>2. w[2] = restarts'[w[1]]
    BY <1>6 DEF World
  <2>3. w[1] # s
    BY <1>1, <1>2, <2>1, <2>2
  <2> QED
    BY <1>1, <1>2, <2>1, <2>3 DEF World
<1>7. ASSUME OneWorld', merged # {}
      PROVE  OneWorld /\ store'[host] = store[host]
  <2>1. PICK w \in merged : TRUE
    BY <1>7
  <2>2. merged \subseteq {w} /\ w = World(host)'
    BY <1>1, <1>7, <2>1 DEF OneWorld
  <2>3. w[1] = host
    BY <1>1, <2>2 DEF World
  <2>4. host # s /\ World(host)' = World(host)
    BY <1>1, <1>6, <2>2, <2>3
  <2> QED
    BY <1>1, <1>2, <2>2, <2>4 DEF OneWorld
<1>8. ASSUME Served(poll)'
      PROVE  Served(poll) /\ ServerOf(poll)' = ServerOf(poll)
  <2>1. poll.world[1] # s /\ World(poll.world[1])' = World(poll.world[1])
    BY <1>1, <1>6, <1>8 DEF Served
  <2> QED
    BY <1>1, <1>2, <1>3, <1>8, <2>1 DEF Served, ServerOf
<1> QED
  BY <1>1, <1>5, <1>7, <1>8 DEF VersionInv

LEMMA StandsStill == \A st : StoreOK(st) => Follows(st, st)
BY DEF StoreOK, Follows

(* Nothing that matters here changes. *)
LEMMA QuietVersions ==
  ASSUME TypeInv, TypeInv', VersionInv,
         UNCHANGED <<store, restarts, host, queried, version, known, poll, merged>>
  PROVE  VersionInv'
<1>1. \A s \in Servers : Follows(store[s], store'[s])
  BY StandsStill DEF TypeInv, ServersInv
<1> QED
  BY <1>1, StoresFollow

(* The client forgets its world: nothing is claimed of the next one. *)
LEMMA ForgetVersions ==
  ASSUME VersionInv, merged' = {}, queried' = Nowhere, UNCHANGED <<store, restarts, poll>>
  PROVE  VersionInv'
BY DEF VersionInv, Served, ServerOf, World

(* Which steps leave a request that has a version, or an answer. *)
LEMMA PhaseReached ==
  ASSUME poll \in Poll,
         Bind \/ Ask \/ ReadVersion \/ Unpark \/ ReadProps \/ PollFails
  PROVE  /\ poll'.phase = "versioned" => ReadVersion \/ Unpark
         /\ poll'.phase = "answered" => ReadProps
<1>1. Bind => poll'.phase = "bound"
  BY DEF Bind, NoPoll
<1>2. Ask => poll'.phase = "asked"
  BY DEF Ask, Poll
<1>3. ReadVersion => poll'.phase \in {"parked", "versioned"}
  BY DEF ReadVersion, Poll
<1>4. Unpark => poll'.phase = "versioned"
  BY DEF Unpark, Poll
<1>5. ReadProps => poll'.phase = "answered"
  BY DEF ReadProps, Poll
<1>6. PollFails => poll'.phase = "idle"
  BY DEF PollFails, NoPoll
<1> QED
  BY <1>1, <1>2, <1>3, <1>4, <1>5, <1>6

(* The streaming thread: the props are read after the version. *)
LEMMA PollVersions ==
  ASSUME TypeInv, VersionInv,
         Bind \/ Ask \/ ReadVersion \/ Unpark \/ ReadProps \/ PollFails
  PROVE  VersionInv'
<1>1. UNCHANGED <<store, restarts, host, queried, version, known, merged>>
  BY DEF Bind, Ask, ReadVersion, Unpark, ReadProps, PollFails, service, heard
<1>2. /\ host \in Servers /\ poll \in Poll /\ poll.world \in Worlds
      /\ restarts \in [Servers -> Nat] /\ Home \in Servers
      /\ poll.world[1] \in Servers /\ StoreOK(ServerOf(poll))
  BY Scene DEF TypeInv, ServersInv, ClientInv, PollInv, Poll, Worlds, ServerOf
<1>3. poll' \in Poll
  BY PollTypes DEF TypeInv, PollInv
<1>4. OneWorld' <=> OneWorld
  BY <1>1 DEF OneWorld, World
<1>5. poll'.world[2] <= restarts[poll'.world[1]]
  <2>1. poll' = NoPoll \/ poll'.world = poll.world \/ poll'.world = World(host)
    BY <1>2 DEF Bind, Ask, ReadVersion, Unpark, ReadProps, PollFails, NoPoll, Poll
  <2>2. \A t \in Servers : 0 <= restarts[t] /\ restarts[t] <= restarts[t]
    BY <1>2
  <2> QED
    BY <1>2, <2>1, <2>2 DEF NoPoll, World, VersionInv
<1>6. CASE poll'.phase \notin {"versioned", "answered"}
  BY <1>1, <1>4, <1>5, <1>6 DEF VersionInv
<1>7. CASE poll'.phase = "versioned"
  <2>1. ReadVersion \/ Unpark
    BY <1>2, <1>7, PhaseReached
  <2>2. /\ poll' = [poll EXCEPT !.phase = "versioned", !.version = ServerOf(poll).version]
    BY <1>2, <1>7, <2>1 DEF ReadVersion, Unpark, Poll
  <2>3. poll'.world = poll.world /\ poll'.version = ServerOf(poll).version
    BY <1>2, <2>2 DEF Poll
  <2>4. ServerOf(poll)' = ServerOf(poll) /\ ServerOf(poll).version \in Nat
    BY <1>1, <1>2, <2>3 DEF ServerOf, StoreOK
  <2> QED
    BY <1>1, <1>4, <1>5, <1>7, <2>3, <2>4 DEF VersionInv
<1>8. CASE poll'.phase = "answered"
  <2>1. ReadProps
    BY <1>2, <1>8, PhaseReached
  <2> DEFINE ids == {p.id : p \in Near(ServerOf(poll), poll.place)}
  <2>2. /\ poll.phase = "versioned" /\ Served(poll)
        /\ poll' = [poll EXCEPT !.phase = "answered", !.ids = ids]
    BY <2>1 DEF ReadProps
  <2>3. \A p \in ServerOf(poll).props : p.place = poll.place => p.id \in ids
    BY DEF Near
  <2> HIDE DEF ids
  <2>4. /\ poll'.world = poll.world /\ poll'.version = poll.version
        /\ poll'.place = poll.place
    BY <1>2, <2>2 DEF Poll
  <2>5. poll'.ids = ids
    BY <1>2, <2>2 DEF Poll
  <2>6. ServerOf(poll)' = ServerOf(poll)
    BY <1>1, <2>4 DEF ServerOf
  <2>7. poll.version <= ServerOf(poll).version
    BY <2>2 DEF VersionInv
  <2>8. Covers(ServerOf(poll), poll.place, poll.version, ids)
    BY <2>3, <2>7 DEF Covers
  <2>9. Covers(ServerOf(poll), poll.place, poll.version, poll.ids)'
    BY <2>4, <2>5, <2>6, <2>8 DEF Covers
  <2> QED
    BY <1>1, <1>4, <1>5, <1>8, <2>9 DEF VersionInv
<1> QED
  BY <1>6, <1>7, <1>8

(* The answer is taken: whatever Configure did in the meantime, one world    *)
(* answered, or several.                                                     *)
LEMMA MergeVersions ==
  ASSUME TypeInv, VersionInv, Merge
  PROVE  VersionInv'
<1>1. /\ UNCHANGED <<store, restarts, host>>
      /\ poll.phase = "answered" /\ poll' = NoPoll
      /\ queried' = poll.place /\ version' = poll.version
      /\ known' = known \cup poll.ids /\ merged' = merged \cup {poll.world}
  BY DEF Merge
<1>2. restarts \in [Servers -> Nat] /\ Home \in Servers
  BY Scene DEF TypeInv, ServersInv
<1>3. NoPoll.world[2] <= restarts[NoPoll.world[1]] /\ NoPoll.phase = "idle"
  BY <1>2 DEF NoPoll
<1>4. ASSUME OneWorld'
      PROVE  Covers(store[host], poll.place, poll.version, known \cup poll.ids)
  <2>1. poll.world = World(host)
    BY <1>1, <1>4 DEF OneWorld, World
  <2>2. poll.world[1] = host
    BY <2>1 DEF World
  <2>3. Covers(store[host], poll.place, poll.version, poll.ids)
    BY <1>1, <2>1, <2>2 DEF VersionInv, Served, ServerOf
  <2> QED
    BY <2>3 DEF Covers
<1> QED
  BY <1>1, <1>3, <1>4 DEF VersionInv

LEMMA VersionStep == TypeInv /\ VersionInv /\ [Next]_vars => VersionInv'
<1> SUFFICES ASSUME TypeInv, VersionInv, [Next]_vars PROVE VersionInv'
  OBVIOUS
<1> USE DEF service, counts, heard
<1>1. TypeInv'
  BY TypeStep
<1>2. ASSUME NEW s \in Servers,
             NEW st, Follows(store[s], st), store' = [store EXCEPT ![s] = st],
             UNCHANGED <<restarts, host, queried, version, known, poll, merged>>
      PROVE  VersionInv'
  <2>1. \A t \in Servers : Follows(store[t], store'[t])
    BY <1>2, StandsStill DEF TypeInv, ServersInv
  <2> QED
    BY <1>1, <1>2, <2>1, StoresFollow
<1>3. ASSUME NEW s \in Servers, NEW x \in Places, OthersAdd(s, x)
      PROVE  VersionInv'
  BY <1>2, <1>3, AddedFollows DEF OthersAdd, TypeInv, ServersInv
<1>4. ASSUME NEW s \in Servers, NEW i \in PropIds, Remove(s, i)
      PROVE  VersionInv'
  BY <1>2, <1>4, RemovedFollows DEF Remove, TypeInv, ServersInv
<1>5. ASSUME NEW s \in Servers, Configure(s)
      PROVE  VersionInv'
  <2>1. CASE host = s
    BY <1>1, <1>5, <2>1, QuietVersions DEF Configure, KnownOn
  <2>2. CASE host # s
    BY <1>5, <2>2, ForgetVersions DEF Configure
  <2> QED
    BY <2>1, <2>2
<1>6. CASE Joined
  BY <1>6, ForgetVersions DEF Joined
<1>7. CASE PostArrives
  <2>1. CASE Full(ServerOf(post))
    BY <1>1, <1>7, <2>1, QuietVersions DEF PostArrives
  <2>2. CASE ~Full(ServerOf(post))
    <3>1. post.world[1] \in Servers
      BY DEF TypeInv, PostInv, Post, Worlds
    <3> QED
      BY <1>2, <1>7, <2>2, <3>1, AddedFollows DEF PostArrives, TypeInv, ServersInv
  <2> QED
    BY <2>1, <2>2
<1>8. ASSUME UNCHANGED <<store, restarts, host, queried, version, known, poll, merged>>
      PROVE  VersionInv'
  BY <1>1, <1>8, QuietVersions
<1>9. CASE UNCHANGED vars
  BY <1>8, <1>9 DEF vars
<1>10. CASE Next
  BY <1>3, <1>4, <1>5, <1>6, <1>7, <1>8, <1>10, RestartVersions, PollVersions, MergeVersions
  DEF Next, SetLocalPosition, Place, TakeSpawns, Shutdown, WakeSender, SwapOutbox,
      PostSucceeds, PostFails
<1> QED
  BY <1>9, <1>10

(* The version a client waits past is never ahead of what it knows: as long  *)
(* as all answers came from one world, every prop near the point asked about *)
(* that is as old as the version is known, although the server reads version *)
(* and props in different lock sections, restarts, and is replaced.          *)
THEOREM PropsVersionCovers == Spec => []VersionCoversProps
<1>1. Init => VersionInv
  BY Scene DEF Init, VersionInv, NoPoll
<1> QED
  BY <1>1, VersionStep, VersionCovers, TypeInvariant, PTL DEF Spec
=============================================================================
