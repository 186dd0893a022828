---------------------- MODULE AppearanceServiceProofs -----------------------
(***************************************************************************)
(* The appearance service's theorems: the store stays within its bound for *)
(* any number of clients, and the roster names no look that is gone where  *)
(* one player uploads.                                                     *)
(***************************************************************************)
EXTENDS AppearanceService, FiniteSetTheorems, WellFoundedInduction, TLAPS

-----------------------------------------------------------------------------
(* Numbers.                                                                *)

LEMMA SmallestExists ==
  ASSUME NEW T \in SUBSET Nat, T # {}
  PROVE  \E i \in T : \A j \in T : i <= j
<1>1. IsWellFoundedOn(OpToRel(<, Nat), Nat)
  BY NatLessThanWellFounded
<1>2. PICK i \in T : \A j \in T : ~ (<<j, i>> \in OpToRel(<, Nat))
  BY <1>1, WFMin
<1>3. \A j \in T : ~ (j < i)
  BY <1>2 DEF OpToRel
<1> QED
  BY <1>3

LEMMA LargestExists ==
  ASSUME NEW n \in Nat, NEW S \in SUBSET (1 .. n), S # {}
  PROVE  \E i \in S : \A j \in S : j <= i
<1> DEFINE T == {i \in Nat : \A j \in S : j <= i}
<1>1. n \in T
  OBVIOUS
<1>2. PICK m \in T : \A j \in T : m <= j
  BY <1>1, SmallestExists
<1>3. CASE m \in S
  BY <1>3
<1>4. CASE m \notin S
  <2>1. PICK k \in S : TRUE
    OBVIOUS
  <2>2. \A j \in S : j \in Nat /\ j >= 1 /\ j <= m /\ j # m
    BY <1>2, <1>4
  <2>3. m - 1 \in Nat /\ \A j \in S : j <= m - 1
    BY <1>2, <2>1, <2>2
  <2>4. m - 1 \in T
    BY <2>3
  <2> QED
    BY <1>2, <2>4
<1> QED
  BY <1>3, <1>4

LEMMA OneMore ==
  ASSUME NEW S, IsFiniteSet(S), NEW x
  PROVE  /\ IsFiniteSet(S \cup {x})
         /\ Cardinality(S) \in Nat /\ Cardinality(S \cup {x}) \in Nat
         /\ Cardinality(S \cup {x}) <= Cardinality(S) + 1
<1> DEFINE c == Cardinality(S)
           d == Cardinality(S \cup {x})
<1>1. IsFiniteSet(S \cup {x}) /\ d = IF x \in S THEN c ELSE c + 1
  BY FS_AddElement
<1>2. c \in Nat /\ d \in Nat
  BY <1>1, FS_CardinalityType
<1> HIDE DEF c, d
<1>3. d <= c + 1
  BY <1>1, <1>2
<1> QED
  BY <1>1, <1>2, <1>3 DEF c, d

-----------------------------------------------------------------------------
(* The store.                                                              *)

IsStore(st) ==
  /\ st \in [blobs : {st.blobs}, older : {st.older}, worn : {st.worn}]
  /\ IsFiniteSet(st.blobs)
  /\ IsTouchOrder(st.older, st.blobs)

Newest(st, look) == \A k \in st.blobs \ {look} : <<k, look>> \in st.older

LEMMA TouchedStore ==
  ASSUME NEW st, IsStore(st), NEW look
  PROVE  /\ IsStore(Touched(st, look)) /\ Newest(Touched(st, look), look)
         /\ Touched(st, look).blobs = st.blobs \cup {look}
         /\ Touched(st, look).worn = st.worn
<1> DEFINE s == Touched(st, look)
           old == Forgetting(st.older, {look})
           new == (st.blobs \ {look}) \X {look}
<1>1. s = [blobs |-> st.blobs \cup {look}, older |-> old \cup new, worn |-> st.worn]
  <2> DEFINE b == st.blobs \cup {look}
             o == old \cup new
  <2>1. s = [st EXCEPT !.blobs = b, !.older = o]
    BY DEF Touched
  <2> HIDE DEF b, o, s
  <2>2. s = [blobs |-> b, older |-> o, worn |-> st.worn]
    BY <2>1 DEF IsStore
  <2> QED
    BY <2>2 DEF b, o
<1>2. IsFiniteSet(s.blobs)
  BY <1>1, FS_AddElement DEF IsStore
<1>3. /\ old \subseteq (st.blobs \ {look}) \X (st.blobs \ {look})
      /\ \A k, l \in st.blobs \ {look} : <<k, l>> \in old <=> <<k, l>> \in st.older
  <2>1. \A pair \in st.older : pair = <<pair[1], pair[2]>>
                              /\ pair[1] \in st.blobs /\ pair[2] \in st.blobs
    BY DEF IsStore, IsTouchOrder
  <2>2. \A k, l : <<k, l>> \in old <=> <<k, l>> \in st.older /\ k # look /\ l # look
    BY DEF Forgetting
  <2>3. \A pair \in old : pair \in st.older /\ pair[1] # look /\ pair[2] # look
    BY DEF Forgetting
  <2> QED
    BY <2>1, <2>2, <2>3
<1>4. \A k, l : <<k, l>> \in new <=> k \in st.blobs \ {look} /\ l = look
  OBVIOUS
<1> HIDE DEF old, new, s
<1>5. IsTouchOrder(s.older, s.blobs)
  <2>1. s.older \subseteq s.blobs \X s.blobs
    BY <1>1, <1>3 DEF new
  <2>2. ASSUME NEW k \in s.blobs, NEW l \in s.blobs
        PROVE  <<k, l>> \in s.older <=> k # l /\ <<l, k>> \notin s.older
    BY <1>1, <1>3, <1>4, <2>2 DEF IsStore, IsTouchOrder
  <2>3. ASSUME NEW j \in s.blobs, NEW k \in s.blobs, NEW l \in s.blobs,
               <<j, k>> \in s.older, <<k, l>> \in s.older
        PROVE  <<j, l>> \in s.older
    BY <1>1, <1>3, <1>4, <2>3 DEF IsStore, IsTouchOrder
  <2> QED
    BY <2>1, <2>2, <2>3 DEF IsTouchOrder
<1>6. IsStore(s) /\ Newest(s, look)
  BY <1>1, <1>2, <1>4, <1>5 DEF IsStore, Newest
<1> QED
  BY <1>1, <1>6 DEF s

\* The first n of S.
Oldest(order, S, n) == {l \in S : Cardinality({k \in S : <<k, l>> \in order}) < n}

(* Of a finite set in touch order, those before which fewer than n come are
   n of them at least, or all. *)
LEMMA OldestAreEnough ==
  ASSUME NEW order, NEW S, IsFiniteSet(S), NEW n \in Nat,
         \A k \in S : <<k, k>> \notin order,
         \A j, k, l \in S : {<<j, k>>, <<k, l>>} \subseteq order => <<j, l>> \in order,
         \A k, l \in S : k # l => <<k, l>> \in order \/ <<l, k>> \in order
  PROVE  Oldest(order, S, n) = S \/ Cardinality(Oldest(order, S, n)) >= n
<1> DEFINE Before(l) == {k \in S : <<k, l>> \in order}
           f(l) == Cardinality(Before(l))
           V == Oldest(order, S, n)
<1>0. V = {l \in S : f(l) < n}
  BY DEF Oldest
<1>1. \A T \in SUBSET S : IsFiniteSet(T) /\ Cardinality(T) \in Nat
  BY FS_Subset, FS_CardinalityType
<1>2. \A l : Before(l) \in SUBSET S
  OBVIOUS
<1>3. \A l : f(l) \in Nat
  BY <1>1, <1>2
<1>4. SUFFICES ASSUME V # S
               PROVE  Cardinality(V) >= n
  OBVIOUS
<1>5. PICK m \in S \ V : \A l \in S \ V : f(m) <= f(l)
  <2> DEFINE T == {f(l) : l \in S \ V}
  <2>1. T \in SUBSET Nat /\ T # {}
    <3>1. S \ V # {}
      BY <1>0, <1>4
    <3> HIDE DEF f, V
    <3> QED
      BY <1>3, <3>1
  <2>2. PICK i \in T : \A j \in T : i <= j
    <3> HIDE DEF T
    <3> QED
      BY <2>1, SmallestExists
  <2> HIDE DEF f, V
  <2> QED
    BY <2>2
<1>6. Before(m) \subseteq V
  <2> SUFFICES ASSUME NEW k \in Before(m), k \notin V
               PROVE  FALSE
    OBVIOUS
  <2>1. k \in S /\ k \notin Before(k)
    BY DEF Before
  <2>2. Before(k) \subseteq Before(m)
    OBVIOUS
  <2>3. f(k) < f(m)
    <3> DEFINE A == Before(k)
               B == Before(m)
    <3>1. IsFiniteSet(B) /\ A \subseteq B /\ A # B
      BY <1>1, <2>1, <2>2
    <3> HIDE DEF A, B
    <3>2. Cardinality(A) < Cardinality(B)
      BY <3>1, FS_Subset, FS_CardinalityType
    <3> QED
      BY <3>2 DEF A, B
  <2>4. k \in S \ V
    BY <1>0, <2>1
  <2> HIDE DEF f, V
  <2> QED
    BY <1>3, <1>5, <2>3, <2>4
<1>7. f(m) >= n
  <2>1. ~ (f(m) < n)
    BY <1>0
  <2> HIDE DEF f
  <2> QED
    BY <1>3, <2>1
<1>8. V \in SUBSET S
  BY <1>0
<1>9. f(m) <= Cardinality(V)
  <2> HIDE DEF V
  <2> QED
    BY <1>1, <1>6, <1>8, FS_Subset
<1> HIDE DEF f, V
<1> QED
  BY <1>1, <1>3, <1>7, <1>8, <1>9 DEF V

(* Eviction keeps what is worn and what is newest, and brings the store down to
   its capacity unless all the others are worn. *)
LEMMA TrimmedStore ==
  ASSUME NEW st, IsStore(st), NEW look \in st.blobs, Newest(st, look),
         IsFiniteSet(DOMAIN st.worn)
  PROVE  /\ IsStore(Trimmed(st))
         /\ Trimmed(st).worn = st.worn
         /\ Trimmed(st).blobs \subseteq st.blobs
         /\ look \in Trimmed(st).blobs
         /\ Worn(st) \cap st.blobs \subseteq Trimmed(st).blobs
         /\ \/ Cardinality(Trimmed(st).blobs) <= Capacity
            \/ Cardinality(Trimmed(st).blobs) <= Cardinality(DOMAIN st.worn) + 1
<1> DEFINE excess == Cardinality(st.blobs) - Capacity
           I == Idle(st)
           V == {l \in I : Cardinality({k \in I : <<k, l>> \in st.older}) < excess}
           s == Trimmed(st)
<1>1. s = [blobs |-> st.blobs \ V, older |-> Forgetting(st.older, V), worn |-> st.worn]
  <2> DEFINE b == st.blobs \ V
             o == Forgetting(st.older, V)
  <2>1. s = [st EXCEPT !.blobs = b, !.older = o]
    BY DEF Trimmed
  <2> HIDE DEF b, o, s
  <2>2. s = [blobs |-> b, older |-> o, worn |-> st.worn]
    BY <2>1 DEF IsStore
  <2> QED
    BY <2>2 DEF b, o
<1>2. V \subseteq I /\ I \subseteq st.blobs \ Worn(st)
  BY DEF Idle
<1>3. look \notin I
  BY DEF Idle, Newest, IsStore, IsTouchOrder
<1>4. st.blobs \ I \subseteq Worn(st) \cup {look}
  BY DEF Idle, Newest
<1>5. IsFiniteSet(st.blobs) /\ IsFiniteSet(I) /\ IsFiniteSet(V)
  BY <1>2, FS_Subset DEF IsStore
<1>6. V = I \/ Cardinality(V) >= excess
  <2>1. CASE excess <= 0
    BY <1>5, <2>1, FS_CardinalityType, CapacityAssumption
  <2>2. CASE excess \in Nat
    <3> HIDE DEF I, excess
    <3>1. /\ \A k \in I : <<k, k>> \notin st.older
          /\ \A j, k, l \in I : {<<j, k>>, <<k, l>>} \subseteq st.older => <<j, l>> \in st.older
          /\ \A k, l \in I : k # l => <<k, l>> \in st.older \/ <<l, k>> \in st.older
      BY <1>2 DEF IsStore, IsTouchOrder
    <3>2. V = Oldest(st.older, I, excess)
      BY DEF Oldest
    <3> HIDE DEF V
    <3> QED
      BY <1>5, <2>2, <3>1, <3>2, OldestAreEnough
  <2>3. excess \in Int
    BY <1>5, FS_CardinalityType, CapacityAssumption
  <2> QED
    BY <2>1, <2>2, <2>3
<1> HIDE DEF V, I, s
<1>7. \/ Cardinality(s.blobs) <= Capacity
      \/ Cardinality(s.blobs) <= Cardinality(DOMAIN st.worn) + 1
  <2>1. CASE Cardinality(V) >= excess
    <3>1. Cardinality(st.blobs \ V) = Cardinality(st.blobs) - Cardinality(st.blobs \cap V)
      BY <1>5, FS_Difference
    <3>2. st.blobs \cap V = V
      BY <1>2
    <3>3. Cardinality(s.blobs) = Cardinality(st.blobs) - Cardinality(V)
      BY <1>1, <3>1, <3>2
    <3>4. Cardinality(st.blobs) \in Nat /\ Cardinality(V) \in Nat
      BY <1>5, FS_CardinalityType
    <3> QED
      BY <2>1, <3>3, <3>4, CapacityAssumption
  <2>2. CASE V = I
    <3>1. IsFiniteSet(Worn(st)) /\ Cardinality(Worn(st)) <= Cardinality(DOMAIN st.worn)
      <4> DEFINE f == [p \in DOMAIN st.worn |-> st.worn[p]]
      <4>1. f \in Surjection(DOMAIN st.worn, Worn(st))
        BY DEF Surjection, Worn
      <4> QED
        BY <4>1, FS_Surjection
    <3>2. /\ IsFiniteSet(Worn(st) \cup {look})
          /\ Cardinality(Worn(st) \cup {look}) <= Cardinality(Worn(st)) + 1
      BY <3>1, OneMore
    <3>3. Cardinality(s.blobs) <= Cardinality(Worn(st) \cup {look})
      BY <1>1, <1>4, <2>2, <3>2, FS_Subset
    <3>4. s.blobs \subseteq st.blobs
      BY <1>1
    <3>5. Cardinality(s.blobs) \in Nat
      BY <1>5, <3>4, FS_Subset, FS_CardinalityType
    <3> QED
      BY <3>1, <3>2, <3>3, <3>5, FS_CardinalityType
  <2> QED
    BY <1>6, <2>1, <2>2
<1>8. IsStore(s)
  <2>1. IsFiniteSet(s.blobs)
    BY <1>1, <1>5, FS_Subset
  <2>2. \A k, l \in s.blobs : <<k, l>> \in s.older <=> <<k, l>> \in st.older
    BY <1>1 DEF Forgetting
  <2>3. s.older \subseteq s.blobs \X s.blobs
    <3>1. \A pair \in st.older : pair = <<pair[1], pair[2]>>
                                /\ pair[1] \in st.blobs /\ pair[2] \in st.blobs
      BY DEF IsStore, IsTouchOrder
    <3>2. \A pair \in s.older : pair \in st.older /\ pair[1] \notin V /\ pair[2] \notin V
      BY <1>1 DEF Forgetting
    <3> QED
      BY <1>1, <3>1, <3>2
  <2>4. IsTouchOrder(s.older, s.blobs)
    BY <1>1, <2>2, <2>3 DEF IsStore, IsTouchOrder
  <2> QED
    BY <1>1, <2>1, <2>4 DEF IsStore
<1> QED
  BY <1>1, <1>2, <1>3, <1>7, <1>8 DEF s

(* Put, Get and SetRoleAppearance keep a store within its bound. *)
Bounded(st) ==
  \/ Cardinality(st.blobs) <= Capacity
  \/ Cardinality(st.blobs) <= Cardinality(DOMAIN st.worn) + 1

LEMMA PutStore ==
  ASSUME NEW st, IsStore(st), Bounded(st), IsFiniteSet(DOMAIN st.worn), NEW look
  PROVE  /\ IsStore(Put(st, look)) /\ Bounded(Put(st, look))
         /\ Put(st, look).worn = st.worn
         /\ Put(st, look).blobs \subseteq st.blobs \cup {look}
         /\ look \in Put(st, look).blobs
         /\ Worn(st) \cap st.blobs \subseteq Put(st, look).blobs
<1> DEFINE s == Touched(st, look)
<1>1. /\ IsStore(s) /\ Newest(s, look)
      /\ s.blobs = st.blobs \cup {look} /\ s.worn = st.worn
  BY TouchedStore
<1> HIDE DEF s
<1>2. CASE look \in st.blobs
  <2>1. Put(st, look) = s /\ s.blobs = st.blobs
    BY <1>1, <1>2 DEF Put, Stored, s
  <2>2. Bounded(s)
    BY <1>1, <2>1 DEF Bounded
  <2> QED
    BY <1>1, <1>2, <2>1, <2>2
<1>3. CASE look \notin st.blobs
  <2>1. Put(st, look) = Trimmed(s)
    BY <1>3 DEF Put, Stored, s
  <2>2. Worn(s) = Worn(st)
    BY <1>1 DEF Worn
  <2>3. look \in s.blobs
    BY <1>1
  <2>4. /\ IsStore(Trimmed(s)) /\ Trimmed(s).worn = s.worn
        /\ Trimmed(s).blobs \subseteq s.blobs /\ look \in Trimmed(s).blobs
        /\ Worn(s) \cap s.blobs \subseteq Trimmed(s).blobs
        /\ Bounded(Trimmed(s))
    BY <1>1, <2>3, TrimmedStore DEF Bounded
  <2> QED
    BY <1>1, <2>1, <2>2, <2>4
<1> QED
  BY <1>2, <1>3

LEMMA GottenStore ==
  ASSUME NEW st, IsStore(st), Bounded(st), NEW look
  PROVE  /\ IsStore(Gotten(st, look)) /\ Bounded(Gotten(st, look))
         /\ Gotten(st, look).worn = st.worn
         /\ Gotten(st, look).blobs = st.blobs
<1>1. CASE look \in st.blobs
  <2> DEFINE s == Touched(st, look)
  <2>1. IsStore(s) /\ s.blobs = st.blobs \cup {look} /\ s.worn = st.worn
    BY TouchedStore
  <2> HIDE DEF s
  <2>2. Gotten(st, look) = s /\ s.blobs = st.blobs
    BY <1>1, <2>1 DEF Gotten, Stored, s
  <2> QED
    BY <2>1, <2>2 DEF Bounded
<1>2. CASE look \notin st.blobs
  BY <1>2 DEF Gotten, Stored
<1> QED
  BY <1>1, <1>2

LEMMA ClaimedStore ==
  ASSUME NEW st, IsStore(st), Bounded(st), IsFiniteSet(DOMAIN st.worn), NEW player, NEW look
  PROVE  /\ IsStore(SetRoleAppearance(st, player, look))
         /\ Bounded(SetRoleAppearance(st, player, look))
         /\ SetRoleAppearance(st, player, look).blobs = st.blobs
         /\ SetRoleAppearance(st, player, look).worn =
              [q \in DOMAIN st.worn \cup {player} |->
                 IF q = player THEN look ELSE st.worn[q]]
<1> DEFINE D == DOMAIN st.worn
           w == [q \in D \cup {player} |-> IF q = player THEN look ELSE st.worn[q]]
           s == SetRoleAppearance(st, player, look)
<1>1. s = [st EXCEPT !.worn = w]
  BY DEF SetRoleAppearance
<1>2. DOMAIN w = D \cup {player}
  OBVIOUS
<1> HIDE DEF w, s
<1>3. s = [blobs |-> st.blobs, older |-> st.older, worn |-> w]
  BY <1>1 DEF IsStore
<1>4. IsStore(s)
  BY <1>3 DEF IsStore
<1>5. Bounded(s)
  <2>1. /\ Cardinality(D) \in Nat /\ Cardinality(D \cup {player}) \in Nat
        /\ Cardinality(D) <= Cardinality(D \cup {player})
    <3>1. D \in SUBSET (D \cup {player})
      OBVIOUS
    <3> QED
      BY <3>1, OneMore, FS_Subset
  <2>2. Cardinality(st.blobs) \in Nat
    BY FS_CardinalityType DEF IsStore
  <2> QED
    BY <1>2, <1>3, <2>1, <2>2 DEF Bounded
<1> QED
  BY <1>3, <1>4, <1>5 DEF w, s

-----------------------------------------------------------------------------
(* Types.                                                                  *)

Partials(T) == UNION {[S -> T] : S \in SUBSET Players}

LEMMA IntoPartials ==
  ASSUME NEW T, NEW S \in SUBSET Players, NEW f \in [S -> T]
  PROVE  f \in Partials(T)
BY DEF Partials

LEMMA PartialsAre ==
  ASSUME NEW T, NEW f \in Partials(T)
  PROVE  /\ DOMAIN f \subseteq Players /\ f \in [DOMAIN f -> T]
         /\ Partial(f, Players, T)
BY DEF Partials, Partial

ServerInv ==
  /\ IsStore(store) /\ Bounded(store)
  /\ store.blobs \subseteq Looks
  /\ store.worn \in Partials(Looks)

UploadInv ==
  /\ outfit \in [Players -> Nat] /\ \A p \in Players : outfit[p] <= Len(Wardrobe[p])
  /\ pending \in [Players -> Looks \cup {Bare}]
  /\ posted \in [Players -> Looks \cup {Bare}]
  /\ uploaded \in [Players -> SUBSET Looks]
  /\ worker \in [Players -> {"upload", "claim", "answer", "poll", "download"}]
  /\ \A p \in Players : worker[p] \in {"claim", "answer"} => posted[p] # Bare

DownloadInv ==
  /\ wanted \in [Players -> SUBSET Entries]
  /\ fetched \in [Players -> Seq(Entries)]
  /\ requested \in [Players -> Partials(Looks)]
  /\ parked \in [Players -> Partials(Looks)]
  /\ interest \in [Players -> Partials(Looks \cup {Bare})]
  /\ peers \in [Players -> Partials(Looks \cup {Bare})]
  /\ near \in SUBSET Players

TypeInv == ServerInv /\ UploadInv /\ DownloadInv

LEMMA TypeInvTypes == TypeInv => TypeOK
<1> SUFFICES ASSUME TypeInv PROVE TypeOK
  OBVIOUS
<1>1. StoreOK /\ Partial(store.worn, Players, Looks)
  BY PartialsAre DEF TypeInv, ServerInv, StoreOK, IsStore, Bounded
<1>2. ASSUME NEW p \in Players
      PROVE  /\ Partial(requested[p], Players, Looks)
             /\ Partial(parked[p], Players, Looks)
             /\ Partial(interest[p], Players, Looks \cup {Bare})
             /\ Partial(peers[p], Players, Looks \cup {Bare})
  BY PartialsAre DEF TypeInv, DownloadInv
<1>3. ASSUME NEW p \in Players
      PROVE  Range(fetched[p]) \subseteq Entries
  BY DEF TypeInv, DownloadInv, Range
<1>4. ASSUME NEW p \in Players
      PROVE  /\ outfit[p] \in 0 .. Len(Wardrobe[p])
             /\ {pending[p], posted[p]} \subseteq Looks \cup {Bare}
             /\ uploaded[p] \subseteq Looks
             /\ worker[p] \in {"upload", "claim", "answer", "poll", "download"}
             /\ wanted[p] \subseteq Entries
  BY Wardrobes DEF TypeInv, UploadInv, DownloadInv
<1> QED
  BY <1>1, <1>2, <1>3, <1>4 DEF TypeOK, TypeInv, DownloadInv

LEMMA InitTypes == Init => TypeInv
<1> SUFFICES ASSUME Init PROVE TypeInv
  OBVIOUS
<1>1. \A T : Empty \in Partials(T)
  <2>1. \A T : Empty \in [{} -> T]
    BY DEF Empty
  <2> QED
    BY <2>1, IntoPartials
<1>2. ServerInv
  <2>1. store = [blobs |-> {}, older |-> {}, worn |-> Empty]
    BY DEF Init, NewStore, Empty
  <2>2. IsFiniteSet({}) /\ Cardinality({}) = 0
    BY FS_EmptySet
  <2> QED
    BY <1>1, <2>1, <2>2, CapacityAssumption DEF ServerInv, IsStore, Bounded, IsTouchOrder
<1>3. UploadInv
  BY Wardrobes DEF Init, UploadInv
<1>4. DownloadInv
  BY <1>1 DEF Init, DownloadInv
<1> QED
  BY <1>2, <1>3, <1>4 DEF TypeInv

(* What dresses a peer is a look, or nothing. *)
LEMMA LastFetchedTypes ==
  ASSUME TypeInv, NEW v \in Players, NEW w
  PROVE  LastFetched(v, w) \in Looks \cup {Bare}
<1> DEFINE mine == {i \in DOMAIN fetched[v] : fetched[v][i].peer = w}
<1>1. fetched[v] \in Seq(Entries)
  BY DEF TypeInv, DownloadInv
<1>2. Len(fetched[v]) \in Nat /\ mine \subseteq 1 .. Len(fetched[v])
  BY <1>1
<1>3. \A i \in mine : fetched[v][i].look \in Looks
  <2>1. \A i \in DOMAIN fetched[v] : fetched[v][i] \in Entries
    BY <1>1
  <2> QED
    BY <2>1 DEF Entries
<1>4. LastFetched(v, w) = IF mine = {} THEN Bare
                          ELSE fetched[v][CHOOSE i \in mine : \A j \in mine : j <= i].look
  BY DEF LastFetched
<1> HIDE DEF mine
<1>5. mine # {} => \E i \in mine : \A j \in mine : j <= i
  BY <1>2, LargestExists
<1> QED
  BY <1>3, <1>4, <1>5

LEMMA TickTypes ==
  ASSUME TypeInv, NEW v \in Players, TickSome(v)
  PROVE  TypeInv'
<1>1. PICK heard \in SUBSET Unheard(v), pruned \in SUBSET Silent(v) : Tick(v, heard, pruned)
  BY DEF TickSome
<1>2. heard \subseteq Players
  BY DEF Unheard, TypeInv, DownloadInv
<1>3. /\ DOMAIN peers[v] \subseteq Players /\ Partial(peers[v], Players, Looks \cup {Bare})
      /\ DOMAIN parked[v] \subseteq Players /\ Partial(parked[v], Players, Looks)
      /\ DOMAIN requested[v] \subseteq Players /\ Partial(requested[v], Players, Looks)
  BY PartialsAre DEF TypeInv, DownloadInv
<1>4. ASSUME NEW w \in DOMAIN peers[v]
      PROVE  Installed(v, w) \in Looks \cup {Bare}
  BY <1>3, LastFetchedTypes DEF Installed, Partial
<1>5. ASSUME NEW w \in Awaiting(v)
      PROVE  w \in Players /\ Parked(v, w) \in Looks
  <2>1. fetched[v] \in Seq(Entries)
    BY DEF TypeInv, DownloadInv
  <2>2. \A i \in DOMAIN fetched[v] : /\ fetched[v][i].peer \in Players
                                     /\ fetched[v][i].look \in Looks
    <3>1. \A i \in DOMAIN fetched[v] : fetched[v][i] \in Entries
      BY <2>1
    <3> QED
      BY <3>1 DEF Entries
  <2>3. CASE \E i \in DOMAIN fetched[v] : fetched[v][i].peer = w
    <3> DEFINE mine == {i \in DOMAIN fetched[v] : fetched[v][i].peer = w}
    <3>1. Len(fetched[v]) \in Nat /\ mine \subseteq 1 .. Len(fetched[v]) /\ mine # {}
      BY <2>1, <2>3
    <3>2. \A i \in mine : fetched[v][i].look \in Looks
      BY <2>2
    <3>3. LastFetched(v, w) = fetched[v][CHOOSE i \in mine : \A j \in mine : j <= i].look
      BY <3>1 DEF LastFetched
    <3>4. w \in Players
      BY <2>3, <2>2
    <3> HIDE DEF mine
    <3>5. \E i \in mine : \A j \in mine : j <= i
      BY <3>1, LargestExists
    <3>6. LastFetched(v, w) \in Looks
      BY <3>2, <3>3, <3>5
    <3> QED
      BY <3>4, <3>6, Wardrobes DEF Parked
  <2>4. CASE w \in DOMAIN parked[v]
    BY <1>3, <2>4, LastFetchedTypes DEF Parked, Partial
  <2> QED
    BY <1>5, <2>3, <2>4 DEF Awaiting
<1> DEFINE q == [w \in (DOMAIN peers[v] \cup heard) \ pruned |->
                    IF w \in heard THEN Bare ELSE Installed(v, w)]
           k == [w \in Awaiting(v) |-> Parked(v, w)]
           r == Reserved(v)
<1>6. q \in Partials(Looks \cup {Bare})
  <2> DEFINE S == (DOMAIN peers[v] \cup heard) \ pruned
  <2>1. S \in SUBSET Players
    BY <1>2, <1>3
  <2>2. q \in [S -> Looks \cup {Bare}]
    BY <1>4
  <2> HIDE DEF S, q
  <2> QED
    BY <2>1, <2>2, IntoPartials
<1>7. k \in Partials(Looks)
  <2>1. Awaiting(v) \in SUBSET Players /\ k \in [Awaiting(v) -> Looks]
    BY <1>5
  <2> HIDE DEF k
  <2> QED
    BY <2>1, IntoPartials
<1>8. r \in Partials(Looks)
  <2> DEFINE S == DOMAIN requested[v] \cap DOMAIN peers[v]
  <2>1. S \in SUBSET Players /\ r \in [S -> Looks]
    BY <1>3 DEF Reserved, Restrict, Partial
  <2> HIDE DEF S, r
  <2> QED
    BY <2>1, IntoPartials
<1>9. Published(v) \in Looks \cup {Bare}
  <2>1. Look(v) \in Looks \cup {Bare}
    BY Wardrobes DEF Look, TypeInv, UploadInv
  <2> QED
    BY <2>1 DEF Published, TypeInv, UploadInv
<1> HIDE DEF q, k, r
<1>10. /\ pending' = [pending EXCEPT ![v] = Published(v)]
       /\ interest' = [interest EXCEPT ![v] = peers[v]]
       /\ requested' = [requested EXCEPT ![v] = r]
       /\ fetched' = [fetched EXCEPT ![v] = <<>>]
       /\ parked' = [parked EXCEPT ![v] = k]
       /\ peers' = [peers EXCEPT ![v] = q]
       /\ UNCHANGED <<store, outfit, uploaded, worker, posted, wanted, near>>
  BY <1>1 DEF Tick, q, k, r
<1>11. UploadInv'
  BY <1>9, <1>10 DEF TypeInv, UploadInv
<1>12. <<>> \in Seq(Entries)
  OBVIOUS
<1>13. DownloadInv'
  BY <1>6, <1>7, <1>8, <1>10, <1>12 DEF TypeInv, DownloadInv
<1> QED
  BY <1>10, <1>11, <1>13 DEF TypeInv, ServerInv

LEMMA UploadTypes ==
  ASSUME TypeInv, NEW p \in Players, UploadPending(p) \/ Claim(p)
  PROVE  TypeInv'
<1>1. /\ DOMAIN store.worn \subseteq Players
      /\ IsFiniteSet(DOMAIN store.worn)
      /\ Partial(store.worn, Players, Looks)
  <2>1. DOMAIN store.worn \subseteq Players /\ Partial(store.worn, Players, Looks)
    BY PartialsAre DEF TypeInv, ServerInv
  <2> QED
    BY <2>1, ServiceBounds, FS_Subset
<1>2. DownloadInv'
  BY DEF TypeInv, DownloadInv, UploadPending, Claim
<1>3. IsStore(store) /\ Bounded(store)
  BY DEF TypeInv, ServerInv
<1>4. CASE UploadPending(p)
  <2>1. pending[p] \in Looks
    BY <1>4 DEF UploadPending, TypeInv, UploadInv
  <2>2. ServerInv'
    <3>1. store' = Put(store, pending[p])
      BY <1>4 DEF UploadPending
    <3>2. /\ IsStore(store') /\ Bounded(store') /\ store'.worn = store.worn
          /\ store'.blobs \subseteq store.blobs \cup {pending[p]}
      BY <1>1, <1>3, <3>1, PutStore
    <3> QED
      BY <2>1, <3>2 DEF TypeInv, ServerInv
  <2>3. UploadInv'
    BY <1>4, <2>1 DEF UploadPending, Goes, TypeInv, UploadInv
  <2> QED
    BY <1>2, <2>2, <2>3 DEF TypeInv
<1>5. CASE Claim(p)
  <2>1. posted[p] \in Looks
    BY <1>5 DEF Claim, TypeInv, UploadInv
  <2>2. ServerInv'
    <3> DEFINE S == DOMAIN store.worn \cup {p}
    <3>1. store' = SetRoleAppearance(store, p, posted[p])
      BY <1>5 DEF Claim
    <3>2. /\ IsStore(store') /\ Bounded(store') /\ store'.blobs = store.blobs
          /\ store'.worn = [w \in S |-> IF w = p THEN posted[p] ELSE store.worn[w]]
      BY <1>1, <1>3, <3>1, ClaimedStore
    <3>3. S \in SUBSET Players /\ store'.worn \in [S -> Looks]
      BY <1>1, <2>1, <3>2 DEF Partial
    <3> HIDE DEF S
    <3>4. store'.worn \in Partials(Looks)
      BY <3>3, IntoPartials
    <3> QED
      BY <3>2, <3>4 DEF TypeInv, ServerInv
  <2>3. UploadInv'
    BY <1>5 DEF Claim, Goes, TypeInv, UploadInv
  <2> QED
    BY <1>2, <2>2, <2>3 DEF TypeInv
<1> QED
  BY <1>4, <1>5

LEMMA PollTypes ==
  ASSUME TypeInv, NEW v \in Players, PollRoster(v)
  PROVE  TypeInv'
<1> DEFINE missing == {entry \in VisibleAppearances(v) :
                         ~ Holds(interest[v], entry) /\ ~ Holds(requested[v], entry)}
           S == DOMAIN requested[v] \cup {entry.peer : entry \in missing}
           r == [w \in S |-> IF \E entry \in missing : entry.peer = w
                             THEN (CHOOSE entry \in missing : entry.peer = w).look
                             ELSE requested[v][w]]
<1>1. missing \subseteq Entries
  <2>1. DOMAIN store.worn \subseteq Players /\ Partial(store.worn, Players, Looks)
    BY PartialsAre DEF TypeInv, ServerInv
  <2> QED
    BY <2>1 DEF VisibleAppearances, Entries, Partial, TypeInv, DownloadInv
<1>2. DOMAIN requested[v] \subseteq Players /\ Partial(requested[v], Players, Looks)
  BY PartialsAre DEF TypeInv, DownloadInv
<1> HIDE DEF missing
<1>3. S \in SUBSET Players
  BY <1>1, <1>2 DEF Entries
<1>4. ASSUME NEW w \in S
      PROVE  r[w] \in Looks
  <2>1. CASE \E entry \in missing : entry.peer = w
    <3>1. (CHOOSE entry \in missing : entry.peer = w) \in Entries
      BY <1>1, <2>1
    <3> QED
      BY <2>1, <3>1 DEF Entries
  <2>2. CASE ~ \E entry \in missing : entry.peer = w
    BY <1>2, <2>2 DEF Partial
  <2> QED
    BY <2>1, <2>2
<1>5. r \in Partials(Looks)
  <2>1. r \in [S -> Looks]
    BY <1>4
  <2> HIDE DEF S, r
  <2> QED
    BY <1>3, <2>1, IntoPartials
<1>6. /\ wanted' = [wanted EXCEPT ![v] = missing]
      /\ requested' = [requested EXCEPT ![v] = r]
      /\ \E phase \in {"upload", "download"} : worker' = [worker EXCEPT ![v] = phase]
      /\ UNCHANGED <<store, outfit, pending, uploaded, posted, fetched, interest, peers,
                      parked, near>>
  BY DEF PollRoster, Goes, missing
<1> HIDE DEF S, r
<1>7. DownloadInv'
  BY <1>1, <1>5, <1>6 DEF TypeInv, DownloadInv
<1>8. UploadInv'
  BY <1>6 DEF TypeInv, UploadInv
<1> QED
  BY <1>6, <1>7, <1>8 DEF TypeInv, ServerInv

LEMMA DownloadTypes ==
  ASSUME TypeInv, NEW v \in Players, NEW entry \in wanted[v],
         Download(v, entry) \/ DownloadFails(v, entry)
  PROVE  TypeInv'
<1>1. entry \in Entries
  BY DEF TypeInv, DownloadInv
<1>2. UploadInv'
  BY DEF TypeInv, UploadInv, Download, DownloadFails, Downloaded, Goes
<1>3. CASE Download(v, entry)
  <2>1. store' = Gotten(store, entry.look)
    BY <1>3 DEF Download
  <2>2. ServerInv'
    BY <2>1, GottenStore DEF TypeInv, ServerInv
  <2>3. Append(fetched[v], entry) \in Seq(Entries)
    BY <1>1 DEF TypeInv, DownloadInv
  <2>4. DownloadInv'
    BY <1>3, <2>3 DEF Download, Downloaded, TypeInv, DownloadInv
  <2> QED
    BY <1>2, <2>2, <2>4 DEF TypeInv
<1>4. CASE DownloadFails(v, entry)
  <2> DEFINE r == ReleasedRequest(v, entry)
             S == DOMAIN requested[v] \ {entry.peer}
  <2>1. requested[v] \in Partials(Looks)
    BY DEF TypeInv, DownloadInv
  <2>2. r \in Partials(Looks)
    <3>1. DOMAIN requested[v] \subseteq Players /\ Partial(requested[v], Players, Looks)
      BY <2>1, PartialsAre
    <3>2. S \in SUBSET Players /\ Restrict(requested[v], S) \in [S -> Looks]
      BY <3>1 DEF Partial, Restrict
    <3> HIDE DEF S
    <3>3. Restrict(requested[v], S) \in Partials(Looks)
      BY <3>2, IntoPartials
    <3> QED
      BY <2>1, <3>3 DEF ReleasedRequest, S
  <2> HIDE DEF r, S
  <2>3. DownloadInv'
    BY <1>4, <2>2 DEF DownloadFails, Downloaded, TypeInv, DownloadInv, r
  <2>4. ServerInv'
    BY <1>4 DEF DownloadFails, TypeInv, ServerInv
  <2> QED
    BY <1>2, <2>3, <2>4 DEF TypeInv
<1> QED
  BY <1>3, <1>4

LEMMA TypeStep ==
  ASSUME TypeInv, [Next]_vars
  PROVE  TypeInv'
<1>1. ASSUME UNCHANGED vars
      PROVE  TypeInv'
  BY <1>1 DEF vars, clientVars, TypeInv, ServerInv, UploadInv, DownloadInv
<1>2. ASSUME NEW p \in Players, Change(p) \/ Return(p)
      PROVE  TypeInv'
  <2>1. Len(Wardrobe[p]) \in Nat
    BY Wardrobes
  <2>2. \E n \in Nat : n <= Len(Wardrobe[p]) /\ outfit' = [outfit EXCEPT ![p] = n]
    <3>1. outfit[p] \in Nat /\ outfit[p] <= Len(Wardrobe[p])
      BY DEF TypeInv, UploadInv
    <3>2. CASE Change(p)
      <4>1. outfit[p] + 1 \in Nat /\ outfit[p] + 1 <= Len(Wardrobe[p])
        BY <2>1, <3>1, <3>2 DEF Change
      <4>2. outfit' = [outfit EXCEPT ![p] = outfit[p] + 1]
        BY <3>2 DEF Change
      <4> QED
        BY <4>1, <4>2
    <3>3. CASE Return(p)
      <4>1. outfit[p] - 1 \in Nat /\ outfit[p] - 1 <= Len(Wardrobe[p])
        BY <2>1, <3>1, <3>3 DEF Return
      <4>2. outfit' = [outfit EXCEPT ![p] = outfit[p] - 1]
        BY <3>3 DEF Return
      <4> QED
        BY <4>1, <4>2
    <3> QED
      BY <1>2, <3>2, <3>3
  <2>3. UNCHANGED <<store, clientVars, near>>
    BY <1>2 DEF Change, Return
  <2>4. UploadInv'
    BY <2>2, <2>3 DEF clientVars, TypeInv, UploadInv
  <2> QED
    BY <2>3, <2>4 DEF clientVars, TypeInv, ServerInv, DownloadInv
<1>3. ASSUME NEW p \in Players, GoAway(p) \/ ComeBack(p)
      PROVE  TypeInv'
  BY <1>3 DEF GoAway, ComeBack, clientVars, TypeInv, ServerInv, UploadInv, DownloadInv
<1>4. ASSUME NEW p \in Players, UploadAnswered(p) \/ RequestFails(p)
      PROVE  TypeInv'
  <2>1. UploadInv'
    <3>1. CASE UploadAnswered(p)
      <4>1. posted[p] \in Looks
        BY <3>1 DEF UploadAnswered, TypeInv, UploadInv
      <4> QED
        BY <3>1, <4>1 DEF UploadAnswered, Goes, TypeInv, UploadInv
    <3>2. CASE RequestFails(p)
      BY <3>2 DEF RequestFails, Goes, TypeInv, UploadInv
    <3> QED
      BY <1>4, <3>1, <3>2
  <2> QED
    BY <1>4, <2>1 DEF UploadAnswered, RequestFails, TypeInv, ServerInv, DownloadInv
<1> QED
  BY <1>1, <1>2, <1>3, <1>4, TickTypes, UploadTypes, PollTypes, DownloadTypes DEF Next, Worker

LEMMA TypeInvariant == Spec => []TypeInv
  BY InitTypes, TypeStep, PTL DEF Spec

(* Every variable of the clients and of the server keeps its type, and the
   store its bound: "the bound exists to cap idle history", and is exceeded
   only by what is worn and by what has just been put. *)
THEOREM AppearanceTypeOK == Spec => []TypeOK
  BY TypeInvariant, TypeInvTypes, PTL

-----------------------------------------------------------------------------
(* With any number of players, eviction never takes what somebody wears: a   *)
(* look that is gone was evicted before it was claimed.                     *)
THEOREM AppearanceEvictionSparesWorn ==
  Spec => [][Worn(store) \cap Stored(store) \subseteq Stored(store')]_vars
<1>1. ASSUME TypeInv, [Next]_vars
      PROVE  Worn(store) \cap Stored(store) \subseteq Stored(store')
  <2>1. CASE store'.blobs = store.blobs
    BY <2>1 DEF Stored
  <2>2. ASSUME NEW p \in Players, UploadPending(p)
        PROVE  Worn(store) \cap Stored(store) \subseteq Stored(store')
    <3>1. store' = Put(store, pending[p])
      BY <2>2 DEF UploadPending
    <3>2. IsFiniteSet(DOMAIN store.worn)
      BY <1>1, PartialsAre, ServiceBounds, FS_Subset DEF TypeInv, ServerInv
    <3> QED
      BY <1>1, <3>1, <3>2, PutStore DEF Stored, TypeInv, ServerInv
  <2>3. ASSUME NEW p \in Players, Claim(p)
        PROVE  store'.blobs = store.blobs
    <3>1. store' = SetRoleAppearance(store, p, posted[p])
      BY <2>3 DEF Claim
    <3>2. IsStore(store)
      BY <1>1 DEF TypeInv, ServerInv
    <3> QED
      BY <3>1, <3>2 DEF SetRoleAppearance, IsStore
  <2>4. ASSUME NEW v \in Players, NEW entry \in wanted[v], Download(v, entry)
        PROVE  store'.blobs = store.blobs
    BY <1>1, <2>4, GottenStore DEF Download, TypeInv, ServerInv
  <2>5. UNCHANGED store => store'.blobs = store.blobs
    OBVIOUS
  <2>6. \/ UNCHANGED store
        \/ \E p \in Players : UploadPending(p) \/ Claim(p)
        \/ \E v \in Players : \E entry \in wanted[v] : Download(v, entry)
    BY <1>1 DEF Next, Worker, vars, clientVars, Change, Return, GoAway, ComeBack, TickSome,
                Tick, RequestFails, UploadAnswered, PollRoster, DownloadFails
  <2> QED
    BY <2>1, <2>2, <2>3, <2>4, <2>5, <2>6
<1>2. TypeInv /\ [Next]_vars =>
        [Worn(store) \cap Stored(store) \subseteq Stored(store')]_vars
  BY <1>1
<1> QED
  BY <1>2, TypeInvariant, PTL DEF Spec

-----------------------------------------------------------------------------
(* What is worn.  An upload comes to the store in two steps.  What the first *)
(* has put there is safe until the second as long as nobody else puts        *)
(* anything there in between, that is where one player has looks to upload.  *)
OneDresser == \A p, q \in Dressers : p = q

WornInv ==
  /\ Worn(store) \subseteq store.blobs
  /\ \A p \in Players : pending[p] # Bare \/ worker[p] = "claim" => p \in Dressers
  /\ \A p \in Players : worker[p] = "claim" => posted[p] \in store.blobs

LEMMA InitWorn == Init => WornInv
BY DEF Init, NewStore, WornInv, Worn

\* Steps of the service that neither put nor claim.
LEMMA WornStands ==
  ASSUME WornInv, store'.worn = store.worn, store.blobs \subseteq store'.blobs,
         \A p \in Players : pending'[p] # Bare => pending[p] # Bare \/ p \in Dressers,
         \A p \in Players : worker'[p] = "claim" => worker[p] = "claim" /\ posted'[p] = posted[p]
  PROVE  WornInv'
BY DEF WornInv, Worn

LEMMA WornStep ==
  ASSUME OneDresser, TypeInv, WornInv, [Next]_vars
  PROVE  WornInv'
<1>1. CASE UNCHANGED vars
  BY <1>1, WornStands DEF vars, clientVars
<1>2. ASSUME NEW p \in Players, Change(p) \/ Return(p) \/ GoAway(p) \/ ComeBack(p)
      PROVE  WornInv'
  BY <1>2, WornStands DEF Change, Return, GoAway, ComeBack, clientVars
<1>3. ASSUME NEW v \in Players, TickSome(v)
      PROVE  WornInv'
  <2>1. /\ pending' = [pending EXCEPT ![v] = Published(v)]
        /\ UNCHANGED <<store, worker, posted>>
    BY <1>3 DEF TickSome, Tick
  <2>2. Published(v) # Bare => pending[v] # Bare \/ v \in Dressers
    <3>1. Look(v) # Bare => outfit[v] # 0
      BY DEF Look
    <3>2. outfit[v] # 0 => v \in Dressers
      BY Wardrobes DEF TypeInv, UploadInv, Dressers
    <3> QED
      BY <3>1, <3>2 DEF Published
  <2> QED
    BY <2>1, <2>2, WornStands DEF TypeInv, UploadInv
<1>4. ASSUME NEW p \in Players, UploadPending(p)
      PROVE  WornInv'
  <2>1. /\ store' = Put(store, pending[p]) /\ pending' = pending /\ pending[p] # Bare
        /\ posted' = [posted EXCEPT ![p] = pending[p]]
        /\ worker' = [worker EXCEPT ![p] = "claim"]
    BY <1>4 DEF UploadPending, Goes
  <2>2. IsFiniteSet(DOMAIN store.worn)
    BY PartialsAre, ServiceBounds, FS_Subset DEF TypeInv, ServerInv
  <2>3. /\ store'.worn = store.worn
        /\ pending[p] \in store'.blobs
        /\ Worn(store) \cap store.blobs \subseteq store'.blobs
    BY <2>1, <2>2, PutStore DEF TypeInv, ServerInv
  <2>4. p \in Dressers
    BY <2>1 DEF WornInv
  <2>5. \A q \in Players \ {p} : worker'[q] # "claim"
    BY <2>1, <2>4 DEF OneDresser, WornInv, TypeInv, UploadInv
  <2>6. posted'[p] = pending[p]
    BY <2>1 DEF TypeInv, UploadInv
  <2>7. Worn(store') = Worn(store)
    BY <2>3 DEF Worn
  <2> QED
    BY <2>1, <2>3, <2>4, <2>5, <2>6, <2>7 DEF WornInv
<1>5. ASSUME NEW p \in Players, Claim(p)
      PROVE  WornInv'
  <2>1. /\ store' = SetRoleAppearance(store, p, posted[p]) /\ worker[p] = "claim"
        /\ UNCHANGED <<pending, posted>>
        /\ worker' = [worker EXCEPT ![p] = "answer"]
    BY <1>5 DEF Claim, Goes
  <2>2. IsFiniteSet(DOMAIN store.worn)
    BY PartialsAre, ServiceBounds, FS_Subset DEF TypeInv, ServerInv
  <2>3. /\ store'.blobs = store.blobs
        /\ store'.worn = [q \in DOMAIN store.worn \cup {p} |->
                            IF q = p THEN posted[p] ELSE store.worn[q]]
    <3>1. IsStore(store) /\ Bounded(store)
      BY DEF TypeInv, ServerInv
    <3>2. store' = SetRoleAppearance(store, p, posted[p])
      BY <2>1
    <3>3. /\ IsStore(store') /\ Bounded(store')
          /\ store'.blobs = store.blobs
          /\ store'.worn = [q \in DOMAIN store.worn \cup {p} |->
                              IF q = p THEN posted[p] ELSE store.worn[q]]
      BY <2>2, <3>1, <3>2, ClaimedStore
    <3> QED
      BY <3>3
  <2>4. Worn(store') \subseteq Worn(store) \cup {posted[p]}
    BY <2>3 DEF Worn
  <2>5. Worn(store') \subseteq store'.blobs
    BY <2>1, <2>3, <2>4 DEF WornInv
  <2> QED
    BY <2>1, <2>3, <2>5 DEF WornInv, TypeInv, UploadInv
<1>6. ASSUME NEW p \in Players, UploadAnswered(p) \/ RequestFails(p)
      PROVE  WornInv'
  BY <1>6, WornStands DEF UploadAnswered, RequestFails, Goes, TypeInv, UploadInv
<1>7. ASSUME NEW v \in Players, PollRoster(v)
      PROVE  WornInv'
  BY <1>7, WornStands DEF PollRoster, Goes, TypeInv, UploadInv
<1>8. ASSUME NEW v \in Players, NEW entry \in wanted[v],
             Download(v, entry) \/ DownloadFails(v, entry)
      PROVE  WornInv'
  <2>1. store'.worn = store.worn /\ store'.blobs = store.blobs
    BY <1>8, GottenStore DEF Download, DownloadFails, TypeInv, ServerInv
  <2>2. UNCHANGED <<pending, posted>>
    BY <1>8 DEF Download, DownloadFails
  <2>3. \A q \in Players : worker'[q] = "claim" => worker[q] = "claim"
    BY <1>8 DEF Download, DownloadFails, Downloaded, Goes, TypeInv, UploadInv
  <2> QED
    BY <2>1, <2>2, <2>3, WornStands
<1> QED
  BY <1>1, <1>2, <1>3, <1>4, <1>5, <1>6, <1>7, <1>8 DEF Next, Worker

(* Where one player uploads, whatever looks he changes to and back, and
   whatever the others download or fail to: the look that the roster has of him
   is stored.  With several, TLC finds it evicted before it is claimed. *)
THEOREM AppearanceWornLooksAreStored == OneDresser => (Spec => []WornLooksAreStored)
<1> SUFFICES ASSUME OneDresser PROVE Spec => []WornLooksAreStored
  OBVIOUS
<1>1. TypeInv /\ WornInv /\ [Next]_vars => TypeInv' /\ WornInv'
  BY TypeStep, WornStep
<1>2. Init => TypeInv /\ WornInv
  BY InitTypes, InitWorn
<1>3. WornInv => WornLooksAreStored
  BY DEF WornInv, WornLooksAreStored, Stored
<1> QED
  BY <1>1, <1>2, <1>3, PTL DEF Spec
=============================================================================
