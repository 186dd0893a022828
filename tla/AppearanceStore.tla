-------------------------- MODULE AppearanceStore ---------------------------
(***************************************************************************)
(* The server's store of looks, as operators on a store value              *)
(* (src/skate3_appearance_store.h).  A store is [blobs, older, worn]:      *)
(* `blobs` is the looks it holds, `older` their order by last_touch as     *)
(* pairs of an earlier and a later one, `worn` maps a dressed player to    *)
(* the look the server believes it wears.  A look stands for its content   *)
(* id and its bytes.                                                       *)
(***************************************************************************)
EXTENDS Integers, FiniteSets

CONSTANT Capacity   \* the constructor's `capacity`: four times max_players

ASSUME CapacityAssumption == Capacity \in Nat \ {0}

NewStore == [blobs |-> {}, older |-> {}, worn |-> << >>]

\* last_touch is another for every look.
IsTouchOrder(order, looks) ==
  /\ order \subseteq looks \X looks
  /\ \A k, l \in looks : <<k, l>> \in order <=> k # l /\ <<l, k>> \notin order
  /\ \A j, k, l \in looks : {<<j, k>>, <<k, l>>} \subseteq order => <<j, l>> \in order

Stored(store) == store.blobs
Worn(store) == {store.worn[p] : p \in DOMAIN store.worn}

\* The order without that of some looks.
Forgetting(order, looks) == {pair \in order : looks \cap {pair[1], pair[2]} = {}}

\* A look becomes the newest, be it held already or not.
Touched(store, look) ==
  [store EXCEPT !.blobs = @ \cup {look},
                !.older = Forgetting(@, {look}) \cup ((store.blobs \ {look}) \X {look})]

\* MUTANT. The oldest goes, worn or not.
IdleOrWorn(store) == {l \in store.blobs : \E k \in store.blobs : <<l, k>> \in store.older}

\* What eviction may take: not the newest, and worn by nobody.
Idle(store) ==
  {l \in store.blobs \ Worn(store) : \E k \in store.blobs : <<l, k>> \in store.older}

\* MUTANT. The search for a victim ends at a look that is worn.
TrimmedBelowWorn(store) ==
  LET excess == Cardinality(store.blobs) - Capacity
      Before(l) == {k \in store.blobs : <<k, l>> \in store.older}
      victims == {l \in Idle(store) :
                    Before(l) \subseteq Idle(store) /\ Cardinality(Before(l)) < excess}
  IN  [store EXCEPT !.blobs = @ \ victims, !.older = Forgetting(@, victims)]

\* EvictLocked: the oldest idle looks, down to the capacity.
Trimmed(store) ==
  LET excess == Cardinality(store.blobs) - Capacity
      victims == {l \in Idle(store) :
                    Cardinality({k \in Idle(store) : <<k, l>> \in store.older}) < excess}
  IN  [store EXCEPT !.blobs = @ \ victims, !.older = Forgetting(@, victims)]

Put(store, look) ==
  IF look \in Stored(store) THEN Touched(store, look) ELSE Trimmed(Touched(store, look))

\* Get touches what it finds.
Gotten(store, look) ==
  IF look \in Stored(store) THEN Touched(store, look) ELSE store

SetRoleAppearance(store, player, look) ==
  [store EXCEPT !.worn =
     [p \in DOMAIN @ \cup {player} |-> IF p = player THEN look ELSE @[p]]]
=============================================================================
