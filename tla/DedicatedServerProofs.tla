----------------------- MODULE DedicatedServerProofs -----------------------
(***************************************************************************)
(* The server's theorems: the allocator, the router and what scripts were  *)
(* told agree on every id, and a player's scopes end with it.              *)
(*                                                                         *)
(* None of the three is inductive alone.  Agree adds what ties them: ids   *)
(* in use were issued, and scripts have heard nothing of the rest.         *)
(***************************************************************************)
EXTENDS DedicatedServer, FiniteSetTheorems, TLAPS

-----------------------------------------------------------------------------
(* Router values: what each operation does to who holds which role.        *)

Good(r) == IsRouter(r) /\ Inverses(r)

\* Two routers in which the same connections hold the same roles.
SameIds(r, s) ==
  /\ s.roles = r.roles
  /\ DOMAIN s.peers = DOMAIN r.peers
  /\ \A c \in DOMAIN r.peers : s.peers[c].role = r.peers[c].role

LEMMA SameIdsGood ==
  ASSUME NEW r, Good(r), NEW s, SameIds(r, s), s = [peers |-> s.peers, roles |-> s.roles],
         \A c \in DOMAIN s.peers : s.peers[c] \in Peers
  PROVE  Good(s)
BY DEF Good, IsRouter, Inverses, SameIds

(* Rewriting one peer under its role. *)
LEMMA AmendSameIds ==
  ASSUME NEW r, Good(r), NEW c \in DOMAIN r.peers,
         NEW p \in Peers, p.role = r.peers[c].role
  PROVE  Good(Amend(r, c, p)) /\ SameIds(r, Amend(r, c, p))
<1>1. Amend(r, c, p) = [peers |-> [r.peers EXCEPT ![c] = p], roles |-> r.roles]
  BY DEF Amend, Good, IsRouter
<1>2. SameIds(r, Amend(r, c, p))
  BY <1>1 DEF SameIds
<1> QED BY <1>1, <1>2, SameIdsGood DEF Good, IsRouter

(* Hearing from a connection, known or not. *)
LEMMA TouchSameIds ==
  ASSUME NEW r, Good(r), NEW c
  PROVE  Good(Touch(r, c)) /\ SameIds(r, Touch(r, c))
<1>1. CASE c \notin DOMAIN r.peers
  BY <1>1 DEF Touch, SameIds
<1>2. CASE c \in DOMAIN r.peers
  <2> DEFINE p == [r.peers[c] EXCEPT !.age = 0]
  <2>1. r.peers[c] \in Peers
    BY <1>2 DEF Good, IsRouter
  <2>2. p \in Peers /\ p.role = r.peers[c].role
    BY <2>1, RoutingLimits DEF Peers
  <2> QED BY <1>2, <2>2, AmendSameIds DEF Touch
<1> QED BY <1>1, <1>2

(* A beacon of a connection, known or not. *)
LEMMA PresenceSameIds ==
  ASSUME NEW r, Good(r), NEW c, NEW map \in Maps, NEW x \in Positions
  PROVE  Good(UpdatePresence(r, c, map, x)) /\ SameIds(r, UpdatePresence(r, c, map, x))
<1>1. CASE c \notin DOMAIN r.peers
  BY <1>1 DEF UpdatePresence, SameIds
<1>2. CASE c \in DOMAIN r.peers
  <2> DEFINE p == [r.peers[c] EXCEPT !.map = map, !.x = x, !.located = TRUE, !.age = 0]
  <2>1. UpdatePresence(r, c, map, x) = Amend(r, c, p)
    BY <1>2 DEF UpdatePresence
  <2>2. r.peers[c] \in Peers
    BY <1>2 DEF Good, IsRouter
  <2>3. x \in Int /\ 0 \in 0 .. StaleTimeout + 1
    BY RoutingLimits
  <2> HIDE DEF p
  <2>4. p \in Peers
    BY <2>2, <2>3 DEF Peers, p
  <2>5. p.role = r.peers[c].role
    BY <2>2 DEF Peers, p
  <2> QED BY <1>2, <2>1, <2>4, <2>5, AmendSameIds
<1> QED BY <1>1, <1>2

(* A move to another bucket, of a role that is there or not. *)
LEMMA SetBucketSameIds ==
  ASSUME NEW r, Good(r), NEW role, NEW bucket \in Buckets
  PROVE  Good(SetBucket(r, role, bucket)) /\ SameIds(r, SetBucket(r, role, bucket))
<1>1. CASE ~ Findable(r, role)
  BY <1>1 DEF SetBucket, SameIds
<1>2. CASE Findable(r, role)
  <2> DEFINE c == ConnectionForRole(r, role)
             p == [r.peers[c] EXCEPT !.bucket = bucket]
  <2>1. c \in DOMAIN r.peers
    BY <1>2 DEF Findable
  <2>2. r.peers[c] \in Peers
    BY <2>1 DEF Good, IsRouter
  <2>3. p \in Peers /\ p.role = r.peers[c].role
    BY <2>2 DEF Peers
  <2>4. SetBucket(r, role, bucket) = Amend(r, c, p)
    BY <1>2 DEF SetBucket
  <2> HIDE DEF c, p
  <2> QED BY <2>1, <2>3, <2>4, AmendSameIds
<1> QED BY <1>1, <1>2

(* A name, of a role that is there or not. *)
LEMMA SetNameSameIds ==
  ASSUME NEW r, Good(r), NEW role, NEW name \in Names
  PROVE  Good(SetName(r, role, name)) /\ SameIds(r, SetName(r, role, name))
<1>1. CASE ~ Findable(r, role)
  BY <1>1 DEF SetName, SameIds
<1>2. CASE Findable(r, role)
  <2> DEFINE c == ConnectionForRole(r, role)
             p == [r.peers[c] EXCEPT !.name = name]
  <2>1. c \in DOMAIN r.peers
    BY <1>2 DEF Findable
  <2>2. r.peers[c] \in Peers
    BY <2>1 DEF Good, IsRouter
  <2>3. p \in Peers /\ p.role = r.peers[c].role
    BY <2>2 DEF Peers
  <2>4. SetName(r, role, name) = Amend(r, c, p)
    BY <1>2 DEF SetName
  <2> HIDE DEF c, p
  <2> QED BY <2>1, <2>3, <2>4, AmendSameIds
<1> QED BY <1>1, <1>2

(* Time passing, and counting crowds. *)
LEMMA OlderSameIds ==
  ASSUME NEW r, Good(r)
  PROVE  Good(Older(r)) /\ SameIds(r, Older(r))
<1>1. Older(r) = [peers |-> [c \in DOMAIN r.peers |->
                    [r.peers[c] EXCEPT !.age = IF @ > StaleTimeout THEN @ ELSE @ + 1]],
                  roles |-> r.roles]
  BY DEF Older, Good, IsRouter
<1>2. \A c \in DOMAIN r.peers : /\ Older(r).peers[c] \in Peers
                               /\ Older(r).peers[c].role = r.peers[c].role
  BY <1>1, RoutingLimits DEF Good, IsRouter, Peers
<1>3. SameIds(r, Older(r))
  BY <1>1, <1>2 DEF SameIds
<1> QED BY <1>1, <1>2, <1>3, SameIdsGood

LEMMA RefreshSameIds ==
  ASSUME NEW r, Good(r)
  PROVE  Good(RefreshCrowdCounts(r)) /\ SameIds(r, RefreshCrowdCounts(r))
<1> DEFINE count(c) == IF HighDistance = 0 THEN 0 ELSE Cardinality(Crowd(r.peers, c))
<1>1. RefreshCrowdCounts(r) =
        [peers |-> [c \in DOMAIN r.peers |-> [r.peers[c] EXCEPT !.neighbours = count(c)]],
         roles |-> r.roles]
  BY DEF RefreshCrowdCounts, Good, IsRouter
<1>2. \A c : count(c) \in Nat
  <2>1. \A c : Crowd(r.peers, c) \subseteq Connections
    BY DEF Crowd, Good, IsRouter
  <2> QED BY <2>1, RoutingLimits, FS_Subset, FS_CardinalityType
<1> HIDE DEF count
<1>3. \A c \in DOMAIN r.peers :
        /\ RefreshCrowdCounts(r).peers[c] \in Peers
        /\ RefreshCrowdCounts(r).peers[c].role = r.peers[c].role
  BY <1>1, <1>2 DEF Good, IsRouter, Peers
<1>4. SameIds(r, RefreshCrowdCounts(r))
  BY <1>1, <1>3 DEF SameIds
<1> QED BY <1>1, <1>3, <1>4, SameIdsGood

(* A registration that collides with nobody adds one pair. *)
LEMMA RegisterAdds ==
  ASSUME NEW r, Good(r), NEW c \in Connections, NEW role \in Roles,
         NEW session \in Sessions,
         \/ c \in DOMAIN r.peers /\ r.peers[c].role = role
         \/ c \notin DOMAIN r.peers /\ role \notin DOMAIN r.roles
  PROVE  LET s == Register(r, c, NewPeer(role, session))
         IN  /\ Good(s)
             /\ s.roles = With(r.roles, role, c)
             /\ s.peers = With(r.peers, c, NewPeer(role, session))
             /\ DOMAIN s.roles = DOMAIN r.roles \cup {role}
             /\ DOMAIN s.peers = DOMAIN r.peers \cup {c}
             /\ s.peers[c].role = role
             /\ \A d \in DOMAIN r.peers : s.peers[d].role = r.peers[d].role
<1> DEFINE p == NewPeer(role, session)
           s == Register(r, c, p)
<1>1. p.role = role
  BY DEF NewPeer
<1> HIDE DEF p
<1>2. s = [peers |-> With(r.peers, c, p), roles |-> With(r.roles, role, c)]
  BY <1>1 DEF Register, Enter, Good, IsRouter, Inverses
<1>3. /\ DOMAIN s.roles = DOMAIN r.roles \cup {role}
      /\ DOMAIN s.peers = DOMAIN r.peers \cup {c}
      /\ s.peers[c] = p
      /\ \A d \in DOMAIN r.peers \ {c} : s.peers[d] = r.peers[d]
  BY <1>2 DEF With
<1>4. \A d \in DOMAIN r.peers : s.peers[d].role = r.peers[d].role
  BY <1>1, <1>3 DEF Good, Inverses
<1>5. \A q \in DOMAIN s.roles : s.roles[q] = IF q = role THEN c ELSE r.roles[q]
  BY <1>2 DEF With
<1>6. p \in Peers
  BY RoutingLimits DEF NewPeer, Peers, p
<1>7. Good(s)
  BY <1>1, <1>2, <1>3, <1>4, <1>5, <1>6 DEF Good, IsRouter, Inverses
<1> QED BY <1>1, <1>2, <1>3, <1>4, <1>7 DEF p

(* Removal and eviction take away connections with their roles. *)
LEMMA TakingKeepsGood ==
  ASSUME NEW r, Good(r), NEW gone \in SUBSET DOMAIN r.peers
  PROVE  Good([peers |-> Restrict(r.peers, DOMAIN r.peers \ gone),
               roles |-> Restrict(r.roles, DOMAIN r.roles \ {r.peers[c].role : c \in gone})])
<1> DEFINE s == [peers |-> Restrict(r.peers, DOMAIN r.peers \ gone),
                 roles |-> Restrict(r.roles,
                             DOMAIN r.roles \ {r.peers[c].role : c \in gone})]
<1>1. /\ DOMAIN s.peers = DOMAIN r.peers \ gone
      /\ \A d \in DOMAIN s.peers : s.peers[d] = r.peers[d]
      /\ DOMAIN s.roles = DOMAIN r.roles \ {r.peers[c].role : c \in gone}
      /\ \A q \in DOMAIN s.roles : s.roles[q] = r.roles[q]
      /\ s = [peers |-> s.peers, roles |-> s.roles]
  BY DEF Restrict
<1> HIDE DEF s
<1>2. IsRouter(s)
  BY <1>1 DEF Good, IsRouter
<1>3. Inverses(s)
  BY <1>1 DEF Good, Inverses
<1> QED BY <1>2, <1>3 DEF Good, s

LEMMA RemoveTakes ==
  ASSUME NEW r, Good(r), NEW c \in DOMAIN r.peers
  PROVE  LET s == Remove(r, c)
         IN  /\ Good(s)
             /\ s.peers = Restrict(r.peers, DOMAIN r.peers \ {c})
             /\ s.roles = Restrict(r.roles, DOMAIN r.roles \ {r.peers[c].role})
<1>1. {r.peers[c].role} = {r.peers[d].role : d \in {c}}
  OBVIOUS
<1>2. Remove(r, c) = [peers |-> Restrict(r.peers, DOMAIN r.peers \ {c}),
                      roles |-> Restrict(r.roles, DOMAIN r.roles \ {r.peers[c].role})]
  BY DEF Remove, Without
<1>3. {c} \in SUBSET DOMAIN r.peers
  OBVIOUS
<1>4. Good([peers |-> Restrict(r.peers, DOMAIN r.peers \ {c}),
            roles |-> Restrict(r.roles, DOMAIN r.roles \ {r.peers[d].role : d \in {c}})])
  BY <1>3, TakingKeepsGood
<1>5. Good(Remove(r, c))
  BY <1>1, <1>2, <1>4
<1> QED BY <1>2, <1>5

LEMMA RemoveStaleTakes ==
  ASSUME NEW r, Good(r)
  PROVE  LET s == RemoveStale(r)
         IN  /\ Good(s)
             /\ s.peers = Restrict(r.peers, DOMAIN r.peers \ Stale(r))
             /\ s.roles = Restrict(r.roles,
                  DOMAIN r.roles \ {r.peers[c].role : c \in Stale(r)})
<1>1. Stale(r) \in SUBSET DOMAIN r.peers
  BY DEF Stale
<1> QED BY <1>1, TakingKeepsGood DEF RemoveStale

-----------------------------------------------------------------------------
(* Who was heard from since the last tick.                                 *)

\* Whoever r has just heard from, s has too.
StaysFresh(r, s) ==
  \A c \in DOMAIN r.peers :
    r.peers[c].age = 0 => c \in DOMAIN s.peers /\ s.peers[c].age = 0

LEMMA AmendStaysFresh ==
  ASSUME NEW r, Good(r), NEW c \in DOMAIN r.peers,
         NEW p, p.age \in {0, r.peers[c].age}
  PROVE  StaysFresh(r, Amend(r, c, p))
<1>1. Amend(r, c, p).peers = [r.peers EXCEPT ![c] = p]
  BY DEF Amend, Good, IsRouter
<1> QED
  BY <1>1 DEF StaysFresh

LEMMA TouchStaysFresh ==
  ASSUME NEW r, Good(r), NEW c
  PROVE  StaysFresh(r, Touch(r, c))
<1>1. CASE c \notin DOMAIN r.peers
  BY <1>1 DEF Touch, StaysFresh
<1>2. CASE c \in DOMAIN r.peers
  <2> DEFINE p == [r.peers[c] EXCEPT !.age = 0]
  <2>1. p.age = 0
    BY <1>2 DEF Good, IsRouter, Peers
  <2>2. Touch(r, c) = Amend(r, c, p)
    BY <1>2 DEF Touch
  <2> HIDE DEF p
  <2> QED
    BY <1>2, <2>1, <2>2, AmendStaysFresh
<1> QED
  BY <1>1, <1>2

LEMMA PresenceStaysFresh ==
  ASSUME NEW r, Good(r), NEW c, NEW map, NEW x
  PROVE  StaysFresh(r, UpdatePresence(r, c, map, x))
<1>1. CASE c \notin DOMAIN r.peers
  BY <1>1 DEF UpdatePresence, StaysFresh
<1>2. CASE c \in DOMAIN r.peers
  <2> DEFINE p == [r.peers[c] EXCEPT !.map = map, !.x = x, !.located = TRUE, !.age = 0]
  <2>1. p.age = 0
    BY <1>2 DEF Good, IsRouter, Peers
  <2>2. UpdatePresence(r, c, map, x) = Amend(r, c, p)
    BY <1>2 DEF UpdatePresence
  <2> HIDE DEF p
  <2> QED
    BY <1>2, <2>1, <2>2, AmendStaysFresh
<1> QED
  BY <1>1, <1>2

LEMMA SetBucketStaysFresh ==
  ASSUME NEW r, Good(r), NEW role, NEW bucket
  PROVE  StaysFresh(r, SetBucket(r, role, bucket))
<1>1. CASE ~ Findable(r, role)
  BY <1>1 DEF SetBucket, StaysFresh
<1>2. CASE Findable(r, role)
  <2> DEFINE c == ConnectionForRole(r, role)
             p == [r.peers[c] EXCEPT !.bucket = bucket]
  <2>1. c \in DOMAIN r.peers /\ SetBucket(r, role, bucket) = Amend(r, c, p)
    BY <1>2 DEF SetBucket, Findable
  <2> HIDE DEF c
  <2>2. p.age = r.peers[c].age
    BY <2>1 DEF Good, IsRouter, Peers
  <2> HIDE DEF p
  <2> QED
    BY <2>1, <2>2, AmendStaysFresh
<1> QED
  BY <1>1, <1>2

LEMMA SetNameStaysFresh ==
  ASSUME NEW r, Good(r), NEW role, NEW name
  PROVE  StaysFresh(r, SetName(r, role, name))
<1>1. CASE ~ Findable(r, role)
  BY <1>1 DEF SetName, StaysFresh
<1>2. CASE Findable(r, role)
  <2> DEFINE c == ConnectionForRole(r, role)
             p == [r.peers[c] EXCEPT !.name = name]
  <2>1. c \in DOMAIN r.peers /\ SetName(r, role, name) = Amend(r, c, p)
    BY <1>2 DEF SetName, Findable
  <2> HIDE DEF c
  <2>2. p.age = r.peers[c].age
    BY <2>1 DEF Good, IsRouter, Peers
  <2> HIDE DEF p
  <2> QED
    BY <2>1, <2>2, AmendStaysFresh
<1> QED
  BY <1>1, <1>2

LEMMA RefreshStaysFresh ==
  ASSUME NEW r, Good(r)
  PROVE  StaysFresh(r, RefreshCrowdCounts(r))
<1> DEFINE count(c) == IF HighDistance = 0 THEN 0 ELSE Cardinality(Crowd(r.peers, c))
<1>1. RefreshCrowdCounts(r) =
        [peers |-> [c \in DOMAIN r.peers |-> [r.peers[c] EXCEPT !.neighbours = count(c)]],
         roles |-> r.roles]
  BY DEF RefreshCrowdCounts, Good, IsRouter
<1> HIDE DEF count
<1>2. \A c \in DOMAIN r.peers : RefreshCrowdCounts(r).peers[c].age = r.peers[c].age
  BY <1>1 DEF Good, IsRouter, Peers
<1> QED
  BY <1>1, <1>2 DEF StaysFresh

(* A sweep evicts nobody who was just heard from. *)
LEMMA SweepStaysFresh ==
  ASSUME NEW r, Good(r)
  PROVE  StaysFresh(r, RefreshCrowdCounts(RemoveStale(r)))
<1> DEFINE s == RemoveStale(r)
<1>1. Good(s) /\ s.peers = Restrict(r.peers, DOMAIN r.peers \ Stale(r))
  BY RemoveStaleTakes
<1>2. \A c \in DOMAIN r.peers : r.peers[c].age = 0 => c \notin Stale(r)
  BY RoutingLimits DEF Stale
<1>3. \A c \in DOMAIN r.peers : r.peers[c].age = 0 => c \in DOMAIN s.peers /\ s.peers[c].age = 0
  BY <1>1, <1>2 DEF Restrict
<1> HIDE DEF s
<1>4. StaysFresh(s, RefreshCrowdCounts(s))
  BY <1>1, RefreshStaysFresh
<1> QED
  BY <1>3, <1>4 DEF StaysFresh, s

-----------------------------------------------------------------------------
(* Ids.                                                                    *)

Issued ==
  /\ \A q \in DOMAIN router.roles : q < nextRole
  /\ \A q \in Roles : q >= nextRole => told[q] = "nothing"

Agree == AllocationsMatchPeers /\ ScriptsKnowEveryPlayer /\ Issued

Inv == TypeOK /\ Good(router) /\ Agree

identity == <<router, assigned, nextRole, told>>

(* A step that renames nobody and tells scripts nothing keeps the agreement. *)
LEMMA SameIdsAgree ==
  ASSUME Inv, SameIds(router, router'), UNCHANGED <<assigned, nextRole, told>>
  PROVE  Agree'
BY DEF Inv, Agree, SameIds, AllocationsMatchPeers, ScriptsKnowEveryPlayer, Issued,
       HasRole

(* As does one that touches none of it. *)
LEMMA QuietAgree ==
  ASSUME Inv, UNCHANGED identity
  PROVE  Agree' /\ Good(router')
<1>1. router' = router /\ assigned' = assigned /\ nextRole' = nextRole /\ told' = told
  BY DEF identity
<1>2. Good(router')
  BY <1>1 DEF Inv
<1>3. SameIds(router, router')
  BY <1>1 DEF SameIds
<1> QED BY <1>1, <1>2, <1>3, SameIdsAgree DEF identity

(* Ids that end: their connections leave the router and the allocator, and *)
(* scripts are told.                                                       *)
LEMMA EndingAgree ==
  ASSUME Inv, NEW gone \in SUBSET DOMAIN router.peers,
         DOMAIN router'.peers = DOMAIN router.peers \ gone,
         \A c \in DOMAIN router'.peers : router'.peers[c].role = router.peers[c].role,
         DOMAIN router'.roles =
           DOMAIN router.roles \ {router.peers[c].role : c \in gone},
         DOMAIN assigned' = DOMAIN assigned \ gone,
         \A c \in DOMAIN assigned' : assigned'[c] = assigned[c],
         told' = [r \in Roles |->
           IF r \in {router.peers[c].role : c \in gone} THEN "dropped" ELSE told[r]],
         nextRole' = nextRole
  PROVE  Agree'
<1> DEFINE ended == {router.peers[c].role : c \in gone}
<1>1. DOMAIN router'.roles = DOMAIN router.roles \ ended
  OBVIOUS
<1>2. AllocationsMatchPeers'
  BY DEF Inv, Agree, AllocationsMatchPeers
<1>3. ended \subseteq DOMAIN router.roles
  BY DEF Inv, Good, Inverses
<1>4. ScriptsKnowEveryPlayer'
  BY <1>1, <1>3 DEF Inv, Agree, ScriptsKnowEveryPlayer, HasRole
<1>5. Issued'
  <2>1. \A q \in DOMAIN router'.roles : q < nextRole'
    BY <1>1 DEF Inv, Agree, Issued
  <2>2. ASSUME NEW q \in Roles, q >= nextRole
        PROVE  told'[q] = "nothing"
    <3>1. q \notin DOMAIN router.roles
      BY <2>2 DEF Inv, Agree, Issued, TypeOK, Roles
    <3> QED BY <1>3, <2>2, <3>1 DEF Inv, Agree, Issued
  <2> QED BY <2>1, <2>2 DEF Issued
<1> QED BY <1>2, <1>4, <1>5 DEF Agree

(* What a registration does when an id is at hand: Assign returns the id   *)
(* the connection holds, or one nobody has ever held.                      *)
LEMMA AssignIsFresh ==
  ASSUME Inv, NEW c \in Connections, Assign(c) # 0
  PROVE  /\ Assign(c) \in Roles
         /\ \/ /\ c \in DOMAIN assigned
               /\ c \in DOMAIN router.peers /\ router.peers[c].role = Assign(c)
               /\ Assign(c) < nextRole
            \/ /\ c \notin DOMAIN assigned /\ c \notin DOMAIN router.peers
               /\ Assign(c) = nextRole /\ Assign(c) \notin DOMAIN router.roles
<1>1. CASE c \in DOMAIN assigned
  <2>1. c \in DOMAIN router.peers /\ router.peers[c].role = assigned[c]
    BY <1>1 DEF Inv, Agree, AllocationsMatchPeers
  <2>2. assigned[c] \in DOMAIN router.roles
    BY <2>1 DEF Inv, Good, Inverses
  <2> QED BY <1>1, <2>1, <2>2 DEF Assign, Inv, TypeOK, Agree, Issued
<1>2. CASE c \notin DOMAIN assigned
  <2>1. Assign(c) = nextRole /\ nextRole <= MaximumRole
    BY <1>2, RoutingLimits DEF Assign, Inv, TypeOK
  <2> QED BY <1>2, <2>1, RoutingLimits
          DEF Inv, TypeOK, Agree, Issued, AllocationsMatchPeers, Roles
<1> QED BY <1>1, <1>2

LEMMA RegisterAgree ==
  ASSUME Inv, NEW c \in Connections, ReceiveRegister(c)
  PROVE  Agree' /\ Good(router')
<1>1. PICK session \in Sessions :
        LET role == Assign(c) IN
          IF role = 0
          THEN router' = Touch(router, c) /\ UNCHANGED <<acks, allocator, told>>
          ELSE /\ router' = Register(router, c, NewPeer(role, session))
               /\ assigned' = With(assigned, c, role)
               /\ nextRole' = IF c \in DOMAIN assigned THEN nextRole ELSE nextRole + 1
               /\ acks' = acks \cup Answer(c, role)
               /\ told' = [told EXCEPT ![role] = "connecting"]
  BY DEF ReceiveRegister
<1> DEFINE role == Assign(c)
<1>2. CASE role = 0
  <2>1. router' = Touch(router, c) /\ UNCHANGED <<assigned, nextRole, told>>
    BY <1>1, <1>2 DEF allocator
  <2>2. Good(router') /\ SameIds(router, router')
    BY <2>1, TouchSameIds DEF Inv
  <2> QED BY <2>1, <2>2, SameIdsAgree
<1>3. CASE role # 0
  <2>1. /\ router' = Register(router, c, NewPeer(role, session))
        /\ assigned' = With(assigned, c, role)
        /\ nextRole' = IF c \in DOMAIN assigned THEN nextRole ELSE nextRole + 1
        /\ told' = [told EXCEPT ![role] = "connecting"]
    BY <1>1, <1>3
  <2>2. /\ role \in Roles
        /\ \/ /\ c \in DOMAIN assigned
              /\ c \in DOMAIN router.peers /\ router.peers[c].role = role
              /\ role < nextRole
           \/ /\ c \notin DOMAIN assigned /\ c \notin DOMAIN router.peers
              /\ role = nextRole /\ role \notin DOMAIN router.roles
    BY <1>3, AssignIsFresh
  <2> HIDE DEF role
  <2>3. Good(router')
    BY <2>1, <2>2, RegisterAdds DEF Inv
  <2>4. /\ DOMAIN router'.roles = DOMAIN router.roles \cup {role}
        /\ DOMAIN router'.peers = DOMAIN router.peers \cup {c}
        /\ router'.peers[c].role = role
        /\ \A d \in DOMAIN router.peers : router'.peers[d].role = router.peers[d].role
    BY <2>1, <2>2, RegisterAdds DEF Inv
  <2>5. /\ DOMAIN assigned' = DOMAIN assigned \cup {c}
        /\ assigned'[c] = role
        /\ \A d \in DOMAIN assigned \ {c} : assigned'[d] = assigned[d]
    BY <2>1 DEF With
  <2>6. AllocationsMatchPeers'
    BY <2>4, <2>5 DEF Inv, Agree, AllocationsMatchPeers
  <2>7. told' \in [Roles -> {"nothing", "connecting", "joining", "dropped"}]
        /\ told'[role] = "connecting"
        /\ \A q \in Roles \ {role} : told'[q] = told[q]
    BY <2>1, <2>2 DEF Inv, TypeOK
  <2>8. ScriptsKnowEveryPlayer'
    BY <2>2, <2>4, <2>7 DEF Inv, Agree, ScriptsKnowEveryPlayer, HasRole
  <2>9. nextRole \in Nat /\ nextRole' \in Nat /\ nextRole <= nextRole' /\ role < nextRole'
    BY <2>1, <2>2, RoutingLimits DEF Inv, TypeOK
  <2>10. Issued'
    <3>1. ASSUME NEW q \in DOMAIN router'.roles
          PROVE  q < nextRole'
      <4>1. CASE q = role
        BY <2>9, <4>1
      <4>2. CASE q \in DOMAIN router.roles
        <5>1. q < nextRole /\ q \in Int
          BY <4>2 DEF Inv, Agree, Issued, TypeOK, IsRouter, Roles
        <5> QED BY <2>9, <5>1
      <4> QED BY <2>4, <4>1, <4>2
    <3>2. ASSUME NEW q \in Roles, q >= nextRole'
          PROVE  told'[q] = "nothing"
      <4>1. q # role /\ q >= nextRole
        BY <2>9, <3>2 DEF Roles
      <4> QED BY <2>7, <4>1 DEF Inv, Agree, Issued
    <3> QED BY <3>1, <3>2 DEF Issued
  <2> QED BY <2>3, <2>6, <2>8, <2>10 DEF Agree
<1> QED BY <1>2, <1>3
(* A sweep that is due ends the ids that fell silent. *)
LEMMA SweepAgree ==
  ASSUME Inv, Sweep
  PROVE  Agree' /\ Good(router')
<1>1. CASE ~ sweepDue
  <2>1. UNCHANGED identity
    BY <1>1 DEF Sweep, identity
  <2> QED BY <2>1, QuietAgree
<1>2. CASE sweepDue
  <2> DEFINE gone == Stale(router)
             swept == RemoveStale(router)
  <2>1. /\ router' = RefreshCrowdCounts(swept)
        /\ assigned' = Released(gone)
        /\ told' = [r \in Roles |->
             IF r \in DroppedRoles(router) THEN "dropped" ELSE told[r]]
        /\ nextRole' = nextRole
    BY <1>2 DEF Sweep
  <2>2. gone \in SUBSET DOMAIN router.peers
    BY DEF Stale
  <2>3. /\ Good(swept)
        /\ swept.peers = Restrict(router.peers, DOMAIN router.peers \ gone)
        /\ swept.roles = Restrict(router.roles,
             DOMAIN router.roles \ {router.peers[c].role : c \in gone})
    BY RemoveStaleTakes DEF Inv
  <2> HIDE DEF gone, swept
  <2>4. Good(router') /\ SameIds(swept, router')
    BY <2>1, <2>3, RefreshSameIds
  <2> DEFINE ended == {router.peers[c].role : c \in gone}
  <2>5. /\ DOMAIN router'.peers = DOMAIN router.peers \ gone
        /\ \A c \in DOMAIN router'.peers : router'.peers[c].role = router.peers[c].role
        /\ DOMAIN router'.roles = DOMAIN router.roles \ ended
    BY <2>3, <2>4 DEF SameIds, Restrict
  <2>6. /\ DOMAIN assigned' = DOMAIN assigned \ gone
        /\ \A c \in DOMAIN assigned' : assigned'[c] = assigned[c]
    BY <2>1 DEF Released, Restrict
  <2>7. DroppedRoles(router) = ended
    BY DEF DroppedRoles, gone
  <2>8. Agree'
    BY <2>1, <2>2, <2>5, <2>6, <2>7, EndingAgree
  <2> QED BY <2>4, <2>8
<1> QED BY <1>1, <1>2

(* A script's drop ends one id, or none if it is gone already. *)
LEMMA DropAgree ==
  ASSUME Inv, NEW role \in Roles, ApplyDrop(role)
  PROVE  Agree' /\ Good(router')
<1>1. CASE ~ HasRole(router, role)
  <2>1. UNCHANGED identity
    BY <1>1 DEF ApplyDrop, identity
  <2> QED BY <2>1, QuietAgree
<1>2. CASE HasRole(router, role)
  <2> DEFINE c == ConnectionForRole(router, role)
  <2>1. /\ router' = Remove(router, c)
        /\ assigned' = Released({c})
        /\ told' = [told EXCEPT ![role] = "dropped"]
        /\ nextRole' = nextRole
    BY <1>2 DEF ApplyDrop
  <2>2. c \in DOMAIN router.peers /\ router.peers[c].role = role
    BY <1>2 DEF HasRole, ConnectionForRole, Inv, Good, Inverses
  <2> HIDE DEF c
  <2>3. /\ Good(router')
        /\ DOMAIN router'.peers = DOMAIN router.peers \ {c}
        /\ \A d \in DOMAIN router'.peers : router'.peers[d].role = router.peers[d].role
        /\ DOMAIN router'.roles = DOMAIN router.roles \ {role}
    <3>1. /\ Good(router')
          /\ router'.peers = Restrict(router.peers, DOMAIN router.peers \ {c})
          /\ router'.roles = Restrict(router.roles, DOMAIN router.roles \ {role})
      BY <2>1, <2>2, RemoveTakes DEF Inv
    <3> QED BY <3>1 DEF Restrict
  <2>4. /\ DOMAIN assigned' = DOMAIN assigned \ {c}
        /\ \A d \in DOMAIN assigned' : assigned'[d] = assigned[d]
    BY <2>1 DEF Released, Restrict
  <2>5. {router.peers[d].role : d \in {c}} = {role}
    BY <2>2
  <2>6. told' = [r \in Roles |->
          IF r \in {router.peers[d].role : d \in {c}} THEN "dropped" ELSE told[r]]
    BY <2>1, <2>5 DEF Inv, TypeOK
  <2>7. {c} \in SUBSET DOMAIN router.peers
    BY <2>2
  <2>8. Agree'
    BY <2>1, <2>3, <2>4, <2>5, <2>6, <2>7, EndingAgree
  <2> QED BY <2>3, <2>8
<1> QED BY <1>1, <1>2

(* A beacon renames nobody; scripts hear "joining" of a player who is there. *)
LEMMA BeaconAgree ==
  ASSUME Inv, NEW c \in Connections, NEW x \in Positions, ReceiveBeacon(c, x)
  PROVE  Agree' /\ Good(router')
<1>1. PICK map \in Maps : router' = UpdatePresence(Touch(router, c), c, map, x)
  BY DEF ReceiveBeacon
<1>2. Good(Touch(router, c)) /\ SameIds(router, Touch(router, c))
  BY TouchSameIds DEF Inv
<1>3. Good(router') /\ SameIds(Touch(router, c), router')
  BY <1>1, <1>2, PresenceSameIds
<1>4. SameIds(router, router')
  BY <1>2, <1>3 DEF SameIds
<1>5. assigned' = assigned /\ nextRole' = nextRole
  BY DEF ReceiveBeacon, allocator
<1>6. CASE told' = told
  BY <1>3, <1>4, <1>5, <1>6, SameIdsAgree
<1>7. CASE told' # told
  <2> DEFINE role == router.peers[c].role
  <2>1. c \in DOMAIN router.peers /\ told' = [told EXCEPT ![role] = "joining"]
    BY <1>7 DEF ReceiveBeacon
  <2>2. role \in DOMAIN router.roles /\ role \in Roles
    BY <2>1 DEF Inv, Good, IsRouter, Inverses
  <2> HIDE DEF role
  <2>3. told'[role] = "joining" /\ \A q \in Roles \ {role} : told'[q] = told[q]
    BY <2>1, <2>2 DEF Inv, TypeOK
  <2>4. AllocationsMatchPeers'
    BY <1>4, <1>5 DEF SameIds, Inv, Agree, AllocationsMatchPeers
  <2>5. ScriptsKnowEveryPlayer'
    BY <1>4, <2>2, <2>3 DEF SameIds, HasRole, Inv, Agree, ScriptsKnowEveryPlayer
  <2>6. role < nextRole
    BY <2>2 DEF Inv, Agree, Issued
  <2>7. \A q \in Roles : q >= nextRole => q # role
    BY <2>6, RoutingLimits DEF Inv, TypeOK, Roles
  <2>8. Issued'
    BY <1>4, <1>5, <2>3, <2>7 DEF SameIds, Inv, Agree, Issued
  <2> QED BY <1>3, <2>4, <2>5, <2>8 DEF Agree
<1> QED BY <1>6, <1>7
-----------------------------------------------------------------------------
(* The invariant, one step per action. *)
LEMMA InitInv == Init => Inv
<1> SUFFICES ASSUME Init PROVE Inv
  OBVIOUS
<1>1. Good(router)
  BY DEF Init, NoPeers, Good, IsRouter, Inverses
<1>2. TypeOK
  <2>1. DOMAIN assigned = {} /\ DOMAIN pendingBuckets = {} /\ DOMAIN pendingNames = {}
    BY DEF Init
  <2>2. nextRole \in 1 .. MaximumRole + 1 /\ moves \in 0 .. MaxMoves /\ drops \in 0 .. MaxDrops
    BY RoutingLimits, ServerBounds DEF Init
  <2> QED BY <1>1, <2>1, <2>2 DEF Init, TypeOK, Good, MaxRoleOrZero
<1>3. Agree
  BY DEF Init, Agree, AllocationsMatchPeers, ScriptsKnowEveryPlayer, Issued,
         HasRole, NoPeers
<1> QED BY <1>1, <1>2, <1>3 DEF Inv

(* The types of everything but the agreement's own state. *)
Rest ==
  /\ client \in [Connections -> {"off", "registering", "playing", "closed"}]
  /\ clientRole \in [Connections -> MaxRoleOrZero]
  /\ registers \subseteq Connections
  /\ acks \subseteq Connections \X Roles
  /\ beacons \subseteq Connections \X Positions
  /\ pc \in {"receive", "sweep", "buckets", "names", "drops", "publish"}
  /\ sweepDue \in BOOLEAN
  /\ joined \subseteq Connections
  /\ DOMAIN pendingBuckets \subseteq Roles
  /\ \A r \in DOMAIN pendingBuckets : pendingBuckets[r] \in Buckets
  /\ DOMAIN pendingNames \subseteq Roles
  /\ \A r \in DOMAIN pendingNames : pendingNames[r] \in Names
  /\ pendingDrops \subseteq Roles
  /\ published \subseteq Roles
  /\ inScope \subseteq Pairs
  /\ moves \in 0 .. MaxMoves /\ drops \in 0 .. MaxDrops

Core ==
  /\ IsRouter(router)
  /\ nextRole \in 1 .. MaximumRole + 1
  /\ DOMAIN assigned \subseteq Connections
  /\ \A c \in DOMAIN assigned : assigned[c] \in Roles
  /\ told \in [Roles -> {"nothing", "connecting", "joining", "dropped"}]

LEMMA TypeOKParts == TypeOK <=> Rest /\ Core
BY DEF TypeOK, Rest, Core
(* Each action keeps the types of the state the agreement is not about. *)
LEMMA NextRest ==
  ASSUME Inv, Next
  PROVE  Rest'
<1> USE DEF Rest
<1>0. Rest
  BY TypeOKParts DEF Inv
<1>1. ASSUME NEW c \in Connections, Start(c)
      PROVE  Rest'
  BY <1>0, <1>1 DEF Start, network, scripts, players
<1>2. ASSUME NEW c \in Connections, SendRegister(c)
      PROVE  Rest'
  BY <1>0, <1>2 DEF SendRegister, clients, scripts, players
<1>3. ASSUME NEW c \in Connections, Close(c)
      PROVE  Rest'
  BY <1>0, <1>3 DEF Close, network, scripts, players
<1>4. ASSUME NEW c \in Connections, NEW role \in Roles, ReceiveAck(c, role)
      PROVE  Rest'
  <2>1. CASE client[c] = "registering"
    BY <1>0, <1>4, <2>1 DEF ReceiveAck, scripts, players, MaxRoleOrZero
  <2>2. CASE client[c] # "registering"
    BY <1>0, <1>4, <2>2 DEF ReceiveAck, clients, scripts, players
  <2> QED BY <2>1, <2>2
<1>5. ASSUME NEW c \in Connections, NEW x \in Positions, SendBeacon(c, x)
      PROVE  Rest'
  BY <1>0, <1>5 DEF SendBeacon, clients, scripts, players
<1>6. ASSUME NEW c \in Connections, NEW x \in Positions, ReceiveBeacon(c, x)
      PROVE  Rest'
  BY <1>0, <1>6 DEF ReceiveBeacon, clients, scripts, players
<1>7. ASSUME NEW c \in Connections, ReceiveRegister(c)
      PROVE  Rest'
  <2>1. Assign(c) # 0 => Assign(c) \in Roles
    BY AssignIsFresh
  <2>2. acks' \subseteq Connections \X Roles
    <3>1. acks' = acks \/ (Assign(c) # 0 /\ acks' = acks \cup {<<c, Assign(c)>>})
      BY <1>7 DEF ReceiveRegister, Answer
    <3> QED BY <1>0, <2>1, <3>1
  <2> QED BY <1>0, <1>7, <2>2 DEF ReceiveRegister, clients, scripts, players
<1>8. ASSUME Idle \/ BucketsDone \/ NamesDone \/ DropsDone
      PROVE  Rest'
  BY <1>0, <1>8 DEF Idle, BucketsDone, NamesDone, DropsDone, clients, network, scripts, players
<1>9. ASSUME Sweep
      PROVE  Rest'
  <2>1. inScope' \subseteq inScope /\ joined' \subseteq joined
    BY <1>9 DEF Sweep, Forgotten
  <2> QED BY <1>0, <1>9, <2>1 DEF Sweep, clients, network, scripts
<1>10. ASSUME Publish
       PROVE  Rest'
  <2>1. \A c \in DOMAIN router.peers : router.peers[c].role \in Roles
    BY DEF Inv, Good, IsRouter, Peers
  <2>2. Snapshot(router) \subseteq Roles
    BY <2>1 DEF Snapshot
  <2>3. ScopePairs(router) \subseteq Pairs
    BY <2>1 DEF ScopePairs, RolePairs, Pairs
  <2> QED BY <1>0, <1>10, <2>2, <2>3 DEF Publish, clients, network, scripts
<1>11. ASSUME NEW role \in Roles, ApplyBucket(role)
       PROVE  Rest'
  <2>1. /\ DOMAIN pendingBuckets' \subseteq DOMAIN pendingBuckets
        /\ \A r \in DOMAIN pendingBuckets' : pendingBuckets'[r] = pendingBuckets[r]
    BY <1>11 DEF ApplyBucket, Without, Restrict
  <2> QED BY <1>0, <1>11, <2>1 DEF ApplyBucket, clients, network, players
<1>12. ASSUME NEW role \in Roles, ApplyDrop(role)
       PROVE  Rest'
  <2>1. joined' \subseteq joined
    BY <1>12 DEF ApplyDrop
  <2> QED BY <1>0, <1>12, <2>1 DEF ApplyDrop, clients, network, players
<1>13. ASSUME NEW role \in Roles, NEW bucket \in Buckets,
              SetPlayerRoutingBucket(role, bucket)
       PROVE  Rest'
  <2>1. /\ DOMAIN pendingBuckets' = DOMAIN pendingBuckets \cup {role}
        /\ \A r \in DOMAIN pendingBuckets' : pendingBuckets'[r] \in Buckets
    BY <1>0, <1>13 DEF SetPlayerRoutingBucket, With
  <2>2. moves' \in 0 .. MaxMoves
    BY <1>0, <1>13, ServerBounds DEF SetPlayerRoutingBucket
  <2> QED BY <1>0, <1>13, <2>1, <2>2
          DEF SetPlayerRoutingBucket, clients, network, players
<1>14. ASSUME NEW role \in Roles, DropPlayer(role)
       PROVE  Rest'
  <2>1. drops' \in 0 .. MaxDrops
    BY <1>0, <1>14, ServerBounds DEF DropPlayer
  <2> QED BY <1>0, <1>14, <2>1 DEF DropPlayer, clients, network, players
<1>15. ASSUME Tick
       PROVE  Rest'
  BY <1>0, <1>15 DEF Tick, clients, scripts, players
<1>16. ASSUME NEW role \in Roles, ApplyName(role)
       PROVE  Rest'
  <2>1. /\ DOMAIN pendingNames' \subseteq DOMAIN pendingNames
        /\ \A r \in DOMAIN pendingNames' : pendingNames'[r] = pendingNames[r]
    BY <1>16 DEF ApplyName, Without, Restrict
  <2> QED BY <1>0, <1>16, <2>1 DEF ApplyName, clients, network, players
<1>17. ASSUME NEW role \in Roles, NEW name \in Names, PostName(role, name)
       PROVE  Rest'
  <2>1. /\ DOMAIN pendingNames' = DOMAIN pendingNames \cup {role}
        /\ \A r \in DOMAIN pendingNames' : pendingNames'[r] \in Names
    BY <1>0, <1>17 DEF PostName, With
  <2> QED BY <1>0, <1>17, <2>1 DEF PostName, clients, network, players
<1> QED BY <1>1, <1>2, <1>3, <1>4, <1>5, <1>6, <1>7, <1>8, <1>9, <1>10, <1>11,
           <1>12, <1>13, <1>14, <1>15, <1>16, <1>17 DEF Next, Loop

(* What an action can do to ids: nothing, or one of the four things below. *)
KeepsIds ==
  Good(router') /\ SameIds(router, router') /\ UNCHANGED <<assigned, nextRole, told>>

LEMMA NextCases ==
  ASSUME Inv, Next
  PROVE  \/ KeepsIds
         \/ \E c \in Connections : ReceiveRegister(c)
         \/ \E c \in Connections, x \in Positions : ReceiveBeacon(c, x)
         \/ Sweep
         \/ \E role \in Roles : ApplyDrop(role)
<1> SUFFICES ASSUME ~ \E c \in Connections : ReceiveRegister(c),
                    ~ \E c \in Connections, x \in Positions : ReceiveBeacon(c, x),
                    ~ Sweep,
                    ~ \E role \in Roles : ApplyDrop(role)
             PROVE  KeepsIds
  OBVIOUS
<1>1. ASSUME UNCHANGED identity
      PROVE  KeepsIds
  BY <1>1 DEF identity, KeepsIds, SameIds, Inv
<1>2. ASSUME NEW c \in Connections, Start(c) \/ SendRegister(c) \/ Close(c)
      PROVE  UNCHANGED identity
  BY <1>2 DEF Start, SendRegister, Close, identity, allocator
<1>3. ASSUME NEW c \in Connections, NEW role \in Roles, ReceiveAck(c, role)
      PROVE  UNCHANGED identity
  BY <1>3 DEF ReceiveAck, identity, allocator
<1>4. ASSUME NEW c \in Connections, NEW x \in Positions, SendBeacon(c, x)
      PROVE  UNCHANGED identity
  BY <1>4 DEF SendBeacon, identity, allocator
<1>5. ASSUME Idle \/ BucketsDone \/ NamesDone \/ DropsDone \/ Publish
      PROVE  UNCHANGED identity
  BY <1>5 DEF Idle, BucketsDone, NamesDone, DropsDone, Publish, identity, allocator
<1>6. ASSUME NEW role \in Roles, NEW bucket \in Buckets,
             SetPlayerRoutingBucket(role, bucket)
      PROVE  UNCHANGED identity
  BY <1>6 DEF SetPlayerRoutingBucket, identity, allocator
<1>7. ASSUME NEW role \in Roles, DropPlayer(role)
      PROVE  UNCHANGED identity
  BY <1>7 DEF DropPlayer, identity, allocator
<1>8. ASSUME NEW role \in Roles, NEW name \in Names, PostName(role, name)
       PROVE  UNCHANGED identity
  BY <1>8 DEF PostName, identity, allocator
<1>9. ASSUME NEW role \in Roles, ApplyName(role)
       PROVE  KeepsIds
  <2>1. pendingNames[role] \in Names
    BY <1>9 DEF ApplyName, Inv, TypeOK
  <2>2. router' = SetName(router, role, pendingNames[role])
        /\ UNCHANGED <<assigned, nextRole, told>>
    BY <1>9 DEF ApplyName, allocator
  <2>3. Good(router') /\ SameIds(router, router')
    BY <2>1, <2>2, SetNameSameIds DEF Inv
  <2> QED BY <2>2, <2>3 DEF KeepsIds
<1>10. ASSUME NEW role \in Roles, ApplyBucket(role)
      PROVE  KeepsIds
  <2>1. pendingBuckets[role] \in Buckets
    BY <1>10 DEF ApplyBucket, Inv, TypeOK
  <2>2. router' = SetBucket(router, role, pendingBuckets[role])
        /\ UNCHANGED <<assigned, nextRole, told>>
    BY <1>10 DEF ApplyBucket, allocator
  <2>3. Good(router') /\ SameIds(router, router')
    BY <2>1, <2>2, SetBucketSameIds DEF Inv
  <2> QED BY <2>2, <2>3 DEF KeepsIds
<1>11. ASSUME Tick
      PROVE  KeepsIds
  <2>1. router' = Older(router) /\ UNCHANGED <<assigned, nextRole, told>>
    BY <1>11 DEF Tick, allocator
  <2>2. Good(router') /\ SameIds(router, router')
    BY <2>1, OlderSameIds DEF Inv
  <2> QED BY <2>1, <2>2 DEF KeepsIds
<1> QED BY <1>1, <1>2, <1>3, <1>4, <1>5, <1>6, <1>7, <1>10, <1>11,
           <1>8, <1>9 DEF Next, Loop

LEMMA NextAgree ==
  ASSUME Inv, Next
  PROVE  Agree' /\ Good(router')
<1>1. CASE KeepsIds
  BY <1>1, SameIdsAgree DEF KeepsIds
<1> QED BY <1>1, NextCases, RegisterAgree, BeaconAgree, SweepAgree, DropAgree

(* The types of the agreement's own state. *)
LEMMA NextCore ==
  ASSUME Inv, Next
  PROVE  Core'
<1>1. Agree' /\ Good(router')
  BY NextAgree
<1>2. IsRouter(router')
  BY <1>1 DEF Good
<1>3. DOMAIN assigned' \subseteq Connections /\ \A c \in DOMAIN assigned' : assigned'[c] \in Roles
  BY <1>1, <1>2 DEF Agree, AllocationsMatchPeers, IsRouter, Peers
<1>4. nextRole' \in 1 .. MaximumRole + 1
  <2>1. CASE nextRole' = nextRole
    BY <2>1 DEF Inv, TypeOK
  <2>2. ASSUME NEW c \in Connections, ReceiveRegister(c), nextRole' # nextRole
        PROVE  nextRole' \in 1 .. MaximumRole + 1
    <3>1. Assign(c) # 0 /\ nextRole' = nextRole + 1 /\ c \notin DOMAIN assigned
      BY <2>2 DEF ReceiveRegister, allocator
    <3>2. nextRole <= MaximumRole
      BY <3>1, RoutingLimits DEF Assign, Inv, TypeOK
    <3> QED BY <3>1, <3>2, RoutingLimits DEF Inv, TypeOK
  <2> QED
    BY <2>1, <2>2, NextCases DEF KeepsIds, ReceiveBeacon, Sweep, ApplyDrop, allocator
<1>5. told' \in [Roles -> {"nothing", "connecting", "joining", "dropped"}]
  <2>1. CASE KeepsIds
    BY <2>1 DEF KeepsIds, Inv, TypeOK
  <2>2. ASSUME NEW c \in Connections, ReceiveRegister(c)
        PROVE  told' \in [Roles -> {"nothing", "connecting", "joining", "dropped"}]
    <3>1. told' = told \/ told' = [told EXCEPT ![Assign(c)] = "connecting"]
      BY <2>2 DEF ReceiveRegister
    <3> QED BY <3>1 DEF Inv, TypeOK
  <2>3. ASSUME NEW c \in Connections, NEW x \in Positions, ReceiveBeacon(c, x)
        PROVE  told' \in [Roles -> {"nothing", "connecting", "joining", "dropped"}]
    <3>1. \/ told' = told
          \/ told' = [told EXCEPT ![router.peers[c].role] = "joining"]
      BY <2>3 DEF ReceiveBeacon
    <3> QED BY <3>1 DEF Inv, TypeOK
  <2>4. CASE Sweep
    BY <2>4 DEF Sweep, Inv, TypeOK
  <2>5. ASSUME NEW role \in Roles, ApplyDrop(role)
        PROVE  told' \in [Roles -> {"nothing", "connecting", "joining", "dropped"}]
    BY <2>5 DEF ApplyDrop, Inv, TypeOK
  <2> QED BY <2>1, <2>2, <2>3, <2>4, <2>5, NextCases
<1> QED BY <1>2, <1>3, <1>4, <1>5 DEF Core

LEMMA InvStep ==
  ASSUME Inv, [Next]_vars
  PROVE  Inv'
<1>1. CASE Next
  <2>1. Rest' /\ Core' /\ Agree' /\ Good(router')
    BY <1>1, NextRest, NextCore, NextAgree
  <2>2. TypeOK'
    BY <2>1 DEF TypeOK, Rest, Core
  <2> QED BY <2>1, <2>2 DEF Inv
<1>2. CASE UNCHANGED vars
  <2>1. UNCHANGED identity
    BY <1>2 DEF vars, identity, allocator
  <2>2. Agree' /\ Good(router')
    BY <2>1, QuietAgree
  <2>3. TypeOK'
    BY <1>2 DEF Inv, TypeOK, vars, clients, network, allocator, players, scripts
  <2> QED BY <2>2, <2>3 DEF Inv
<1> QED BY <1>1, <1>2

THEOREM InvInvariant == Spec => []Inv
BY InitInv, InvStep, PTL DEF Spec

-----------------------------------------------------------------------------
(* The results. *)

(* Every variable of the relay loop keeps its type, whatever arrives and   *)
(* whatever scripts ask for.                                               *)
THEOREM ServerTypeOK == Spec => []TypeOK
BY InvInvariant, PTL DEF Inv

(* RoleAllocator and VisualRelayRouter, two maps kept by different code in *)
(* main(), never disagree about who holds an id.                           *)
THEOREM ServerAllocationsMatchPeers == Spec => []AllocationsMatchPeers
BY InvInvariant, PTL DEF Inv, Agree

(* What scripts were told of a role is whether the relay has it, however   *)
(* registrations, timeouts and DropPlayer calls interleave.                *)
THEOREM ServerScriptsKnowEveryPlayer == Spec => []ScriptsKnowEveryPlayer
BY InvInvariant, PTL DEF Inv, Agree

(* One step of the server is one of the promise, or changes no id. *)
LEMMA IdsStep ==
  ASSUME Inv, [Next]_vars
  PROVE  [Ids!Next]_<<nextRole - 1, router.roles>>
<1>1. ASSUME router'.roles = router.roles, nextRole' = nextRole
      PROVE  UNCHANGED <<nextRole - 1, router.roles>>
  BY <1>1
<1>2. CASE UNCHANGED vars
  BY <1>2 DEF vars, allocator
<1>3. CASE KeepsIds
  BY <1>1, <1>3 DEF KeepsIds, SameIds
<1>4. ASSUME NEW c \in Connections, ReceiveRegister(c)
      PROVE  [Ids!Next]_<<nextRole - 1, router.roles>>
  <2>1. PICK session \in Sessions :
          \/ /\ Assign(c) = 0
             /\ router' = Touch(router, c) /\ nextRole' = nextRole
          \/ /\ Assign(c) # 0
             /\ router' = Register(router, c, NewPeer(Assign(c), session))
             /\ nextRole' = IF c \in DOMAIN assigned THEN nextRole ELSE nextRole + 1
    BY <1>4 DEF ReceiveRegister, allocator
  <2>2. CASE Assign(c) = 0
    <3>1. router'.roles = router.roles
      BY <2>1, <2>2, TouchSameIds DEF Inv, SameIds
    <3> QED BY <1>1, <2>1, <2>2, <3>1
  <2>3. CASE Assign(c) # 0
    <3> DEFINE role == Assign(c)
    <3>1. /\ role \in Roles
          /\ \/ /\ c \in DOMAIN assigned
                /\ c \in DOMAIN router.peers /\ router.peers[c].role = role
             \/ /\ c \notin DOMAIN assigned /\ c \notin DOMAIN router.peers
                /\ role = nextRole /\ role \notin DOMAIN router.roles
      BY <2>3, AssignIsFresh
    <3>2. router'.roles = With(router.roles, role, c)
      BY <2>1, <2>3, <3>1, RegisterAdds DEF Inv
    <3> HIDE DEF role
    <3>3. CASE c \in DOMAIN assigned
      <4>1. role \in DOMAIN router.roles /\ router.roles[role] = c
        BY <3>1, <3>3 DEF Inv, Good, Inverses
      <4>2. router'.roles = [q \in DOMAIN router.roles \ {} |-> router.roles[q]]
        BY <3>2, <4>1 DEF With
      <4>3. nextRole' - 1 = nextRole - 1
        BY <2>1, <2>3, <3>3
      <4>4. Ids!End
        BY <4>2, <4>3 DEF Ids!End
      <4> QED BY <4>4 DEF Ids!Next
    <3>4. CASE c \notin DOMAIN assigned
      <4>1. role = nextRole /\ c \notin DOMAIN router.peers
        BY <3>1, <3>4
      <4>2. nextRole' = nextRole + 1 /\ nextRole \in Nat /\ nextRole <= MaximumRole
        BY <2>1, <2>3, <3>1, <3>4, <4>1, RoutingLimits DEF Inv, TypeOK, Roles
      <4>3. \A q \in DOMAIN router.roles : router.roles[q] # c
        BY <4>1 DEF Inv, Good, Inverses
      <4>4. Ids!Issue(c)
        <5>1. nextRole - 1 < MaximumRole /\ nextRole' - 1 = nextRole - 1 + 1
              /\ nextRole - 1 + 1 = nextRole
          BY <4>2, RoutingLimits
        <5> QED BY <3>2, <4>1, <4>3, <5>1 DEF Ids!Issue, With
      <4> QED BY <4>4 DEF Ids!Next
    <3> QED BY <3>3, <3>4
  <2> QED BY <2>2, <2>3
<1>5. ASSUME NEW c \in Connections, NEW x \in Positions, ReceiveBeacon(c, x)
      PROVE  UNCHANGED <<nextRole - 1, router.roles>>
  <2>1. PICK map \in Maps : router' = UpdatePresence(Touch(router, c), c, map, x)
    BY <1>5 DEF ReceiveBeacon
  <2>2. Good(Touch(router, c)) /\ SameIds(router, Touch(router, c))
    BY TouchSameIds DEF Inv
  <2>3. router'.roles = router.roles
    BY <2>1, <2>2, PresenceSameIds DEF SameIds
  <2> QED BY <1>1, <1>5, <2>3 DEF ReceiveBeacon, allocator
<1>6. CASE Sweep
  <2>1. CASE ~ sweepDue
    BY <1>1, <1>6, <2>1 DEF Sweep
  <2>2. CASE sweepDue
    <3> DEFINE swept == RemoveStale(router)
               gone == {router.peers[c].role : c \in Stale(router)}
    <3>1. router' = RefreshCrowdCounts(swept) /\ nextRole' = nextRole
      BY <1>6, <2>2 DEF Sweep
    <3>2. Good(swept) /\ swept.roles = Restrict(router.roles, DOMAIN router.roles \ gone)
      BY RemoveStaleTakes DEF Inv
    <3> HIDE DEF swept
    <3>3. router'.roles = swept.roles
      BY <3>1, <3>2, RefreshSameIds DEF SameIds
    <3>4. gone \subseteq DOMAIN router.roles
      BY DEF Stale, Inv, Good, Inverses
    <3>5. Ids!End
      BY <3>1, <3>2, <3>3, <3>4 DEF Ids!End, Restrict
    <3> QED BY <3>5 DEF Ids!Next
  <2> QED BY <2>1, <2>2
<1>7. ASSUME NEW role \in Roles, ApplyDrop(role)
      PROVE  [Ids!Next]_<<nextRole - 1, router.roles>>
  <2>1. nextRole' = nextRole
    BY <1>7 DEF ApplyDrop
  <2>2. CASE ~ HasRole(router, role)
    BY <1>1, <1>7, <2>1, <2>2 DEF ApplyDrop
  <2>3. CASE HasRole(router, role)
    <3> DEFINE c == ConnectionForRole(router, role)
    <3>1. c \in DOMAIN router.peers /\ router.peers[c].role = role
      BY <2>3 DEF HasRole, ConnectionForRole, Inv, Good, Inverses
    <3>2. router' = Remove(router, c)
      BY <1>7, <2>3 DEF ApplyDrop
    <3> HIDE DEF c
    <3>3. router'.roles = Restrict(router.roles, DOMAIN router.roles \ {role})
      BY <3>1, <3>2, RemoveTakes DEF Inv
    <3>4. {role} \in SUBSET DOMAIN router.roles
      BY <2>3 DEF HasRole
    <3>5. Ids!End
      BY <2>1, <3>3, <3>4 DEF Ids!End, Restrict
    <3> QED BY <3>5 DEF Ids!Next
  <2> QED BY <2>2, <2>3
<1> QED BY <1>2, <1>3, <1>4, <1>5, <1>6, <1>7, NextCases

(* The server implements PlayerIds: ids are issued in order, never twice,  *)
(* and each names one connection until it is gone.                         *)
THEOREM ServerImplementsIds == Spec => IdsSpec
<1>1. Init => Ids!Init
  BY DEF Init, NoPeers, Ids!Init
<1>2. Inv /\ [Next]_vars => [Ids!Next]_<<nextRole - 1, router.roles>>
  BY IdsStep
<1> QED BY <1>1, <1>2, InvInvariant, PTL DEF Spec, IdsSpec, Ids!Spec

-----------------------------------------------------------------------------
(* The snapshot that scripts read.                                         *)

\* Between two iterations of the loop it is what the relay has.
Published == pc = "receive" => published = Snapshot(router)

LEMMA SnapshotIsRoles ==
  ASSUME NEW r, Good(r)
  PROVE  Snapshot(r) = DOMAIN r.roles
BY DEF Good, IsRouter, Inverses, Snapshot

LEMMA PublishedStep ==
  ASSUME Inv, Published, [Next]_vars
  PROVE  Published'
<1>1. Good(router) /\ Good(router')
  BY InvStep DEF Inv
<1>2. CASE Publish
  BY <1>2 DEF Publish, Published
<1>3. CASE UNCHANGED vars
  BY <1>3 DEF vars, players, Published
<1>4. CASE Next /\ ~Publish
  <2> SUFFICES ASSUME pc' = "receive"
               PROVE  published' = Snapshot(router')
    BY DEF Published
  <2>1. UNCHANGED <<pc, published>>
    BY <1>4 DEF Next, Loop, Start, SendRegister, Close, ReceiveAck, SendBeacon,
         ReceiveBeacon, ReceiveRegister, Idle, Sweep, BucketsDone, NamesDone, DropsDone,
         ApplyBucket, ApplyName, ApplyDrop, SetPlayerRoutingBucket, PostName, DropPlayer,
         Tick, players
  <2>2. KeepsIds
    BY <1>4, <2>1, NextCases DEF ReceiveRegister, ReceiveBeacon, Sweep, ApplyDrop
  <2>3. router'.roles = router.roles
    BY <2>2 DEF KeepsIds, SameIds
  <2> QED
    BY <1>1, <2>1, <2>3, SnapshotIsRoles DEF Published
<1> QED
  BY <1>2, <1>3, <1>4

LEMMA PublishedInvariant == Spec => []Published
<1>1. Init => Published
  BY DEF Init, Published, Snapshot, NoPeers
<1> QED
  BY <1>1, PublishedStep, InvInvariant, PTL DEF Spec

(* One step never raises playerJoining for a player scripts cannot find. *)
LEMMA JoiningStep ==
  ASSUME Inv, Published, [Next]_vars,
         NEW r \in Roles, told'[r] = "joining", told[r] # "joining"
  PROVE  r \in published
<1>1. CASE UNCHANGED vars
  BY <1>1 DEF vars
<1>2. CASE KeepsIds
  BY <1>2 DEF KeepsIds
<1>3. ASSUME NEW c \in Connections, ReceiveRegister(c)
      PROVE  FALSE
  <2>1. told' = told \/ told' = [told EXCEPT ![Assign(c)] = "connecting"]
    BY <1>3 DEF ReceiveRegister
  <2> QED
    BY <2>1 DEF Inv, TypeOK
<1>4. ASSUME NEW c \in Connections, NEW x \in Positions, ReceiveBeacon(c, x)
      PROVE  r \in published
  <2>1. /\ c \in DOMAIN router.peers
        /\ told' = [told EXCEPT ![router.peers[c].role] = "joining"]
    BY <1>4 DEF ReceiveBeacon
  <2>2. r = router.peers[c].role
    BY <2>1 DEF Inv, TypeOK
  <2> QED
    BY <1>4, <2>1, <2>2 DEF ReceiveBeacon, Published, Snapshot
<1>5. Sweep => FALSE
  BY DEF Sweep
<1>6. ASSUME NEW role \in Roles, ApplyDrop(role)
      PROVE  FALSE
  BY <1>6 DEF ApplyDrop, Inv, TypeOK
<1> QED
  BY <1>1, <1>2, <1>3, <1>4, <1>5, <1>6, NextCases

(* Whoever playerJoining is raised for is in the snapshot scripts read: the *)
(* loop has published since the player registered, however the two          *)
(* datagrams and the script threads interleave.                             *)
THEOREM ServerJoiningPlayersAreKnown == Spec => JoiningPlayersAreKnown
<1>1. Inv /\ Published /\ [Next]_vars =>
        [\A r \in Roles :
           (told'[r] = "joining" /\ told[r] # "joining") => r \in published]_vars
  BY JoiningStep
<1> QED
  BY <1>1, InvInvariant, PublishedInvariant, PTL DEF Spec, JoiningPlayersAreKnown

-----------------------------------------------------------------------------
(* The scopes of players who are gone.                                     *)

\* What is to be dropped was asked for.
DropsAreCounted == pendingDrops # {} => drops > 0

ScopeInv == ScopesAreOfPlayers /\ DropsAreCounted

\* Scripts know of a role as a player's.
Known(role) == told[role] \in {"connecting", "joining"}

LEMMA DropsAreCountedStep ==
  ASSUME Inv, DropsAreCounted, [Next]_vars
  PROVE  DropsAreCounted'
<1>1. drops \in Nat
  BY ServerBounds DEF Inv, TypeOK
<1>2. CASE \E role \in Roles : DropPlayer(role)
  BY <1>1, <1>2 DEF DropPlayer, DropsAreCounted
<1>3. CASE ~ \E role \in Roles : DropPlayer(role)
  <2>1. drops' = drops /\ pendingDrops' \subseteq pendingDrops
    BY <1>3 DEF Next, Loop, vars, scripts, Start, SendRegister, Close, ReceiveAck, SendBeacon,
         ReceiveBeacon, ReceiveRegister, Idle, Sweep, BucketsDone, NamesDone, DropsDone,
         Publish, ApplyBucket, ApplyName, ApplyDrop, SetPlayerRoutingBucket, PostName, Tick
  <2> QED
    BY <2>1 DEF DropsAreCounted
<1> QED
  BY <1>2, <1>3

(* The pairs of a publication are pairs of roles that the router has. *)
LEMMA ScopePairsAreOfPeers ==
  ASSUME Inv, NEW p \in ScopePairs(router)
  PROVE  /\ p[1] \in DOMAIN router.roles /\ p[1] \in Roles
         /\ p[2] \in DOMAIN router.roles /\ p[2] \in Roles
<1>1. PICK c \in DOMAIN router.peers, d \in DOMAIN router.peers :
        p = <<router.peers[c].role, router.peers[d].role>>
  BY DEF ScopePairs, RolePairs
<1> QED
  BY <1>1 DEF Inv, Good, IsRouter, Inverses, Peers

(* A step after which scripts know all whom they knew, and which adds no pair
   and ends no exception, keeps the scopes to players. *)
LEMMA NobodyForgotten ==
  ASSUME ScopesAreOfPlayers, inScope' \subseteq inScope,
         \A p \in inScope' : \A r \in {p[1], p[2]} : Known(r) => Known(r)',
         pc \in {"drops", "publish"} /\ drops > 0 => pc' \in {"drops", "publish"} /\ drops' > 0
  PROVE  ScopesAreOfPlayers'
BY DEF ScopesAreOfPlayers, Known

LEMMA ScopesStep ==
  ASSUME Inv, ScopeInv, [Next]_vars
  PROVE  ScopesAreOfPlayers'
<1>0. drops \in Nat /\ inScope \subseteq Pairs
  BY ServerBounds DEF Inv, TypeOK
<1>1. CASE UNCHANGED vars
  BY <1>1 DEF vars, players, scripts, ScopeInv, ScopesAreOfPlayers
<1>2. CASE Publish
  <2>1. inScope' = ScopePairs(router) /\ told' = told
    BY <1>2 DEF Publish
  <2>2. \A r \in Roles : r \in DOMAIN router.roles => Known(r)
    BY DEF Inv, Agree, ScriptsKnowEveryPlayer, HasRole, Known
  <2> QED
    BY <2>1, <2>2, ScopePairsAreOfPeers DEF ScopesAreOfPlayers, Known
<1>3. CASE Sweep
  <2>1. CASE ~ sweepDue
    <3>1. UNCHANGED <<inScope, told, drops>> /\ pc = "sweep"
      BY <1>3, <2>1 DEF Sweep, scripts
    <3> QED
      BY <3>1 DEF ScopeInv, ScopesAreOfPlayers
  <2>2. CASE sweepDue
    <3>1. /\ inScope' = Forgotten(inScope, DroppedRoles(router))
          /\ told' = [r \in Roles |->
               IF r \in DroppedRoles(router) THEN "dropped" ELSE told[r]]
          /\ pc = "sweep"
      BY <1>3, <2>2 DEF Sweep
    <3>2. \A p \in inScope' : /\ p \in inScope
                              /\ p[1] \in Roles /\ p[2] \in Roles
                              /\ told'[p[1]] = told[p[1]] /\ told'[p[2]] = told[p[2]]
      BY <1>0, <3>1 DEF Forgotten, Pairs
    <3> QED
      BY <3>1, <3>2 DEF ScopeInv, ScopesAreOfPlayers
  <2> QED
    BY <2>1, <2>2
<1>4. ASSUME NEW c \in Connections, ReceiveRegister(c)
      PROVE  ScopesAreOfPlayers'
  <2>1. told' = told \/ told' = [told EXCEPT ![Assign(c)] = "connecting"]
    BY <1>4 DEF ReceiveRegister
  <2>2. \A r \in Roles : Known(r) => Known(r)'
    BY <2>1 DEF Known, Inv, TypeOK
  <2>3. inScope' = inScope /\ pc = "receive"
    BY <1>4 DEF ReceiveRegister, players
  <2> QED
    BY <1>0, <2>2, <2>3, NobodyForgotten DEF ScopeInv, Pairs
<1>5. ASSUME NEW c \in Connections, NEW x \in Positions, ReceiveBeacon(c, x)
      PROVE  ScopesAreOfPlayers'
  <2>1. told' = told \/ told' = [told EXCEPT ![router.peers[c].role] = "joining"]
    BY <1>5 DEF ReceiveBeacon
  <2>2. \A r \in Roles : Known(r) => Known(r)'
    BY <2>1 DEF Known, Inv, TypeOK
  <2>3. inScope' = inScope /\ pc = "receive"
    BY <1>5 DEF ReceiveBeacon, players
  <2> QED
    BY <1>0, <2>2, <2>3, NobodyForgotten DEF ScopeInv, Pairs
<1>6. ASSUME NEW role \in Roles, ApplyDrop(role)
      PROVE  ScopesAreOfPlayers'
  BY <1>6 DEF ApplyDrop, ScopeInv, DropsAreCounted, ScopesAreOfPlayers
<1>7. CASE Next /\ KeepsIds /\ ~ Publish /\ ~ Sweep
  <2>1. told' = told
    BY <1>7 DEF KeepsIds
  <2>2. inScope' = inScope
    BY <1>7 DEF Next, Loop, vars, players, Start, SendRegister, Close, ReceiveAck, SendBeacon,
         ReceiveBeacon, ReceiveRegister, Idle, BucketsDone, NamesDone, DropsDone,
         ApplyBucket, ApplyName, ApplyDrop, SetPlayerRoutingBucket, PostName, DropPlayer, Tick
  <2>3. pc \in {"drops", "publish"} => pc' \in {"drops", "publish"}
    BY <1>7 DEF Next, Loop, vars, players, Start, SendRegister, Close, ReceiveAck, SendBeacon,
         ReceiveBeacon, ReceiveRegister, Idle, BucketsDone, NamesDone, DropsDone,
         ApplyBucket, ApplyName, ApplyDrop, SetPlayerRoutingBucket, PostName, DropPlayer, Tick
  <2>4. drops' = drops \/ drops' = drops + 1
    BY <1>7 DEF Next, Loop, vars, scripts, Start, SendRegister, Close, ReceiveAck, SendBeacon,
         ReceiveBeacon, ReceiveRegister, Idle, BucketsDone, NamesDone, DropsDone,
         ApplyBucket, ApplyName, ApplyDrop, SetPlayerRoutingBucket, PostName, DropPlayer, Tick
  <2> QED
    BY <1>0, <2>1, <2>2, <2>3, <2>4, NobodyForgotten DEF ScopeInv, Known
<1> QED
  BY <1>1, <1>2, <1>3, <1>4, <1>5, <1>6, <1>7, NextCases

(* However players time out, are dropped, register late and move in and out of
   each other's radius: no scope outlives the playerDropped of a time-out, and
   those of a player dropped by a script outlive his to the next publish only. *)
THEOREM ServerScopesAreOfPlayers == Spec => []ScopesAreOfPlayers
<1>1. Init => ScopeInv
  BY DEF Init, ScopeInv, ScopesAreOfPlayers, DropsAreCounted
<1>2. Inv /\ ScopeInv /\ [Next]_vars => ScopeInv'
  BY DropsAreCountedStep, ScopesStep DEF ScopeInv
<1>3. ScopeInv => ScopesAreOfPlayers
  BY DEF ScopeInv
<1> QED
  BY <1>1, <1>2, <1>3, InvInvariant, PTL DEF Spec

-----------------------------------------------------------------------------
(* Scopes.                                                                 *)

\* Every distance within the radius has a fidelity band, if there are bands.
BandsCoverTheRadius ==
  TiersConfigured =>
    /\ Radius > 0
    /\ \A d \in Nat : d <= Radius => FidelityForDistance(d) # OutOfRange

OneBucket == \A a, b \in Buckets : a = b

(* A player's keyframes reach whom ScopeTracker counts as in his scope. *)
LEMMA ScopeIsInterest ==
  ASSUME OneBucket, BandsCoverTheRadius, NEW p \in Peers, NEW q \in Peers
  PROVE  Reaches(p, q, Beat) <=> (p.map = q.map /\ Within(p, q))
<1>1. p.bucket = q.bucket /\ q.neighbours \in Nat /\ p.x \in Int /\ q.x \in Int
  BY DEF Peers, OneBucket
<1>2. Distance(p, q) \in Nat
  BY <1>1 DEF Distance
<1>3. Distance(p, q) <= Radius => (TiersConfigured => FidelityForDistance(Distance(p, q)) # OutOfRange)
  BY <1>2 DEF BandsCoverTheRadius
<1>4. \A level : PassesFidelity(level, Beat) <=> level # OutOfRange
  BY DEF PassesFidelity, Beat, Full, OutOfRange
<1>5. FidelityForDistance(Distance(p, q)) \in {0, 1, 2, 3} /\ CrowdSteps(q.neighbours) \in {0, 1, 2}
  BY DEF FidelityForDistance, Full, HalfDeltas, KeyframesOnly, OutOfRange, CrowdSteps
<1>6. DegradeForCrowd(FidelityForDistance(Distance(p, q)), q.neighbours) = OutOfRange
        <=> FidelityForDistance(Distance(p, q)) = OutOfRange
  BY <1>5 DEF DegradeForCrowd, KeyframesOnly, OutOfRange
<1>7. TiersConfigured => Radius > 0
  BY DEF BandsCoverTheRadius
<1> QED
  BY <1>1, <1>3, <1>4, <1>6, <1>7 DEF Reaches, SameInstance, Within

(* With one bucket, and bands that reach as far as the radius, the scope    *)
(* events are what the relay forwards: a player enters another's scope when *)
(* his keyframes begin to be forwarded to the other, and leaves it when     *)
(* they end.                                                                *)
THEOREM ServerScopesFollowInterest ==
  OneBucket /\ BandsCoverTheRadius => (Spec => ScopesFollowInterest)
<1> SUFFICES ASSUME OneBucket, BandsCoverTheRadius
             PROVE  Spec => ScopesFollowInterest
  OBVIOUS
<1>1. ASSUME Inv, Publish
      PROVE  inScope' = RolePairs(router, LAMBDA p, q : Reaches(p, q, Beat))
  <2>1. \A c \in DOMAIN router.peers : router.peers[c] \in Peers
    BY <1>1 DEF Inv, Good, IsRouter
  <2> QED
    BY <1>1, <2>1, ScopeIsInterest DEF Publish, ScopePairs, RolePairs
<1>2. Inv /\ [Next]_vars =>
        [Publish => inScope' = RolePairs(router, LAMBDA p, q : Reaches(p, q, Beat))]_vars
  BY <1>1
<1> QED
  BY <1>2, InvInvariant, PTL DEF Spec, ScopesFollowInterest

-----------------------------------------------------------------------------
(* Clients and the roles they play under.                                  *)

\* The relay has heard from c, under this role, since the last tick.
Heard(c, role) ==
  c \in DOMAIN router.peers /\ router.peers[c].role = role /\ router.peers[c].age = 0

\* An acknowledgement in flight, and a registration that is still in flight when
\* its client plays already, are younger than the last tick: their connection
\* cannot have timed out, so a late registration makes no new player of it.
Settled ==
  drops = 0 =>
    /\ pendingDrops = {}
    /\ \A c \in Connections, role \in Roles : <<c, role>> \in acks => Heard(c, role)
    /\ \A c \in Connections : client[c] = "playing" =>
         /\ c \in registers => Heard(c, clientRole[c])
         /\ c \in DOMAIN router.peers => router.peers[c].role = clientRole[c]

RolesStay ==
  \A c \in DOMAIN router.peers \cap DOMAIN router'.peers :
    router'.peers[c].role = router.peers[c].role

LEMMA HeardStays ==
  ASSUME StaysFresh(router, router'), RolesStay, NEW c, NEW role, Heard(c, role)
  PROVE  Heard(c, role)'
BY DEF StaysFresh, RolesStay, Heard

(* A step that lets nobody in, and sends nobody anything. *)
LEMMA SettledStands ==
  ASSUME Settled, drops' = 0 => drops = 0, pendingDrops' = {} \/ pendingDrops' = pendingDrops,
         StaysFresh(router, router'), RolesStay,
         DOMAIN router'.peers \subseteq DOMAIN router.peers,
         acks' \subseteq acks,
         \A c \in Connections : client'[c] = "playing" =>
           /\ client[c] = "playing" /\ clientRole'[c] = clientRole[c]
           /\ c \in registers' => c \in registers
  PROVE  Settled'
<1> SUFFICES ASSUME drops' = 0
             PROVE  /\ pendingDrops' = {}
                    /\ \A c \in Connections, role \in Roles :
                         <<c, role>> \in acks' => Heard(c, role)'
                    /\ \A c \in Connections : client'[c] = "playing" =>
                         /\ c \in registers' => Heard(c, clientRole[c])'
                         /\ c \in DOMAIN router'.peers => router'.peers[c].role = clientRole'[c]
  BY DEF Settled, Heard
<1>1. pendingDrops' = {}
  BY DEF Settled
<1>2. \A c \in Connections, role \in Roles : <<c, role>> \in acks' => Heard(c, role)'
  BY HeardStays DEF Settled
<1>3. ASSUME NEW c \in Connections, client'[c] = "playing"
      PROVE  /\ c \in registers' => Heard(c, clientRole[c])'
             /\ c \in DOMAIN router'.peers => router'.peers[c].role = clientRole'[c]
  <2>1. client[c] = "playing" /\ clientRole'[c] = clientRole[c]
    BY <1>3
  <2>2. c \in registers' => Heard(c, clientRole[c])
    BY <1>3, <2>1 DEF Settled
  <2>3. c \in registers' => Heard(c, clientRole[c])'
    BY <2>1, <2>2 DEF Heard, StaysFresh, RolesStay
  <2>4. c \in DOMAIN router'.peers => router'.peers[c].role = clientRole[c]
    BY <2>1 DEF Settled, RolesStay
  <2> QED
    BY <2>1, <2>3, <2>4
<1> QED
  BY <1>1, <1>2, <1>3

(* The steps of other threads and of the loop that leave the router alone. *)
LEMMA QuietSettled ==
  ASSUME Settled, UNCHANGED router, drops' = 0 => drops = 0,
         pendingDrops' = {} \/ pendingDrops' = pendingDrops \/ drops' # 0,
         acks' \subseteq acks,
         \A c \in Connections : client'[c] = "playing" =>
           /\ client[c] = "playing" /\ clientRole'[c] = clientRole[c]
           /\ c \in registers' => c \in registers
  PROVE  Settled'
<1>1. CASE drops' # 0
  BY <1>1 DEF Settled
<1>2. StaysFresh(router, router') /\ RolesStay
  BY DEF StaysFresh, RolesStay
<1> QED
  BY <1>1, <1>2, SettledStands

LEMMA RegisterSettled ==
  ASSUME Inv, Settled, NEW c \in Connections, ReceiveRegister(c)
  PROVE  Settled'
<1>1. PICK session \in Sessions :
        LET role == Assign(c) IN
          IF role = 0
          THEN router' = Touch(router, c) /\ UNCHANGED <<acks, allocator, told>>
          ELSE /\ router' = Register(router, c, NewPeer(role, session))
               /\ assigned' = With(assigned, c, role)
               /\ nextRole' = IF c \in DOMAIN assigned THEN nextRole ELSE nextRole + 1
               /\ acks' = acks \cup Answer(c, role)
               /\ told' = [told EXCEPT ![role] = "connecting"]
  BY DEF ReceiveRegister
<1>2. /\ registers' = registers \ {c} /\ c \in registers
      /\ UNCHANGED <<client, clientRole, drops, pendingDrops>>
  BY DEF ReceiveRegister, clients, scripts
<1>3. CASE Assign(c) = 0
  <2>1. router' = Touch(router, c) /\ acks' = acks
    BY <1>1, <1>3
  <2>2. SameIds(router, router') /\ StaysFresh(router, router')
    BY <2>1, TouchSameIds, TouchStaysFresh DEF Inv
  <2> QED
    BY <1>2, <2>1, <2>2, SettledStands DEF SameIds, RolesStay
<1>4. CASE Assign(c) # 0
  <2> DEFINE role == Assign(c)
  <2>1. /\ router' = Register(router, c, NewPeer(role, session))
        /\ acks' = acks \cup {<<c, role>>}
    BY <1>1, <1>4 DEF Answer
  <2>2. /\ role \in Roles
        /\ \/ c \in DOMAIN router.peers /\ router.peers[c].role = role
           \/ c \notin DOMAIN router.peers /\ role \notin DOMAIN router.roles
    BY <1>4, AssignIsFresh
  <2> HIDE DEF role
  <2>3. /\ router'.peers = With(router.peers, c, NewPeer(role, session))
        /\ \A d \in DOMAIN router.peers : router'.peers[d].role = router.peers[d].role
    BY <2>1, <2>2, RegisterAdds DEF Inv
  <2>4. /\ DOMAIN router'.peers = DOMAIN router.peers \cup {c}
        /\ router'.peers[c] = NewPeer(role, session)
        /\ \A d \in DOMAIN router.peers \ {c} : router'.peers[d] = router.peers[d]
    BY <2>3 DEF With
  <2>5. router'.peers[c].role = role /\ router'.peers[c].age = 0
    BY <2>4 DEF NewPeer
  <2>6. StaysFresh(router, router') /\ RolesStay
    BY <2>3, <2>4, <2>5 DEF StaysFresh, RolesStay
  <2> SUFFICES ASSUME drops' = 0
               PROVE  /\ pendingDrops' = {}
                      /\ \A d \in Connections, q \in Roles :
                           <<d, q>> \in acks' => Heard(d, q)'
                      /\ \A d \in Connections : client'[d] = "playing" =>
                           /\ d \in registers' => Heard(d, clientRole[d])'
                           /\ d \in DOMAIN router'.peers =>
                                router'.peers[d].role = clientRole'[d]
    BY DEF Settled
  <2>7. pendingDrops' = {}
    BY <1>2 DEF Settled
  <2>8. ASSUME NEW d \in Connections, NEW q \in Roles, <<d, q>> \in acks'
        PROVE  Heard(d, q)'
    <3>1. CASE <<d, q>> \in acks
      BY <1>2, <2>6, <3>1, HeardStays DEF Settled
    <3>2. CASE d = c /\ q = role
      BY <2>4, <2>5, <3>2 DEF Heard
    <3> QED
      BY <2>1, <2>8, <3>1, <3>2
  <2>9. ASSUME NEW d \in Connections, client'[d] = "playing"
        PROVE  /\ d \in registers' => Heard(d, clientRole[d])'
               /\ d \in DOMAIN router'.peers => router'.peers[d].role = clientRole'[d]
    <3>1. client[d] = "playing" /\ clientRole'[d] = clientRole[d]
      BY <1>2, <2>9
    <3>2. /\ d \in registers => Heard(d, clientRole[d])
          /\ d \in DOMAIN router.peers => router.peers[d].role = clientRole[d]
      BY <1>2, <3>1 DEF Settled
    <3>3. d \in registers' => Heard(d, clientRole[d])'
      BY <1>2, <2>6, <3>1, <3>2 DEF Heard, StaysFresh, RolesStay
    <3>4. d \in DOMAIN router'.peers => d \in DOMAIN router.peers
      <4>1. CASE d = c
        BY <1>2, <3>2, <4>1 DEF Heard
      <4>2. CASE d # c
        BY <2>4, <4>2
      <4> QED
        BY <4>1, <4>2
    <3> QED
      BY <2>3, <3>1, <3>2, <3>3, <3>4
  <2> QED
    BY <2>7, <2>8, <2>9
<1> QED
  BY <1>3, <1>4

LEMMA AckSettled ==
  ASSUME Inv, Settled, NEW c \in Connections, NEW role \in Roles, ReceiveAck(c, role)
  PROVE  Settled'
<1>1. /\ <<c, role>> \in acks /\ acks' \subseteq acks
      /\ UNCHANGED <<registers, router, drops, pendingDrops>>
  BY DEF ReceiveAck, scripts
<1>2. CASE client[c] # "registering"
  BY <1>1, <1>2, QuietSettled DEF ReceiveAck, clients
<1>3. CASE client[c] = "registering"
  <2>1. /\ clientRole'[c] = role
        /\ \A d \in Connections \ {c} : client'[d] = client[d] /\ clientRole'[d] = clientRole[d]
    BY <1>3 DEF ReceiveAck, Inv, TypeOK
  <2> SUFFICES ASSUME drops' = 0
               PROVE  /\ pendingDrops' = {}
                      /\ \A d \in Connections, q \in Roles :
                           <<d, q>> \in acks' => Heard(d, q)'
                      /\ \A d \in Connections : client'[d] = "playing" =>
                           /\ d \in registers' => Heard(d, clientRole[d])'
                           /\ d \in DOMAIN router'.peers =>
                                router'.peers[d].role = clientRole'[d]
    BY DEF Settled
  <2>2. \A d \in Connections, q \in Roles : <<d, q>> \in acks' => Heard(d, q)'
    BY <1>1 DEF Settled, Heard
  <2>3. Heard(c, role) /\ pendingDrops' = {}
    BY <1>1 DEF Settled
  <2>4. ASSUME NEW d \in Connections, client'[d] = "playing"
        PROVE  /\ d \in registers' => Heard(d, clientRole[d])'
               /\ d \in DOMAIN router'.peers => router'.peers[d].role = clientRole'[d]
    <3>1. CASE d = c
      BY <1>1, <2>1, <2>3, <3>1 DEF Heard
    <3>2. CASE d # c
      BY <1>1, <2>1, <2>4, <3>2 DEF Heard, Settled
    <3> QED
      BY <3>1, <3>2
  <2> QED
    BY <2>2, <2>3, <2>4
<1> QED
  BY <1>2, <1>3

LEMMA TickSettled ==
  ASSUME Inv, Settled, Tick
  PROVE  Settled'
<1>1. SameIds(router, router')
  BY OlderSameIds DEF Tick, Inv
<1>2. registers' = {} /\ acks' = {}
      /\ UNCHANGED <<client, clientRole, drops, pendingDrops>>
  BY DEF Tick, clients, scripts
<1> QED
  BY <1>1, <1>2 DEF Settled, SameIds

LEMMA SettledStep ==
  ASSUME Inv, Settled, [Next]_vars
  PROVE  Settled'
<1> USE DEF clients, scripts, network
<1>1. ASSUME NEW c \in Connections, Start(c) \/ SendRegister(c) \/ Close(c)
      PROVE  Settled'
  <2>1. /\ acks' = acks /\ UNCHANGED <<router, drops, pendingDrops, clientRole>>
        /\ \A d \in Connections : client'[d] = "playing" =>
             client[d] = "playing" /\ (d \in registers' => d \in registers)
    BY <1>1 DEF Start, SendRegister, Close, Inv, TypeOK
  <2> QED
    BY <2>1, QuietSettled
<1>2. ASSUME NEW c \in Connections, NEW x \in Positions, SendBeacon(c, x)
      PROVE  Settled'
  BY <1>2, QuietSettled DEF SendBeacon
<1>3. ASSUME NEW c \in Connections, NEW x \in Positions, ReceiveBeacon(c, x)
      PROVE  Settled'
  <2>1. PICK map \in Maps : router' = UpdatePresence(Touch(router, c), c, map, x)
    BY <1>3 DEF ReceiveBeacon
  <2> DEFINE touched == Touch(router, c)
  <2>2. Good(touched) /\ SameIds(router, touched) /\ StaysFresh(router, touched)
    BY TouchSameIds, TouchStaysFresh DEF Inv
  <2> HIDE DEF touched
  <2>3. SameIds(touched, router') /\ StaysFresh(touched, router')
    BY <2>1, <2>2, PresenceSameIds, PresenceStaysFresh DEF touched
  <2>4. StaysFresh(router, router') /\ RolesStay /\ DOMAIN router'.peers = DOMAIN router.peers
    BY <2>2, <2>3 DEF StaysFresh, SameIds, RolesStay
  <2> QED
    BY <1>3, <2>4, SettledStands DEF ReceiveBeacon
<1>4. CASE Idle \/ BucketsDone \/ NamesDone \/ DropsDone \/ Publish
  BY <1>4, QuietSettled DEF Idle, BucketsDone, NamesDone, DropsDone, Publish
<1>5. CASE Sweep
  <2>1. UNCHANGED <<clients, network, scripts>>
    BY <1>5 DEF Sweep
  <2>2. CASE ~sweepDue
    BY <1>5, <2>1, <2>2, QuietSettled DEF Sweep
  <2>3. CASE sweepDue
    <3> DEFINE swept == RemoveStale(router)
    <3>1. router' = RefreshCrowdCounts(swept)
      BY <1>5, <2>3 DEF Sweep
    <3>2. StaysFresh(router, router')
      BY <3>1, SweepStaysFresh DEF Inv
    <3>3. Good(swept) /\ swept.peers = Restrict(router.peers, DOMAIN router.peers \ Stale(router))
      BY RemoveStaleTakes DEF Inv
    <3> HIDE DEF swept
    <3>4. SameIds(swept, router')
      BY <3>1, <3>3, RefreshSameIds
    <3>5. RolesStay /\ DOMAIN router'.peers \subseteq DOMAIN router.peers
      BY <3>3, <3>4 DEF SameIds, RolesStay, Restrict
    <3> QED
      BY <2>1, <3>2, <3>5, SettledStands
  <2> QED
    BY <2>2, <2>3
<1>6. ASSUME NEW role \in Roles, ApplyBucket(role) \/ ApplyName(role)
      PROVE  Settled'
  <2>1. \/ /\ pendingBuckets[role] \in Buckets
           /\ router' = SetBucket(router, role, pendingBuckets[role])
        \/ /\ pendingNames[role] \in Names
           /\ router' = SetName(router, role, pendingNames[role])
    BY <1>6 DEF ApplyBucket, ApplyName, Inv, TypeOK
  <2>2. SameIds(router, router') /\ StaysFresh(router, router')
    BY <2>1, SetBucketSameIds, SetBucketStaysFresh, SetNameSameIds, SetNameStaysFresh
    DEF Inv
  <2>3. RolesStay /\ DOMAIN router'.peers = DOMAIN router.peers
    BY <2>2 DEF SameIds, RolesStay
  <2> QED
    BY <1>6, <2>2, <2>3, SettledStands DEF ApplyBucket, ApplyName
<1>7. ASSUME NEW role \in Roles, ApplyDrop(role)
      PROVE  Settled'
  BY <1>7 DEF ApplyDrop, Settled
<1>8. ASSUME NEW role \in Roles, NEW bucket \in Buckets, SetPlayerRoutingBucket(role, bucket)
      PROVE  Settled'
  BY <1>8, QuietSettled DEF SetPlayerRoutingBucket
<1>9. ASSUME NEW role \in Roles, NEW name \in Names, PostName(role, name)
      PROVE  Settled'
  BY <1>9, QuietSettled DEF PostName
<1>10. ASSUME NEW role \in Roles, DropPlayer(role)
       PROVE  Settled'
  <2>1. drops' # 0
    BY <1>10 DEF DropPlayer, Inv, TypeOK
  <2> QED
    BY <2>1 DEF Settled
<1>11. CASE UNCHANGED vars
  BY <1>11, QuietSettled DEF vars
<1> QED
  BY <1>1, <1>2, <1>3, <1>4, <1>5, <1>6, <1>7, <1>8, <1>9, <1>10, <1>11,
     RegisterSettled, AckSettled, TickSettled DEF Next, Loop

(* Until a script drops somebody, no client's stream is rejected as         *)
(* spoofed, however many registrations were in flight when it was answered  *)
(* and whatever timed out: a late registration never gives a connection     *)
(* that plays a second role.                                                *)
THEOREM ServerStreamsAreAccepted == Spec => [](drops = 0 => StreamsAreAccepted)
<1>1. Init => Settled
  BY DEF Init, Settled, NoPeers
<1>2. Settled => (drops = 0 => StreamsAreAccepted)
  BY DEF Settled, StreamsAreAccepted, Disposition
<1> QED
  BY <1>1, <1>2, SettledStep, InvInvariant, PTL DEF Spec
=============================================================================
