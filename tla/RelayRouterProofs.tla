------------------------- MODULE RelayRouterProofs -------------------------
(***************************************************************************)
(* The router's theorems: every call keeps the table well formed, one step *)
(* per action, by a lemma about each operation on router values; what the  *)
(* fan-out promises holds of every well-formed router, reached or not.             *)
(***************************************************************************)
EXTENDS RelayRouter, FiniteSetTheorems, TLAPS

-----------------------------------------------------------------------------
(* Router values.  Each operation of RelayRouting keeps a table well formed. *)
Good(r) == IsRouter(r) /\ Inverses(r)

(* A peer that has just been registered is a peer. *)
LEMMA NewPeerIsPeer ==
  ASSUME NEW role \in Roles, NEW session \in Sessions
  PROVE  NewPeer(role, session) \in Peers
BY RoutingLimits DEF NewPeer, Peers

(* Register evicts whoever held the role and forgets the role the          *)
(* connection held, so that the two maps stay inverse.                     *)
LEMMA RegisterKeepsGood ==
  ASSUME NEW r, Good(r), NEW c \in Connections, NEW role, NEW session \in Sessions
  PROVE  Good(Register(r, c, NewPeer(role, session)))
<1> DEFINE p == NewPeer(role, session)
<1>1. p.role = role
  BY DEF NewPeer
<1>2. CASE role \notin Roles
  BY <1>1, <1>2 DEF Register
<1>3. CASE role \in Roles
  <2>1. p \in Peers
    BY <1>3, NewPeerIsPeer
  <2> DEFINE taken == role \in DOMAIN r.roles /\ r.roles[role] # c
             peers == IF taken THEN Without(r.peers, r.roles[role]) ELSE r.peers
             moved == c \in DOMAIN peers /\ peers[c].role # role
             roles == IF moved THEN Without(r.roles, peers[c].role) ELSE r.roles
             s == [peers |-> With(peers, c, p), roles |-> With(roles, role, c)]
  <2> HIDE DEF p
  <2>2. Register(r, c, p) = s
    BY <1>1, <1>3 DEF Register, Enter
  <2>3. /\ DOMAIN peers = {d \in DOMAIN r.peers : taken => d # r.roles[role]}
        /\ \A d \in DOMAIN peers : peers[d] = r.peers[d]
    BY DEF Without, Restrict
  <2>4. /\ DOMAIN roles = {q \in DOMAIN r.roles : moved => q # peers[c].role}
        /\ \A q \in DOMAIN roles : roles[q] = r.roles[q]
    BY DEF Without, Restrict
  <2> HIDE DEF peers, roles
  <2>5. /\ DOMAIN s.peers = DOMAIN peers \cup {c}
        /\ s.peers[c] = p
        /\ \A d \in DOMAIN peers : d # c => s.peers[d] = r.peers[d]
    BY <2>3 DEF With
  <2>6. /\ DOMAIN s.roles = DOMAIN roles \cup {role}
        /\ s.roles[role] = c
        /\ \A q \in DOMAIN roles : q # role => s.roles[q] = r.roles[q]
    BY <2>4 DEF With
  <2>7. s = [peers |-> s.peers, roles |-> s.roles]
    OBVIOUS
  <2> HIDE DEF s
  <2>8. IsRouter(s)
    BY <1>3, <2>1, <2>3, <2>4, <2>5, <2>6, <2>7 DEF IsRouter, Good
  <2>9. Inverses(s)
    <3>1. ASSUME NEW d \in DOMAIN s.peers
          PROVE  s.peers[d].role \in DOMAIN s.roles /\ s.roles[s.peers[d].role] = d
      BY <1>1, <2>3, <2>4, <2>5, <2>6, <3>1 DEF Good, IsRouter, Inverses
    <3>2. ASSUME NEW q \in DOMAIN s.roles
          PROVE  s.roles[q] \in DOMAIN s.peers /\ s.peers[s.roles[q]].role = q
      BY <1>1, <2>3, <2>4, <2>5, <2>6, <3>2 DEF Good, IsRouter, Inverses
    <3> QED BY <3>1, <3>2 DEF Inverses
  <2> QED BY <2>2, <2>8, <2>9 DEF Good, p
<1> QED BY <1>2, <1>3

(* Remove erases a connection together with its role. *)
LEMMA RemoveKeepsGood ==
  ASSUME NEW r, Good(r), NEW c \in DOMAIN r.peers
  PROVE  Good(Remove(r, c))
BY DEF Good, IsRouter, Inverses, Remove, Without, Restrict

(* Replacing a peer by one of the same role changes no mapping. *)
LEMMA AmendKeepsGood ==
  ASSUME NEW r, Good(r), NEW c \in DOMAIN r.peers,
         NEW p \in Peers, p.role = r.peers[c].role
  PROVE  Good(Amend(r, c, p))
<1>1. Amend(r, c, p) = [peers |-> [r.peers EXCEPT ![c] = p], roles |-> r.roles]
  BY DEF Amend, Good, IsRouter
<1> QED BY <1>1 DEF Good, IsRouter, Inverses

(* Evicting the silent erases their roles with them. *)
LEMMA RemoveStaleKeepsGood ==
  ASSUME NEW r, Good(r)
  PROVE  Good(RemoveStale(r))
<1> DEFINE s == RemoveStale(r)
<1>1. /\ DOMAIN s.peers = DOMAIN r.peers \ Stale(r)
      /\ \A d \in DOMAIN s.peers : s.peers[d] = r.peers[d]
      /\ DOMAIN s.roles = DOMAIN r.roles \ {r.peers[c].role : c \in Stale(r)}
      /\ \A q \in DOMAIN s.roles : s.roles[q] = r.roles[q]
      /\ s = [peers |-> s.peers, roles |-> s.roles]
  BY DEF RemoveStale, Restrict
<1>2. Stale(r) \subseteq DOMAIN r.peers
  BY DEF Stale
<1> HIDE DEF s
<1>3. IsRouter(s)
  BY <1>1, <1>2 DEF Good, IsRouter
<1>4. Inverses(s)
  BY <1>1, <1>2 DEF Good, Inverses
<1> QED BY <1>3, <1>4 DEF Good, s

(* A change of one field that is not the role, made to every peer. *)
LEMMA RewriteKeepsGood ==
  ASSUME NEW r, Good(r), NEW s,
         s = [peers |-> s.peers, roles |-> r.roles],
         DOMAIN s.peers = DOMAIN r.peers,
         \A c \in DOMAIN r.peers : s.peers[c] \in Peers /\ s.peers[c].role = r.peers[c].role
  PROVE  Good(s)
BY DEF Good, IsRouter, Inverses

(* Time passing keeps every age within its bound. *)
LEMMA OlderKeepsGood ==
  ASSUME NEW r, Good(r)
  PROVE  Good(Older(r))
<1>1. Older(r) = [peers |-> [c \in DOMAIN r.peers |->
                    [r.peers[c] EXCEPT !.age = IF @ > StaleTimeout THEN @ ELSE @ + 1]],
                  roles |-> r.roles]
  BY DEF Older, Good, IsRouter
<1>2. ASSUME NEW c \in DOMAIN r.peers
      PROVE  /\ Older(r).peers[c] \in Peers
             /\ Older(r).peers[c].role = r.peers[c].role
  BY <1>1, <1>2, RoutingLimits DEF Good, IsRouter, Peers
<1> QED BY <1>1, <1>2, RewriteKeepsGood

(* A crowd is a finite set, so its count is a natural number. *)
LEMMA CrowdIsFinite ==
  ASSUME NEW r, IsRouter(r), NEW c
  PROVE  Cardinality(Crowd(r.peers, c)) \in Nat
<1>1. Crowd(r.peers, c) \subseteq Connections
  BY DEF Crowd, IsRouter
<1>2. IsFiniteSet(Crowd(r.peers, c))
  BY <1>1, RoutingLimits, FS_Subset
<1> QED BY <1>2, FS_CardinalityType

(* Counting the crowds changes nothing else. *)
LEMMA RefreshKeepsGood ==
  ASSUME NEW r, Good(r)
  PROVE  Good(RefreshCrowdCounts(r))
<1> DEFINE count(c) == IF HighDistance = 0 THEN 0 ELSE Cardinality(Crowd(r.peers, c))
<1>1. RefreshCrowdCounts(r) =
        [peers |-> [c \in DOMAIN r.peers |-> [r.peers[c] EXCEPT !.neighbours = count(c)]],
         roles |-> r.roles]
  BY DEF RefreshCrowdCounts, Good, IsRouter
<1>2. \A c : count(c) \in Nat
  BY CrowdIsFinite DEF Good
<1> HIDE DEF count
<1>3. ASSUME NEW c \in DOMAIN r.peers
      PROVE  /\ RefreshCrowdCounts(r).peers[c] \in Peers
             /\ RefreshCrowdCounts(r).peers[c].role = r.peers[c].role
  BY <1>1, <1>2, <1>3 DEF Good, IsRouter, Peers
<1> QED BY <1>1, <1>3, RewriteKeepsGood

-----------------------------------------------------------------------------
(* The machine's invariant: the table is well formed after every call. *)
LEMMA GoodInvariant == Spec => []Good(router)
<1>1. Init => Good(router)
  BY DEF Init, Good, NoPeers, IsRouter, Inverses
<1>2. Good(router) /\ [Next]_router => Good(router)'
  <2> SUFFICES ASSUME Good(router), [Next]_router
               PROVE  Good(router')
    BY DEF Good, IsRouter, Inverses
  <2>1. ASSUME NEW c \in Connections, NEW role \in 0 .. MaximumRole + 1,
               NEW session \in Sessions, Join(c, role, session)
        PROVE  Good(router')
    BY <2>1, RegisterKeepsGood DEF Join
  <2>2. ASSUME NEW c \in Connections, Leave(c)
        PROVE  Good(router')
    BY <2>2, RemoveKeepsGood DEF Leave
  <2>3. ASSUME NEW c \in Connections, NEW map \in Maps, NEW x \in Positions,
               Beacon(c, map, x)
        PROVE  Good(router')
    <3> DEFINE p == [router.peers[c] EXCEPT !.map = map, !.x = x,
                                            !.located = TRUE, !.age = 0]
    <3>1. router' = Amend(router, c, p) /\ c \in DOMAIN router.peers
      BY <2>3 DEF Beacon, UpdatePresence
    <3>2. router.peers[c] \in Peers
      BY <3>1 DEF Good, IsRouter
    <3>3. x \in Int /\ 0 \in 0 .. StaleTimeout + 1
      BY RoutingLimits
    <3> HIDE DEF p
    <3>4. p \in Peers
      BY <3>2, <3>3 DEF Peers, p
    <3>5. p.role = router.peers[c].role
      BY <3>2 DEF Peers, p
    <3> QED BY <3>1, <3>4, <3>5, AmendKeepsGood DEF p
  <2>4. ASSUME NEW c \in Connections, Hear(c)
        PROVE  Good(router')
    <3> DEFINE p == [router.peers[c] EXCEPT !.age = 0]
    <3>1. router' = Amend(router, c, p) /\ c \in DOMAIN router.peers
      BY <2>4 DEF Hear, Touch
    <3>2. router.peers[c] \in Peers
      BY <3>1 DEF Good, IsRouter
    <3>3. p \in Peers /\ p.role = router.peers[c].role
      BY <3>2, RoutingLimits DEF Peers
    <3> QED BY <3>1, <3>3, AmendKeepsGood
  <2>5. ASSUME NEW role \in Roles, NEW bucket \in Buckets, Assign(role, bucket)
        PROVE  Good(router')
    <3> DEFINE c == router.roles[role]
               p == [router.peers[c] EXCEPT !.bucket = bucket]
    <3>1. router' = Amend(router, c, p) /\ c \in DOMAIN router.peers
      BY <2>5 DEF Assign, SetBucket, Findable, HasRole, ConnectionForRole,
                    Good, Inverses
    <3>2. router.peers[c] \in Peers
      BY <3>1 DEF Good, IsRouter
    <3>3. p \in Peers /\ p.role = router.peers[c].role
      BY <3>2 DEF Peers
    <3> QED BY <3>1, <3>3, AmendKeepsGood
  <2>6. ASSUME Sweep
        PROVE  Good(router')
    BY <2>6, RemoveStaleKeepsGood, RefreshKeepsGood DEF Sweep, Swept
  <2>7. ASSUME Tick
        PROVE  Good(router')
    BY <2>7, OlderKeepsGood DEF Tick
  <2>8. ASSUME UNCHANGED router
        PROVE  Good(router')
    BY <2>8
  <2> QED BY <2>1, <2>2, <2>3, <2>4, <2>5, <2>6, <2>7, <2>8 DEF Next
<1> QED BY <1>1, <1>2, PTL DEF Spec

(* The router's value is always a well-formed table. *)
THEOREM RouterTypeOK == Spec => []TypeOK
<1>1. Good(router) => TypeOK
  BY DEF Good, TypeOK
<1> QED BY <1>1, GoodInvariant, PTL

(* The connection a role names holds that role, and the converse: what     *)
(* SetBucket, SetName, the script's drops and directed routes rely on.     *)
THEOREM RouterRolesMatchPeers == Spec => []RolesMatchPeers
<1>1. Good(router) => RolesMatchPeers
  BY DEF Good, RolesMatchPeers
<1> QED BY <1>1, GoodInvariant, PTL

-----------------------------------------------------------------------------
(* What the fan-out promises.                                              *)

LEMMA DistanceIsSymmetric ==
  ASSUME NEW p \in Peers, NEW q \in Peers
  PROVE  Distance(p, q) = Distance(q, p)
<1>1. p.x \in Int /\ q.x \in Int
  BY DEF Peers
<1> QED BY <1>1 DEF Distance

(* The crowd policy never moves a peer out of range, nor back into it. *)
LEMMA CrowdsKeepTheRange ==
  ASSUME NEW d, NEW n \in Nat
  PROVE  LET level == FidelityForDistance(d)
         IN  DegradeForCrowd(level, n) = OutOfRange <=> level = OutOfRange
<1>1. FidelityForDistance(d) \in {0, 1, 2, 3}
  BY DEF FidelityForDistance, Full, HalfDeltas, KeyframesOnly, OutOfRange
<1>2. CrowdSteps(n) \in {0, 1, 2}
  BY DEF CrowdSteps
<1> QED BY <1>1, <1>2 DEF DegradeForCrowd, KeyframesOnly, OutOfRange

(* What passes at a level passes there as a keyframe, and a keyframe       *)
(* passes wherever the distance is not out of range.                       *)
LEMMA KeyframePasses ==
  ASSUME NEW level, NEW k, Keyframe(k)
  PROVE  PassesFidelity(level, k) <=> level # OutOfRange
BY DEF PassesFidelity, Keyframe, Full, OutOfRange

LEMMA KeyframeReaches ==
  ASSUME NEW p, NEW q, q.neighbours \in Nat, NEW k, Keyframe(k)
  PROVE  Reaches(p, q, k) <=>
           /\ SameInstance(p, q)
           /\ (p.located /\ q.located) =>
                /\ Radius > 0 => Distance(p, q) <= Radius
                /\ TiersConfigured => FidelityForDistance(Distance(p, q)) # OutOfRange
BY KeyframePasses, CrowdsKeepTheRange DEF Reaches

(* Whoever hears a player's keyframes is heard by him: the recipient's     *)
(* crowd, fresh or stale, decides how much of a stream he gets and never   *)
(* whether he gets it.                                                     *)
THEOREM RouterInterestIsMutual == Spec => []InterestIsMutual
<1>1. TypeOK => InterestIsMutual
  <2> SUFFICES ASSUME TypeOK, NEW a \in DOMAIN router.peers,
                      NEW b \in DOMAIN router.peers,
                      NEW d \in Datagrams, NEW e \in Datagrams,
                      Keyframe(d), Keyframe(e)
               PROVE  b \in Recipients(router, a, d) <=> a \in Recipients(router, b, e)
    BY DEF InterestIsMutual
  <2> DEFINE p == router.peers[a]
             q == router.peers[b]
  <2>1. p \in Peers /\ q \in Peers
    BY DEF TypeOK, IsRouter
  <2>2. p.neighbours \in Nat /\ q.neighbours \in Nat
    BY <2>1 DEF Peers
  <2>3. SameInstance(p, q) <=> SameInstance(q, p)
    BY DEF SameInstance
  <2>4. Distance(p, q) = Distance(q, p)
    BY <2>1, DistanceIsSymmetric
  <2> HIDE DEF p, q
  <2>5. Reaches(p, q, d) <=> Reaches(q, p, e)
    BY <2>2, <2>3, <2>4, KeyframeReaches
  <2> QED BY <2>5 DEF Recipients, p, q
<1> QED BY <1>1, RouterTypeOK, PTL

(* Thin deltas, always pass keyframes: no recipient of a delta is denied   *)
(* the baselines it is encoded against.                                    *)
THEOREM RouterNoDeltaWithoutKeyframe == Spec => []NoDeltaWithoutKeyframe
<1>1. NoDeltaWithoutKeyframe
  <2> SUFFICES ASSUME NEW a \in DOMAIN router.peers, NEW d \in Datagrams,
                      NEW k \in Datagrams, Keyframe(k),
                      NEW b \in Recipients(router, a, d)
               PROVE  b \in Recipients(router, a, k)
    BY DEF NoDeltaWithoutKeyframe
  <2>1. \A level : PassesFidelity(level, d) => PassesFidelity(level, k)
    BY KeyframePasses DEF PassesFidelity
  <2> QED BY <2>1 DEF Recipients, Reaches
<1> QED BY <1>1, PTL

(* A pose group is thinned as a whole, whatever its fragments' sequences. *)
THEOREM RouterRoutesGroupsWhole == Spec => []PoseGroupsRoutedWhole
<1>1. PoseGroupsRoutedWhole
  BY DEF PoseGroupsRoutedWhole, Recipients, Reaches, PassesFidelity, FidelityKey
<1> QED BY <1>1, PTL

-----------------------------------------------------------------------------
(* Thinning.                                                               *)

LEMMA SparsestRateBounds ==
  /\ SparsestRate \in Nat \ {0}
  /\ MediumDivisor \in Nat /\ MediumDivisor <= SparsestRate
  /\ LowDivisor \in Nat /\ LowDivisor <= SparsestRate
<1>1. MediumDivisor \in Nat /\ LowDivisor \in Nat
  BY RoutingLimits
<1>2. \E n \in {1, MediumDivisor, LowDivisor} :
        \A m \in {1, MediumDivisor, LowDivisor} : n >= m
  <2>1. CASE MediumDivisor >= LowDivisor /\ MediumDivisor >= 1
    BY <1>1, <2>1
  <2>2. CASE LowDivisor >= MediumDivisor /\ LowDivisor >= 1
    BY <1>1, <2>2
  <2>3. CASE 1 >= MediumDivisor /\ 1 >= LowDivisor
    BY <1>1, <2>3
  <2> QED
    BY <1>1, <2>1, <2>2, <2>3
<1>3. /\ SparsestRate \in {1, MediumDivisor, LowDivisor}
      /\ \A m \in {1, MediumDivisor, LowDivisor} : SparsestRate >= m
  BY <1>2 DEF SparsestRate
<1> QED
  BY <1>1, <1>3

LEMMA MultiplesAreMultiples ==
  ASSUME NEW n \in Nat \ {0}, NEW j \in Nat
  PROVE  (n * j) % n = 0
OBVIOUS

(* Among n consecutive numbers, one is a multiple of n. *)
LEMMA OneIsAMultiple ==
  ASSUME NEW n \in Nat \ {0}, NEW first \in Nat
  PROVE  \E k \in first .. first + n - 1 : k % n = 0
<1> DEFINE q == first \div n
           r == first % n
<1>1. q \in Nat /\ r \in 0 .. n - 1 /\ first = n * q + r
  OBVIOUS
<1> HIDE DEF q, r
<1>2. q + 1 \in Nat /\ (n * q) % n = 0 /\ (n * (q + 1)) % n = 0
  <2>1. q + 1 \in Nat
    BY <1>1
  <2> QED
    BY <1>1, <2>1, MultiplesAreMultiples
<1>3. n * (q + 1) = n * q + n
  BY <1>1
<1>4. CASE r = 0
  <2>1. first % n = 0 /\ first \in first .. first + n - 1
    BY <1>4 DEF r
  <2> QED
    BY <2>1
<1>5. CASE r # 0
  <2> DEFINE k == n * (q + 1)
             low == n * q
  <2>1. low \in Int /\ k = low + n /\ first = low + r /\ k % n = 0
    BY <1>1, <1>2, <1>3
  <2> HIDE DEF k, low
  <2>2. k \in first .. first + n - 1
    BY <1>1, <1>5, <2>1
  <2> QED
    BY <2>1, <2>2
<1> QED
  BY <1>4, <1>5

(* At every level but the last, out of SparsestRate consecutive poses one is *)
(* passed.                                                                  *)
LEMMA SomePosePasses ==
  ASSUME NEW level, level # OutOfRange, NEW first \in Nat
  PROVE  \E pose \in first .. first + SparsestRate - 1 :
           PassesFidelity(level, [delta |-> TRUE, pose |-> pose, sequence |-> 1])
<1> DEFINE n == IF level = HalfDeltas THEN MediumDivisor ELSE LowDivisor
           beat(k) == [delta |-> TRUE, pose |-> k, sequence |-> 1]
<1>1. n \in Nat /\ n <= SparsestRate /\ SparsestRate \in Nat \ {0}
  BY SparsestRateBounds
<1>2. \A k : (n <= 1 \/ k % n = 0) => PassesFidelity(level, beat(k))
  BY DEF PassesFidelity, FidelityKey
<1> HIDE DEF n, beat
<1>3. CASE n <= 1
  <2>1. first \in first .. first + SparsestRate - 1
    BY <1>1
  <2> QED
    BY <1>2, <1>3, <2>1 DEF beat
<1>4. CASE n > 1
  <2>0. n \in Nat \ {0}
    BY <1>1, <1>4
  <2>1. PICK k \in first .. first + n - 1 : k % n = 0
    BY <2>0, OneIsAMultiple
  <2>2. k \in first .. first + SparsestRate - 1
    BY <1>1, <2>1
  <2> QED
    BY <1>2, <2>1, <2>2 DEF beat
<1> QED
  BY <1>1, <1>3, <1>4

(* Whoever gets a player's keyframes gets one out of every so many of his   *)
(* poses, in whatever band and crowd: nobody stands still for being far.    *)
THEOREM RouterThinningNeverFreezes == Spec => []ThinningNeverFreezes
<1>1. TypeOK => ThinningNeverFreezes
  <2> SUFFICES ASSUME TypeOK, NEW a \in DOMAIN router.peers,
                      NEW k \in Datagrams, Keyframe(k),
                      NEW b \in Recipients(router, a, k),
                      NEW first \in 1 .. SparsestRate
               PROVE  \E pose \in first .. first + SparsestRate - 1 :
                        b \in Recipients(router, a,
                                [delta |-> TRUE, pose |-> pose, sequence |-> 1])
    BY DEF ThinningNeverFreezes
  <2> DEFINE p == router.peers[a]
             q == router.peers[b]
             beat(pose) == [delta |-> TRUE, pose |-> pose, sequence |-> 1]
             level == DegradeForCrowd(FidelityForDistance(Distance(p, q)), q.neighbours)
  <2>1. first \in Nat /\ first \in first .. first + SparsestRate - 1
    BY SparsestRateBounds
  <2>2. Reaches(p, q, k) /\ b \in DOMAIN router.peers \ {a}
    BY DEF Recipients
  <2>3. CASE p.located /\ q.located /\ TiersConfigured
    <3>1. level # OutOfRange
      BY <2>2, <2>3, KeyframePasses DEF Reaches
    <3>2. PICK pose \in first .. first + SparsestRate - 1 : PassesFidelity(level, beat(pose))
      BY <2>1, <3>1, SomePosePasses
    <3>3. Reaches(p, q, beat(pose))
      BY <2>2, <2>3, <3>2 DEF Reaches
    <3> QED
      BY <2>2, <3>3 DEF Recipients
  <2>4. CASE ~ (p.located /\ q.located /\ TiersConfigured)
    <3>1. Reaches(p, q, beat(first))
      BY <2>2, <2>4 DEF Reaches
    <3> QED
      BY <2>1, <2>2, <3>1 DEF Recipients
  <2> QED
    BY <2>3, <2>4
<1> QED
  BY <1>1, RouterTypeOK, PTL
=============================================================================
