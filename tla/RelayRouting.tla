---------------------------- MODULE RelayRouting ----------------------------
(***************************************************************************)
(* The relay's routing table and its fan-out rules, as operators on a      *)
(* router value (VisualRelayRouter, skate3_multiplayer_routing.h).         *)
(*                                                                         *)
(* A router is [peers, roles]: `peers` maps a connection to its RelayPeer, *)
(* `roles` is role_to_connection_.  Positions are points of a line, since  *)
(* only distances matter, and a peer carries the AGE of last_seen_us       *)
(* (now_us - last_seen_us) instead of an absolute time.                    *)
(***************************************************************************)
EXTENDS Integers, FiniteSets, Functions

CONSTANTS
  Connections,     \* connection ids (derived from the source address)
  MaximumRole,     \* protocol::kMaximumRole
  Sessions,        \* nonzero session ids
  Maps,            \* announced map hashes; UnknownMap is the hash 0
  UnknownMap,
  Positions,       \* positions of skaters, on a line
  Names,           \* display names; Unnamed is the empty one
  Unnamed,
  Buckets,         \* routing buckets; 0 is the default world
  Radius,          \* options.radius, 0 for unlimited
  HighDistance, MediumDistance, LowDistance,   \* FidelityTiers
  MediumDivisor, LowDivisor,                   \* FidelityRates
  MediumAbove, LowAbove,                       \* CrowdPolicy
  Poses,           \* pose ids and envelope sequences of the datagrams
  Sequences,       \* the properties look at
  StaleTimeout     \* kStaleTimeoutMicroseconds, in ticks

ASSUME RoutingLimits ==
  /\ IsFiniteSet(Connections)
  /\ MaximumRole \in Nat \ {0}
  /\ Positions \subseteq Int
  /\ Poses \subseteq Nat /\ Sequences \subseteq Nat
  /\ Buckets \subseteq Nat /\ 0 \in Buckets
  /\ UnknownMap \notin Maps
  /\ {Radius, HighDistance, MediumDistance, LowDistance} \subseteq Nat
  /\ {MediumDivisor, LowDivisor, MediumAbove, LowAbove} \subseteq Nat
  /\ StaleTimeout \in Nat

Roles == 1 .. MaximumRole

Peers == [role : Roles, session : Sessions, map : Maps \cup {UnknownMap},
          x : Int, located : BOOLEAN, bucket : Buckets, neighbours : Nat,
          name : Names \cup {Unnamed}, age : 0 .. StaleTimeout + 1]

IsRouter(router) ==
  /\ router = [peers |-> router.peers, roles |-> router.roles]
  /\ DOMAIN router.peers \subseteq Connections
  /\ \A c \in DOMAIN router.peers : router.peers[c] \in Peers
  /\ DOMAIN router.roles \subseteq Roles
  /\ \A r \in DOMAIN router.roles : router.roles[r] \in Connections

\* The two maps are inverse to each other.
Inverses(router) ==
  /\ \A c \in DOMAIN router.peers :
       /\ router.peers[c].role \in DOMAIN router.roles
       /\ router.roles[router.peers[c].role] = c
  /\ \A r \in DOMAIN router.roles :
       /\ router.roles[r] \in DOMAIN router.peers
       /\ router.peers[router.roles[r]].role = r

NoPeers == [peers |-> << >>, roles |-> << >>]

-----------------------------------------------------------------------------
(* Registration, removal, and the setters of the main loop. *)

NewPeer(role, session) ==
  [role |-> role, session |-> session, map |-> UnknownMap, x |-> 0,
   located |-> FALSE, bucket |-> 0, neighbours |-> 0, name |-> Unnamed,
   age |-> 0]

With(f, a, b) == [z \in DOMAIN f \cup {a} |-> IF z = a THEN b ELSE f[z]]
Without(f, a) == Restrict(f, DOMAIN f \ {a})

\* MUTANT. Forgets to evict the connection that held the role before.
EnterKeepsOld(router, connection, peer) ==
  [peers |-> With(router.peers, connection, peer),
   roles |-> With(router.roles, peer.role, connection)]

\* Enters a peer whose role is a possible one, over whoever held the role.
Enter(router, connection, peer) ==
  LET taken == /\ peer.role \in DOMAIN router.roles
               /\ router.roles[peer.role] # connection
      peers == IF taken THEN Without(router.peers, router.roles[peer.role])
                        ELSE router.peers
      moved == /\ connection \in DOMAIN peers
               /\ peers[connection].role # peer.role
      roles == IF moved THEN Without(router.roles, peers[connection].role)
                        ELSE router.roles
  IN  [peers |-> With(peers, connection, peer),
       roles |-> With(roles, peer.role, connection)]

\* MUTANT. Takes any role the caller offers.
RegisterUnchecked(router, connection, peer) == Enter(router, connection, peer)

Register(router, connection, peer) ==
  IF peer.role \in Roles THEN Enter(router, connection, peer) ELSE router

Remove(router, connection) ==
  IF connection \notin DOMAIN router.peers THEN router ELSE
    [peers |-> Without(router.peers, connection),
     roles |-> Without(router.roles, router.peers[connection].role)]

\* The connection holding `role`; callers test the membership first.
HasRole(router, role) == role \in DOMAIN router.roles
ConnectionForRole(router, role) == router.roles[role]

Amend(router, connection, peer) ==
  [router EXCEPT !.peers[connection] = peer]

UpdatePresence(router, connection, map, x) ==
  IF connection \notin DOMAIN router.peers THEN router ELSE
    Amend(router, connection,
          [router.peers[connection] EXCEPT
             !.map = map, !.x = x, !.located = TRUE, !.age = 0])

Touch(router, connection) ==
  IF connection \notin DOMAIN router.peers THEN router ELSE
    Amend(router, connection, [router.peers[connection] EXCEPT !.age = 0])

\* SetBucket and SetName give up when either lookup fails.
Findable(router, role) ==
  /\ HasRole(router, role)
  /\ ConnectionForRole(router, role) \in DOMAIN router.peers

SetBucket(router, role, bucket) ==
  IF ~ Findable(router, role) THEN router
  ELSE LET c == ConnectionForRole(router, role)
       IN  Amend(router, c, [router.peers[c] EXCEPT !.bucket = bucket])

SetName(router, role, name) ==
  IF ~ Findable(router, role) THEN router
  ELSE LET c == ConnectionForRole(router, role)
       IN  Amend(router, c, [router.peers[c] EXCEPT !.name = name])

\* Time passes: every peer's last_seen_us is one tick older.
Older(router) ==
  [router EXCEPT !.peers =
     [c \in DOMAIN router.peers |->
        [router.peers[c] EXCEPT !.age = IF @ > StaleTimeout THEN @ ELSE @ + 1]]]

\* MUTANT. Evicts only peers that have sent a beacon.
StaleLocated(router) ==
  {c \in DOMAIN router.peers :
     router.peers[c].located /\ router.peers[c].age > StaleTimeout}

Stale(router) == {c \in DOMAIN router.peers : router.peers[c].age > StaleTimeout}

\* MUTANT. Erases the peers that fell silent but not their roles.
RemoveStalePeersOnly(router) ==
  [router EXCEPT !.peers =
     Restrict(router.peers, DOMAIN router.peers \ Stale(router))]

RemoveStale(router) ==
  LET gone == Stale(router)
  IN  [peers |-> Restrict(router.peers, DOMAIN router.peers \ gone),
       roles |-> Restrict(router.roles,
                   DOMAIN router.roles \ {router.peers[c].role : c \in gone})]

-----------------------------------------------------------------------------
(* Crowds: who counts as being in a peer's immediate area. *)

Distance(p, q) == IF p.x > q.x THEN p.x - q.x ELSE q.x - p.x

\* Two peers could hear each other at all: same map, same bucket.
SameInstance(p, q) == p.map = q.map /\ p.bucket = q.bucket

Crowd(peers, c) ==
  {d \in DOMAIN peers \ {c} :
     /\ peers[c].located /\ peers[d].located
     /\ SameInstance(peers[c], peers[d])
     /\ Distance(peers[c], peers[d]) <= HighDistance}

RefreshCrowdCounts(router) ==
  [router EXCEPT !.peers =
     [c \in DOMAIN router.peers |->
        [router.peers[c] EXCEPT !.neighbours =
           IF HighDistance = 0 THEN 0 ELSE Cardinality(Crowd(router.peers, c))]]]

-----------------------------------------------------------------------------
(* Fidelity: which datagrams of a stream a recipient receives.             *)

Full == 0
HalfDeltas == 1
KeyframesOnly == 2
OutOfRange == 3

FidelityForDistance(d) ==
  IF HighDistance > 0 /\ d <= HighDistance THEN Full
  ELSE IF MediumDistance > 0 /\ d <= MediumDistance THEN HalfDeltas
  ELSE IF LowDistance > 0 /\ d <= LowDistance THEN KeyframesOnly
  ELSE OutOfRange

CrowdSteps(neighbours) ==
  IF LowAbove # 0 /\ neighbours > LowAbove THEN 2
  ELSE IF MediumAbove # 0 /\ neighbours > MediumAbove THEN 1 ELSE 0

\* MUTANT. The crowd policy may push a peer past the last band.
DegradeWithoutFloor(level, neighbours) ==
  IF level + CrowdSteps(neighbours) > OutOfRange THEN OutOfRange
  ELSE level + CrowdSteps(neighbours)

DegradeForCrowd(level, neighbours) ==
  IF level = OutOfRange THEN level
  ELSE LET degraded == level + CrowdSteps(neighbours)
       IN  IF degraded > KeyframesOnly THEN KeyframesOnly ELSE degraded

\* A datagram is [delta, pose, sequence]: whether it is a pose delta, the
\* pose group it belongs to, and its own envelope sequence.
Datagrams == [delta : BOOLEAN, pose : Poses, sequence : Sequences]

\* MUTANT. Thinning counts datagrams, not pose groups.
KeyBySequence(datagram) == datagram.sequence

\* Every fragment of a pose group carries the same pose_id: thinning keys on
\* it, so that a group is dropped or passed whole.
FidelityKey(datagram) ==
  IF datagram.delta THEN datagram.pose ELSE datagram.sequence

\* MUTANT. Keyframes are thinned like deltas.
PassesThinned(level, datagram) ==
  /\ level # OutOfRange
  /\ LET divisor == IF level = HalfDeltas THEN MediumDivisor ELSE LowDivisor
     IN  level = Full \/ divisor <= 1 \/ FidelityKey(datagram) % divisor = 0

\* MUTANT. The lowest band passes keyframes and nothing else, as it once did.
PassesKeyframesOnly(level, datagram) ==
  /\ level # OutOfRange
  /\ \/ level = Full
     \/ ~ datagram.delta
     \/ level = HalfDeltas /\ FidelityKey(datagram) % MediumDivisor = 0

PassesFidelity(level, datagram) ==
  /\ level # OutOfRange
  /\ \/ level = Full
     \/ ~ datagram.delta
     \/ LET divisor == IF level = HalfDeltas THEN MediumDivisor ELSE LowDivisor
        IN  divisor <= 1 \/ FidelityKey(datagram) % divisor = 0

TiersConfigured == HighDistance > 0 \/ MediumDistance > 0 \/ LowDistance > 0

\* RouteRaw's loop body: does `to` receive this datagram of `from`?
Reaches(from, to, datagram) ==
  /\ SameInstance(from, to)
  /\ (from.located /\ to.located) =>
       LET d == Distance(from, to)
           level == DegradeForCrowd(FidelityForDistance(d), to.neighbours)
       IN  /\ Radius > 0 => d <= Radius
           /\ TiersConfigured => PassesFidelity(level, datagram)

\* RouteRaw, as main() calls it, with target_role 0: the disposition of a
\* datagram claiming `role` and `session`.
Disposition(router, source, role, session) ==
  IF source \notin DOMAIN router.peers THEN "unknownConnection"
  ELSE IF router.peers[source].role # role THEN "spoofedRole"
  ELSE IF router.peers[source].session # session THEN "staleSession"
  ELSE "forward"

\* The fan-out of a datagram of a registered source.
Recipients(router, source, datagram) ==
  {c \in DOMAIN router.peers \ {source} :
     Reaches(router.peers[source], router.peers[c], datagram)}
=============================================================================
