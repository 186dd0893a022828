-------------------------- MODULE DedicatedServer --------------------------
(***************************************************************************)
(* The dedicated server's relay loop (skate3_dedicated_main.cpp) with the  *)
(* clients that register with it, the datagrams between them, and the      *)
(* script threads that ask it to move and drop players.                    *)
(*                                                                         *)
(* A connection is a client's UDP endpoint: a client that comes back binds *)
(* a new port and is another connection.  One iteration of the loop is the *)
(* phases of `pc`: "receive" (at most one datagram), "sweep", "buckets",   *)
(* "names" and "drops" (each holding its mutex, so nobody pushes to it),   *)
(* and "publish".  Other threads run between any two phases.               *)
(*                                                                         *)
(* A tick is longer than a datagram lives and shorter than the stale       *)
(* timeout; now_us is read once per iteration, so time passes at "receive".*)
(***************************************************************************)
EXTENDS RelayRouting

CONSTANTS
  MaxMoves,    \* bound: SetPlayerRoutingBucket calls
  MaxDrops     \* bound: DropPlayer calls

ASSUME ServerBounds == MaxMoves \in Nat /\ MaxDrops \in Nat

VARIABLES
  client,          \* "off", "registering", "playing" or "closed"
  clientRole,      \* bound_role_, 0 until acknowledged
  registers,       \* connections with a kRelayRegister in flight
  acks,            \* the <<connection, role>> acknowledgements in flight
  beacons,         \* the <<connection, x>> presence beacons in flight
  pc,              \* phase of the relay loop
  sweepDue,        \* more than kSweepInterval since last_sweep_us
  router,          \* VisualRelayRouter
  nextRole,        \* RoleAllocator::next_role_
  assigned,        \* RoleAllocator::role_by_connection_
  joined,          \* connections whose first beacon was seen
  pendingBuckets,  \* g_pending_buckets: the last bucket asked for each role
  pendingNames,    \* g_pending_names: the last name posted for each role
  pendingDrops,    \* g_pending_drops
  published,       \* the roles in g_players' snapshot
  inScope,         \* ScopeTracker::in_scope_
  told,            \* the last lifecycle event scripts saw of each role
  moves, drops     \* calls made so far

clients == <<client, clientRole>>
network == <<registers, acks, beacons>>
allocator == <<nextRole, assigned>>
players == <<published, inScope>>
scripts == <<pendingBuckets, pendingNames, pendingDrops, moves, drops>>
vars == <<clients, network, pc, sweepDue, router, allocator, joined, scripts,
          players, told>>

Pairs == Roles \X Roles
MaxRoleOrZero == Roles \cup {0}

TypeOK ==
  /\ client \in [Connections -> {"off", "registering", "playing", "closed"}]
  /\ clientRole \in [Connections -> MaxRoleOrZero]
  /\ registers \subseteq Connections
  /\ acks \subseteq Connections \X Roles
  /\ beacons \subseteq Connections \X Positions
  /\ pc \in {"receive", "sweep", "buckets", "names", "drops", "publish"}
  /\ sweepDue \in BOOLEAN
  /\ IsRouter(router)
  /\ nextRole \in 1 .. MaximumRole + 1
  /\ DOMAIN assigned \subseteq Connections
  /\ \A c \in DOMAIN assigned : assigned[c] \in Roles
  /\ joined \subseteq Connections
  /\ DOMAIN pendingBuckets \subseteq Roles
  /\ \A r \in DOMAIN pendingBuckets : pendingBuckets[r] \in Buckets
  /\ DOMAIN pendingNames \subseteq Roles
  /\ \A r \in DOMAIN pendingNames : pendingNames[r] \in Names
  /\ pendingDrops \subseteq Roles
  /\ published \subseteq Roles
  /\ inScope \subseteq Pairs
  /\ told \in [Roles -> {"nothing", "connecting", "joining", "dropped"}]
  /\ moves \in 0 .. MaxMoves /\ drops \in 0 .. MaxDrops

Init ==
  /\ client = [c \in Connections |-> "off"]
  /\ clientRole = [c \in Connections |-> 0]
  /\ registers = {} /\ acks = {} /\ beacons = {}
  /\ pc = "receive" /\ sweepDue = FALSE
  /\ router = NoPeers
  /\ nextRole = 1 /\ assigned = << >>
  /\ joined = {}
  /\ pendingBuckets = << >> /\ pendingNames = << >> /\ pendingDrops = {}
  /\ published = {} /\ inScope = {}
  /\ told = [r \in Roles |-> "nothing"]
  /\ moves = 0 /\ drops = 0

-----------------------------------------------------------------------------
(* Clients (skate3_multiplayer.cpp).                                       *)

Start(c) ==
  /\ client[c] = "off"
  /\ client' = [client EXCEPT ![c] = "registering"]
  /\ UNCHANGED <<clientRole, network, pc, sweepDue, router, allocator, joined,
                 scripts, players, told>>

\* Every 400 ms until an acknowledgement arrives.
SendRegister(c) ==
  /\ client[c] = "registering"
  /\ registers' = registers \cup {c}
  /\ UNCHANGED <<clients, acks, beacons, pc, sweepDue, router, allocator,
                 joined, scripts, players, told>>

\* A second acknowledgement changes nothing.
ReceiveAck(c, role) ==
  /\ <<c, role>> \in acks
  /\ acks' = acks \ {<<c, role>>}
  /\ IF client[c] = "registering"
     THEN /\ client' = [client EXCEPT ![c] = "playing"]
          /\ clientRole' = [clientRole EXCEPT ![c] = role]
     ELSE UNCHANGED clients
  /\ UNCHANGED <<registers, beacons, pc, sweepDue, router, allocator, joined,
                 scripts, players, told>>

\* Presence beacons, which double as the keepalive.
SendBeacon(c, x) ==
  /\ client[c] = "playing"
  /\ beacons' = beacons \cup {<<c, x>>}
  /\ UNCHANGED <<clients, registers, acks, pc, sweepDue, router, allocator,
                 joined, scripts, players, told>>

Close(c) ==
  /\ client[c] \in {"registering", "playing"}
  /\ client' = [client EXCEPT ![c] = "closed"]
  /\ UNCHANGED <<clientRole, network, pc, sweepDue, router, allocator, joined,
                 scripts, players, told>>

-----------------------------------------------------------------------------
(* The relay loop.                                                         *)

\* MUTANT. Hands out the lowest id nobody holds.
AssignLowest(c) ==
  IF c \in DOMAIN assigned THEN assigned[c]
  ELSE IF Roles \subseteq Range(assigned) THEN 0
  ELSE CHOOSE r \in Roles \ Range(assigned) :
         \A s \in Roles \ Range(assigned) : r <= s

\* MUTANT. Treats every registration as a new player's.
AssignAfresh(c) == IF nextRole > MaximumRole THEN 0 ELSE nextRole

\* MUTANT. Off by one at the last id.
AssignOneMore(c) ==
  IF c \in DOMAIN assigned THEN assigned[c]
  ELSE IF nextRole > MaximumRole + 1 THEN 0 ELSE nextRole

\* RoleAllocator::Assign: the role of a connection, 0 when ids ran out.
Assign(c) ==
  IF c \in DOMAIN assigned THEN assigned[c]
  ELSE IF nextRole > MaximumRole THEN 0 ELSE nextRole

\* MUTANT. Answers a registration only once.
AnswerOnce(c, role) == IF c \in DOMAIN assigned THEN {} ELSE {<<c, role>>}

\* The acknowledgement of a registration, first or retried.
Answer(c, role) == {<<c, role>>}

\* HandleRegister: acknowledge, (re-)enter the peer, tell the scripts.  Clients
\* know the token. A client ignores the answer that ids ran out (kFull), which
\* is left out, as is a router that refuses a role the allocator gave.
ReceiveRegister(c) ==
  /\ pc = "receive"
  /\ c \in registers
  /\ pc' = "sweep"
  /\ registers' = registers \ {c}
  /\ \E session \in Sessions :
       LET role == Assign(c) IN
          IF role = 0
          THEN /\ router' = Touch(router, c)
               /\ UNCHANGED <<acks, allocator, told>>
          ELSE /\ router' = Register(router, c, NewPeer(role, session))
               /\ assigned' = With(assigned, c, role)
               /\ nextRole' = IF c \in DOMAIN assigned THEN nextRole ELSE nextRole + 1
               /\ acks' = acks \cup Answer(c, role)
               /\ told' = [told EXCEPT ![role] = "connecting"]
  /\ UNCHANGED <<clients, beacons, sweepDue, joined, scripts, players>>

\* A beacon: liveness and position, and "joining" the first time.
ReceiveBeacon(c, x) ==
  /\ pc = "receive"
  /\ <<c, x>> \in beacons
  /\ pc' = "sweep"
  /\ beacons' = beacons \ {<<c, x>>}
  /\ \E map \in Maps : router' = UpdatePresence(Touch(router, c), c, map, x)
  /\ joined' = joined \cup {c}
  /\ told' = IF c \notin joined /\ c \in DOMAIN router.peers
             THEN [told EXCEPT ![router.peers[c].role] = "joining"] ELSE told
  /\ UNCHANGED <<clients, registers, acks, sweepDue, allocator, scripts, players>>

Idle ==
  /\ pc = "receive"
  /\ pc' = "sweep"
  /\ UNCHANGED <<clients, network, sweepDue, router, allocator, joined, scripts,
                 players, told>>

\* MUTANT. Forgets what a player saw, and not who saw him.
ForgottenAsObserver(pairs, roles) == {p \in pairs : p[1] \notin roles}

\* ScopeTracker::Forget for every role of a set.
Forgotten(pairs, roles) == {p \in pairs : p[1] \notin roles /\ p[2] \notin roles}

\* MUTANT. Reads the roles after the peers are gone.
DroppedRolesTooLate(r) ==
  {r.peers[c].role : c \in Stale(r) \cap DOMAIN RemoveStale(r).peers}

\* The roles to report as dropped, read before RemoveStale erases the peers.
DroppedRoles(r) == {r.peers[c].role : c \in Stale(r)}

\* MUTANT. Keeps the role for when the connection comes back.
ReleasedNever(connections) == assigned

\* RoleAllocator::Release for every connection of a set.
Released(connections) == Restrict(assigned, DOMAIN assigned \ connections)

Sweep ==
  /\ pc = "sweep"
  /\ pc' = "buckets"
  /\ sweepDue' = FALSE
  /\ IF sweepDue
     THEN /\ router' = RefreshCrowdCounts(RemoveStale(router))
          /\ assigned' = Released(Stale(router))
          /\ joined' = joined \ Stale(router)
          /\ inScope' = Forgotten(inScope, DroppedRoles(router))
          /\ told' = [r \in Roles |->
               IF r \in DroppedRoles(router) THEN "dropped" ELSE told[r]]
     ELSE UNCHANGED <<router, assigned, joined, inScope, told>>
  /\ UNCHANGED <<clients, network, nextRole, scripts, published>>

\* One entry of g_pending_buckets.
ApplyBucket(role) ==
  /\ pc = "buckets"
  /\ role \in DOMAIN pendingBuckets
  /\ router' = SetBucket(router, role, pendingBuckets[role])
  /\ pendingBuckets' = Without(pendingBuckets, role)
  /\ UNCHANGED <<clients, network, pc, sweepDue, allocator, joined, pendingNames,
                 pendingDrops, moves, drops, players, told>>

BucketsDone ==
  /\ pc = "buckets" /\ DOMAIN pendingBuckets = {}
  /\ pc' = "names"
  /\ UNCHANGED <<clients, network, sweepDue, router, allocator, joined, scripts,
                 players, told>>

\* One entry of g_pending_names.
ApplyName(role) ==
  /\ pc = "names"
  /\ role \in DOMAIN pendingNames
  /\ router' = SetName(router, role, pendingNames[role])
  /\ pendingNames' = Without(pendingNames, role)
  /\ UNCHANGED <<clients, network, pc, sweepDue, allocator, joined, pendingBuckets,
                 pendingDrops, moves, drops, players, told>>

NamesDone ==
  /\ pc = "names" /\ DOMAIN pendingNames = {}
  /\ pc' = "drops"
  /\ UNCHANGED <<clients, network, sweepDue, router, allocator, joined, scripts,
                 players, told>>

\* One entry of g_pending_drops; a role that is gone already is skipped.
ApplyDrop(role) ==
  /\ pc = "drops"
  /\ role \in pendingDrops
  /\ pendingDrops' = pendingDrops \ {role}
  /\ IF HasRole(router, role)
     THEN LET c == ConnectionForRole(router, role)
          IN  /\ router' = Remove(router, c)
              /\ assigned' = Released({c})
              /\ joined' = joined \ {c}
              /\ told' = [told EXCEPT ![role] = "dropped"]
     ELSE UNCHANGED <<router, assigned, joined, told>>
  /\ UNCHANGED <<clients, network, pc, sweepDue, nextRole, pendingBuckets,
                 pendingNames, moves, drops, players>>

DropsDone ==
  /\ pc = "drops" /\ pendingDrops = {}
  /\ pc' = "publish"
  /\ UNCHANGED <<clients, network, sweepDue, router, allocator, joined, scripts,
                 players, told>>

Within(p, q) ==
  (Radius > 0 /\ p.located /\ q.located) => Distance(p, q) <= Radius

RolePairs(r, Related(_, _)) ==
  {<<r.peers[p[1]].role, r.peers[p[2]].role>> : p \in
     {q \in (DOMAIN r.peers) \X (DOMAIN r.peers) :
        q[1] # q[2] /\ Related(r.peers[q[1]], r.peers[q[2]])}}

\* MUTANT. Forgets that the maps must be the same.
ScopePairsAnywhere(r) == RolePairs(r, Within)

\* ScopeTracker::Update's pairs: the same map, and within the radius.
ScopePairs(r) == RolePairs(r, LAMBDA p, q : p.map = q.map /\ Within(p, q))

\* MUTANT. Publishes only the players whose position is known.
SnapshotLocated(r) == {r.peers[c].role : c \in {d \in DOMAIN r.peers : r.peers[d].located}}

\* g_players.Publish(router.Peers()).
Snapshot(r) == {r.peers[c].role : c \in DOMAIN r.peers}

\* Republish the players, and raise the scope transitions: playerEnteredScope
\* for the pairs that are new in inScope', playerLeftScope for those gone.
Publish ==
  /\ pc = "publish"
  /\ pc' = "receive"
  /\ published' = Snapshot(router)
  /\ inScope' = ScopePairs(router)
  /\ UNCHANGED <<clients, network, sweepDue, router, allocator, joined, scripts, told>>

-----------------------------------------------------------------------------
(* Script and HTTP threads only queue.                                     *)

SetPlayerRoutingBucket(role, bucket) ==
  /\ pc # "buckets" /\ moves < MaxMoves
  /\ told[role] # "nothing"
  /\ pendingBuckets' = With(pendingBuckets, role, bucket)
  /\ moves' = moves + 1
  /\ UNCHANGED <<clients, network, pc, sweepDue, router, allocator, joined,
                 pendingNames, pendingDrops, drops, players, told>>

\* A client posts its name; `name` is what de-duplication made of it.
PostName(role, name) ==
  /\ pc # "names"
  /\ told[role] # "nothing"
  /\ pendingNames' = With(pendingNames, role, name)
  /\ UNCHANGED <<clients, network, pc, sweepDue, router, allocator, joined,
                 pendingBuckets, pendingDrops, moves, drops, players, told>>

DropPlayer(role) ==
  /\ pc # "drops" /\ drops < MaxDrops
  /\ told[role] # "nothing"
  /\ pendingDrops' = pendingDrops \cup {role}
  /\ drops' = drops + 1
  /\ UNCHANGED <<clients, network, pc, sweepDue, router, allocator, joined,
                 pendingBuckets, pendingNames, moves, players, told>>

-----------------------------------------------------------------------------
(* The network and the clock.                                              *)

\* Time passes, and what was in flight is older than a datagram lives: what
\* is not received before the tick is lost.
Tick ==
  /\ pc = "receive"
  /\ router' = Older(router)
  /\ sweepDue' = TRUE
  /\ registers' = {} /\ acks' = {} /\ beacons' = {}
  /\ UNCHANGED <<clients, pc, allocator, joined, scripts, players, told>>

Loop ==
  \/ Idle \/ Sweep \/ BucketsDone \/ NamesDone \/ DropsDone \/ Publish
  \/ \E role \in Roles : ApplyBucket(role) \/ ApplyName(role) \/ ApplyDrop(role)

Next ==
  \/ \E c \in Connections :
       \/ Start(c) \/ SendRegister(c) \/ Close(c)
       \/ \E role \in Roles : ReceiveAck(c, role)
       \/ \E x \in Positions : SendBeacon(c, x) \/ ReceiveBeacon(c, x)
       \/ ReceiveRegister(c)
  \/ Loop
  \/ \E role \in Roles : \/ \E bucket \in Buckets : SetPlayerRoutingBucket(role, bucket)
                         \/ \E name \in Names : PostName(role, name)
                         \/ DropPlayer(role)
  \/ Tick

Spec == Init /\ [][Next]_vars

-----------------------------------------------------------------------------
(* Safety                                                                  *)

\* The allocator and the router agree on who holds which id: a connection
\* that timed out or was dropped and registers again is a new player, and a
\* connection that is there keeps its id.
AllocationsMatchPeers ==
  /\ DOMAIN assigned = DOMAIN router.peers
  /\ \A c \in DOMAIN assigned : assigned[c] = router.peers[c].role

\* The scripts' picture of who is connected is the relay's: a role is in the
\* router exactly when playerConnecting was raised for it and playerDropped
\* was not, whichever of timeout and DropPlayer removes it.
ScriptsKnowEveryPlayer ==
  \A r \in Roles : told[r] \in {"connecting", "joining"} <=> HasRole(router, r)

\* "playerDropped already covers it, and firing both would make handlers
\* double-count": a scope the tracker has yet to report the end of is one of
\* players whose drop scripts were not told of, so that no playerLeftScope
\* follows the playerDropped of a time-out. The drop phase forgets no scopes:
\* from a drop by a script to the publish of that iteration, which reports them
\* all the same, those of the dropped are excepted.
ScopesAreOfPlayers ==
  \/ pc \in {"drops", "publish"} /\ drops > 0
  \/ \A p \in inScope : {told[p[1]], told[p[2]]} \subseteq {"connecting", "joining"}

\* The server implements the ids it promises: issued in order, never twice,
\* each the name of one connection until it is gone.
Ids == INSTANCE PlayerIds WITH issued <- nextRole - 1, holder <- router.roles
IdsSpec == Ids!Spec

\* A client plays under the role the relay knows it by, so that no stream of
\* its own is rejected as spoofed, however many registrations were in flight,
\* as long as scripts drop nobody.
StreamsAreAccepted ==
  \A c \in Connections : client[c] = "playing" =>
    \A session \in Sessions :
      Disposition(router, c, clientRole[c], session) # "spoofedRole"

\* When playerJoining is raised, GetSkater finds the player it is about: the
\* snapshot scripts read has been republished since the registration.
JoiningPlayersAreKnown ==
  [][\A r \in Roles :
       (told'[r] = "joining" /\ told[r] # "joining") => r \in published]_vars

\* Scope events say what the relay does: with one bucket, a player is in
\* another's scope exactly when that one's keyframes are forwarded to him.
Beat == [delta |-> FALSE, pose |-> 1, sequence |-> 1]
ScopesFollowInterest ==
  [][Publish => inScope' = RolePairs(router, LAMBDA p, q : Reaches(p, q, Beat))]_vars

-----------------------------------------------------------------------------
(* Liveness.  The loop never stops; time passes; a client retries its        *)
(* registration until it is answered; and a datagram that is sent again and  *)
(* again gets through now and then, and is then handled.                     *)

Fairness ==
  /\ WF_vars(Loop)
  /\ SF_vars(Tick)
  /\ \A c \in Connections :
       /\ WF_vars(SendRegister(c))
       /\ SF_vars(ReceiveRegister(c))
       /\ SF_vars(\E role \in Roles : ReceiveAck(c, role))

FairSpec == Spec /\ Fairness

\* A client that is gone is gone from the server for good, without having
\* said so: late registrations may bring it back, a timeout removes it again.
ClosedClientsAreDropped ==
  \A c \in Connections :
    client[c] = "closed" ~> [](c \notin DOMAIN router.peers)

\* A client that registers gets to play, unless it gives up or ids ran out.
RegistrationsComplete ==
  \A c \in Connections :
    client[c] = "registering" ~>
      (client[c] \in {"playing", "closed"} \/ nextRole > MaximumRole)
=============================================================================
