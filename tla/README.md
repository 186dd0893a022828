# SK8 Engine Dedicated: a verification development

TLA+ models of the parts of this repository where processes, threads and
datagrams meet: the dedicated relay server (`tools/relay`), the transport it
shares with the game client (`src/skate3_multiplayer_*.h`), the stream of
poses between clients, the events of their scripts, and the services that dress
players and place props. TLC checks small instances; TLAPS proves the results that
matter most for every value of the constants.

1. [The system](#1-the-system)
2. [The modules and the code](#2-the-modules-and-the-code)
3. [The runs](#3-the-runs)
4. [Fairness](#4-fairness)
5. [The theorems](#5-the-theorems)
6. [Where the code and its comments part](#6-where-the-code-and-its-comments-part)
7. [What is not modelled, and why](#7-what-is-not-modelled-and-why)
8. [The plan](#8-the-plan)

Everything is run in this directory, for instance

    tlc -workers 2 -config server_lifecycle.cfg MCDedicatedServer
    tlapm DedicatedServerProofs.tla

## 1. The system

A *client* is the game with a native layer around it; a *relay server* is a
console program. Movement is the client's own: it sends its pose, and the
server decides who receives it. Everything else (ids, instances, names,
appearances, scripts) belongs to the server.

    client game thread --UDP-->  relay loop  --UDP--> the other clients
        |  ^                       |  ^  |
        |  | mutex                 |  |  +-> events --> Lua script host
        v  |                       |  |                     |
    HTTP worker ----HTTP---->  HTTP workers <-- queues -----+

The program's own concurrent core, part by part. *State* is what the part
keeps, *hard* what a test would hardly reach, *correct* what the properties
say.

| Part (source) | State | Operations | Interacts with | Hard | Correct |
|---|---|---|---|---|---|
| **Reliable channel** (`skate3_multiplayer_reliable_channel.h`) | sender: next id, queue with attempts and due time; receiver: floor, messages being assembled | `Queue`, `Collect`, `Acknowledge`; `Accept`, `BuildAck` | script events of client and server, both directions | loss, duplication, reordering of fragments and of acknowledgements; give-up; window limits | ordered, intact, once; nothing retired that did not arrive; the queue drains |
| **Relay router** (`skate3_multiplayer_routing.h`) | peers by connection, connection by role, crowd counts | `Register`, `Remove`, `UpdatePresence`, `Touch`, `SetBucket`, `SetName`, `RemoveStale`, `RefreshCrowdCounts`, `RouteRaw` | called by the relay loop only | a role taken over; stale crowd counts; four filters composed | the two maps are inverse; who hears whom is mutual; a delta never without its baselines |
| **Relay loop, ids, registry, scopes** (`skate3_dedicated_main.cpp`, `_players.cpp`, `_lua.cpp`) | router, allocator, joined set, three queues filled by other threads, snapshot, scope pairs | one iteration: receive, sweep, buckets, names, drops, publish | clients by UDP, scripts by events and queues | retried and late registrations, time-outs against late beacons, script requests against departures | allocator, router and scripts agree on every id; ids are never reused; scopes say what is forwarded |
| **Server threads and mutexes** (`main.cpp`, `_lua.cpp`, `skate3_lua_script_host.cpp`, `skate3_lua_admin_http.cpp`) | the script host's mutex, one per queue and registry | loop iteration, HTTP requests, natives called from Lua | all of the above | events raised under a queue's mutex; console commands | everybody gets through; mutexes are taken in one order |
| **Appearance store and service** (`skate3_appearance_store.h`, `skate3_appearance_service.cpp`, `skate3_dedicated_appearance.cpp`, parts of `skate3_multiplayer.cpp`) | server: blobs by last use, look per role; client: pending upload, uploaded set, interest, requests, downloads, parked looks | upload in two lock sections, long poll, download, publish, install, prune | client game thread, its HTTP worker, server HTTP workers | eviction against claims and downloads, failed requests, peers pruned with requests in flight, parked looks | what the roster names exists; the bound holds but for looks in use; nobody stays a proxy; looks are shown |
| **Script events** (`skate3_dedicated_script_events.cpp`, `skate3_multiplayer.cpp`) | client: one sender, one receiver, an owed acknowledgement; server: these per connection, and a queue | `SendScriptEvent`, `DrainScriptEventOutbound`, `HandleReliablePacket`; `QueueClientScriptEvent`, `HandleScriptEventPacket`, `DrainScriptEvents` | reliable channel, router, scripts | channel state that outlives a connection on one side only; acknowledged and then discarded; refusals ignored | handled once and in order; nothing acknowledged is unhandled while the connection lasts; queues drain |
| **Prop store and long poll** (`skate3_prop_store.h`, `skate3_prop_service.cpp`, `main.cpp:541-588`) | server: versioned set of props; client: what it knows, what waits to be spawned, an outbox, a version | `Add`, `Remove`, `Near`, `WaitForChange`; `Configure`, `SetLocalPosition`, `Place`, `TakeSpawns`, `Shutdown`, a polling and a posting thread | game thread, HTTP workers | version and props read in different lock sections; answers of a former server; failed posts; joining parked threads | the version never runs ahead of the props; placements are kept; props arrive; leaving returns |
| **Pose stream** (`skate3_multiplayer_protocol_v12_state.h`, `_transport.h`, `skate3_multiplayer.cpp`) | sender: the installed keyframe, offers, what was confirmed, a demand for a keyframe; receiver: its keyframe, recovery, the group it puts together | `SendAnimation`, `ReceiveV12PoseControl`, `ReceiveV12Capabilities`; `ReceiveV12AnimationPacket`, `PrunePeers` | the relay, all other clients at once | one chain for all receivers; late reports and requests; lost fragments; v11 in between | always a frame that can be sent; poses keep coming; it settles on deltas |
| **Mailboxes** (`skate3_multiplayer_worker.h`, `skate3_multiplayer_latest_request.h`) | one slot, latest value wins | post, take | game thread, network worker | a value replaced while it is being served | not modelled |
| **Outbound scheduler** (`skate3_multiplayer_outbound_scheduler.h`) | packets by priority, budget, age | enqueue, drain | client sender | starvation at the budget | not modelled |
| **Peer generations** (`skate3_multiplayer_lifecycle.h`) | generation and session per role | observe, forget, key | renderer | keys of two players that coincide | not modelled |
| **Player names** (`skate3_dedicated_lua.cpp`) | queue, snapshot | rename | relay loop | unique against a snapshot, applied later | queue modelled, de-duplication not |
| **Lua script host** (`skate3_lua_script_host.cpp`) | resources, handlers, callbacks | start, stop, restart, invoke | everything | a callback whose resource is gone | its mutex modelled, commands not |

The rest of the repository (rendering, collision, tricks, editors, installers,
resources) is listed in section 7.

The hazards of this code, each at its line and with the properties aimed at
it, are the `hazards` of `PROJECT.json`; those without a property say why.

## 2. The modules and the code

    ReliableDelivery            abstract: ordered delivery, each message once
      ^ implemented by
    ReliableEnds <- ReliableChannel <- MCReliableChannel
       |                  ^ ReliableChannelProofs
       |
       +------------- ScriptSession <- MCScriptSession
                          ^ ScriptSessionProofs

    RelayRouting  <- RelayRouter     <- MCRelayRouter
       ^               ^ RelayRouterProofs
       |
       +---------- DedicatedServer   <- MCDedicatedServer
                       ^ DedicatedServerProofs
                       | implements
                   PlayerIds         abstract: ids in order, never reused

    ServerLocks      <- MCServerLocks         ServerLocksProofs
    PropSync         <- MCPropSync            PropSyncProofs
    PoseStream       <- MCPoseStream          PoseStreamProofs
    AppearanceStore  <- AppearanceService <- MCAppearanceService
                          ^ AppearanceServiceProofs

Components without control of their own (`ReliableEnds`, `RelayRouting`,
`AppearanceStore`) are operators on a value; the state machines `EXTEND` them.
An operator marked MUTANT is a variant of the one that follows it, with a
plausible mistake in it; no specification uses it. The `mutants` of
`PROJECT.json` pair it with the property that notices the mistake.

**`ReliableEnds`, `ReliableChannel`.** `snd` is a `ReliableSender`: `last` for
`next_message_id_ - 1`, `pending` for the map of queued messages, with the
absolute `next_send_us` turned into the ticks that are left. `rcv` is a
`ReliableReceiver`: `through` is the contiguous floor, `held` the fragments of
the messages being assembled. `Queue`, `Collect`, `ReceiveAck` and
`ReceiveFragment` are the four entry points with all of their early returns;
`ReceiveFragment` includes `ReleaseInOrder`. A fragment carries the message it
was cut from, so that `delivered` shows which bytes a released message was put
together from. The network is a set of datagrams. Losing one is a choice made
when it is sent; receiving one may leave a copy behind. A 32-bit
acknowledgement mask is a set of offsets within `AckBits`. Message ids do not
wrap: 2^32 messages are out of reach of a session.

**`RelayRouting`, `RelayRouter`.** A router value is `[peers, roles]`, for
`peers_` and `role_to_connection_`. `last_seen_us` is kept as an age, one more
than the time-out being enough. Positions are points of a line: the code only
compares distances with radii. `Reaches` is the body of `RouteRaw`'s loop with
its filters in order; routing changes no state, so what a datagram would reach
is a state predicate and the properties quantify over all datagrams.
`RelayRouter` makes any sequence of the calls the loop can make, in any order,
`Join` with roles out of range too.

**`DedicatedServer`.** One iteration of `main`'s loop is the phases of `pc`.
`ReceiveRegister` is `HandleRegister` whole: allocation, the acknowledgement,
the fresh `RelayPeer`, the event. `ReceiveBeacon` is the presence branch, with
the first beacon raising `playerJoining`. `Sweep` is the stale phase: roles
read before they are erased, allocator, joined set, scopes and events.
`ApplyBucket`, `ApplyName` and `ApplyDrop` take one entry of a queue each; the
phase holds the queue's mutex, so nobody pushes to it meanwhile, but datagrams
and scripts go on elsewhere between entries. `Publish` is the snapshot and
`ScopeTracker::Update`. `told` is the last lifecycle event that scripts saw of
a role. The client half is its registration: retry until acknowledged, then
beacons. A connection is a UDP endpoint, so a client that restarts is another
connection. A tick is longer than a datagram lives and shorter than the ten
seconds of the time-out: a tick empties the network.

**`PlayerIds`** is all that `RoleAllocator`'s comment promises. `DedicatedServer`
implements it with `issued <- nextRole - 1` and `holder <- router.roles`: the
id is held as long as the *router* has it, which is what other players see, and
the allocator's own map has to follow.

**`ServerLocks`.** A thread is the sequence of steps it has left: `lock_guard`
scopes as `take` and `give`, a stay inside Lua as `script`, from which any
native may be called. What a native or a request does is a constant sequence,
read off the code; `CONSTANT Calls` says which natives scripts use where.

**`AppearanceStore`, `AppearanceService`.** A store is
`[blobs, older, worn]`: the keys of `blobs_`, their order by `last_touch`, and
`roles_`. The loop of `EvictLocked` is one set of victims, those of the idle
looks before which fewer come than are too many. The game thread's tick publishes the
local look, hands over its peers, installs what was fetched, then receives and
prunes. It is one action, because the worker touches the mutex-protected part
only and cannot tell the three lock sections of the tick apart. The worker is
split at every point where another thread's step can matter: `Put`, the
claim, the answer, the poll with its reservation of requests, each download.
A parked long poll returns when its answer changes or after twenty seconds,
that is at any time.

**`ScriptSession`** joins the operators of `ReliableEnds` as the two programs
own them. The client's `sender` and `receiver` are one for the life of the
process; the server's `channels` has one pair for each connection it has an
address for. `Join` opens another connection and resets nothing; `Leave` closes
the socket. `DrainScriptEventOutbound` moves what scripts queued into the
channel, ignoring refusals as line 6176 does, collects, sends and
acknowledges. `ServerReceivesStream` is `HandleScriptEventPacket`: accepted and
acknowledged for anybody, attributed to players only. `ServerTick` is the sweep
or drop of some connections followed by `DrainScriptEvents`, erasure of
channels without an address included. Acknowledgements are built when they are
sent. `ReceiveRegister` gives a connection a role, in time or late: one that the
server has forgotten is a new player to it, with a new role. `roles` says who is
a player, `issued` which roles were given; `handled` and `heard` are histories of
what scripts were given, `handled` by role.

**`PropSync`** has the two threads of `skate3_prop_service.cpp`, each split
between its lock sections: the poll is `Bind`, `Ask` (which resets the version
after a move), `ReadVersion`, the wait (`Unpark`), `ReadProps` and `Merge`; the
post is `WakeSender`, `SwapOutbox`, `PostArrives` and its two outcomes, one
placement of the batch after the other. The three sections of the server's
handler are three actions, between which anything else may happen to the store.
`at` is the version at which a prop was placed, kept to say what an answer
ought to contain. A restarted server is a new *world* under the old address. A
request whose server fails or which the client abandons is `PollFails` or
`PostFails`, at any point.

**`PoseStream`** is the one stream of a relay client (`BroadcastAnimationStream`).
`chain` is its sender state: `installed` keyframe, `confirmed` id, `offered`
keyframes, `started`, `force`. `peer[p]` holds what the receiver p keeps of the
stream (`keyframe` and `last` of `RemotePeerState`, `decoded`, `pending` and
`recovering` of `PoseReceiverState`, `partial` for the reassembler's slot) and
the datagrams under way to and from it. `Send` is `SendAnimation` for all
receivers; `ReceivePoseControl` is a report or a request; `ReceiveFrame` is
`ReceiveV12AnimationPacket` through reassembly, decoding, commit and the answer,
and `ReceiveAnimationPacket` for a v11 frame. Sequence numbers are compared and
never counted with, so each `Send` renames those in use to 1, 2, 3, ...
(`Ranking`), which makes an endless stream a finite model. A receiver one
datagram behind the sender and one several behind are told apart by `distance`,
the number of datagrams under way to it at most.

## 3. The runs

| Run | Question | Expected |
|---|---|---|
| `channel_safety` | Can any sequence of losses, copies and reordering make the channel deliver out of order, twice, mixed, or forget a message? Does it implement `ReliableDelivery`? | passes |
| `router` | Registration over held roles, moves between bands and buckets, stale crowd counts, eviction: are the maps inverse and the fan-out consistent? | passes |
| `server_lifecycle` | Do allocator, router, scripts and scopes agree about two clients that register, retry, time out, are dropped and come back? Does the server implement `PlayerIds`? | passes |
| `server_live` | Does a client that keeps registering get in, under the role the relay knows, and is one that is gone removed for good? | passes |
| `locks_order` | With scripts that call `DropPlayer` from the loop only: are mutexes taken in order, and does every thread come back? | passes |
| `locks_drop_player` | With scripts that call it anywhere: does `DropPlayer` return? | `DropPlayerReturns` violated |
| `appearance` | Uploads, evictions, polls and downloads that fail and interleave with walking in and out of sight: is what the roster names there, and does everybody end up in the look that the roster has of him? | passes |
| `script_session` | A client that connects twice, a server that may forget it, a datagram lost: are events handled once and in order, does an undisturbed connection deliver everything, and do the queues drain? | passes |
| `script_rejoin` | Is an event that was acknowledged handled, also on a second connection? | `SettledEventsWereHandled` violated |
| `props` | Others place and remove, servers restart, requests fail, the player walks, places, changes server and leaves: does the version ever run ahead of the props, is a placement lost, does a prop stay unseen, does leaving hang? | passes |
| `pose` | Receivers near and far who come, negotiate, are pruned and return, with a trouble on the way: does the sender get stuck, is a receiver frozen, does the stream settle on deltas? | passes |
| `pose_settles` | Does it settle when a receiver is further away than the time of a frame? | `StreamSettles` violated |

### Bounds, and why they are enough

* **Channel.** Three messages of one and two fragments, a window and a queue of
  two: one message waits beyond the window and beyond the queue, one is
  assembled out of order, and one is too large to be queued. Safety keeps a
  copy of every datagram for ever (`Copies = {TRUE}`), which covers loss,
  duplication and every order at once, so no losses are counted. Deadlock is
  not checked: a channel with nothing to send is at rest. Liveness of the
  channel is checked in `script_session`, where its two owners are.
* **Router.** Three connections are a crowd with one skater outside it.
  Positions 0, 2 and 5 with bands 1, 2 and 3 give a pair at distance 0, in the
  second band, in the third and out of range; the crowd thresholds 0 and 1 make
  every step of the crowd policy reachable. Two poses and two sequences with
  divisors 2 and 4 tell apart what thinning keys on. Names are not read by the
  router and are empty here.
* **Server.** Two connections out of and within a radius, two ids, one script
  drop. Two ids are what a drop and a late registration take; when they are
  used up the allocator's refusal is reached as well. Time-out is one tick, so
  that a late beacon can still beat it. Moves of buckets and names are in
  `server_live`, with one connection.
* **Locks.** One loop and one worker: every cycle between mutexes here has two
  threads or one. `MaxDrops` bounds the length of the drop queue. No thread
  may stop, so deadlock is checked in `locks_order`; in `locks_drop_player` the
  threads do stop, which is the point.
* **Appearances.** One player with three looks and one onlooker. Capacity 1 is
  less than the looks in play, so evictions happen at every upload; three looks
  make a second idle one. `MaxTroubles` counts failed requests, returns and
  walks together. At 1, one failure, one walk or one return is tried, in every
  order with the rest.
* **Script events.** Two events, of either side or one of each: one that goes
  astray and one that waits for it. Two connections are the fewest that
  disagree. One loss with two attempts is a retransmission that succeeds; a
  second forgotten connection or a third event only repeat what the first show.
  Events are one datagram long, fragments being the concern of `channel_safety`.
  A client that left and sends nothing more is at rest, so deadlock is not
  checked.
* **Props.** Two servers, of which ids coincide, and two places. `MaxInputs`
  bounds everything from outside together, three of them in any order: a
  placement, a change of server and a placement there; a placement, a walk and
  a return; a restart between two placements. `Capacity` 2 is reached. The
  service comes to rest once it has been shut down, and a later acknowledgement
  may start it again.
* **Poses.** `Networks` lists what is tried: both receivers near and one
  trouble; one near and one far without a trouble; one far alone with one. A
  trouble is a lost datagram, a fragment lost of a keyframe, a pruned peer, or a
  change of tracks. Two offers kept instead of 32 make eviction happen. Far is
  two datagrams under way, the fewest with which a report may meet a later
  keyframe.

## 4. Fairness

* `ScriptSession`: the client's network thread and the server's loop tick for
  ever and time passes between ticks (`WF` of both ticks with `passed`); a
  datagram that the network does not lose arrives (`WF` of the four receptions).
  Losses are bounded by `MaxLosses`. Nothing makes a player join or stay or a
  script send; the properties say for how long a connection lasts.
* `PropSync`: both threads loop, and a request is answered or times out (`WF` of
  each of their steps, and of a failure where no answer can come). `Unpark` is
  the twenty seconds of the poll. Failures of requests that could be answered
  are not fair, and are bounded by `MaxInputs`. Nobody has to place, move or
  leave.
* `PoseStream`: a skater is animated at a steady rate (`WF(Send)`), what is not
  lost arrives (`WF` of the receptions), capabilities are sent until they are
  acknowledged, and time passes for the retry (`WF(ScheduleBaselineRetry)`). A
  group whose fragments stopped coming expires at the first datagram after a
  quarter of a second: `SF(ReceiveFrame(p, TRUE))`, strong because it is possible
  only at a datagram.
* `DedicatedServer`: the loop of `main` never blocks for ever and has no exit
  but shutdown (`WF(Loop)`); time passes (`SF(Tick)`, strong because the loop
  is at "receive" only now and then); a client retries every 400 ms
  (`WF(SendRegister)`); a datagram that is sent again and again gets through
  now and then (`SF` of its reception). Beacons need none.
* `ServerLocks`: threads are scheduled (`WF(Work)`), a mutex that is free again
  and again is had at some time (`SF(Take)`), scripts return
  (`SF(ReturnFromScript)`). The last two are assumptions about the standard
  library and about script authors; without them no request would ever end.
* `AppearanceService`: the game thread ticks and hears, at some tick, everyone
  in sight, who sends several datagrams a second; the worker loops, and its
  HTTP client gives every request thirty seconds (`WF(Worker)`). Nobody has to
  change clothes or walk. Failures are bounded by `MaxTroubles`, not fair.

## 5. The theorems

Thirty-one results, listed under `theorems` in `PROJECT.json`, from the
assumptions that the modules name. They hold for every number of connections,
roles, messages, workers, servers and receivers, every window, every setting of
the distance bands and every bound on what comes from outside; where a result
needs more, it is a hypothesis with a name. The assumptions are types of the
constants but for four: `WindowAssumption`, that the reorder window and the
width of the acknowledgement mask agree, which are two literals of the code;
`ServiceBounds`, that the players are finitely many, where the store counts;
`PoseBounds`, that the receivers are finitely many and at least one offer is
kept; and `EventsArePayload`, that events are called by their numbers.

**Channel** (`ReliableChannelProofs`). `DeliveredInOrder` and `NothingVanishes`
are not inductive. They rest on two facts about what is in flight, however old:
every fragment is a genuine piece of the message its id names (`FragmentInv`),
and every acknowledgement speaks only of messages that the receiver has
delivered or still holds complete (`AckInv`). `AckInv` needs that a complete
message never becomes incomplete, which holds because `Admissible` refuses a
second fragment of the same index or of another count (`StoredComplete`), and
`HeldIsDescribable`, because a held message outside of the mask could not be
spoken of. `IInv` is the conjunction. Refinement of `ReliableDelivery` follows:
a reception that releases n messages is one `Deliver` or a stutter.

**Router** (`RelayRouterProofs`). `Good(r)` says that the
value is a router and that its two maps are inverse. Every operation keeps it;
the only one that has to be looked at closely is `Register`, which evicts the
former holder of the role and forgets the former role of the connection.
`InterestIsMutual` needs two observations: distance is symmetric, and the crowd
policy, whose counts may be stale, never takes a peer out of range or back into
it (`CrowdsKeepTheRange`), so that the neighbour counts of the two sides do
not matter to keyframes. `ThinningNeverFreezes` is arithmetic: what passes a
divisor is a set of poses that every stretch of that length meets.

**Server** (`DedicatedServerProofs`). Allocator, router and scripts agree:
`AllocationsMatchPeers` and `ScriptsKnowEveryPlayer`. Alone they are not
inductive: nothing says that a fresh id is unknown to the router and to scripts.
`Issued` adds it: every role in the router is below `nextRole`, and scripts have
heard nothing of the roles from `nextRole` on. `Inv` is `TypeOK`, `Good(router)`
and these three. Most steps change no id (`SameIdsAgree`, `QuietAgree`); the
registration, the sweep and the drop have a lemma each. From `Inv` follows that
the server implements `PlayerIds`. Four more need an argument of their own:

* `JoiningPlayersAreKnown`: while the loop waits for datagrams the snapshot is
  that of the router (`Published`), so a beacon never overtakes the publication
  of the player it is from.
* `ScopesFollowInterest` holds under `OneBucket`, as in the run, and under
  `BandsCoverTheRadius`: the tracker of scopes looks at the radius and the
  router at radius and bands. With a narrower outer band a player stays in
  a scope that nothing is forwarded to; with several buckets those in another
  one do. These are the settings under which the events mean what they say, and
  nothing in the configuration enforces them.
* `ScopesAreOfPlayers` is about the events of scopes after `playerDropped`. The
  pairs that a publish leaves are of peers of the router, whom scripts know; the
  sweep forgets the pairs of a role before it reports the drop; nothing else
  removes a peer but the drop phase. That phase forgets no scopes, so from a
  drop by a script (`drops > 0`) to the publish of the same iteration the
  property says nothing, and what that publish raises is in section 6.
* `StreamsAreAccepted` is about two datagrams that a client may still have under
  way when it begins to play, an acknowledgement and a retried registration.
  `Settled` says that the relay has heard from their connection since the last
  tick, so that it cannot have timed out: whatever arrives late confirms the
  role it has. A drop by a script takes away the player all the same, so the
  theorem ends with the first drop (`drops = 0`), as the property's comment says.

**Mutexes** (`ServerLocksProofs`). What a thread has left to do changes in two
ways: it does the first step, or a script or an event puts more in front. The
invariant labels the sequence with sets of mutexes, `Safe(t, steps, A, B)`: the
thread may come to the first step holding A at most, each step of the sequence
is in order under its label, and at the end it holds B at most. Safe sequences
compose (`OneAfterAnother`), and the sequence of every native and event is safe
from any place where Lua may run. The result therefore holds for every `Calls`,
that is whatever scripts call from wherever, where the run has to fix it.

**Script events** (`ScriptSessionProofs`). What is proved is for events of one
datagram each (`OneDatagramEach`), and that is not for convenience: the server
numbers from 1 again after it forgot a connection, and with two datagrams to an
event TLC finds a receiver that puts together one fragment of each of two events
of the same number. For the client's events a number means one event wherever it
is met: queued, under way, or held by any channel (`SentInv`), for as long as
the process lasts; and what a player can still be handled as saying is later
than what he was (`HandledInv`). For the server's events that is true only of
what the client holds, has heard, and can still receive on its current
connection (`DownInv`). `RetiredWereHandled` needs in addition that an event's
number is the event (`NumberInv`), which ends as soon as `Queue` refuses one:
hence `NothingIsRefused`, that there are no more events than the queue holds.
`FirstInv` then is the argument of `AckInv` for a channel whose owner hands over
what it releases. Most of the length is the loops: `Collect`, `Release` and
`QueueAll` are recursive functions, whose properties are proved by induction on
what a set says of each of their values (`UpToN`), the induction theorems with
an operator being out of the prover's reach.

**Props** (`PropSyncProofs`). The type invariant is less innocent than it looks:
that ids and versions stay below what the inputs pay for needs a `Budget`, since
a lost answer makes the client post again what the server has added. Placements
are kept because each is stored, in the outbox, or in the batch of the sending
thread; the one that leaves the batch is the one the server has added, or it
goes back to the outbox (`KeptInv`). The exception are those that stood behind a
failed one in the batch, which the code drops (`forgone`). `VersionCoversProps` follows an answer through its
three lock sections: a version that was read is not ahead of its store, props
that are read afterwards cover it (`Covers`), and a later state of the same world
adds only what is newer than that (`Follows`). An answer of a world that is
gone is told from those of the world in its place by the number of restarts.

**Poses** (`PoseStreamProofs`). Ids are renamed at every frame, so the proof
starts with what renaming keeps: order, and with it every comparison the code
makes. That a frame can always be sent is then one fact about the demand for
keyframes (`BaseInv`): whenever a receiver of v12 is heard, either a keyframe is
forced or not yet begun, or the keyframe that deltas are made against is the
one that was confirmed, or there is none.

**Appearances** (`AppearanceServiceProofs`). The bound of the store is a fact
about eviction. Of a finite set in the order of touch, the looks before which
fewer than n come are at least n, or all of them (`OldestAreEnough`); so
`EvictLocked` comes down to the capacity, or is left with what is worn and the
newest (`TrimmedStore`), and there are no more of these than dressed players and
one. A claim dresses one more or changes one, and nothing else changes either
side. That eviction spares what is worn follows for any number of players.
`WornLooksAreStored` needs more: between `Put` and the claim nobody wears the
look that was put. Where one player has looks to upload (`OneDresser`), nobody
else puts anything in between, and the worker that has put it does nothing but
claim (`WornInv`). With two it is false (section 6), so `OneDresser` is a
hypothesis of the theorem and not an omission of the proof.

**Only model-checked.** Every invariant and every action property that a run checks
is a theorem; those of `ScriptSession`, `ScopesFollowInterest` and
`WornLooksAreStored` are under the hypotheses named above. What stays with TLC is liveness, which is out of the prover's reach: that
clients get in and out (`RegistrationsComplete`, `ClosedClientsAreDropped`),
that threads return (`EveryThreadReturns`), that events, props, poses and looks
arrive (`EventsArrive`, `QueuesDrain`, `PropsArrive`, `ShutdownReturns`,
`PosesKeepComing`, `SettlesWhenPrompt`, `NobodyStaysAProxy`,
`RosterLooksAreShown`).

## 6. Where the code and its comments part

Three runs end in a violation, each of one sentence that the repository says of
itself:

* **`DropPlayer` may never return** (`locks_drop_player`). "This only queues it"
  (`skate3_dedicated_lua.cpp:239-240`), but the loop raises `playerDropped` while
  it holds that queue's mutex.
* **Events of a second connection are lost** (`script_rejoin`). "Delivery is
  reliable and ordered" (`docs/lua_natives.json:189`), but the client numbers
  its events from where the last connection ended, the server waits for number
  1, holds what comes, and acknowledges it by the mask.
* **A stream over a long way need not settle** (`pose_settles`). The shared
  baseline is "self-correcting" (`skate3_multiplayer.cpp:632-637`), but a
  receiver that has already replaced the keyframe that was confirmed asks for
  another, and each request tears down what others are about to confirm.

Met while modelling, with no run of their own:

* a message that is given up after the last attempt blocks its channel for ever:
  the receiver waits for its id, against "every message is delivered at least
  once" (`skate3_multiplayer_reliable_channel.h:9`);
* a dropped client never finds out, against `skate3_dedicated_lua.cpp:244-245`:
  nothing in it times out on what the relay sends;
* a retried registration enters a fresh peer over the one that scripts have
  moved or named: bucket 0 again, although the bucket is "server-assigned, never
  client-declared" (`skate3_multiplayer_routing.h:97-99`);
* changing back to an earlier look announces nothing (`PublishLocal` returns at
  once, `skate3_appearance_service.cpp:365`), against
  `skate3_appearance_store.h:20-26`;
* script events: a refusal of the channel's queue is ignored (`6176`, and
  `script_events.cpp:175`) although `SendScriptEvent` said yes; events of a
  connection without a role are acknowledged and discarded; ids up to the
  client's floor that a fresh server channel uses again are taken for
  duplicates and acknowledged; `g_client_events` has no bound;
* props: a post that fails puts its own prop back and drops the rest of the
  batch (`skate3_prop_service.cpp:158-163`); a lost answer places the prop
  twice; a full store's refusal is retried every two seconds for ever;
  `Configure` leaves `version` as it was; a poll of the old server that is in
  flight merges after `Configure`, and its ids then hide props of the new one;
  a restarted server gives ids again that clients know; a removal never reaches
  clients that have the prop;
* leaving: the prop and appearance services are shut down while the network
  thread still runs (`skate3_app_common.cpp:1552-1553`), and an acknowledgement
  that comes then calls `Configure` (`skate3_multiplayer.cpp:4364-4368`), which
  sets `running` again: a thread being joined that looks only afterwards goes
  on, and the join waits for it (`skate3_prop_service.cpp:329-333`). The model
  has no `Configure` during the join, so `ShutdownReturns` is about the rest;
* poses: a receiver that got a late delta may stay in recovery while it decodes
  the current one, which is harmless;
* a newcomer, whose map is not known before its first beacon, hears nobody who
  has announced one, against `routing.h:386-389`; it lasts half a second;
* a retried registration raises `playerConnecting` once more, and one that
  arrives after a drop makes a player that no client plays. A beacon of that
  client that comes between the two enters `joined` although it is of no player
  (`skate3_dedicated_main.cpp:767-773`), so that `playerJoining` is never raised
  for the player that the registration makes;
* the drop phase, unlike the time-out, forgets neither the scopes nor the
  appearance of the player it removes: `playerLeftScope` follows
  `playerDropped`, against `players.cpp:122-124`;
* with two uploads at once and a full store, a look can be evicted between
  `Put` and the claim, and the roster then names a look that is gone. The store
  has room for four looks per player (`main.cpp:473`); TLC finds the eviction at
  that size too, when the other player uploads as many looks in between;
* a parked look can be installed over a newer one, which is then not asked for
  again;
* clients accept packets of other players for roles 1 to 100 only
  (`skate3_multiplayer.cpp:5109`), while the server issues up to 16000 and never
  reuses one (`skate3_multiplayer_protocol.h:10-21`): from the 101st join of a
  server run on a player is invisible to all others.

## 7. What is not modelled, and why

* **Data.** Packet codecs, quaternions, pose curves, interpolation: functions of
  floating-point numbers and bytes, tested by round trips in the repository.
* **The guest.** Tricks, scoring, input and the hooks into the recompiled game
  act on a program that is not in the repository.
* **The GPU and third parties.** Renderer, upscaler, CEF and Lua itself.
* **Files and formats.** Installer, updater, created-skater archives, drop
  items, session registry, configuration, owned world.
* **Content.** Lua resources, the natives web site, maps, build scripts.
* **Small parts with little to relate.** Mailboxes, the outbound scheduler, peer
  generations and render keys, the de-duplication of names, the command registry
  of the script host, map edits: each could have a module; they come after the
  proofs of what is here.
* **Within modelled parts.** Wrap-around of 32-bit message ids; positions in
  three dimensions; wording, logging and metrics; in
  `RelayRouting` datagrams for one named role (`target_role`; the paths modelled
  pass 0) and `RouteRaw` without fidelity bands, which v11 uses; in
  `DedicatedServer` voice datagrams, a client that changes its map without
  reconnecting, beacons of a connection that never registered, registrations
  with a bad token or an undecodable payload, which change no player, and the
  answer to a client when the ids are used up; in `ServerLocks` the mutexes under which
  nothing else is taken; in `AppearanceService` a change of server
  (`Configure`) and of session, `ForgetRole`, names, back-off, more than 32
  parked looks, and anything between the server's answer to a poll and the
  reservation of the downloads it asks for; in `ScriptSession` state bags, the decoding of events, late
  registrations of an older connection, and events to one player where there
  are several; in `PropSync` models, headings
  and owners of props; in `PoseStream` the particular fragments of a keyframe,
  the codings, the 32-packet history that drops copies, a frame of which only some
  datagrams can be sent, the receiving half of a client that a report of its
  peer's capabilities activates too (`skate3_multiplayer.cpp:5003`), the
  thinning of the relay (which `RelayRouting` has), and the chains of the modes without a relay.

## 8. The plan

Twelve questions are asked; a new one would replace an older one. Every safety
invariant of the runs is proved. Worth proving next: script events of several
datagrams, from a server that forgets nobody; and what the appearance service
promises several uploaders, for instance as long as the store does not fill up
between a `Put` and its claim.

Then, as modules: the acceptance of roles 1 to 100 by clients composed with
`PlayerIds`; `AppearanceService` with two uploaders, as a question that ends in
a violation; the same with a change of server; the command registry of the
script host; mailboxes and the outbound scheduler; peer generations; map edits.
