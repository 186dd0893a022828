------------------------------ MODULE PropSync ------------------------------
(***************************************************************************)
(* Networked props: the store of a server (skate3_prop_store.h) behind its *)
(* HTTP long poll (skate3_dedicated_main.cpp), and the client service that *)
(* streams props in and posts placements from two threads of its own       *)
(* (skate3_prop_service.cpp).                                              *)
(*                                                                         *)
(* A place stands for a position: what is near it is what is at it, and    *)
(* two places are further apart than kResendDistance.  A request is three  *)
(* lock sections of the store (version, wait, props) between two of the    *)
(* client, and every thread may run between any two of them.  A server     *)
(* that restarts is a new world under the old address: its ids and its     *)
(* version start again.                                                    *)
(***************************************************************************)
EXTENDS Naturals, Sequences, FiniteSets, Functions

CONSTANTS
  Servers,        \* host and port of each admin endpoint
  Home,           \* the one that the first acknowledgement names
  Places,         \* where a prop or a player may be
  Spawn,          \* where the player is first seen
  Nowhere,        \* no position yet
  Capacity,       \* PropStore::capacity_
  MaxInputs       \* bound: placements, moves, props others add or remove, later
                  \* Configure calls, restarts of a server, requests that fail or
                  \* whose answer is lost, taken together

ASSUME PropBounds == {Capacity, MaxInputs} \subseteq Nat
ASSUME Scene == Home \in Servers /\ Spawn \in Places /\ Nowhere \notin Places

VARIABLES
  store,      \* the PropStore of each server
  restarts,   \* times each server restarted
  life,       \* of the service: "running", "closing", "closed"
  host,       \* State::host, port
  place,      \* State::x, y, z
  queried,    \* queried_x, y, z, or Nowhere while queried_once is false
  version,    \* State::version
  known,      \* State::known
  pending,    \* State::pending, as ids
  outbox,     \* State::outbox, as <<placement, place>>
  poll,       \* the streaming thread's request
  post,       \* the sending thread's batch and request
  inputs,     \* what MaxInputs bounds, so far
  placed,     \* placements of this client so far
  forgone,    \* history: placements that a failed post of another one dropped
  stored,     \* history: placements that reached a store, or waited at a shutdown
  merged,     \* history: worlds that answered since known was last cleared
  spawned     \* history: <<world, id>> of what went to pending since then

service == <<life, host, place, queried, version, known, pending>>
counts == <<inputs, placed, forgone>>
heard == <<merged, spawned>>
vars == <<store, restarts, service, outbox, poll, post, counts, stored, heard>>

World(s) == <<s, restarts[s]>>

\* at: the version the prop came with, which the code does not keep.
Versions == 0 .. MaxInputs
PropIds == Versions \ {0}
Prop == [id : PropIds, place : Places, at : Versions]
NewStore == [next |-> 0, version |-> 0, props |-> {}]

NoPoll == [phase |-> "idle", world |-> <<Home, 0>>, since |-> 0, place |-> Nowhere,
           version |-> 0, ids |-> {}]
NoPost == [phase |-> "idle", world |-> <<Home, 0>>, batch |-> <<>>, ok |-> FALSE]

\* After the first Configure, which starts the threads, and the first position.
Init ==
  /\ store = [s \in Servers |-> NewStore]
  /\ restarts = [s \in Servers |-> 0]
  /\ life = "running" /\ host = Home /\ place = Spawn /\ queried = Nowhere
  /\ version = 0 /\ known = {} /\ pending = {} /\ outbox = <<>>
  /\ poll = NoPoll /\ post = NoPost
  /\ inputs = 0 /\ placed = 0 /\ forgone = {}
  /\ stored = {} /\ merged = {} /\ spawned = {}

Input == inputs < MaxInputs /\ inputs' = inputs + 1

-----------------------------------------------------------------------------
(* The store.                                                              *)

\* MUTANT. Fills up one prop late.
FullLate(st) == Cardinality(st.props) > Capacity

Full(st) == Cardinality(st.props) >= Capacity

\* MUTANT. Tells the waiting clients nothing.
AddQuietly(st, x) ==
  [st EXCEPT !.next = @ + 1,
             !.props = @ \cup {[id |-> st.next + 1, place |-> x, at |-> st.version]}]

Add(st, x) ==
  [next |-> st.next + 1, version |-> st.version + 1,
   props |-> st.props \cup {[id |-> st.next + 1, place |-> x, at |-> st.version + 1]}]

Removed(st, i) ==
  [st EXCEPT !.version = @ + 1, !.props = {p \in @ : p.id # i}]

Near(st, x) == {p \in st.props : p.place = x}

\* Somebody else's placement or removal.
OthersAdd(s, x) ==
  /\ Input /\ ~Full(store[s])
  /\ store' = [store EXCEPT ![s] = Add(@, x)]
  /\ UNCHANGED <<restarts, service, outbox, poll, post, placed, forgone, stored, heard>>

Remove(s, i) ==
  /\ Input
  /\ \E p \in store[s].props : p.id = i
  /\ store' = [store EXCEPT ![s] = Removed(@, i)]
  /\ UNCHANGED <<restarts, service, outbox, poll, post, placed, forgone, stored, heard>>

\* The store is in memory: a server that restarts has an empty one.
Restart(s) ==
  /\ Input
  /\ restarts' = [restarts EXCEPT ![s] = @ + 1]
  /\ store' = [store EXCEPT ![s] = NewStore]
  /\ UNCHANGED <<service, outbox, poll, post, placed, forgone, stored, heard>>

-----------------------------------------------------------------------------
(* Calls of the game.                                                      *)

\* MUTANT. Keeps what it knows of the last server.
KnownOnAny(s) == known

\* Another server has another world.
KnownOn(s) == IF host = s THEN known ELSE {}

\* A later acknowledgement names a server; the same one changes nothing.  After
\* a Shutdown that has returned it starts the threads again.  One that comes
\* while Shutdown is joining is left out: the code then starts two more threads
\* and tells the ones being joined to go on.
Configure(s) ==
  /\ life # "closing" /\ Input
  /\ life' = "running" /\ host' = s
  /\ known' = KnownOn(s)
  /\ IF host = s
     THEN UNCHANGED <<pending, queried, heard>>
     ELSE pending' = {} /\ queried' = Nowhere /\ merged' = {} /\ spawned' = {}
  /\ UNCHANGED <<store, restarts, place, version, outbox, poll, post, placed,
                 forgone, stored>>

SetLocalPosition(x) ==
  /\ life = "running" /\ place # x /\ Input
  /\ place' = x
  /\ UNCHANGED <<store, restarts, life, host, queried, version, known, pending,
                 outbox, poll, post, placed, forgone, stored, heard>>

Place ==
  /\ life = "running" /\ Input
  /\ placed' = placed + 1
  /\ outbox' = Append(outbox, <<placed', place>>)
  /\ UNCHANGED <<store, restarts, service, poll, post, forgone, stored, heard>>

TakeSpawns ==
  /\ life = "running" /\ pending # {}
  /\ pending' = {}
  /\ UNCHANGED <<store, restarts, life, host, place, queried, version, known,
                 outbox, poll, post, counts, stored, heard>>

Shutdown ==
  /\ life = "running"
  /\ life' = "closing"
  /\ UNCHANGED <<store, restarts, host, place, queried, version, known, pending,
                 outbox, poll, post, counts, stored, heard>>

\* Both threads are joined: each leaves its loop when no request of its is out.
Joined ==
  /\ life = "closing" /\ poll.phase = "idle" /\ post.phase = "idle"
  /\ life' = "closed"
  /\ known' = {} /\ pending' = {} /\ outbox' = <<>> /\ queried' = Nowhere
  /\ merged' = {} /\ spawned' = {} /\ stored' = 1 .. placed
  /\ UNCHANGED <<store, restarts, host, place, version, poll, post, counts>>

-----------------------------------------------------------------------------
(* WorkerMain: one long poll after another.                                *)

Moved == queried # Nowhere /\ queried # place

\* 0 asks the server not to park.
Since == IF Moved THEN 0 ELSE version

\* The loop's own lock section picks the server,
Bind ==
  /\ life = "running" /\ poll.phase = "idle"
  /\ poll' = [NoPoll EXCEPT !.phase = "bound", !.world = World(host)]
  /\ UNCHANGED <<store, restarts, service, outbox, post, counts, stored, heard>>

\* and PollNearby's first what to ask it.
Ask ==
  /\ poll.phase = "bound"
  /\ poll' = [poll EXCEPT !.phase = "asked", !.since = Since, !.place = place]
  /\ UNCHANGED <<store, restarts, service, outbox, post, counts, stored, heard>>

\* The request is still with the server it was made of.
Served(request) == request.world = World(request.world[1])

ServerOf(request) == store[request.world[1]]

\* prop_store.Version(): answer, or park.
ReadVersion ==
  /\ poll.phase = "asked" /\ Served(poll)
  /\ poll' = IF ServerOf(poll).version <= poll.since
             THEN [poll EXCEPT !.phase = "parked"]
             ELSE [poll EXCEPT !.phase = "versioned", !.version = ServerOf(poll).version]
  /\ UNCHANGED <<store, restarts, service, outbox, post, counts, stored, heard>>

\* MUTANT. Waits for a change however long it takes.
UnparkOnChange ==
  /\ poll.phase = "parked" /\ Served(poll) /\ ServerOf(poll).version > poll.since
  /\ poll' = [poll EXCEPT !.phase = "versioned", !.version = ServerOf(poll).version]
  /\ UNCHANGED <<store, restarts, service, outbox, post, counts, stored, heard>>

\* WaitForChange returns: the store went past `since`, or twenty seconds did.
Unpark ==
  /\ poll.phase = "parked" /\ Served(poll)
  /\ poll' = [poll EXCEPT !.phase = "versioned", !.version = ServerOf(poll).version]
  /\ UNCHANGED <<store, restarts, service, outbox, post, counts, stored, heard>>

\* The version read before, with the props as they are now.
ReadProps ==
  /\ poll.phase = "versioned" /\ Served(poll)
  /\ poll' = [poll EXCEPT !.phase = "answered",
                          !.ids = {p.id : p \in Near(ServerOf(poll), poll.place)}]
  /\ UNCHANGED <<store, restarts, service, outbox, post, counts, stored, heard>>

\* PollNearby's second lock section, whatever Configure did in between.
Merge ==
  /\ poll.phase = "answered"
  /\ queried' = poll.place
  /\ version' = poll.version
  /\ pending' = pending \cup (poll.ids \ known)
  /\ known' = known \cup poll.ids
  /\ merged' = merged \cup {poll.world}
  /\ spawned' = spawned \cup {<<poll.world, i>> : i \in poll.ids \ known}
  /\ poll' = NoPoll
  /\ UNCHANGED <<store, restarts, life, host, place, outbox, post, counts, stored>>

\* No answer, by a fault or because the server restarted.
PollFails ==
  /\ poll.phase \notin {"idle", "bound"}
  /\ IF Served(poll) THEN Input ELSE UNCHANGED inputs
  /\ poll' = NoPoll
  /\ UNCHANGED <<store, restarts, service, outbox, post, placed,
                 forgone, stored, heard>>

-----------------------------------------------------------------------------
(* SenderMain: the placements.                                             *)

\* Woken by a placement: the server is picked in one lock section,
WakeSender ==
  /\ life = "running" /\ post.phase = "idle" /\ outbox # <<>>
  /\ post' = [NoPost EXCEPT !.phase = "bound", !.world = World(host)]
  /\ UNCHANGED <<store, restarts, service, outbox, poll, counts, stored, heard>>

\* and the outbox emptied in another.
SwapOutbox ==
  /\ post.phase = "bound"
  /\ post' = [post EXCEPT !.phase = "sending", !.batch = outbox]
  /\ outbox' = <<>>
  /\ UNCHANGED <<store, restarts, service, poll, counts, stored, heard>>

\* The server's half of a POST: added, or refused because the store is full.
PostArrives ==
  /\ post.phase = "sending" /\ Served(post)
  /\ IF Full(ServerOf(post))
     THEN /\ post' = [post EXCEPT !.phase = "posted", !.ok = FALSE]
          /\ UNCHANGED <<store, stored>>
     ELSE /\ post' = [post EXCEPT !.phase = "posted", !.ok = TRUE]
          /\ store' = [store EXCEPT ![post.world[1]] = Add(@, Head(post.batch)[2])]
          /\ stored' = stored \cup {Head(post.batch)[1]}
  /\ UNCHANGED <<restarts, service, outbox, poll, counts, heard>>

\* The next of the batch, if there is one.
AfterSuccess ==
  IF Len(post.batch) = 1 THEN NoPost
  ELSE [post EXCEPT !.phase = "sending", !.batch = Tail(@)]

PostSucceeds ==
  /\ post.phase = "posted" /\ post.ok /\ Served(post)
  /\ post' = AfterSuccess
  /\ UNCHANGED <<store, restarts, service, outbox, poll, counts, stored, heard>>

\* MUTANT. A placement is sent once, whatever comes of it.
OutboxAsItIs == outbox

\* What failed is put back; what was behind it in the batch is not.
OutboxAfterFailure == Append(outbox, Head(post.batch))

\* Refused, unanswered, or never sent.
PostFails ==
  /\ \/ post.phase = "posted" /\ ~post.ok /\ UNCHANGED inputs
     \/ /\ post.phase \in {"sending", "posted"}
        /\ IF Served(post) THEN Input ELSE UNCHANGED inputs
  /\ outbox' = OutboxAfterFailure
  /\ post' = NoPost
  /\ forgone' = forgone \cup {n[1] : n \in Range(Tail(post.batch))}
  /\ UNCHANGED <<store, restarts, service, poll, placed, stored, heard>>

-----------------------------------------------------------------------------
Next ==
  \/ \E s \in Servers : \/ \E x \in Places : OthersAdd(s, x)
                        \/ \E i \in PropIds : Remove(s, i)
                        \/ Restart(s) \/ Configure(s)
  \/ \E x \in Places : SetLocalPosition(x)
  \/ Place \/ TakeSpawns \/ Shutdown \/ Joined
  \/ Bind \/ Ask \/ ReadVersion \/ Unpark \/ ReadProps \/ Merge \/ PollFails
  \/ WakeSender \/ SwapOutbox \/ PostArrives \/ PostSucceeds \/ PostFails

Spec == Init /\ [][Next]_vars

\* Both threads run, requests are answered or time out, and twenty seconds
\* pass; nothing makes anybody place, move, or leave.
FairSpec ==
  /\ Spec
  /\ WF_vars(Bind) /\ WF_vars(Ask)
  /\ WF_vars(ReadVersion) /\ WF_vars(Unpark) /\ WF_vars(ReadProps) /\ WF_vars(Merge)
  /\ WF_vars(PollFails /\ ~Served(poll))
  /\ WF_vars(WakeSender) /\ WF_vars(SwapOutbox) /\ WF_vars(PostArrives)
  /\ WF_vars(PostSucceeds) /\ WF_vars(PostFails /\ (~Served(post) \/ ~post.ok))
  /\ WF_vars(Joined)

-----------------------------------------------------------------------------
Worlds == Servers \X (0 .. MaxInputs)
Batch == Seq((1 .. MaxInputs) \X Places)

TypeOK ==
  /\ \A s \in Servers : /\ store[s].next \in Versions /\ store[s].version \in Versions
                        /\ store[s].props \subseteq Prop
                        /\ Cardinality(store[s].props) <= Capacity
                        /\ restarts[s] \in 0 .. MaxInputs
  /\ life \in {"running", "closing", "closed"}
  /\ host \in Servers /\ place \in Places /\ queried \in Places \cup {Nowhere}
  /\ version \in Versions /\ known \subseteq PropIds /\ pending \subseteq known
  /\ outbox \in Batch
  /\ poll.phase \in {"idle", "bound", "asked", "parked", "versioned", "answered"}
  /\ post.phase \in {"idle", "bound", "sending", "posted"}
  /\ poll.world \in Worlds /\ post.world \in Worlds /\ merged \subseteq Worlds
  /\ post.batch \in Batch /\ (post.phase \in {"sending", "posted"} => post.batch # <<>>)
  /\ stored \cup forgone \subseteq 1 .. placed
  /\ inputs \in 0 .. MaxInputs /\ placed \in 0 .. inputs

\* What the client knows comes from the world it is in, and from no other.
OneWorld == merged \subseteq {World(host)}

(* A version is never ahead of what came with it: of the world the client is
   in, it knows every prop near the point it asked about that is as old as the
   version it will wait past, although the server reads the version and the
   props in different lock sections. *)
VersionCoversProps ==
  OneWorld =>
    \A p \in store[host].props : (p.place = queried /\ p.at <= version) => p.id \in known

(* "A placement is a deliberate act and losing it silently would look like the
   game ignoring the player": one that was made is stored, or waits in the
   outbox or the batch to be sent, however often its own post failed, was
   refused or lost its answer, whatever is placed meanwhile and whatever server
   the service is pointed at. Those that stood behind a failed post in its
   batch are excepted, for the code drops them. *)
PlacementsAreKept ==
  life = "running" =>
    \A n \in (1 .. placed) \ forgone :
      n \in stored \/ \E x \in Places : <<n, x>> \in Range(outbox) \cup Range(post.batch)

\* A prop where the player stands that his client was never given to spawn.
Missing(i) ==
  /\ life = "running" /\ OneWorld
  /\ \E p \in store[host].props : p.id = i /\ p.place = place
  /\ <<World(host), i>> \notin spawned

(* A prop that stays where a player stays reaches his client in time, whoever
   placed it, whatever was removed, and however often requests failed, as long
   as all answers came from one world. *)
PropsArrive == \A i \in PropIds : []<>~Missing(i)

(* Shutdown, which joins both threads, returns, provided that no Configure
   comes while it joins: no request is waited for forever, and the outbox is
   not emptied first. *)
ShutdownReturns == life = "closing" ~> life = "closed"
=============================================================================
