------------------------- MODULE AppearanceService --------------------------
(***************************************************************************)
(* How a player's look reaches the screens of the others: the appearance   *)
(* service of every client (its game thread and its HTTP worker, joined by *)
(* a mutex), the server's handlers and the store.                          *)
(*                                                                         *)
(* The worker of a client alternates between an upload and a roster poll,  *)
(* which is followed by the downloads it calls for.  An upload takes two   *)
(* lock sections of the store: Put, then SetRoleAppearance.  A parked poll *)
(* comes back when its answer changes or its time is up, that is at any    *)
(* time, so the version it carries is left out.                            *)
(***************************************************************************)
EXTENDS AppearanceStore, Sequences, Functions

CONSTANTS
  Players,      \* clients, each under the one role it registered with
  Wardrobe,     \* the looks of each player, in the order of wearing them
  Bare,         \* no look: identity 0
  Habits,       \* what players do: "return" to an earlier look, change one
                \* that is still "unseen", "walk" out of sight
  MaxTroubles   \* bound: returns, walks and failed requests in a behaviour

Looks == UNION {Range(Wardrobe[p]) : p \in Players}

ASSUME ServiceBounds == IsFiniteSet(Players) /\ MaxTroubles \in Nat
ASSUME Wardrobes == Bare \notin Looks /\ \A p \in Players : Wardrobe[p] \in Seq(Looks)

VARIABLES
  store,      \* AppearanceStore
  outfit,     \* index in Wardrobe of what a player wears, 0 before capture
  pending,    \* pending_identity
  uploaded,   \* the identities this client knows to be uploaded
  worker,     \* what the worker does next
  posted,     \* the look of the upload under way
  wanted,     \* PollRoster's list of looks to download
  requested,  \* peer -> look asked for
  fetched,    \* downloads the game thread has not taken
  interest,   \* peer -> look held, as of the last SetPeerInterest
  peers,      \* remote_peers_: peer -> look installed
  parked,     \* store_appearances_awaiting_peer_
  near,       \* the players who are in sight of one another
  troubles    \* how many of these there were

clientVars == <<pending, uploaded, worker, posted, wanted, requested, fetched,
                interest, peers, parked>>
vars == <<store, outfit, clientVars, near, troubles>>

Empty == << >>
With(f, a, b) == [z \in DOMAIN f \cup {a} |-> IF z = a THEN b ELSE f[z]]

Look(p) == IF outfit[p] = 0 THEN Bare ELSE Wardrobe[p][outfit[p]]

Init ==
  /\ store = NewStore
  /\ outfit = [p \in Players |-> 0]
  /\ pending = [p \in Players |-> Bare] /\ posted = pending
  /\ uploaded = [p \in Players |-> {}]
  /\ worker = [p \in Players |-> "upload"]
  /\ wanted = [p \in Players |-> {}]
  /\ fetched = [p \in Players |-> <<>>]
  /\ requested = [p \in Players |-> Empty]
  /\ interest = requested /\ peers = requested /\ parked = requested
  /\ near = Players
  /\ troubles = 0

-----------------------------------------------------------------------------
(* The players. *)

\* Nobody still waits for a packet of p, or has a look of p parked.
Seen(p) == \A v \in Players \ {p} :
             p \in DOMAIN peers[v] /\ p \notin DOMAIN parked[v]

Change(p) ==
  /\ outfit[p] < Len(Wardrobe[p])
  /\ "unseen" \in Habits \/ outfit[p] = 0 \/ Seen(p)
  /\ outfit' = [outfit EXCEPT ![p] = @ + 1]
  /\ UNCHANGED <<store, clientVars, near, troubles>>

Return(p) ==
  /\ "return" \in Habits
  /\ outfit[p] > 1
  /\ troubles < MaxTroubles
  /\ troubles' = troubles + 1
  /\ outfit' = [outfit EXCEPT ![p] = @ - 1]
  /\ UNCHANGED <<store, clientVars, near>>

GoAway(p) ==
  /\ "walk" \in Habits
  /\ p \in near
  /\ troubles < MaxTroubles
  /\ troubles' = troubles + 1
  /\ near' = near \ {p}
  /\ UNCHANGED <<store, outfit, clientVars>>

ComeBack(p) ==
  /\ p \notin near
  /\ near' = near \cup {p}
  /\ UNCHANGED <<store, outfit, clientVars, troubles>>

-----------------------------------------------------------------------------
(* The game thread of client v.  Its tick publishes the local look, hands   *)
(* the service its list of peers, installs what was fetched, then receives *)
(* packets, then drops silent peers.  It takes the service's mutex three   *)
(* times, with nothing in between that the worker could tell.              *)

\* What PublishLocal leaves to be uploaded: nothing that has been before.
Published(v) ==
  IF Look(v) = Bare \/ Look(v) \in uploaded[v] THEN pending[v] ELSE Look(v)

\* The last look that was fetched for peer w, if any.
LastFetched(v, w) ==
  LET mine == {i \in DOMAIN fetched[v] : fetched[v][i].peer = w}
  IN  IF mine = {} THEN Bare ELSE fetched[v][CHOOSE i \in mine : \A j \in mine : j <= i].look

\* MUTANT. Only a proxy is dressed.
InstalledOverProxy(v, w) ==
  IF peers[v][w] # Bare THEN peers[v][w]
  ELSE IF w \in DOMAIN parked[v] THEN parked[v][w] ELSE LastFetched(v, w)

\* For a peer: what was fetched is installed, then what is parked, over it.
Installed(v, w) ==
  IF w \in DOMAIN parked[v] THEN parked[v][w]
  ELSE IF LastFetched(v, w) # Bare THEN LastFetched(v, w) ELSE peers[v][w]

\* For those who are no peers yet, the last that was fetched is parked.
Awaiting(v) ==
  (DOMAIN parked[v] \cup {fetched[v][i].peer : i \in DOMAIN fetched[v]})
    \ DOMAIN peers[v]
Parked(v, w) ==
  IF LastFetched(v, w) # Bare THEN LastFetched(v, w) ELSE parked[v][w]

\* SetPeerInterest: nobody who is not a peer keeps a request reserved.
Reserved(v) == Restrict(requested[v], DOMAIN requested[v] \cap DOMAIN peers[v])

\* Who is in sight and not a peer, and the peers who are out of sight.
Unheard(v) == IF v \in near THEN near \ (DOMAIN peers[v] \cup {v}) ELSE {}
Silent(v) == IF v \in near THEN DOMAIN peers[v] \ near ELSE DOMAIN peers[v]

Tick(v, heard, pruned) ==
  /\ pending' = [pending EXCEPT ![v] = Published(v)]
  /\ interest' = [interest EXCEPT ![v] = peers[v]]
  /\ requested' = [requested EXCEPT ![v] = Reserved(v)]
  /\ fetched' = [fetched EXCEPT ![v] = <<>>]
  /\ parked' = [parked EXCEPT ![v] = [w \in Awaiting(v) |-> Parked(v, w)]]
  /\ peers' = [peers EXCEPT ![v] =
                 [w \in (DOMAIN @ \cup heard) \ pruned |->
                    IF w \in heard THEN Bare ELSE Installed(v, w)]]
  /\ UNCHANGED <<store, outfit, uploaded, worker, posted, wanted, near, troubles>>

TickSome(v) ==
  \E heard \in SUBSET Unheard(v), pruned \in SUBSET Silent(v) :
    Tick(v, heard, pruned)

-----------------------------------------------------------------------------
(* The worker of client p, and the handlers of the server it calls. *)

Goes(p, phase) == worker' = [worker EXCEPT ![p] = phase]

\* UploadPending up to the first lock section of the handler.
UploadPending(p) ==
  /\ worker[p] = "upload" /\ pending[p] # Bare
  /\ posted' = [posted EXCEPT ![p] = pending[p]]
  /\ store' = Put(store, pending[p])
  /\ Goes(p, "claim")
  /\ UNCHANGED <<outfit, pending, uploaded, wanted, requested, fetched,
                 interest, peers, parked, near, troubles>>

\* The second lock section.
Claim(p) ==
  /\ worker[p] = "claim"
  /\ store' = SetRoleAppearance(store, p, posted[p])
  /\ Goes(p, "answer")
  /\ UNCHANGED <<outfit, pending, uploaded, posted, wanted, requested,
                 fetched, interest, peers, parked, near, troubles>>

UploadAnswered(p) ==
  /\ worker[p] = "answer"
  /\ uploaded' = [uploaded EXCEPT ![p] = @ \cup {posted[p]}]
  /\ pending' = [pending EXCEPT ![p] = IF @ = posted[p] THEN Bare ELSE @]
  /\ posted' = [posted EXCEPT ![p] = Bare]
  /\ Goes(p, "poll")
  /\ UNCHANGED <<store, outfit, wanted, requested, fetched, interest, peers,
                 parked, near, troubles>>

\* VisibleAppearances: who v sees, and what the store says they wear.
VisibleAppearances(v) ==
  {[peer |-> w, look |-> store.worn[w]] :
     w \in IF v \in near THEN (near \ {v}) \cap DOMAIN store.worn ELSE {}}

Holds(f, entry) == entry.peer \in DOMAIN f /\ f[entry.peer] = entry.look

PollRoster(v) ==
  LET missing == {entry \in VisibleAppearances(v) :
                    ~ Holds(interest[v], entry) /\ ~ Holds(requested[v], entry)}
  IN  /\ \/ worker[v] = "poll"
         \/ worker[v] = "upload" /\ pending[v] = Bare
      /\ wanted' = [wanted EXCEPT ![v] = missing]
      /\ requested' = [requested EXCEPT ![v] =
           [w \in DOMAIN @ \cup {entry.peer : entry \in missing} |->
              IF \E entry \in missing : entry.peer = w
              THEN (CHOOSE entry \in missing : entry.peer = w).look
              ELSE @[w]]]
      /\ Goes(v, IF missing = {} THEN "upload" ELSE "download")
      /\ UNCHANGED <<store, outfit, pending, uploaded, posted, fetched,
                     interest, peers, parked, near, troubles>>

\* One of the downloads is over; after the last the worker starts again.
Downloaded(v, entry) ==
  /\ wanted' = [wanted EXCEPT ![v] = @ \ {entry}]
  /\ Goes(v, IF wanted[v] = {entry} THEN "upload" ELSE "download")

Download(v, entry) ==
  /\ worker[v] = "download" /\ entry \in wanted[v]
  /\ entry.look \in Stored(store)
  /\ store' = Gotten(store, entry.look)
  /\ fetched' = [fetched EXCEPT ![v] = Append(@, entry)]
  /\ Downloaded(v, entry)
  /\ UNCHANGED <<outfit, pending, uploaded, posted, requested, interest,
                 peers, parked, near, troubles>>

\* MUTANT. A download that fails is not asked for again.
KeptRequest(v, entry) == requested[v]

\* A download that fails gives its request back, if it is still the one.
ReleasedRequest(v, entry) ==
  IF Holds(requested[v], entry)
  THEN Restrict(requested[v], DOMAIN requested[v] \ {entry.peer})
  ELSE requested[v]

\* 404, the look having been evicted, or no answer.
DownloadFails(v, entry) ==
  /\ worker[v] = "download" /\ entry \in wanted[v]
  /\ \/ entry.look \notin Stored(store) /\ UNCHANGED troubles
     \/ /\ troubles < MaxTroubles
        /\ troubles' = troubles + 1
  /\ requested' = [requested EXCEPT ![v] = ReleasedRequest(v, entry)]
  /\ Downloaded(v, entry)
  /\ UNCHANGED <<store, outfit, pending, uploaded, posted, fetched, interest,
                 peers, parked, near>>

\* An upload that never reaches the store, or whose answer is lost, and a
\* poll without an answer: the worker goes on with its next duty.
RequestFails(p) ==
  /\ troubles < MaxTroubles
  /\ troubles' = troubles + 1
  /\ \/ worker[p] = "upload" /\ pending[p] # Bare /\ Goes(p, "poll")
     \/ worker[p] = "answer" /\ Goes(p, "poll")
     \/ worker[p] = "poll" /\ Goes(p, "upload")
  /\ posted' = [posted EXCEPT ![p] = Bare]
  /\ UNCHANGED <<store, outfit, pending, uploaded, wanted, requested, fetched,
                 interest, peers, parked, near>>

-----------------------------------------------------------------------------
Worker(p) ==
  \/ UploadPending(p) \/ Claim(p) \/ UploadAnswered(p)
  \/ PollRoster(p)
  \/ \E entry \in wanted[p] : Download(p, entry) \/ DownloadFails(p, entry)

Next ==
  \E p \in Players :
    \/ Change(p) \/ Return(p) \/ GoAway(p) \/ ComeBack(p)
    \/ TickSome(p) \/ Worker(p) \/ RequestFails(p)

Spec == Init /\ [][Next]_vars

\* The game thread ticks, and a player in sight, who sends several datagrams
\* a second, is heard by some tick; the worker loops, every request coming
\* back (the client gives it thirty seconds).
FairSpec ==
  /\ Spec
  /\ \A p \in Players :
       /\ WF_vars(\E pruned \in SUBSET Silent(p) : Tick(p, Unheard(p), pruned))
       /\ WF_vars(Worker(p))

-----------------------------------------------------------------------------
(* Properties                                                              *)

Partial(f, S, T) == DOMAIN f \subseteq S /\ \A x \in DOMAIN f : f[x] \in T
Entries == [peer : Players, look : Looks]

\* "The bound exists to cap idle history": only for looks that are worn, and
\* for the newest, does the store grow beyond its capacity.
StoreOK ==
  /\ store.blobs \subseteq Looks
  /\ IsTouchOrder(store.older, store.blobs)
  /\ \/ Cardinality(store.blobs) <= Capacity
     \/ Cardinality(store.blobs) <= Cardinality(DOMAIN store.worn) + 1

TypeOK ==
  /\ StoreOK
  /\ Partial(store.worn, Players, Looks)
  /\ \A p \in Players :
       /\ outfit[p] \in 0 .. Len(Wardrobe[p])
       /\ {pending[p], posted[p]} \subseteq Looks \cup {Bare}
       /\ uploaded[p] \subseteq Looks
       /\ worker[p] \in {"upload", "claim", "answer", "poll", "download"}
       /\ wanted[p] \subseteq Entries
       /\ Range(fetched[p]) \subseteq Entries
       /\ Partial(requested[p], Players, Looks)
       /\ Partial(parked[p], Players, Looks)
       /\ Partial(interest[p], Players, Looks \cup {Bare})
       /\ Partial(peers[p], Players, Looks \cup {Bare})
  /\ near \subseteq Players

\* "Dropping it would hand them the featureless proxy": what the roster says
\* a player wears can be downloaded, however stores, claims and evictions of
\* one uploader follow one another. Where several upload, a look that is stored
\* and not yet claimed may be evicted by those of the others.
WornLooksAreStored == Worn(store) \subseteq Stored(store)

\* "Peers notice because the id they were told no longer matches what they
\* have installed, and fetch the new one": a player in sight ends up seen in
\* the look that the roster has of him, however often it changes and whatever
\* fails, provided that it does not change while an older one is parked.
Dressers == {p \in Players : Wardrobe[p] # <<>>}
Wears(w) == w \in DOMAIN store.worn
Shows(v, w) == w \in DOMAIN peers[v] /\ peers[v][w] = store.worn[w]
RosterLooksAreShown ==
  \A w \in Dressers : \A v \in Players \ {w} :
    (/\ <>[]({v, w} \subseteq near)
     /\ [](w \in DOMAIN parked[v] => parked[v][w] = store.worn[w])
     => <>[](Wears(w) => Shows(v, w)))

\* "And stays a box": a player in sight who has a look is not left a
\* featureless proxy for good, whatever failed and was evicted on the way.
NobodyStaysAProxy ==
  \A w \in Dressers : \A v \in Players \ {w} :
    (<>[]({v, w} \subseteq near) =>
       <>[](outfit[w] > 0 => w \in DOMAIN peers[v] /\ peers[v][w] # Bare))
=============================================================================
