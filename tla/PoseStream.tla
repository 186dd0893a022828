----------------------------- MODULE PoseStream -----------------------------
(***************************************************************************)
(* The one animation stream that a client broadcasts through the relay     *)
(* (BroadcastAnimationStream, SendAnimation and SendV12Animation in        *)
(* skate3_multiplayer.cpp) and its receivers (PoseReceiverState,           *)
(* ReceiveV12AnimationPacket, CommitAnimationFrame).  A keyframe stands    *)
(* alone; a delta needs the one keyframe that its sender took for the base *)
(* of the chain, which becomes the base when one receiver reports it.      *)
(*                                                                         *)
(* Frames of a pose come one after another without end, so sequence        *)
(* numbers are ranked anew at each frame among those that are still        *)
(* referred to; the code compares them and never counts with them.         *)
(***************************************************************************)
EXTENDS Naturals, FiniteSets

CONSTANTS
  Peers,       \* the other players
  Networks,    \* what the network may be like, each with two bounds.  distance: of
               \* datagrams under way to or from a peer at any time, the frame that is
               \* sent included; 1 is a round trip within the time of a frame, and 0 a
               \* peer who never comes.  troubles: of datagrams lost, whole or in part,
               \* peers forgotten, and changes of the skater's tracks, taken together
  MaxOffers    \* SenderBaselineState::kMaximumRetainedOffers

ASSUME PoseBounds ==
  /\ IsFiniteSet(Peers)
  /\ \A n \in Networks : n.distance \in [Peers -> Nat] /\ n.troubles \in Nat
  /\ MaxOffers \in Nat \ {0}

VARIABLES
  chain,    \* broadcast_animation_
  layout,   \* of the tracks the next pose has
  status,   \* of each peer at the sender: "absent", "new", "capable", "ready"
  peer,     \* of each peer: its RemotePeerState of the sender, and what is under way
  network,  \* which of Networks it is
  troubles  \* what its troubles bound, so far

vars == <<chain, layout, status, peer, network, troubles>>

NoKeyframe == [id |-> 0, layout |-> 0]

\* After EnsureBroadcastAnimationGeneration.
NewChain == [installed |-> NoKeyframe, confirmed |-> 0, offered |-> {},
             started |-> FALSE, force |-> TRUE]

\* seen: history, a frame was shown since the last one was sent.
NewPeer == [keyframe |-> 0, decoded |-> 0, last |-> 0, partial |-> 0,
            pending |-> FALSE, recovering |-> FALSE,
            frames |-> {}, controls |-> {}, seen |-> FALSE]

Init ==
  /\ chain = NewChain /\ layout = 1
  /\ status = [p \in Peers |-> "absent"]
  /\ peer = [p \in Peers |-> NewPeer]
  /\ network \in Networks /\ troubles = 0

Trouble == troubles < network.troubles /\ troubles' = troubles + 1

Present == {p \in Peers : status[p] # "absent"}

\* BroadcastAnimationUsesV12: one stream speaks one dialect.
UsesV12 == Present # {} /\ \A p \in Present : status[p] = "ready"

-----------------------------------------------------------------------------
(* Ranking the sequence numbers.                                           *)

IdsOfPeer(q) ==
  {q.keyframe, q.decoded, q.last, q.partial}
    \cup {c.id : c \in q.controls} \cup UNION {{f.id, f.base} : f \in q.frames}

IdsInUse ==
  ({chain.installed.id, chain.confirmed} \cup {o.id : o \in chain.offered}
     \cup UNION {IdsOfPeer(peer[p]) : p \in Peers}) \ {0}

\* Each number in use, and 0, to its rank.
Ranking ==
  LET ids == IdsInUse
  IN [i \in ids \cup {0} |-> Cardinality({j \in ids : j <= i})]

Ranked(x, rank) == [x EXCEPT !.id = rank[@]]

RankedChain(rank) ==
  [chain EXCEPT !.installed = Ranked(@, rank), !.confirmed = rank[@],
                !.offered = {Ranked(o, rank) : o \in @}]

RankedPeer(q, rank) ==
  [q EXCEPT !.keyframe = rank[@], !.decoded = rank[@], !.last = rank[@],
            !.partial = rank[@],
            !.frames = {[Ranked(f, rank) EXCEPT !.base = rank[@]] : f \in @},
            !.controls = {Ranked(c, rank) : c \in @}]

-----------------------------------------------------------------------------
(* The sender's frames.                                                    *)

UnderWay(p) == Cardinality(peer[p].frames) + Cardinality(peer[p].controls)

\* The first frame of the negotiated stream, and one that was asked for, has no base.
Base(c) == IF UsesV12 /\ (~c.started \/ c.force) THEN NoKeyframe ELSE c.installed

\* BuildAnimationFrameWords: nothing to build on, other tracks, or v11's timer.
KeyframeRequired(base, periodic) ==
  base.id = 0 \/ base.layout # layout \/ (periodic /\ ~UsesV12)

\* SendV12Animation sends no delta over what nobody reported.
Refused(c, base, key) ==
  UsesV12 /\ ~key /\ (c.confirmed # base.id \/ c.installed.id # base.id)

\* The oldest offer makes room for another.
WithRoom(offered) ==
  IF Cardinality(offered) < MaxOffers THEN offered
  ELSE {o \in offered : \E older \in offered : older.id < o.id}

\* MUTANT. Nothing makes room.
OfferedWithoutRoom(c, base, k) ==
  [c EXCEPT !.installed = base, !.offered = @ \cup {k}, !.started = TRUE, !.force = FALSE]

\* MUTANT. The demand for a keyframe outlives the keyframe.
OfferedStillForced(c, base, k) ==
  [c EXCEPT !.installed = base, !.offered = WithRoom(@) \cup {k}, !.started = TRUE]

\* A v12 keyframe is kept until a report of it.
Offered(c, base, k) ==
  [c EXCEPT !.installed = base, !.offered = WithRoom(@) \cup {k}, !.started = TRUE,
            !.force = FALSE]

\* v11 has no reports: its chain advances as soon as the frame is on the wire.
AfterSend(c, base, key, k) ==
  IF UsesV12
  THEN IF key THEN Offered(c, base, k) ELSE [c EXCEPT !.started = TRUE, !.force = FALSE]
  ELSE IF key THEN [c EXCEPT !.installed = k] ELSE c

Send ==
  /\ Present # {} /\ \A p \in Present : UnderWay(p) < network.distance[p]
  /\ \E periodic \in BOOLEAN :
       LET rank == Ranking
           c == RankedChain(rank)
           n == Cardinality(DOMAIN rank)
           base == Base(c)
           key == KeyframeRequired(base, periodic)
           frame == [id |-> n, key |-> key, base |-> IF key THEN 0 ELSE base.id,
                     v12 |-> UsesV12]
           refused == Refused(c, base, key)
       IN /\ chain' = IF refused THEN c
                      ELSE AfterSend(c, base, key, [id |-> n, layout |-> layout])
          /\ peer' = [p \in Peers |->
               LET q == RankedPeer(peer[p], rank)
               IN IF p \notin Present THEN q
                  ELSE [q EXCEPT !.seen = FALSE,
                                 !.frames = IF refused THEN @ ELSE @ \cup {frame}]]
  /\ UNCHANGED <<layout, status, troubles, network>>

\* Other clothes are other tracks.
ChangeLayout ==
  /\ Trouble
  /\ layout' = layout + 1
  /\ UNCHANGED <<chain, status, peer, network>>

-----------------------------------------------------------------------------
(* The sender's peers.                                                     *)

\* A first packet of theirs.
Appear(p) ==
  /\ status[p] = "absent" /\ network.distance[p] > 0
  /\ status' = [status EXCEPT ![p] = "new"]
  /\ UNCHANGED <<chain, layout, peer, troubles, network>>

\* A new generation holds nothing of the shared chain.
ForNewcomer(c) == [c EXCEPT !.force = TRUE]

\* The first capability packet of a peer,
ReceiveCapability(p) ==
  /\ status[p] = "new"
  /\ status' = [status EXCEPT ![p] = "capable"]
  /\ chain' = ForNewcomer(chain)
  /\ UNCHANGED <<layout, peer, troubles, network>>

\* and one that acknowledges ours.
ReceiveAcknowledgement(p) ==
  /\ status[p] = "capable"
  /\ status' = [status EXCEPT ![p] = "ready"]
  /\ UNCHANGED <<chain, layout, peer, troubles, network>>

\* MUTANT. Nothing is asked of the stream when a peer goes.
ForLeaverNothing(c) == c

\* ResetOutboundPeerState: every peer has a control state to erase.
ForLeaver(c) == [c EXCEPT !.force = TRUE]

\* Five seconds of silence.  The peer may have forgotten the sender as well.
PrunePeer(p) ==
  /\ status[p] # "absent" /\ Trouble
  /\ status' = [status EXCEPT ![p] = "absent"]
  /\ chain' = ForLeaver(chain)
  /\ \E forgotten \in BOOLEAN :
       peer' = [peer EXCEPT ![p] =
                  IF forgotten THEN NewPeer
                  ELSE [@ EXCEPT !.frames = {}, !.controls = {}]]
  /\ UNCHANGED <<layout, network>>

\* A report: the keyframe becomes the base, and what is older is dropped.
Confirmed(c, i) ==
  [c EXCEPT !.confirmed = i,
            !.installed = CHOOSE o \in c.offered : o.id = i,
            !.offered = {o \in @ : o.id > i}]

\* A request: the chain is torn down and the next frame is a keyframe.
Restarted(c) == [c EXCEPT !.confirmed = 0, !.offered = {}, !.installed = NoKeyframe,
                          !.force = TRUE]

AfterControl(c, control) ==
  IF control.type = "request" THEN Restarted(c)
  ELSE IF \E o \in c.offered : o.id = control.id THEN Confirmed(c, control.id)
  ELSE c

ReceivePoseControl(p) ==
  /\ \E control \in peer[p].controls :
       /\ chain' = IF status[p] \in {"capable", "ready"} THEN AfterControl(chain, control)
                   ELSE chain
       /\ peer' = [peer EXCEPT ![p].controls = @ \ {control}]
  /\ UNCHANGED <<layout, status, troubles, network>>

-----------------------------------------------------------------------------
(* A receiver.                                                             *)

\* NotifyBaselineUnavailable and ConsumeBaselineRequest: one request at a time,
\* and again when the retry has armed it.
Asked(q) ==
  IF q.pending \/ ~q.recovering
  THEN [q EXCEPT !.pending = FALSE, !.recovering = TRUE,
                 !.controls = @ \cup {[type |-> "request", id |-> 0]}]
  ELSE q

\* Expire: a keyframe whose fragments stopped coming.
Expired(q) == Asked([q EXCEPT !.partial = 0])

Newest(q, f) == f.id > q.last

\* CommitAnimationFrame of a keyframe, CompleteBaselineGroup and the report.
Completed(q, f) ==
  [q EXCEPT !.keyframe = f.id, !.decoded = f.id, !.last = f.id, !.partial = 0,
            !.seen = TRUE, !.pending = FALSE, !.recovering = FALSE,
            !.controls = @ \cup {[type |-> "decoded", id |-> f.id]}]

\* A keyframe in fragments: an older one than the one being put together is stale.
WithKeyframe(q, f, whole) ==
  IF q.partial > f.id THEN q
  ELSE IF ~whole THEN [q EXCEPT !.partial = f.id]
  ELSE IF Newest(q, f) THEN Completed(q, f)
  ELSE [q EXCEPT !.partial = 0]

Shown(q, f) == [q EXCEPT !.last = f.id, !.seen = TRUE]

\* coded: in one of the codings relative to the keyframe, which is looked at
\* before the receiver's own record of what it decoded.
WithDelta(q, f, coded) ==
  IF f.base # q.decoded \/ (coded /\ f.base # q.keyframe) THEN Asked(q)
  ELSE IF f.base = q.keyframe /\ Newest(q, f) THEN Shown(q, f)
  ELSE q

\* The v11 stream has its own assembly and asks for nothing.
WithV11(q, f) ==
  IF ~Newest(q, f) \/ (~f.key /\ f.base # q.keyframe) THEN q
  ELSE [Shown(q, f) EXCEPT !.keyframe = IF f.key THEN f.id ELSE @]

AfterFrame(q, f, whole, coded, expired) ==
  LET r == IF expired THEN Expired(q) ELSE q
  IN IF ~f.v12 THEN WithV11(q, f)
     ELSE IF f.key THEN WithKeyframe(r, f, whole) ELSE WithDelta(r, f, coded)

\* Every push first expires what has waited a quarter of a second.
ReceiveFrame(p, expired) ==
  /\ expired => peer[p].partial # 0
  /\ \E f \in peer[p].frames, whole, coded \in BOOLEAN :
       /\ expired => f.v12
       /\ IF whole THEN UNCHANGED troubles ELSE f.v12 /\ f.key /\ Trouble
       /\ peer' = [peer EXCEPT ![p] =
            AfterFrame([peer[p] EXCEPT !.frames = @ \ {f}], f, whole, coded, expired)]
  /\ UNCHANGED <<chain, layout, status, network>>

LoseFrame(p) ==
  /\ Trouble
  /\ \E f \in peer[p].frames : peer' = [peer EXCEPT ![p].frames = @ \ {f}]
  /\ UNCHANGED <<chain, layout, status, network>>

LoseControl(p) ==
  /\ Trouble
  /\ \E c \in peer[p].controls : peer' = [peer EXCEPT ![p].controls = @ \ {c}]
  /\ UNCHANGED <<chain, layout, status, network>>

\* MUTANT. Waits for the request to be armed, which nothing does.
RetryDueIfPending(q) == q.recovering /\ q.pending /\ q.partial = 0

\* Nothing has been arriving for three quarters of a second.
RetryDue(q) == q.recovering /\ ~q.pending /\ q.partial = 0

ScheduleBaselineRetry(p) ==
  /\ RetryDue(peer[p])
  /\ peer' = [peer EXCEPT ![p].pending = TRUE]
  /\ UNCHANGED <<chain, layout, status, troubles, network>>

-----------------------------------------------------------------------------
Next ==
  \/ Send \/ ChangeLayout
  \/ \E p \in Peers :
       \/ Appear(p) \/ ReceiveCapability(p) \/ ReceiveAcknowledgement(p) \/ PrunePeer(p)
       \/ ReceivePoseControl(p)
       \/ \E expired \in BOOLEAN : ReceiveFrame(p, expired)
       \/ LoseFrame(p) \/ LoseControl(p) \/ ScheduleBaselineRetry(p)

Spec == Init /\ [][Next]_vars

\* The player is animated at a steady rate, what is not lost arrives, the
\* handshake is repeated until it is done, and time passes.
FairSpec ==
  /\ Spec /\ WF_vars(Send)
  /\ \A p \in Peers :
       /\ WF_vars(ReceiveCapability(p) \/ ReceiveAcknowledgement(p))
       /\ WF_vars(ReceivePoseControl(p))
       /\ WF_vars(\E expired \in BOOLEAN : ReceiveFrame(p, expired))
       /\ SF_vars(ReceiveFrame(p, TRUE))
       /\ WF_vars(ScheduleBaselineRetry(p))

-----------------------------------------------------------------------------
TypeOK ==
  /\ layout \in 1 .. troubles + 1
  /\ status \in [Peers -> {"absent", "new", "capable", "ready"}]
  /\ Cardinality(chain.offered) <= MaxOffers
  /\ \A o \in chain.offered : o.id > chain.confirmed /\ o.layout \in 1 .. layout
  /\ {chain.started, chain.force} \subseteq BOOLEAN
  /\ \A p \in Peers :
       /\ \A f \in peer[p].frames : /\ {f.key, f.v12} \subseteq BOOLEAN
                                    /\ f.key <=> f.base = 0
       /\ \A c \in peer[p].controls : c.type = "request" <=> c.id = 0
       /\ peer[p].decoded <= peer[p].keyframe /\ peer[p].keyframe <= peer[p].last
       /\ {peer[p].pending, peer[p].recovering, peer[p].seen} \subseteq BOOLEAN
  /\ troubles \in 0 .. network.troubles

(* The next frame is never one that SendV12Animation refuses, however the
   stream changed between v11 and v12 in between: then it would be refused for
   ever, since what is refused reaches nobody who could ask for a keyframe. *)
FramesAreSendable ==
  UsesV12 =>
    LET base == Base(chain)
    IN ~Refused(chain, base, KeyframeRequired(base, FALSE))

(* Who is there is shown a new pose again and again, whatever was lost,
   whoever came and went, and whatever others ask of the one stream. *)
PosesKeepComing == \A p \in Peers : []<>(p \notin Present \/ peer[p].seen)

\* Frames are deltas over what somebody reported.
Steady == UsesV12 => Base(chain).id # 0

(* Requests for keyframes come to an end and the stream settles on deltas. *)
StreamSettles == <>[]Steady

(* It does when each frame is answered before the next is sent: when at some
   time there is no more than one datagram under way to or from each peer, and
   none is sent on top of it. *)
SettlesWhenPrompt == <>[](\A p \in Peers : UnderWay(p) <= 1) => StreamSettles
=============================================================================
