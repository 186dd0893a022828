---------------------------- MODULE RelayRouter ----------------------------
(***************************************************************************)
(* The relay's router as a state machine: any sequence of the calls the    *)
(* main loop makes on it, with time passing between them.  Routing itself  *)
(* changes nothing, so what a datagram would reach is a state predicate.   *)
(* SetName is DedicatedServer's: the router reads no name.                 *)
(***************************************************************************)
EXTENDS RelayRouting

VARIABLE router

TypeOK == IsRouter(router)

Init == router = NoPeers

Join(c, role, session) == router' = Register(router, c, NewPeer(role, session))

Leave(c) ==
  /\ c \in DOMAIN router.peers
  /\ router' = Remove(router, c)

Beacon(c, map, x) ==
  /\ c \in DOMAIN router.peers
  /\ router' = UpdatePresence(router, c, map, x)

Hear(c) ==
  /\ c \in DOMAIN router.peers
  /\ router' = Touch(router, c)

Assign(role, bucket) ==
  /\ HasRole(router, role)
  /\ router' = SetBucket(router, role, bucket)

\* The periodic pass: evict the silent, then count the crowds that are left.
Swept(r) == RefreshCrowdCounts(RemoveStale(r))
Sweep == router' = Swept(router)

Tick == router' = Older(router)

Next ==
  \/ \E c \in Connections :
       \/ \E role \in 0 .. MaximumRole + 1, session \in Sessions :
            Join(c, role, session)
       \/ Leave(c)
       \/ \E map \in Maps, x \in Positions : Beacon(c, map, x)
       \/ Hear(c)
  \/ \E role \in Roles, bucket \in Buckets : Assign(role, bucket)
  \/ Sweep
  \/ Tick

Spec == Init /\ [][Next]_router

-----------------------------------------------------------------------------
(* Properties                                                              *)

\* peers_ and role_to_connection_ are inverse to each other: a role that is
\* looked up (SetBucket, SetName, ConnectionForRole, a directed route) names
\* the one connection that holds it, and no connection is left without one.
RolesMatchPeers == Inverses(router)

Keyframe(datagram) == ~ datagram.delta

\* Everything but pose deltas is heard in both directions or in neither,
\* although the crowd policy degrades by the RECIPIENT's neighbours, which
\* may be stale counts of another place: one player seeing another who
\* cannot see him is what interest management must not cause.
InterestIsMutual ==
  \A a, b \in DOMAIN router.peers : \A d, e \in Datagrams :
    (Keyframe(d) /\ Keyframe(e)) =>
      (b \in Recipients(router, a, d) <=> a \in Recipients(router, b, e))

\* "Thin deltas, always pass keyframes": whoever is sent any delta of a
\* stream is sent its baselines, or it would ask for a fresh baseline for
\* ever, and thinning would cost bandwidth instead of saving it.
NoDeltaWithoutKeyframe ==
  \A a \in DOMAIN router.peers : \A d, k \in Datagrams :
    Keyframe(k) => Recipients(router, a, d) \subseteq Recipients(router, a, k)

\* A pose group is forwarded whole: its fragments, which have consecutive
\* envelope sequences, all go to the same recipients.
PoseGroupsRoutedWhole ==
  \A a \in DOMAIN router.peers : \A d, e \in Datagrams :
    (d.delta /\ e.delta /\ d.pose = e.pose) =>
      Recipients(router, a, d) = Recipients(router, a, e)

\* Thinning lowers a skater's update rate and never freezes him: whoever is
\* sent the keyframes of a stream is sent a delta out of any LowDivisor
\* consecutive ones (or MediumDivisor, whichever is sparser).
SparsestRate == CHOOSE n \in {1, MediumDivisor, LowDivisor} :
                  \A m \in {1, MediumDivisor, LowDivisor} : n >= m
ThinningNeverFreezes ==
  \A a \in DOMAIN router.peers : \A k \in Datagrams : Keyframe(k) =>
    \A b \in Recipients(router, a, k), first \in 1 .. SparsestRate :
      \E pose \in first .. first + SparsestRate - 1 :
        b \in Recipients(router, a, [delta |-> TRUE, pose |-> pose, sequence |-> 1])
=============================================================================
