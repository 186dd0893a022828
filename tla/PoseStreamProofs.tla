-------------------------- MODULE PoseStreamProofs --------------------------
(***************************************************************************)
(* The pose stream's theorems.  The sender never takes for the base of a   *)
(* delta a keyframe that it would then refuse to build on.  This is not    *)
(* inductive alone: while the stream speaks v11, keyframes are installed   *)
(* that nobody will ever report, and what saves it is that each way back   *)
(* to v12, a newcomer who is heard or anybody who leaves, demands a        *)
(* keyframe that nothing but a v12 keyframe satisfies.                     *)
(*                                                                         *)
(* Most of what follows is about the ranks that stand for sequence         *)
(* numbers: they keep the order, and the number of the frame that is sent  *)
(* is above them all.                                                      *)
(***************************************************************************)
EXTENDS PoseStream, FiniteSetTheorems, WellFoundedInduction, TLAPS

Keyframe == [id : Nat, layout : Nat]

Chain == [installed : Keyframe, confirmed : Nat, offered : SUBSET Keyframe,
          started : BOOLEAN, force : BOOLEAN]

Frame == [id : Nat \ {0}, key : BOOLEAN, base : Nat, v12 : BOOLEAN]

Control == [type : {"request", "decoded"}, id : Nat]

Peer == [keyframe : Nat, decoded : Nat, last : Nat, partial : Nat,
         pending : BOOLEAN, recovering : BOOLEAN,
         frames : SUBSET Frame, controls : SUBSET Control, seen : BOOLEAN]

ChainOK(c, l) ==
  /\ c \in Chain
  /\ IsFiniteSet(c.offered) /\ Cardinality(c.offered) <= MaxOffers
  /\ \A o \in c.offered : o.id > c.confirmed /\ o.layout \in 1 .. l

PeerOK(q) ==
  /\ q \in Peer
  /\ IsFiniteSet(q.frames) /\ IsFiniteSet(q.controls)
  /\ \A f \in q.frames : f.key <=> f.base = 0
  /\ \A c \in q.controls : c.type = "request" <=> c.id = 0
  /\ q.decoded <= q.keyframe /\ q.keyframe <= q.last

TypeInv ==
  /\ ChainOK(chain, layout)
  /\ layout \in Nat \ {0} /\ troubles \in Nat /\ network \in Networks
  /\ layout <= troubles + 1 /\ troubles <= network.troubles
  /\ status \in [Peers -> {"absent", "new", "capable", "ready"}]
  /\ peer \in [Peers -> Peer]
  /\ \A p \in Peers : PeerOK(peer[p])

\* A newcomer who is heard has asked for a keyframe, and what is installed is
\* what was reported, is not used next, or will not be used before a newcomer is
\* heard.
BaseInv ==
  /\ (\E p \in Peers : status[p] = "capable") => chain.force
  /\ \/ \E p \in Peers : status[p] = "new"
     \/ chain.force \/ ~chain.started
     \/ chain.installed.id = 0
     \/ chain.installed.id = chain.confirmed

-----------------------------------------------------------------------------
(* Ranks.                                                                  *)

IsRanking(rank) ==
  /\ IsFiniteSet(DOMAIN rank) /\ DOMAIN rank \subseteq Nat /\ 0 \in DOMAIN rank
  /\ \A i \in DOMAIN rank : rank[i] \in Nat /\ rank[i] < Cardinality(DOMAIN rank)
  /\ rank[0] = 0
  /\ \A i, j \in DOMAIN rank : i < j => rank[i] < rank[j]

(* A finite set has a finite image. *)
LEMMA FiniteImage ==
  ASSUME NEW S, IsFiniteSet(S), NEW f, S \subseteq DOMAIN f
  PROVE  /\ IsFiniteSet({f[x] : x \in S})
         /\ Cardinality({f[x] : x \in S}) <= Cardinality(S)
<1> DEFINE T == {f[x] : x \in S}
           g == [x \in S |-> f[x]]
<1>1. g \in Surjection(S, T)
  BY DEF Surjection
<1> QED
  BY <1>1, FS_Surjection

(* Ranks keep the order of the numbers they stand for. *)
LEMMA RanksKeepTheOrder ==
  ASSUME NEW ids \in SUBSET (Nat \ {0}), IsFiniteSet(ids)
  PROVE  IsRanking([i \in ids \cup {0} |-> Cardinality({j \in ids : j <= i})])
<1> DEFINE below(i) == {j \in ids : j <= i}
           rank == [i \in ids \cup {0} |-> Cardinality(below(i))]
<1>0. \A j \in ids : j \in Nat /\ j > 0
  OBVIOUS
<1>1. \A i : IsFiniteSet(below(i)) /\ Cardinality(below(i)) \in Nat
            /\ Cardinality(below(i)) <= Cardinality(ids)
  BY FS_Subset, FS_CardinalityType
<1>2. IsFiniteSet(ids \cup {0}) /\ Cardinality(ids \cup {0}) = Cardinality(ids) + 1
  BY FS_AddElement
<1>3. Cardinality(ids) \in Nat
  BY FS_CardinalityType
<1>4. rank[0] = 0
  <2>0. \A j \in ids : ~ (j <= 0)
    BY <1>0
  <2>1. below(0) = {}
    BY <2>0
  <2> QED
    BY <2>1, FS_EmptySet
<1>5. ASSUME NEW i \in ids \cup {0}, NEW j \in ids \cup {0}, i < j
      PROVE  rank[i] < rank[j]
  <2>0. i \in Nat /\ j \in ids /\ j \in Nat
    BY <1>0, <1>5
  <2>1. j <= j /\ ~ (j <= i) /\ \A h \in ids : h <= i => h <= j
    BY <1>0, <1>5, <2>0
  <2>2. below(i) \subseteq below(j) /\ j \in below(j) /\ j \notin below(i)
    BY <2>0, <2>1
  <2>3. below(i) # below(j)
    BY <2>2
  <2>4. Cardinality(below(i)) <= Cardinality(below(j))
        /\ Cardinality(below(i)) # Cardinality(below(j))
    BY <1>1, <2>2, <2>3, FS_Subset
  <2>5. Cardinality(below(i)) < Cardinality(below(j))
    BY <1>1, <2>4
  <2> QED
    BY <2>5
<1>6. \A i \in ids \cup {0} : rank[i] \in Nat /\ rank[i] < Cardinality(ids \cup {0})
  BY <1>1, <1>2, <1>3
<1>7. DOMAIN rank = ids \cup {0}
  OBVIOUS
<1> HIDE DEF rank
<1> QED
  BY <1>2, <1>4, <1>5, <1>6, <1>7 DEF IsRanking, rank

LEMMA IdsOfPeerAreFinite ==
  ASSUME NEW q, PeerOK(q)
  PROVE  IsFiniteSet(IdsOfPeer(q)) /\ IdsOfPeer(q) \subseteq Nat
<1> DEFINE own == {q.keyframe, q.decoded, q.last, q.partial}
           pairs == UNION {{f.id, f.base} : f \in q.frames}
           ids == {f.id : f \in q.frames}
           bases == {f.base : f \in q.frames}
           controls == {c.id : c \in q.controls}
<1>1. IsFiniteSet(own) /\ own \subseteq Nat
  <2>1. IsFiniteSet({q.keyframe}) /\ IsFiniteSet({q.decoded}) /\ IsFiniteSet({q.last})
        /\ IsFiniteSet({q.partial})
    BY FS_Singleton
  <2>2. own = (({q.keyframe} \cup {q.decoded}) \cup {q.last}) \cup {q.partial}
    OBVIOUS
  <2> HIDE DEF own
  <2>3. IsFiniteSet({q.keyframe} \cup {q.decoded})
    BY <2>1, FS_Union
  <2>4. IsFiniteSet(({q.keyframe} \cup {q.decoded}) \cup {q.last})
    BY <2>1, <2>3, FS_Union
  <2>5. IsFiniteSet(own)
    BY <2>1, <2>2, <2>4, FS_Union
  <2> QED
    BY <2>5 DEF PeerOK, Peer, own
<1>2. ids \subseteq Nat /\ bases \subseteq Nat /\ controls \subseteq Nat
  BY DEF PeerOK, Peer, Frame, Control
<1>3. pairs = ids \cup bases
  OBVIOUS
<1>4. IsFiniteSet(ids) /\ IsFiniteSet(bases) /\ IsFiniteSet(controls)
  <2>1. ids = {[g \in q.frames |-> g.id][f] : f \in q.frames}
    OBVIOUS
  <2>2. bases = {[g \in q.frames |-> g.base][f] : f \in q.frames}
    OBVIOUS
  <2>3. controls = {[d \in q.controls |-> d.id][c] : c \in q.controls}
    OBVIOUS
  <2> HIDE DEF ids, bases, controls
  <2> QED
    BY <2>1, <2>2, <2>3, FiniteImage DEF PeerOK
<1>5. IdsOfPeer(q) = (own \cup controls) \cup pairs
  BY DEF IdsOfPeer
<1> HIDE DEF own, pairs, ids, bases, controls
<1>6. IsFiniteSet(pairs) /\ pairs \subseteq Nat
  BY <1>4, <1>2, <1>3, FS_Union
<1>7. IsFiniteSet(own \cup controls)
  BY <1>1, <1>4, FS_Union
<1> QED
  BY <1>1, <1>4, <1>2, <1>6, <1>5, <1>7, FS_Union

LEMMA RankingRanks ==
  ASSUME TypeInv
  PROVE  /\ IsRanking(Ranking)
         /\ {chain.installed.id, chain.confirmed} \subseteq DOMAIN Ranking
         /\ \A o \in chain.offered : o.id \in DOMAIN Ranking
         /\ \A p \in Peers : IdsOfPeer(peer[p]) \subseteq DOMAIN Ranking
<1> DEFINE own == {chain.installed.id, chain.confirmed}
           offers == {o.id : o \in chain.offered}
           others == UNION {IdsOfPeer(peer[p]) : p \in Peers}
<1>1. IsFiniteSet(own) /\ own \subseteq Nat
  <2>1. IsFiniteSet({chain.installed.id}) /\ IsFiniteSet({chain.confirmed})
    BY FS_Singleton
  <2>2. own = {chain.installed.id} \cup {chain.confirmed}
    OBVIOUS
  <2>3. IsFiniteSet(own)
    BY <2>1, <2>2, FS_Union
  <2> QED
    BY <2>3 DEF TypeInv, ChainOK, Chain, Keyframe
<1>2. IsFiniteSet(offers) /\ offers \subseteq Nat
  <2>1. offers \subseteq Nat
    BY DEF TypeInv, ChainOK, Chain, Keyframe
  <2> DEFINE g == [o \in chain.offered |-> o.id]
  <2>2. DOMAIN g = chain.offered /\ offers = {g[o] : o \in chain.offered}
    OBVIOUS
  <2> HIDE DEF offers, g
  <2>3. IsFiniteSet(chain.offered)
    BY DEF TypeInv, ChainOK
  <2> QED
    BY <2>1, <2>2, <2>3, FiniteImage
<1>3. IsFiniteSet(others) /\ others \subseteq Nat
  <2>1. \A p \in Peers : IsFiniteSet(IdsOfPeer(peer[p])) /\ IdsOfPeer(peer[p]) \subseteq Nat
    BY IdsOfPeerAreFinite DEF TypeInv
  <2> DEFINE g == [p \in Peers |-> IdsOfPeer(peer[p])]
  <2>2. {IdsOfPeer(peer[p]) : p \in Peers} = {g[p] : p \in Peers} /\ Peers = DOMAIN g
    OBVIOUS
  <2> HIDE DEF g
  <2>3. IsFiniteSet({IdsOfPeer(peer[p]) : p \in Peers})
    BY <2>2, PoseBounds, FiniteImage
  <2> QED
    BY <2>1, <2>3, FS_UNION
<1>4. IdsInUse = ((own \cup offers) \cup others) \ {0}
  BY DEF IdsInUse
<1> HIDE DEF own, offers, others
<1>5. IsFiniteSet(own \cup offers)
  BY <1>1, <1>2, FS_Union
<1>6. IsFiniteSet((own \cup offers) \cup others)
  BY <1>3, <1>5, FS_Union
<1>7. IsFiniteSet(IdsInUse) /\ IdsInUse \in SUBSET (Nat \ {0})
  BY <1>1, <1>2, <1>3, <1>4, <1>6, FS_Subset
<1>8. IsRanking(Ranking)
  BY <1>7, RanksKeepTheOrder DEF Ranking
<1>9. DOMAIN Ranking = IdsInUse \cup {0}
  BY DEF Ranking
<1> QED
  BY <1>4, <1>8, <1>9 DEF own, offers, others

LEMMA RankKeeps ==
  ASSUME NEW rank, IsRanking(rank), NEW i \in DOMAIN rank, NEW j \in DOMAIN rank
  PROVE  /\ i \in Nat /\ rank[i] \in Nat /\ rank[0] = 0
         /\ i <= j => rank[i] <= rank[j]
         /\ rank[i] = 0 <=> i = 0
         /\ rank[i] < Cardinality(DOMAIN rank)
<1>1. i \in Nat /\ j \in Nat /\ rank[i] \in Nat /\ rank[j] \in Nat /\ 0 \in DOMAIN rank
  BY DEF IsRanking
<1>2. rank[0] = 0 /\ (0 < i => rank[0] < rank[i]) /\ (i < j => rank[i] < rank[j])
  BY <1>1 DEF IsRanking
<1> QED
  BY <1>1, <1>2 DEF IsRanking

LEMMA RankedKeyframe ==
  ASSUME NEW rank, IsRanking(rank), NEW k \in Keyframe, k.id \in DOMAIN rank
  PROVE  /\ Ranked(k, rank) \in Keyframe
         /\ Ranked(k, rank).id = rank[k.id] /\ Ranked(k, rank).layout = k.layout
<1>1. rank[k.id] \in Nat
  BY RankKeeps
<1> QED
  BY <1>1 DEF Ranked, Keyframe

(* The chain, ranked. *)
LEMMA ChainRanked ==
  ASSUME NEW rank, IsRanking(rank), ChainOK(chain, layout), layout \in Nat,
         {chain.installed.id, chain.confirmed} \subseteq DOMAIN rank,
         \A o \in chain.offered : o.id \in DOMAIN rank
  PROVE  LET c == RankedChain(rank)
         IN  /\ ChainOK(c, layout)
             /\ c.installed.id = rank[chain.installed.id] /\ c.confirmed = rank[chain.confirmed]
             /\ c.started = chain.started /\ c.force = chain.force
             /\ \A o \in c.offered : o.id < Cardinality(DOMAIN rank)
             /\ c.confirmed < Cardinality(DOMAIN rank)
<1> DEFINE c == RankedChain(rank)
           offered == {Ranked(o, rank) : o \in chain.offered}
           installed == Ranked(chain.installed, rank)
           confirmed == rank[chain.confirmed]
<1>1. chain \in Chain /\ chain.installed \in Keyframe /\ chain.confirmed \in DOMAIN rank
      /\ chain.offered \subseteq Keyframe /\ chain.installed.id \in DOMAIN rank
  BY DEF ChainOK, Chain
<1>2. installed \in Keyframe /\ installed.id = rank[chain.installed.id]
  BY <1>1, RankedKeyframe
<1>3. confirmed \in Nat /\ confirmed < Cardinality(DOMAIN rank)
  BY <1>1, RankKeeps
<1>4. ASSUME NEW o \in chain.offered
      PROVE  LET w == Ranked(o, rank)
             IN  /\ w \in Keyframe /\ w.id > confirmed /\ w.layout \in 1 .. layout
                 /\ w.id < Cardinality(DOMAIN rank)
  <2>1. o \in Keyframe /\ o.id \in DOMAIN rank /\ chain.confirmed < o.id
        /\ o.layout \in 1 .. layout /\ chain.confirmed \in Nat /\ o.id \in Nat
    BY <1>1 DEF ChainOK, Chain, Keyframe
  <2>2. rank[chain.confirmed] < rank[o.id]
    BY <1>1, <2>1 DEF IsRanking
  <2>3. rank[o.id] \in Nat /\ rank[o.id] < Cardinality(DOMAIN rank)
    BY <2>1, RankKeeps
  <2> QED
    BY <1>3, <2>1, <2>2, <2>3, RankedKeyframe
<1>5. IsFiniteSet(offered) /\ Cardinality(offered) <= MaxOffers
  <2> DEFINE g == [o \in chain.offered |-> Ranked(o, rank)]
  <2>1. DOMAIN g = chain.offered /\ offered = {g[o] : o \in chain.offered}
    OBVIOUS
  <2>2. IsFiniteSet(chain.offered) /\ Cardinality(chain.offered) <= MaxOffers
    BY DEF ChainOK
  <2> HIDE DEF offered, g
  <2>3. IsFiniteSet(offered) /\ Cardinality(offered) <= Cardinality(chain.offered)
    BY <2>1, <2>2, FiniteImage
  <2>4. Cardinality(offered) \in Nat /\ Cardinality(chain.offered) \in Nat /\ MaxOffers \in Nat
    BY <2>2, <2>3, FS_CardinalityType, PoseBounds
  <2> QED
    BY <2>2, <2>3, <2>4
<1>6. offered \subseteq Keyframe
      /\ \A w \in offered : /\ w.id > confirmed /\ w.layout \in 1 .. layout
                            /\ w.id < Cardinality(DOMAIN rank)
  BY <1>4
<1>7. c = [chain EXCEPT !.installed = installed, !.confirmed = confirmed, !.offered = offered]
  BY DEF RankedChain
<1> HIDE DEF c, offered, installed, confirmed
<1>8. c \in Chain
  BY <1>1, <1>2, <1>3, <1>6, <1>7 DEF Chain
<1>9. c.installed = installed /\ c.confirmed = confirmed /\ c.offered = offered
  BY <1>1, <1>7 DEF Chain
<1>10. c.started = chain.started /\ c.force = chain.force
  BY <1>1, <1>7 DEF Chain
<1>11. ChainOK(c, layout)
  BY <1>5, <1>6, <1>8, <1>9 DEF ChainOK
<1>12. c.installed.id = rank[chain.installed.id] /\ c.confirmed = rank[chain.confirmed]
  BY <1>2, <1>9 DEF confirmed
<1> QED
  BY <1>3, <1>6, <1>9, <1>10, <1>11, <1>12 DEF c

(* A peer, ranked. *)
LEMMA PeerRanked ==
  ASSUME NEW rank, IsRanking(rank), NEW q, PeerOK(q), IdsOfPeer(q) \subseteq DOMAIN rank
  PROVE  PeerOK(RankedPeer(q, rank))
<1> DEFINE r == RankedPeer(q, rank)
           frames == {[Ranked(f, rank) EXCEPT !.base = rank[@]] : f \in q.frames}
           controls == {Ranked(c, rank) : c \in q.controls}
<1>1. q \in Peer /\ q.frames \subseteq Frame /\ q.controls \subseteq Control
  BY DEF PeerOK, Peer
<1>2. /\ {q.keyframe, q.decoded, q.last, q.partial} \subseteq DOMAIN rank
      /\ \A f \in q.frames : f.id \in DOMAIN rank /\ f.base \in DOMAIN rank
      /\ \A c \in q.controls : c.id \in DOMAIN rank
  BY DEF IdsOfPeer
<1>3. /\ rank[q.keyframe] \in Nat /\ rank[q.decoded] \in Nat
      /\ rank[q.last] \in Nat /\ rank[q.partial] \in Nat
      /\ rank[q.decoded] <= rank[q.keyframe] /\ rank[q.keyframe] <= rank[q.last]
  BY <1>2, RankKeeps DEF PeerOK
<1>4. ASSUME NEW f \in q.frames
      PROVE  LET w == [Ranked(f, rank) EXCEPT !.base = rank[@]]
             IN  w \in Frame /\ (w.key <=> w.base = 0)
  <2>1. f \in Frame /\ (f.key <=> f.base = 0)
    BY <1>1 DEF PeerOK
  <2>2. /\ rank[f.id] \in Nat \ {0} /\ rank[f.base] \in Nat
        /\ rank[f.base] = 0 <=> f.base = 0
    BY <1>2, <2>1, RankKeeps DEF Frame
  <2> DEFINE v == Ranked(f, rank)
  <2>3. v \in Frame /\ v.base = f.base /\ v.key = f.key
    BY <2>1, <2>2 DEF Ranked, Frame
  <2> HIDE DEF v
  <2>4. [v EXCEPT !.base = rank[@]] \in Frame /\ [v EXCEPT !.base = rank[@]].key = f.key
        /\ [v EXCEPT !.base = rank[@]].base = rank[f.base]
    BY <2>2, <2>3 DEF Frame
  <2> QED
    BY <2>1, <2>2, <2>4 DEF v
<1>5. ASSUME NEW c \in q.controls
      PROVE  LET w == Ranked(c, rank)
             IN  w \in Control /\ (w.type = "request" <=> w.id = 0)
  <2>1. c \in Control /\ (c.type = "request" <=> c.id = 0)
    BY <1>1 DEF PeerOK
  <2>2. c.id \in DOMAIN rank
    BY <1>2
  <2>3. rank[c.id] \in Nat /\ (rank[c.id] = 0 <=> c.id = 0)
    BY <2>2, RankKeeps
  <2> QED
    BY <2>1, <2>3 DEF Ranked, Control
<1>6. IsFiniteSet(frames) /\ IsFiniteSet(controls)
  <2> DEFINE g == [f \in q.frames |-> [Ranked(f, rank) EXCEPT !.base = rank[@]]]
             h == [c \in q.controls |-> Ranked(c, rank)]
  <2>1. DOMAIN g = q.frames /\ frames = {g[f] : f \in q.frames}
    OBVIOUS
  <2>2. DOMAIN h = q.controls /\ controls = {h[c] : c \in q.controls}
    OBVIOUS
  <2> HIDE DEF frames, controls, g, h
  <2> QED
    BY <2>1, <2>2, FiniteImage DEF PeerOK
<1>7. /\ frames \subseteq Frame /\ \A f \in frames : f.key <=> f.base = 0
      /\ controls \subseteq Control /\ \A c \in controls : c.type = "request" <=> c.id = 0
  BY <1>4, <1>5
<1>8. r = [q EXCEPT !.keyframe = rank[@], !.decoded = rank[@], !.last = rank[@],
                    !.partial = rank[@], !.frames = frames, !.controls = controls]
  BY DEF RankedPeer
<1> HIDE DEF r, frames, controls
<1>9. r \in Peer
  BY <1>1, <1>3, <1>7, <1>8 DEF Peer
<1>10. r.frames = frames /\ r.controls = controls
  BY <1>1, <1>8 DEF Peer
<1>11. r.keyframe = rank[q.keyframe] /\ r.decoded = rank[q.decoded] /\ r.last = rank[q.last]
  BY <1>1, <1>8 DEF Peer
<1>12. r.decoded <= r.keyframe /\ r.keyframe <= r.last
  BY <1>3, <1>11
<1>13. PeerOK(r)
  BY <1>6, <1>7, <1>9, <1>10, <1>12 DEF PeerOK
<1> QED
  BY <1>13 DEF r
-----------------------------------------------------------------------------
(* What a receiver does keeps it well formed.                              *)

Sound(f) == f \in Frame /\ (f.key <=> f.base = 0)

(* A request is one more thing under way. *)
LEMMA AskedKeeps ==
  ASSUME NEW q, PeerOK(q)
  PROVE  PeerOK(Asked(q))
<1> DEFINE request == [type |-> "request", id |-> 0]
           controls == q.controls \cup {request}
           r == [q EXCEPT !.pending = FALSE, !.recovering = TRUE, !.controls = controls]
<1>1. q \in Peer /\ q.controls \subseteq Control /\ request \in Control
  BY DEF PeerOK, Peer, Control
<1>2. IsFiniteSet(controls) /\ controls \subseteq Control
      /\ \A c \in controls : c.type = "request" <=> c.id = 0
  BY <1>1, FS_AddElement DEF PeerOK
<1>3. Asked(q) = r \/ Asked(q) = q
  BY DEF Asked
<1> HIDE DEF controls, r
<1>4. r \in Peer /\ r.controls = controls
  BY <1>1, <1>2 DEF r, Peer
<1>5. r.frames = q.frames /\ r.keyframe = q.keyframe /\ r.decoded = q.decoded /\ r.last = q.last
  BY <1>1 DEF r, Peer
<1>6. PeerOK(r)
  BY <1>2, <1>4, <1>5 DEF PeerOK
<1> QED
  BY <1>3, <1>6

LEMMA ExpiredKeeps ==
  ASSUME NEW q, PeerOK(q)
  PROVE  PeerOK(Expired(q))
<1> DEFINE r == [q EXCEPT !.partial = 0]
<1>1. r \in Peer
  BY DEF PeerOK, Peer
<1>2. r.frames = q.frames /\ r.controls = q.controls
      /\ r.keyframe = q.keyframe /\ r.decoded = q.decoded /\ r.last = q.last
  BY DEF PeerOK, Peer
<1>3. PeerOK(r)
  BY <1>1, <1>2 DEF PeerOK
<1> HIDE DEF r
<1>4. PeerOK(Asked(r))
  BY <1>3, AskedKeeps
<1> QED
  BY <1>4 DEF Expired, r

(* A keyframe that is decoded is the newest, and is reported. *)
LEMMA CompletedKeeps ==
  ASSUME NEW q, PeerOK(q), NEW f \in Frame
  PROVE  PeerOK(Completed(q, f))
<1> DEFINE report == [type |-> "decoded", id |-> f.id]
           controls == q.controls \cup {report}
           r == Completed(q, f)
<1>1. q \in Peer /\ q.controls \subseteq Control /\ report \in Control
      /\ f.id \in Nat /\ f.id # 0
  BY DEF PeerOK, Peer, Control, Frame
<1>2. IsFiniteSet(controls) /\ controls \subseteq Control
      /\ \A c \in controls : c.type = "request" <=> c.id = 0
  BY <1>1, FS_AddElement DEF PeerOK
<1>3. r = [q EXCEPT !.keyframe = f.id, !.decoded = f.id, !.last = f.id, !.partial = 0,
                    !.seen = TRUE, !.pending = FALSE, !.recovering = FALSE,
                    !.controls = controls]
  BY DEF Completed
<1> HIDE DEF controls, r
<1>4. r \in Peer
  BY <1>1, <1>2, <1>3 DEF Peer
<1>5. r.controls = controls /\ r.frames = q.frames
  BY <1>1, <1>3 DEF Peer
<1>6. r.keyframe = f.id /\ r.decoded = f.id /\ r.last = f.id
  BY <1>1, <1>3 DEF Peer
<1>7. PeerOK(r)
  BY <1>1, <1>2, <1>4, <1>5, <1>6 DEF PeerOK
<1> QED
  BY <1>7 DEF r

LEMMA WithKeyframeKeeps ==
  ASSUME NEW q, PeerOK(q), NEW f \in Frame, NEW whole \in BOOLEAN
  PROVE  PeerOK(WithKeyframe(q, f, whole))
<1>1. ASSUME NEW i \in Nat
      PROVE  PeerOK([q EXCEPT !.partial = i])
  <2> DEFINE r == [q EXCEPT !.partial = i]
  <2>1. r \in Peer
    BY DEF PeerOK, Peer
  <2>2. r.frames = q.frames /\ r.controls = q.controls
        /\ r.keyframe = q.keyframe /\ r.decoded = q.decoded /\ r.last = q.last
    BY DEF PeerOK, Peer
  <2> HIDE DEF r
  <2>3. PeerOK(r)
    BY <2>1, <2>2 DEF PeerOK
  <2> QED
    BY <2>3 DEF r
<1>2. f.id \in Nat
  BY DEF Frame
<1>3. PeerOK(Completed(q, f))
  BY CompletedKeeps
<1> QED
  BY <1>1, <1>2, <1>3 DEF WithKeyframe

(* A pose that is shown is newer than the last. *)
LEMMA ShownKeeps ==
  ASSUME NEW q, PeerOK(q), NEW f \in Frame, Newest(q, f)
  PROVE  /\ PeerOK(Shown(q, f)) /\ Shown(q, f).last = f.id
         /\ Shown(q, f).decoded = q.decoded /\ Shown(q, f).keyframe = q.keyframe
<1> DEFINE r == Shown(q, f)
<1>1. q \in Peer /\ f.id \in Nat /\ f.id > q.last
  BY DEF PeerOK, Frame, Newest
<1>2. r \in Peer
  BY <1>1 DEF Shown, Peer
<1>3. r.frames = q.frames /\ r.controls = q.controls
      /\ r.keyframe = q.keyframe /\ r.decoded = q.decoded /\ r.last = f.id
  BY <1>1 DEF Shown, Peer
<1> HIDE DEF r
<1>4. q.keyframe <= r.last
  BY <1>1, <1>3 DEF PeerOK, Peer
<1>5. PeerOK(r)
  BY <1>2, <1>3, <1>4 DEF PeerOK
<1> QED
  BY <1>3, <1>5 DEF r

LEMMA WithDeltaKeeps ==
  ASSUME NEW q, PeerOK(q), NEW f \in Frame, NEW coded \in BOOLEAN
  PROVE  PeerOK(WithDelta(q, f, coded))
BY AskedKeeps, ShownKeeps DEF WithDelta

LEMMA WithV11Keeps ==
  ASSUME NEW q, PeerOK(q), NEW f \in Frame
  PROVE  PeerOK(WithV11(q, f))
<1> DEFINE w == Shown(q, f)
           i == IF f.key THEN f.id ELSE w.keyframe
           r == [w EXCEPT !.keyframe = i]
<1>1. CASE ~Newest(q, f)
  BY <1>1 DEF WithV11
<1>2. CASE Newest(q, f)
  <2>1. WithV11(q, f) = q \/ WithV11(q, f) = r
    BY DEF WithV11
  <2>2. PeerOK(w) /\ w.last = f.id /\ w.decoded = q.decoded /\ w.keyframe = q.keyframe
    BY <1>2, ShownKeeps
  <2>3. f.id \in Nat /\ f.id > q.last
    BY <1>2 DEF Newest, Frame
  <2> HIDE DEF w
  <2>4. i \in Nat /\ w.decoded <= i /\ i <= w.last
    BY <2>2, <2>3 DEF PeerOK, Peer
  <2>5. r \in Peer /\ r.keyframe = i
    BY <2>2, <2>4 DEF PeerOK, Peer
  <2>6. r.frames = w.frames /\ r.controls = w.controls
        /\ r.decoded = w.decoded /\ r.last = w.last
    BY <2>2 DEF PeerOK, Peer
  <2> HIDE DEF r, i
  <2>7. PeerOK(r)
    BY <2>2, <2>4, <2>5, <2>6 DEF PeerOK
  <2> QED
    BY <2>1, <2>7
<1> QED
  BY <1>1, <1>2

LEMMA AfterFrameKeeps ==
  ASSUME NEW q, PeerOK(q), NEW f \in Frame,
         NEW whole \in BOOLEAN, NEW coded \in BOOLEAN, NEW expired \in BOOLEAN
  PROVE  PeerOK(AfterFrame(q, f, whole, coded, expired))
<1> DEFINE r == IF expired THEN Expired(q) ELSE q
<1>1. PeerOK(r)
  BY ExpiredKeeps
<1> HIDE DEF r
<1>2. PeerOK(WithV11(q, f)) /\ PeerOK(WithKeyframe(r, f, whole)) /\ PeerOK(WithDelta(r, f, coded))
  BY <1>1, WithV11Keeps, WithKeyframeKeeps, WithDeltaKeeps
<1> QED
  BY <1>2 DEF AfterFrame, r

(* Less may be under way, *)
LEMMA LessUnderWay ==
  ASSUME NEW q, PeerOK(q), NEW fs \in SUBSET q.frames, NEW cs \in SUBSET q.controls
  PROVE  /\ PeerOK([q EXCEPT !.frames = fs, !.controls = cs])
         /\ PeerOK([q EXCEPT !.frames = fs]) /\ PeerOK([q EXCEPT !.controls = cs])
<1> DEFINE r == [q EXCEPT !.frames = fs, !.controls = cs]
           s == [q EXCEPT !.frames = fs]
           t == [q EXCEPT !.controls = cs]
<1>1. IsFiniteSet(fs) /\ IsFiniteSet(cs)
  BY FS_Subset DEF PeerOK
<1>2. fs \subseteq Frame /\ cs \subseteq Control
  BY DEF PeerOK, Peer
<1>3. r \in Peer /\ s \in Peer /\ t \in Peer
  BY <1>2 DEF PeerOK, Peer
<1>4. r.frames = fs /\ r.controls = cs
      /\ r.keyframe = q.keyframe /\ r.decoded = q.decoded /\ r.last = q.last
  BY DEF PeerOK, Peer
<1>5. s.frames = fs /\ s.controls = q.controls
      /\ s.keyframe = q.keyframe /\ s.decoded = q.decoded /\ s.last = q.last
  BY DEF PeerOK, Peer
<1>6. t.frames = q.frames /\ t.controls = cs
      /\ t.keyframe = q.keyframe /\ t.decoded = q.decoded /\ t.last = q.last
  BY DEF PeerOK, Peer
<1> HIDE DEF r, s, t
<1>7. PeerOK(r)
  BY <1>1, <1>3, <1>4 DEF PeerOK
<1>8. PeerOK(s) /\ PeerOK(t)
  BY <1>1, <1>3, <1>5, <1>6 DEF PeerOK
<1> QED
  BY <1>7, <1>8 DEF r, s, t

(* and one more frame. *)
LEMMA OneMoreFrame ==
  ASSUME NEW q, PeerOK(q), NEW f, Sound(f)
  PROVE  /\ PeerOK([q EXCEPT !.seen = FALSE])
         /\ PeerOK([q EXCEPT !.seen = FALSE, !.frames = @ \cup {f}])
<1> DEFINE frames == q.frames \cup {f}
           r == [q EXCEPT !.seen = FALSE, !.frames = frames]
           s == [q EXCEPT !.seen = FALSE]
<1>1. IsFiniteSet(frames) /\ frames \subseteq Frame /\ \A g \in frames : g.key <=> g.base = 0
  BY FS_AddElement DEF PeerOK, Peer, Sound
<1> HIDE DEF frames
<1>2. r \in Peer /\ r.frames = frames
  BY <1>1 DEF PeerOK, Peer
<1>3. r.controls = q.controls
      /\ r.keyframe = q.keyframe /\ r.decoded = q.decoded /\ r.last = q.last
  BY DEF PeerOK, Peer
<1>4. s \in Peer /\ s.controls = q.controls /\ s.frames = q.frames
      /\ s.keyframe = q.keyframe /\ s.decoded = q.decoded /\ s.last = q.last
  BY DEF PeerOK, Peer
<1> HIDE DEF r, s
<1>5. PeerOK(r) /\ PeerOK(s)
  BY <1>1, <1>2, <1>3, <1>4 DEF PeerOK
<1> QED
  BY <1>5 DEF r, s, frames

LEMMA NewPeerIsSound == PeerOK(NewPeer)
<1>1. NewPeer \in Peer
  BY DEF NewPeer, Peer
<1> QED
  BY <1>1, FS_EmptySet DEF NewPeer, PeerOK

-----------------------------------------------------------------------------
(* What the sender does keeps the chain well formed.                       *)

(* A set of offers has an oldest. *)
LEMMA SomeOfferIsOldest ==
  ASSUME NEW S \in SUBSET Keyframe, S # {}
  PROVE  \E o \in S : \A p \in S : ~ (p.id < o.id)
<1> DEFINE T == {o.id : o \in S}
<1>1. T \subseteq Nat /\ T # {}
  BY DEF Keyframe
<1>2. IsWellFoundedOn(OpToRel(<, Nat), Nat)
  BY NatLessThanWellFounded
<1> HIDE DEF T
<1>3. PICK i \in T : \A j \in T : ~ (<<j, i>> \in OpToRel(<, Nat))
  BY <1>1, <1>2, WFMin
<1>4. \A j \in T : ~ (j < i)
  BY <1>1, <1>3 DEF OpToRel
<1>5. PICK o \in S : o.id = i
  BY DEF T
<1> QED
  BY <1>4, <1>5 DEF T

(* There is room for an offer after WithRoom, *)
LEMMA WithRoomHasRoom ==
  ASSUME NEW S \in SUBSET Keyframe, IsFiniteSet(S), Cardinality(S) <= MaxOffers
  PROVE  /\ WithRoom(S) \subseteq S /\ IsFiniteSet(WithRoom(S))
         /\ Cardinality(WithRoom(S)) < MaxOffers
<1>0. Cardinality(S) \in Nat /\ MaxOffers \in Nat /\ MaxOffers # 0
  BY FS_CardinalityType, PoseBounds
<1>1. CASE Cardinality(S) < MaxOffers
  BY <1>1 DEF WithRoom
<1>2. CASE ~(Cardinality(S) < MaxOffers)
  <2> DEFINE W == {o \in S : \E older \in S : older.id < o.id}
  <2>1. WithRoom(S) = W
    BY <1>2 DEF WithRoom
  <2>2. S # {}
    BY <1>0, <1>2, FS_EmptySet
  <2>3. PICK m \in S : \A p \in S : ~ (p.id < m.id)
    BY <2>2, SomeOfferIsOldest
  <2>4. W \subseteq S /\ W # S
    BY <2>3
  <2> HIDE DEF W
  <2>5. IsFiniteSet(W) /\ Cardinality(W) <= Cardinality(S) /\ Cardinality(W) # Cardinality(S)
    BY <2>4, FS_Subset
  <2>6. Cardinality(W) \in Nat
    BY <2>5, FS_CardinalityType
  <2> QED
    BY <1>0, <2>1, <2>4, <2>5, <2>6
<1> QED
  BY <1>1, <1>2

(* and a newer one may be added. *)
LEMMA OfferedKeeps ==
  ASSUME NEW l \in Nat \ {0}, NEW c, ChainOK(c, l), NEW base \in Keyframe,
         NEW k \in Keyframe, k.id > c.confirmed, k.layout \in 1 .. l
  PROVE  /\ ChainOK(Offered(c, base, k), l)
         /\ Offered(c, base, k).installed = base
         /\ Offered(c, base, k).confirmed = c.confirmed
<1> DEFINE offered == WithRoom(c.offered) \cup {k}
           d == Offered(c, base, k)
<1>1. c \in Chain /\ c.offered \subseteq Keyframe /\ k \in Keyframe
  BY DEF ChainOK, Chain, Keyframe
<1>2. /\ WithRoom(c.offered) \subseteq c.offered /\ IsFiniteSet(WithRoom(c.offered))
      /\ Cardinality(WithRoom(c.offered)) < MaxOffers
  BY <1>1, WithRoomHasRoom DEF ChainOK
<1>3. offered \subseteq Keyframe
      /\ \A o \in offered : o.id > c.confirmed /\ o.layout \in 1 .. l
  BY <1>1, <1>2 DEF ChainOK
<1>4. d = [c EXCEPT !.installed = base, !.offered = offered, !.started = TRUE, !.force = FALSE]
  BY DEF Offered
<1>5. IsFiniteSet(offered) /\ Cardinality(offered) <= MaxOffers
  <2>1. IsFiniteSet(offered) /\ (Cardinality(offered) = Cardinality(WithRoom(c.offered))
                                   \/ Cardinality(offered) = Cardinality(WithRoom(c.offered)) + 1)
    BY <1>2, FS_AddElement
  <2>2. Cardinality(WithRoom(c.offered)) \in Nat /\ MaxOffers \in Nat
    BY <1>2, FS_CardinalityType, PoseBounds
  <2> QED
    BY <1>2, <2>1, <2>2
<1> HIDE DEF d, offered
<1>6. d \in Chain
  BY <1>1, <1>3, <1>4 DEF Chain
<1>7. d.offered = offered /\ d.confirmed = c.confirmed
  BY <1>1, <1>4 DEF Chain
<1>8. d.installed = base
  BY <1>1, <1>4 DEF Chain
<1>9. ChainOK(d, l)
  BY <1>3, <1>5, <1>6, <1>7 DEF ChainOK
<1> QED
  BY <1>7, <1>8, <1>9 DEF d

(* Flags and what is installed are free. *)
LEMMA FlagsAreFree ==
  ASSUME NEW l, NEW c, ChainOK(c, l), NEW k \in Keyframe
  PROVE  /\ ChainOK([c EXCEPT !.started = TRUE, !.force = FALSE], l)
         /\ ChainOK([c EXCEPT !.force = TRUE], l)
         /\ ChainOK([c EXCEPT !.installed = k], l)
<1> DEFINE d == [c EXCEPT !.started = TRUE, !.force = FALSE]
           e == [c EXCEPT !.force = TRUE]
           f == [c EXCEPT !.installed = k]
<1>1. d \in Chain /\ d.offered = c.offered /\ d.confirmed = c.confirmed
  BY DEF ChainOK, Chain
<1>2. e \in Chain /\ e.offered = c.offered /\ e.confirmed = c.confirmed
  BY DEF ChainOK, Chain
<1>3. f \in Chain /\ f.offered = c.offered /\ f.confirmed = c.confirmed
  BY DEF ChainOK, Chain
<1> HIDE DEF d, e, f
<1>4. ChainOK(d, l) /\ ChainOK(e, l) /\ ChainOK(f, l)
  BY <1>1, <1>2, <1>3 DEF ChainOK
<1> QED
  BY <1>4 DEF d, e, f

(* A report leaves the offers that are newer than what it confirms, *)
LEMMA ConfirmedKeeps ==
  ASSUME NEW l, NEW c, ChainOK(c, l), NEW i, \E o \in c.offered : o.id = i
  PROVE  /\ ChainOK(Confirmed(c, i), l)
         /\ Confirmed(c, i).installed.id = Confirmed(c, i).confirmed
         /\ Confirmed(c, i).force = c.force
<1> DEFINE k == CHOOSE o \in c.offered : o.id = i
           offered == {o \in c.offered : o.id > i}
           d == Confirmed(c, i)
<1>1. k \in c.offered /\ k.id = i
  OBVIOUS
<1>2. c \in Chain /\ c.offered \subseteq Keyframe
  BY DEF ChainOK, Chain
<1>3. k \in Keyframe /\ i \in Nat
  BY <1>1, <1>2 DEF Keyframe
<1>4. IsFiniteSet(offered) /\ Cardinality(offered) <= MaxOffers
  <2>0. offered \subseteq c.offered
    OBVIOUS
  <2> HIDE DEF offered
  <2>1. IsFiniteSet(offered) /\ Cardinality(offered) <= Cardinality(c.offered)
    BY <2>0, FS_Subset DEF ChainOK
  <2>2. Cardinality(offered) \in Nat /\ Cardinality(c.offered) \in Nat /\ MaxOffers \in Nat
    BY <2>1, FS_CardinalityType, PoseBounds DEF ChainOK
  <2> QED
    BY <2>1, <2>2 DEF ChainOK
<1>5. /\ offered \subseteq Keyframe
      /\ \A o \in offered : o.id > i /\ o.layout \in 1 .. l
  BY <1>2 DEF ChainOK
<1>6. d = [c EXCEPT !.confirmed = i, !.installed = k, !.offered = offered]
  BY DEF Confirmed
<1> HIDE DEF d, offered, k
<1>7. d \in Chain
  BY <1>2, <1>3, <1>5, <1>6 DEF Chain
<1>8. d.confirmed = i /\ d.installed = k /\ d.offered = offered /\ d.force = c.force
  BY <1>2, <1>6 DEF Chain
<1>9. ChainOK(d, l)
  BY <1>4, <1>5, <1>7, <1>8 DEF ChainOK
<1> QED
  BY <1>1, <1>8, <1>9 DEF d

(* and a request leaves nothing. *)
LEMMA RestartedKeeps ==
  ASSUME NEW l, NEW c, ChainOK(c, l)
  PROVE  /\ ChainOK(Restarted(c), l)
         /\ Restarted(c).installed.id = 0 /\ Restarted(c).force = TRUE
<1> DEFINE d == Restarted(c)
<1>1. NoKeyframe \in Keyframe /\ NoKeyframe.id = 0
  BY DEF NoKeyframe, Keyframe
<1>2. d \in Chain
  BY <1>1 DEF ChainOK, Chain, Restarted
<1>3. d.offered = {} /\ d.installed = NoKeyframe /\ d.force = TRUE
  BY DEF ChainOK, Chain, Restarted
<1> HIDE DEF d
<1>4. IsFiniteSet(d.offered) /\ Cardinality(d.offered) <= MaxOffers
  BY <1>3, FS_EmptySet, PoseBounds
<1>5. ChainOK(d, l)
  BY <1>2, <1>3, <1>4 DEF ChainOK
<1> QED
  BY <1>1, <1>3, <1>5 DEF d

LEMMA AfterControlKeeps ==
  ASSUME NEW l, NEW c, ChainOK(c, l), NEW control
  PROVE  LET d == AfterControl(c, control)
         IN  /\ ChainOK(d, l)
             /\ d = c \/ d.installed.id = 0 \/ d.installed.id = d.confirmed
             /\ c.force => d.force
<1>1. CASE control.type = "request"
  BY <1>1, RestartedKeeps DEF AfterControl
<1>2. CASE control.type # "request" /\ \E o \in c.offered : o.id = control.id
  BY <1>2, ConfirmedKeeps DEF AfterControl
<1>3. CASE control.type # "request" /\ ~ \E o \in c.offered : o.id = control.id
  BY <1>3 DEF AfterControl
<1> QED
  BY <1>1, <1>2, <1>3

-----------------------------------------------------------------------------
(* The invariants.                                                         *)

\* What BaseInv says of the chain.
BaseOf(c) ==
  /\ (\E p \in Peers : status[p] = "capable") => c.force
  /\ \/ \E p \in Peers : status[p] = "new"
     \/ c.force \/ ~c.started
     \/ c.installed.id = 0
     \/ c.installed.id = c.confirmed

LEMMA InitHolds ==
  ASSUME Init
  PROVE  TypeInv /\ BaseInv
<1>1. NewChain \in Chain
  BY DEF NewChain, Chain, NoKeyframe, Keyframe
<1>2. ChainOK(chain, layout)
  BY <1>1, FS_EmptySet, PoseBounds DEF Init, ChainOK, NewChain
<1>3. peer \in [Peers -> Peer] /\ \A p \in Peers : PeerOK(peer[p])
  BY NewPeerIsSound DEF Init, PeerOK
<1>4. layout = 1 /\ troubles = 0 /\ network \in Networks /\ network.troubles \in Nat
  BY PoseBounds DEF Init
<1>5. status \in [Peers -> {"absent", "new", "capable", "ready"}]
  BY DEF Init
<1>6. TypeInv
  BY <1>2, <1>3, <1>4, <1>5 DEF TypeInv
<1>7. BaseInv
  BY DEF Init, BaseInv, NewChain
<1> QED
  BY <1>6, <1>7

(* A frame is sent: the chain it leaves has a base that the next one can use. *)
LEMMA SendHolds ==
  ASSUME TypeInv, BaseInv, Send
  PROVE  TypeInv' /\ BaseInv'
<1> DEFINE rank == Ranking
           c == RankedChain(rank)
           n == Cardinality(DOMAIN rank)
           base == Base(c)
           k == [id |-> n, layout |-> layout]
<1>1. PICK periodic \in BOOLEAN :
        LET key == KeyframeRequired(base, periodic)
            frame == [id |-> n, key |-> key, base |-> IF key THEN 0 ELSE base.id,
                      v12 |-> UsesV12]
            refused == Refused(c, base, key)
        IN /\ chain' = IF refused THEN c ELSE AfterSend(c, base, key, k)
           /\ peer' = [p \in Peers |->
                LET q == RankedPeer(peer[p], rank)
                IN IF p \notin Present THEN q
                   ELSE [q EXCEPT !.seen = FALSE,
                                  !.frames = IF refused THEN @ ELSE @ \cup {frame}]]
  BY DEF Send
<1> DEFINE key == KeyframeRequired(base, periodic)
           frame == [id |-> n, key |-> key, base |-> IF key THEN 0 ELSE base.id,
                     v12 |-> UsesV12]
           refused == Refused(c, base, key)
<1>2. /\ Present # {}
      /\ layout' = layout /\ status' = status /\ troubles' = troubles /\ network' = network
  BY DEF Send
<1>3. /\ IsRanking(rank) /\ {chain.installed.id, chain.confirmed} \subseteq DOMAIN rank
      /\ \A o \in chain.offered : o.id \in DOMAIN rank
      /\ \A p \in Peers : IdsOfPeer(peer[p]) \subseteq DOMAIN rank
  BY RankingRanks
<1>4. layout \in Nat \ {0} /\ ChainOK(chain, layout) /\ \A p \in Peers : PeerOK(peer[p])
  BY DEF TypeInv
<1> HIDE DEF rank
<1>5. /\ ChainOK(c, layout)
      /\ c.installed.id = rank[chain.installed.id] /\ c.confirmed = rank[chain.confirmed]
      /\ c.started = chain.started /\ c.force = chain.force
      /\ c.confirmed < n
  BY <1>3, <1>4, ChainRanked
<1>6. n \in Nat /\ n # 0
  <2>1. n \in Nat
    BY <1>3, FS_CardinalityType DEF IsRanking
  <2>2. 0 \in DOMAIN rank /\ rank[0] \in Nat /\ rank[0] < n
    BY <1>3 DEF IsRanking
  <2> HIDE DEF n
  <2> QED
    BY <2>1, <2>2
<1>7. BaseOf(c)
  <2>1. rank[0] = 0
    BY <1>3 DEF IsRanking
  <2> HIDE DEF c
  <2> QED
    BY <1>5, <2>1 DEF BaseInv, BaseOf
<1> HIDE DEF c, n
<1>8. c \in Chain
  BY <1>5 DEF ChainOK
<1>9. base \in Keyframe /\ k \in Keyframe /\ base.id \in Nat
      /\ (base = NoKeyframe \/ base = c.installed)
  <2>1. NoKeyframe \in Keyframe
    BY DEF NoKeyframe, Keyframe
  <2> QED
    BY <1>4, <1>6, <1>8, <2>1 DEF Base, Chain, Keyframe
<1>10. key \in BOOLEAN /\ UsesV12 \in BOOLEAN /\ refused \in BOOLEAN
  BY DEF KeyframeRequired, UsesV12, Refused
<1>11. base.id = 0 => key
  BY DEF KeyframeRequired
<1>12. Sound(frame)
  BY <1>6, <1>9, <1>10, <1>11 DEF Sound, Frame
<1>13. UsesV12 => ~ \E p \in Peers : status[p] \in {"new", "capable"}
  BY DEF UsesV12, Present
<1>14. ~UsesV12 => \E p \in Peers : status[p] \in {"new", "capable"}
  BY <1>2 DEF UsesV12, Present, TypeInv
<1>15. UsesV12 /\ (c.force \/ ~c.started) => base = NoKeyframe
  BY DEF Base
<1>16. UsesV12 /\ ~key /\ ~refused => c.installed.id = c.confirmed
  BY DEF Refused
<1> HIDE DEF base, key, frame, refused, k
<1>17. ChainOK(chain', layout) /\ BaseOf(chain')
  <2>1. CASE refused
    BY <1>1, <1>5, <1>7, <2>1 DEF refused, key
  <2>2. CASE ~refused
    <3>1. chain' = AfterSend(c, base, key, k)
      BY <1>1, <2>2 DEF refused, key
    <3>2. CASE UsesV12 /\ key
      <4>1. chain' = Offered(c, base, k)
        BY <3>1, <3>2 DEF AfterSend
      <4>2. /\ ChainOK(chain', layout) /\ chain'.installed = base
            /\ chain'.confirmed = c.confirmed
        <5>1. k.id > c.confirmed /\ k.layout \in 1 .. layout
          BY <1>4, <1>5, <1>6, <1>8 DEF k, Chain
        <5> DEFINE d == Offered(c, base, k)
        <5>2. ChainOK(d, layout) /\ d.installed = base /\ d.confirmed = c.confirmed
          BY <1>4, <1>5, <1>9, <5>1, OfferedKeeps
        <5> HIDE DEF d
        <5> QED
          BY <4>1, <5>2 DEF d
      <4>3. base = NoKeyframe => base.id = 0
        BY DEF NoKeyframe
      <4> QED
        BY <1>7, <1>9, <1>13, <1>15, <3>2, <4>2, <4>3 DEF BaseOf
    <3>3. CASE UsesV12 /\ ~key
      <4> DEFINE d == [c EXCEPT !.started = TRUE, !.force = FALSE]
      <4>1. chain' = d
        BY <3>1, <3>3 DEF AfterSend
      <4>2. ChainOK(d, layout)
        BY <1>5, <1>9, FlagsAreFree
      <4>3. d.installed = c.installed /\ d.confirmed = c.confirmed
        BY <1>8 DEF Chain
      <4> HIDE DEF d
      <4> QED
        BY <1>13, <1>16, <2>2, <3>3, <4>1, <4>2, <4>3 DEF BaseOf
    <3>4. CASE ~UsesV12
      <4> DEFINE d == [c EXCEPT !.installed = k]
      <4>1. chain' = d \/ chain' = c
        BY <3>1, <3>4 DEF AfterSend
      <4>2. ChainOK(d, layout)
        BY <1>5, <1>9, FlagsAreFree
      <4>3. d.force = c.force
        BY <1>8 DEF Chain
      <4> HIDE DEF d
      <4> QED
        BY <1>5, <1>7, <1>14, <3>4, <4>1, <4>2, <4>3 DEF BaseOf
    <3> QED
      BY <3>2, <3>3, <3>4
  <2> QED
    BY <2>1, <2>2
<1>18. peer' \in [Peers -> Peer] /\ \A p \in Peers : PeerOK(peer'[p])
  <2>1. ASSUME NEW p \in Peers
        PROVE  PeerOK(peer'[p])
    <3> DEFINE q == RankedPeer(peer[p], rank)
    <3>1. PeerOK(q)
      BY <1>3, <1>4, PeerRanked
    <3>2. peer'[p] = IF p \notin Present THEN q
                     ELSE [q EXCEPT !.seen = FALSE,
                                    !.frames = IF refused THEN @ ELSE @ \cup {frame}]
      BY <1>1 DEF refused, frame, key
    <3> HIDE DEF q
    <3>3. PeerOK([q EXCEPT !.seen = FALSE])
          /\ PeerOK([q EXCEPT !.seen = FALSE, !.frames = @ \cup {frame}])
      BY <1>12, <3>1, OneMoreFrame
    <3>4. [q EXCEPT !.seen = FALSE, !.frames = @] = [q EXCEPT !.seen = FALSE]
      BY <3>1 DEF PeerOK, Peer
    <3> QED
      BY <3>1, <3>2, <3>3, <3>4
  <2>2. peer' = [p \in Peers |-> peer'[p]]
    BY <1>1
  <2> QED
    BY <2>1, <2>2 DEF PeerOK
<1>19. TypeInv'
  BY <1>2, <1>17, <1>18 DEF TypeInv, ChainOK, PeerOK
<1>20. BaseInv'
  BY <1>2, <1>17 DEF BaseInv, BaseOf
<1> QED
  BY <1>19, <1>20

(* One peer changes, and no other. *)
LEMMA OnePeerHolds ==
  ASSUME TypeInv, NEW p \in Peers, NEW q, PeerOK(q), peer' = [peer EXCEPT ![p] = q]
  PROVE  peer' \in [Peers -> Peer] /\ \A r \in Peers : PeerOK(peer'[r])
<1>1. q \in Peer /\ peer \in [Peers -> Peer]
  BY DEF PeerOK, TypeInv
<1>2. peer' \in [Peers -> Peer]
  BY <1>1
<1>3. \A r \in Peers : peer'[r] = IF r = p THEN q ELSE peer[r]
  BY <1>1
<1> QED
  BY <1>2, <1>3 DEF TypeInv

LEMMA StepHolds ==
  ASSUME TypeInv, BaseInv, [Next]_vars
  PROVE  TypeInv' /\ BaseInv'
<1>0. /\ ChainOK(chain, layout) /\ chain \in Chain /\ layout \in Nat \ {0}
      /\ troubles \in Nat /\ network \in Networks /\ network.troubles \in Nat
      /\ peer \in [Peers -> Peer] /\ \A p \in Peers : PeerOK(peer[p])
  BY PoseBounds DEF TypeInv, ChainOK
<1>1. CASE Send
  BY <1>1, SendHolds
<1>2. CASE ChangeLayout
  <2>1. /\ layout' = layout + 1 /\ troubles' = troubles + 1 /\ troubles < network.troubles
        /\ UNCHANGED <<chain, status, peer, network>>
    BY <1>2 DEF ChangeLayout, Trouble
  <2>2. ChainOK(chain, layout + 1)
    BY <1>0 DEF ChainOK, Chain, Keyframe
  <2>3. TypeInv'
    BY <1>0, <2>1, <2>2 DEF TypeInv, ChainOK, PeerOK
  <2> QED
    BY <2>1, <2>3 DEF BaseInv
<1>3. ASSUME NEW p \in Peers, Appear(p)
      PROVE  TypeInv' /\ BaseInv'
  <2>1. /\ status' = [status EXCEPT ![p] = "new"]
        /\ UNCHANGED <<chain, layout, peer, troubles, network>>
    BY <1>3 DEF Appear
  <2>2. TypeInv'
    BY <2>1 DEF TypeInv, ChainOK, PeerOK
  <2> QED
    BY <2>1, <2>2 DEF BaseInv, TypeInv
<1>4. ASSUME NEW p \in Peers, ReceiveCapability(p)
      PROVE  TypeInv' /\ BaseInv'
  <2> DEFINE d == [chain EXCEPT !.force = TRUE]
  <2>1. /\ status' = [status EXCEPT ![p] = "capable"] /\ chain' = d
        /\ UNCHANGED <<layout, peer, troubles, network>>
    BY <1>4 DEF ReceiveCapability, ForNewcomer
  <2>2. ChainOK(d, layout) /\ d.force = TRUE
    BY <1>0, FlagsAreFree DEF Chain
  <2> HIDE DEF d
  <2>3. TypeInv'
    BY <2>1, <2>2 DEF TypeInv, ChainOK, PeerOK
  <2> QED
    BY <2>1, <2>2, <2>3 DEF BaseInv
<1>5. ASSUME NEW p \in Peers, ReceiveAcknowledgement(p)
      PROVE  TypeInv' /\ BaseInv'
  <2>1. /\ status[p] = "capable" /\ status' = [status EXCEPT ![p] = "ready"]
        /\ UNCHANGED <<chain, layout, peer, troubles, network>>
    BY <1>5 DEF ReceiveAcknowledgement
  <2>2. TypeInv'
    BY <2>1 DEF TypeInv, ChainOK, PeerOK
  <2>3. \A r \in Peers : /\ status'[r] = "capable" => status[r] = "capable"
                         /\ status[r] = "new" => status'[r] = "new"
    BY <2>1 DEF TypeInv
  <2> QED
    BY <2>1, <2>2, <2>3 DEF BaseInv
<1>6. ASSUME NEW p \in Peers, PrunePeer(p)
      PROVE  TypeInv' /\ BaseInv'
  <2> DEFINE d == [chain EXCEPT !.force = TRUE]
             s == [peer[p] EXCEPT !.frames = {}, !.controls = {}]
  <2>1. /\ status' = [status EXCEPT ![p] = "absent"] /\ chain' = d
        /\ troubles' = troubles + 1 /\ troubles < network.troubles
        /\ UNCHANGED <<layout, network>>
    BY <1>6 DEF PrunePeer, ForLeaver, Trouble
  <2>2. PICK q \in {NewPeer, s} : peer' = [peer EXCEPT ![p] = q]
    BY <1>6 DEF PrunePeer
  <2>3. PeerOK(s)
    BY <1>0, LessUnderWay
  <2> HIDE DEF s
  <2>4. PeerOK(q)
    BY <2>3, NewPeerIsSound
  <2>5. peer' \in [Peers -> Peer] /\ \A r \in Peers : PeerOK(peer'[r])
    BY <2>2, <2>4, OnePeerHolds
  <2>6. ChainOK(d, layout) /\ d.force = TRUE
    BY <1>0, FlagsAreFree DEF Chain
  <2> HIDE DEF d
  <2>7. ChainOK(chain', layout) /\ chain'.force = TRUE
    BY <2>1, <2>6
  <2>8. /\ layout' \in Nat \ {0} /\ troubles' \in Nat /\ network' \in Networks
        /\ layout' <= troubles' + 1 /\ troubles' <= network'.troubles
    BY <1>0, <2>1 DEF TypeInv
  <2>9. status' \in [Peers -> {"absent", "new", "capable", "ready"}]
    BY <2>1 DEF TypeInv
  <2>10. TypeInv'
    BY <2>1, <2>5, <2>7, <2>8, <2>9 DEF TypeInv, ChainOK, PeerOK
  <2> QED
    BY <2>7, <2>10 DEF BaseInv
<1>7. ASSUME NEW p \in Peers, ReceivePoseControl(p)
      PROVE  TypeInv' /\ BaseInv'
  <2>1. PICK control \in peer[p].controls :
          /\ chain' = IF status[p] \in {"capable", "ready"} THEN AfterControl(chain, control)
                      ELSE chain
          /\ peer' = [peer EXCEPT ![p].controls = @ \ {control}]
          /\ UNCHANGED <<layout, status, troubles, network>>
    BY <1>7 DEF ReceivePoseControl
  <2> DEFINE q == [peer[p] EXCEPT !.controls = @ \ {control}]
             d == AfterControl(chain, control)
  <2>2. PeerOK(q)
    BY <1>0, LessUnderWay
  <2>3. peer' = [peer EXCEPT ![p] = q]
    BY <1>0, <2>1
  <2>4. peer' \in [Peers -> Peer] /\ \A r \in Peers : PeerOK(peer'[r])
    BY <2>2, <2>3, OnePeerHolds
  <2>5. /\ ChainOK(d, layout)
        /\ d = chain \/ d.installed.id = 0 \/ d.installed.id = d.confirmed
        /\ chain.force => d.force
    BY <1>0, AfterControlKeeps
  <2> HIDE DEF d
  <2>6. chain' = d \/ chain' = chain
    BY <2>1 DEF d
  <2>7. ChainOK(chain', layout)
    BY <1>0, <2>5, <2>6
  <2>8. TypeInv'
    BY <2>1, <2>4, <2>7 DEF TypeInv, ChainOK, PeerOK
  <2> QED
    BY <2>1, <2>5, <2>6, <2>8 DEF BaseInv
<1>8. ASSUME NEW p \in Peers, NEW q, PeerOK(q), peer' = [peer EXCEPT ![p] = q],
             UNCHANGED <<chain, layout, status, network>>,
             troubles' = troubles \/ Trouble
      PROVE  TypeInv' /\ BaseInv'
  <2>1. peer' \in [Peers -> Peer] /\ \A r \in Peers : PeerOK(peer'[r])
    BY <1>8, OnePeerHolds
  <2>2. TypeInv'
    BY <1>0, <1>8, <2>1 DEF TypeInv, ChainOK, PeerOK, Trouble
  <2> QED
    BY <1>8, <2>2 DEF BaseInv
<1>9. ASSUME NEW p \in Peers, NEW expired \in BOOLEAN, ReceiveFrame(p, expired)
      PROVE  TypeInv' /\ BaseInv'
  <2>1. PICK f \in peer[p].frames, whole \in BOOLEAN, coded \in BOOLEAN :
          /\ IF whole THEN UNCHANGED troubles ELSE f.v12 /\ f.key /\ Trouble
          /\ peer' = [peer EXCEPT ![p] =
               AfterFrame([peer[p] EXCEPT !.frames = @ \ {f}], f, whole, coded, expired)]
    BY <1>0, <1>9 DEF ReceiveFrame
  <2> DEFINE q == [peer[p] EXCEPT !.frames = @ \ {f}]
  <2>2. PeerOK(peer[p]) /\ peer[p].frames \ {f} \in SUBSET peer[p].frames
    BY <1>0
  <2>3. f \in Frame
    BY <2>2 DEF PeerOK, Peer
  <2>4. PeerOK(q)
    BY <2>2, LessUnderWay
  <2>5. peer' = [peer EXCEPT ![p] = AfterFrame(q, f, whole, coded, expired)]
    BY <2>1
  <2> HIDE DEF q
  <2>6. PeerOK(AfterFrame(q, f, whole, coded, expired))
    BY <2>3, <2>4, AfterFrameKeeps
  <2>7. UNCHANGED <<chain, layout, status, network>> /\ (troubles' = troubles \/ Trouble)
    BY <1>9, <2>1 DEF ReceiveFrame
  <2> QED
    BY <1>8, <2>6, <2>5, <2>7
<1>10. ASSUME NEW p \in Peers, LoseFrame(p) \/ LoseControl(p)
       PROVE  TypeInv' /\ BaseInv'
  <2>1. PICK fs \in SUBSET peer[p].frames, cs \in SUBSET peer[p].controls :
          peer' \in {[peer EXCEPT ![p] = [peer[p] EXCEPT !.frames = fs]],
                    [peer EXCEPT ![p] = [peer[p] EXCEPT !.controls = cs]]}
    <3>1. CASE LoseFrame(p)
      <4>1. PICK f \in peer[p].frames : peer' = [peer EXCEPT ![p].frames = @ \ {f}]
        BY <3>1 DEF LoseFrame
      <4>2. peer' = [peer EXCEPT ![p] = [peer[p] EXCEPT !.frames = peer[p].frames \ {f}]]
        BY <1>0, <4>1
      <4> QED
        BY <4>2
    <3>2. CASE LoseControl(p)
      <4>1. PICK c \in peer[p].controls : peer' = [peer EXCEPT ![p].controls = @ \ {c}]
        BY <3>2 DEF LoseControl
      <4>2. peer' = [peer EXCEPT ![p] = [peer[p] EXCEPT !.controls = peer[p].controls \ {c}]]
        BY <1>0, <4>1
      <4> QED
        BY <4>2
    <3> QED
      BY <1>10, <3>1, <3>2
  <2>2. PeerOK([peer[p] EXCEPT !.frames = fs]) /\ PeerOK([peer[p] EXCEPT !.controls = cs])
    BY <1>0, LessUnderWay
  <2>3. UNCHANGED <<chain, layout, status, network>> /\ Trouble
    BY <1>10 DEF LoseFrame, LoseControl
  <2> QED
    BY <1>8, <2>1, <2>2, <2>3
<1>11. ASSUME NEW p \in Peers, ScheduleBaselineRetry(p)
       PROVE  TypeInv' /\ BaseInv'
  <2> DEFINE q == [peer[p] EXCEPT !.pending = TRUE]
  <2>1. /\ peer' = [peer EXCEPT ![p].pending = TRUE]
        /\ UNCHANGED <<chain, layout, status, troubles, network>>
    BY <1>11 DEF ScheduleBaselineRetry
  <2>2. peer' = [peer EXCEPT ![p] = q]
    BY <1>0, <2>1
  <2>3. q \in Peer
    BY <1>0 DEF Peer
  <2>4. q.frames = peer[p].frames /\ q.controls = peer[p].controls
        /\ q.keyframe = peer[p].keyframe /\ q.decoded = peer[p].decoded
        /\ q.last = peer[p].last
    BY <1>0 DEF Peer
  <2>5. PeerOK(peer[p])
    BY <1>0
  <2> HIDE DEF q
  <2>6. PeerOK(q)
    BY <2>3, <2>4, <2>5 DEF PeerOK
  <2> QED
    BY <1>8, <2>1, <2>2, <2>6
<1>12. CASE UNCHANGED vars
  <2>1. TypeInv'
    BY <1>12 DEF vars, TypeInv, ChainOK, PeerOK
  <2> QED
    BY <1>12, <2>1 DEF vars, BaseInv
<1> QED
  BY <1>1, <1>2, <1>3, <1>4, <1>5, <1>6, <1>7, <1>9, <1>10, <1>11, <1>12 DEF Next

LEMMA InvariantsHold == Spec => [](TypeInv /\ BaseInv)
<1>1. Init => TypeInv /\ BaseInv
  BY InitHolds
<1>2. TypeInv /\ BaseInv /\ [Next]_vars => TypeInv' /\ BaseInv'
  BY StepHolds
<1> QED
  BY <1>1, <1>2, PTL DEF Spec

(* The ring of offers never grows beyond its capacity, what is offered is newer
   than what was confirmed, and a receiver has decoded no keyframe newer than
   the one it holds, nor holds one newer than the pose it shows last: through
   BroadcastAnimationStream's and PoseReceiverState's every operation. *)
THEOREM PoseTypeOK == Spec => []TypeOK
<1>1. TypeInv => TypeOK
  <2> SUFFICES ASSUME TypeInv PROVE TypeOK
    OBVIOUS
  <2>1. /\ layout \in 1 .. troubles + 1 /\ troubles \in 0 .. network.troubles
        /\ status \in [Peers -> {"absent", "new", "capable", "ready"}]
    BY PoseBounds DEF TypeInv
  <2>2. /\ Cardinality(chain.offered) <= MaxOffers
        /\ \A o \in chain.offered : o.id > chain.confirmed /\ o.layout \in 1 .. layout
        /\ {chain.started, chain.force} \subseteq BOOLEAN
    BY DEF TypeInv, ChainOK, Chain
  <2>3. ASSUME NEW p \in Peers
        PROVE  /\ \A f \in peer[p].frames : /\ {f.key, f.v12} \subseteq BOOLEAN
                                            /\ f.key <=> f.base = 0
               /\ \A c \in peer[p].controls : c.type = "request" <=> c.id = 0
               /\ peer[p].decoded <= peer[p].keyframe /\ peer[p].keyframe <= peer[p].last
               /\ {peer[p].pending, peer[p].recovering, peer[p].seen} \subseteq BOOLEAN
    <3>1. PeerOK(peer[p])
      BY DEF TypeInv
    <3>2. \A f \in peer[p].frames : {f.key, f.v12} \subseteq BOOLEAN
      BY <3>1 DEF PeerOK, Peer, Frame
    <3>3. {peer[p].pending, peer[p].recovering, peer[p].seen} \subseteq BOOLEAN
      BY <3>1 DEF PeerOK, Peer
    <3> QED
      BY <3>1, <3>2, <3>3 DEF PeerOK
  <2> QED
    BY <2>1, <2>2, <2>3 DEF TypeOK
<1> QED
  BY <1>1, InvariantsHold, PTL

(* SendV12Animation never refuses the frame that the chain would have sent
   next: a refusal would be for ever, since nothing would reach a receiver who
   could ask for a keyframe. *)
THEOREM PoseFramesAreSendable == Spec => []FramesAreSendable
<1>1. TypeInv /\ BaseInv => FramesAreSendable
  <2> SUFFICES ASSUME TypeInv, BaseInv, UsesV12
               PROVE  ~Refused(chain, Base(chain), KeyframeRequired(Base(chain), FALSE))
    BY DEF FramesAreSendable
  <2>1. ~ \E p \in Peers : status[p] = "new"
    BY DEF UsesV12, Present
  <2>2. CASE chain.force \/ ~chain.started
    BY <2>2 DEF Base, NoKeyframe, KeyframeRequired, Refused
  <2>3. CASE ~(chain.force \/ ~chain.started)
    <3>1. Base(chain) = chain.installed
      BY <2>3 DEF Base
    <3>2. chain.installed.id = 0 \/ chain.installed.id = chain.confirmed
      BY <2>1, <2>3 DEF BaseInv
    <3> QED
      BY <3>1, <3>2 DEF KeyframeRequired, Refused
  <2> QED
    BY <2>2, <2>3
<1> QED
  BY <1>1, InvariantsHold, PTL
=============================================================================
