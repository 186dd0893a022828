--------------------------- MODULE ScriptSession ---------------------------
(***************************************************************************)
(* Script events between a client and the dedicated server: the reliable   *)
(* channel of ReliableEnds as the two programs own it.  The client keeps   *)
(* one sender and one receiver for the life of the process, whatever it    *)
(* connects to (skate3_multiplayer.cpp); the server keeps a channel for    *)
(* each connection it has an address for (skate3_dedicated_script_events). *)
(*                                                                         *)
(* Connections are numbered in the order the client opens them: a client   *)
(* that leaves and joins again binds a new port and is another connection. *)
(* Events are numbered too, those of the client's scripts and those of the *)
(* server's scripts apart; all are one datagram long unless Frags says     *)
(* otherwise.                                                              *)
(***************************************************************************)
EXTENDS ReliableEnds, Functions

CONSTANTS
  MaxEvents,  \* bound: events the scripts of both sides send
  MaxJoins,   \* bound: connections the client opens
  MaxForgets, \* bound: connections the server sweeps or drops
  MaxLosses   \* bound: datagrams the network loses

ASSUME SessionBounds == {MaxEvents, MaxJoins, MaxForgets, MaxLosses} \subseteq Nat
ASSUME EventsArePayload == Payload = 1 .. MaxEvents

Connections == 1 .. MaxJoins

VARIABLES
  connection,  \* the client's current connection, or its last one; 0 at first
  phase,       \* "offline", "registering" or "playing"
  outbound,    \* g_script_outbound: what SendScriptEvent took
  sender,      \* script_event_sender_
  receiver,    \* script_event_receiver_
  ackDue,      \* script_event_ack_due_
  roles,       \* of the connections the router has a peer for
  issued,      \* the last role RoleAllocator gave out
  addresses,   \* connections the server knows an address for
  channels,    \* script_peers: [snd, rcv, ackDue] of a connection
  events,      \* g_client_events: what TriggerClientEvent queued
  up, upAcks,  \* datagrams to the server, as <<connection, datagram>>
  down, downAcks,  \* and from it
  said, told,  \* events sent so far by the two sides' scripts
  forgets, losses,
  handled,     \* history: <<role, event>> the server's scripts handled
  heard,       \* history: events the client's scripts heard
  gaveUp       \* history: events the client's sender dropped

client == <<connection, phase, sender, receiver, ackDue>>
server == <<roles, issued, addresses, channels>>
network == <<up, upAcks, down, downAcks>>
bounds == <<said, told, forgets, losses>>
history == <<handled, heard, gaveUp>>
vars == <<client, outbound, server, events, network, bounds, history>>

Channel == [snd : Sender, rcv : Receiver, ackDue : BOOLEAN]
NewChannel == [snd |-> NewSender, rcv |-> NewReceiver, ackDue |-> FALSE]

Init ==
  /\ connection = 0 /\ phase = "offline" /\ outbound = <<>>
  /\ sender = NewSender /\ receiver = NewReceiver /\ ackDue = FALSE
  /\ roles = << >> /\ issued = 0 /\ addresses = {} /\ channels = << >> /\ events = <<>>
  /\ up = {} /\ upAcks = {} /\ down = {} /\ downAcks = {}
  /\ said = 0 /\ told = 0 /\ forgets = 0 /\ losses = 0
  /\ handled = <<>> /\ heard = <<>> /\ gaveUp = {}

\* The sender as Collect() finds it: a retransmission interval went by since
\* the owner's last tick, or not yet.
Clocked(s, passed) == IF passed THEN Aged(s) ELSE s

Loses(lost) ==
  /\ losses + Cardinality(lost) <= MaxLosses
  /\ losses' = losses + Cardinality(lost)

\* The datagrams to and from a connection, for a set of them.
To(c, datagrams) == {c} \X datagrams

\* What is sent to any but the client's open socket reaches nobody.
Reachable(datagrams) ==
  {d \in datagrams : phase # "offline" /\ d[1] = connection}

\* The events ReleaseInOrder() takes out of a receiver.
Bodies(r, n) ==
  [i \in 1 .. n |-> CHOOSE m \in Payload : Output(r, n)[i] = Pieces(m)]

-----------------------------------------------------------------------------
(* The client.                                                             *)

\* A new socket; nothing of the script channel is reset.
Join ==
  /\ phase = "offline" /\ connection < MaxJoins
  /\ connection' = connection + 1 /\ phase' = "registering"
  /\ UNCHANGED <<outbound, sender, receiver, ackDue, server, events, network,
                 bounds, history>>

ReceiveRegisterAck ==
  /\ phase = "registering" /\ connection \in DOMAIN roles
  /\ phase' = "playing"
  /\ UNCHANGED <<connection, outbound, sender, receiver, ackDue, server, events,
                 network, bounds, history>>

\* Shutdown closes the socket: what is under way to it reaches nobody.
Leave ==
  /\ phase # "offline"
  /\ phase' = "offline"
  /\ down' = {} /\ downAcks' = {}
  /\ UNCHANGED <<connection, outbound, sender, receiver, ackDue, server, events,
                 up, upAcks, bounds, history>>

\* A script thread, online or not.  A full queue is refused to its face.
SendScriptEvent ==
  /\ said + told < MaxEvents /\ Len(outbound) < MaximumQueuedMessages
  /\ said' = said + 1
  /\ outbound' = Append(outbound, said')
  /\ UNCHANGED <<client, server, events, network, told, forgets, losses, history>>

\* Queue() called for each of a sequence of events, its refusals ignored.
QueueAll(s, pending) ==
  LET f[i \in 0 .. Len(pending)] ==
        IF i = 0 THEN s
        ELSE IF Refuses(f[i - 1], pending[i]) THEN f[i - 1] ELSE Queued(f[i - 1], pending[i])
  IN f[Len(pending)]

\* Everything scripts queued goes to the sender, and what is due goes out.
DrainScriptEventOutbound(passed) ==
  LET s == Clocked(QueueAll(sender, outbound), passed)
      sent == To(connection, Emitted(s))
  IN
  /\ phase = "playing"
  /\ outbound' = <<>>
  /\ sender' = Collected(s)
  /\ gaveUp' = gaveUp \cup {e.body : e \in Exhausted(s)}
  /\ \E lost \in {{}} \cup {{d} : d \in sent} :
       Loses(lost) /\ up' = up \cup (sent \ lost)
  /\ upAcks' = IF ackDue THEN upAcks \cup To(connection, {BuildAck(receiver)}) ELSE upAcks
  /\ ackDue' = FALSE
  /\ UNCHANGED <<connection, phase, receiver, server, events, down, downAcks, said,
                 told, forgets, handled, heard>>

\* HandleReliablePacket, for a stream fragment.
ClientReceivesStream(c, f) ==
  LET r == Stored(receiver, f) IN
  /\ phase # "offline" /\ c = connection /\ <<c, f>> \in down
  /\ down' = down \ {<<c, f>>}
  /\ \E n \in 0 .. ReorderWindow :
       /\ Releases(r, n)
       /\ receiver' = Released(r, n)
       /\ heard' = heard \o Bodies(r, n)
  /\ ackDue' = TRUE
  /\ UNCHANGED <<connection, phase, outbound, sender, server, events, up, upAcks,
                 downAcks, bounds, handled, gaveUp>>

ClientReceivesAck(c, a) ==
  /\ phase # "offline" /\ c = connection /\ <<c, a>> \in downAcks
  /\ downAcks' = downAcks \ {<<c, a>>}
  /\ sender' = Acknowledged(sender, a)
  /\ UNCHANGED <<connection, phase, outbound, receiver, ackDue, server, events, up,
                 upAcks, down, bounds, history>>

-----------------------------------------------------------------------------
(* The server's relay loop.                                                *)

\* channels[c], created by the first use.
ChannelOf(c) == IF c \in DOMAIN channels THEN channels[c] ELSE NewChannel

\* A registration of a connection that has no role, in time or late: it is
\* repeated until it is answered, and a copy may arrive after the client left
\* or the server forgot it.  An id is given out once.
ReceiveRegister(c) ==
  /\ c = connection /\ c \notin DOMAIN roles
  /\ issued' = issued + 1
  /\ roles' = [d \in DOMAIN roles \cup {c} |-> IF d = c THEN issued' ELSE roles[d]]
  /\ addresses' = addresses \cup {c}
  /\ UNCHANGED <<client, outbound, channels, events, network, bounds, history>>

WithChannel(c, ch) ==
  [d \in (DOMAIN channels) \cup {c} |-> IF d = c THEN ch ELSE channels[d]]

\* The events attributed to a connection: none unless it is a player.
Attributed(c, bodies) ==
  IF c \in DOMAIN roles THEN [i \in 1 .. Len(bodies) |-> <<roles[c], bodies[i]>>] ELSE <<>>

\* Any sender has its address noted and its channel created.
ServerReceivesStream(c, f) ==
  LET r == Stored(ChannelOf(c).rcv, f) IN
  /\ <<c, f>> \in up
  /\ up' = up \ {<<c, f>>}
  /\ addresses' = addresses \cup {c}
  /\ \E n \in 0 .. ReorderWindow :
       /\ Releases(r, n)
       /\ channels' = WithChannel(c, [ChannelOf(c) EXCEPT !.rcv = Released(r, n), !.ackDue = TRUE])
       /\ handled' = handled \o Attributed(c, Bodies(r, n))
  /\ UNCHANGED <<client, outbound, roles, issued, events, upAcks, down, downAcks,
                 bounds, heard, gaveUp>>

ServerReceivesAck(c, a) ==
  /\ <<c, a>> \in upAcks
  /\ upAcks' = upAcks \ {<<c, a>>}
  /\ addresses' = addresses \cup {c}
  /\ channels' = WithChannel(c, [ChannelOf(c) EXCEPT !.snd = Acknowledged(@, a)])
  /\ UNCHANGED <<client, outbound, roles, issued, events, up, down, downAcks, bounds, history>>

\* TriggerClientEvent for every client, on a script thread.
QueueClientScriptEvent ==
  /\ said + told < MaxEvents
  /\ told' = told + 1
  /\ events' = Append(events, told')
  /\ UNCHANGED <<client, outbound, server, network, said, forgets, losses, history>>

Addressed(players) ==
  [c \in (DOMAIN channels) \cup (IF events = <<>> THEN {} ELSE players) |->
     IF c \in players
     THEN [ChannelOf(c) EXCEPT !.snd = QueueAll(@, events)] ELSE ChannelOf(c)]

\* MUTANT. Keeps the channel of a connection that is gone.
KeptForever(chs, known) == chs

\* MUTANT. Erases a channel that has nothing more to send.
KeptIfBusy(chs, known) ==
  [c \in {d \in (DOMAIN chs) \cap known : chs[d].snd.pending # {}} |-> chs[c]]

\* Channels whose connection has no address any more are erased.
Kept(chs, known) == [c \in (DOMAIN chs) \cap known |-> chs[c]]

\* The sweep or a script forgets the connections in gone, with their
\* addresses; then DrainScriptEvents queues, erases, collects and sends, and
\* the network loses at most one datagram of what is sent.
ServerTick(gone, passed) ==
  LET players == DOMAIN roles \ gone
      known == addresses \ gone
      chs == Kept(Addressed(players), known)
      Out(c) == Clocked(chs[c].snd, passed)
      sent == UNION {To(c, Emitted(Out(c))) : c \in DOMAIN chs}
      answered == {c \in DOMAIN chs : chs[c].ackDue}
  IN
  /\ forgets + Cardinality(gone) <= MaxForgets
  /\ forgets' = forgets + Cardinality(gone)
  /\ roles' = Restrict(roles, players) /\ addresses' = known
  /\ events' = <<>>
  /\ channels' = [c \in DOMAIN chs |->
                    [chs[c] EXCEPT !.snd = Collected(Out(c)), !.ackDue = FALSE]]
  /\ \E lost \in {{}} \cup {{d} : d \in sent} :
       Loses(lost) /\ down' = down \cup Reachable(sent \ lost)
  /\ downAcks' = downAcks \cup Reachable({<<c, BuildAck(chs[c].rcv)>> : c \in answered})
  /\ UNCHANGED <<client, outbound, issued, up, upAcks, said, told, history>>

Next ==
  \/ Join \/ ReceiveRegisterAck \/ Leave \/ SendScriptEvent
  \/ \E passed \in BOOLEAN : DrainScriptEventOutbound(passed)
  \/ \E d \in down : ClientReceivesStream(d[1], d[2])
  \/ \E d \in downAcks : ClientReceivesAck(d[1], d[2])
  \/ \E c \in Connections : ReceiveRegister(c)
  \/ QueueClientScriptEvent
  \/ \E d \in up : ServerReceivesStream(d[1], d[2])
  \/ \E d \in upAcks : ServerReceivesAck(d[1], d[2])
  \/ \E gone \in SUBSET DOMAIN roles, passed \in BOOLEAN : ServerTick(gone, passed)

Spec == Init /\ [][Next]_vars

\* Both programs tick for ever and time passes; a datagram the network does
\* not lose arrives.  Nothing makes a player join or a script send.
FairSpec ==
  /\ Spec
  /\ WF_vars(DrainScriptEventOutbound(TRUE))
  /\ WF_vars(ServerTick({}, TRUE))
  /\ WF_vars(\E d \in down : ClientReceivesStream(d[1], d[2]))
  /\ WF_vars(\E d \in downAcks : ClientReceivesAck(d[1], d[2]))
  /\ WF_vars(\E d \in up : ServerReceivesStream(d[1], d[2]))
  /\ WF_vars(\E d \in upAcks : ServerReceivesAck(d[1], d[2]))

-----------------------------------------------------------------------------
TypeOK ==
  /\ connection \in 0 .. MaxJoins
  /\ phase \in {"offline", "registering", "playing"}
  /\ outbound \in Seq(Payload)
  /\ sender \in Sender /\ receiver \in Receiver /\ ackDue \in BOOLEAN
  /\ issued \in 0 .. MaxJoins + MaxForgets
  /\ \A c \in DOMAIN roles : roles[c] \in 1 .. issued
  /\ DOMAIN roles \subseteq addresses /\ addresses \subseteq Connections
  /\ DOMAIN channels \subseteq addresses
  /\ \A c \in DOMAIN channels : channels[c] \in Channel
  /\ events \in Seq(Payload)
  /\ up \cup down \subseteq Connections \X Fragment
  /\ upAcks \cup downAcks \subseteq Connections \X AckMsg
  /\ said \in 0 .. MaxEvents /\ told \in 0 .. MaxEvents
  /\ forgets \in 0 .. MaxForgets /\ losses \in 0 .. MaxLosses
  /\ handled \in Seq((1 .. issued) \X Payload)
  /\ heard \in Seq(Payload)
  /\ gaveUp \subseteq Payload

HandledEvents == {handled[i][2] : i \in DOMAIN handled}
HeardEvents == {heard[i] : i \in DOMAIN heard}

(* The server's scripts handle the events of one player in the order he sent
   them and none twice, although the channel they arrive on is made anew
   whenever the server forgets the connection and hears from it again; and the
   client's scripts hear no event twice, although a player who joined twice may
   be two players of the server for a while and a broadcast goes to both. *)
EventsOnceInOrder ==
  /\ \A i, j \in DOMAIN handled :
       (i < j /\ handled[i][1] = handled[j][1]) => handled[i][2] < handled[j][2]
  /\ \A i, j \in DOMAIN heard : heard[i] = heard[j] => i = j

(* On a first connection that the server never forgot, an event is out of the
   client's hands only when the server's scripts handled it, when it waits
   there for one before it, or when it was given up: the acknowledgement is
   sent after the event is attributed, and who is acknowledged is a player. *)
RetiredWereHandled ==
  (connection = 1 /\ forgets = 0) =>
    \A n \in 1 .. sender.last :
      \/ \E e \in sender.pending : e.id = n
      \/ n \in HandledEvents \cup gaveUp
      \/ Complete(ChannelOf(1).rcv, n)

FirstAndKept == connection = 1 /\ forgets = 0 /\ phase = "playing"

(* While a player stays on the first connection of his client, every event
   either side sends him reaches the scripts of the other, although a datagram
   is lost. *)
EventsArrive ==
  <>[]FirstAndKept =>
    <>[](/\ HandledEvents = 1 .. said
         /\ events = <<>> /\ Len(heard) = ChannelOf(1).snd.last)

(* "A peer that has stopped acknowledging must not be able to grow our memory":
   the server's queues empty again whatever the client does, and the client's
   once it stays connected, acknowledged or given up. *)
QueuesDrain ==
  /\ []<>(\A c \in DOMAIN channels : channels[c].snd.pending = {})
  /\ <>[](phase = "playing") => <>[](sender.pending = {})

(* "Sends an event to the server.  [...]  Delivery is reliable and ordered":
   once all is acknowledged and nothing was given up, all was handled. *)
SettledEventsWereHandled ==
  (sender.pending = {} /\ gaveUp = {}) => 1 .. sender.last \subseteq HandledEvents
=============================================================================
