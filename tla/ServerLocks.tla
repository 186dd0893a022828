---------------------------- MODULE ServerLocks ----------------------------
(***************************************************************************)
(* The mutexes of the dedicated server: who takes which, in what order.    *)
(*                                                                         *)
(* The relay loop and the HTTP workers both run scripts, always under the  *)
(* script host's mutex_, and scripts call natives that take one of the     *)
(* queue mutexes.  A thread is what it has left to do, a sequence of steps *)
(* with lock_guard scopes as a "take" and its "give".  Mutexes under which *)
(* nothing else is taken (the stores', the log's) are left out.            *)
(***************************************************************************)
EXTENDS Integers, Sequences

CONSTANTS
  Relay,       \* the thread of main's loop
  Workers,     \* the threads of the HTTP server
  Nobody,
  Calls,       \* what scripts call: in a worker, in the loop, and in the
               \* handlers of the playerDropped that DropPlayer leads to
  MaxDrops     \* bound: entries of g_pending_drops

ASSUME LockBounds == Relay \notin Workers /\ Nobody \notin Workers \cup {Relay}
                     /\ MaxDrops \in Nat
                     /\ DOMAIN Calls = {"worker", "loop", "dropped"}

VARIABLES
  holder,        \* who is inside each mutex
  todo,          \* what each thread has left to do
  pendingDrops   \* how many roles wait in g_pending_drops

vars == <<holder, todo, pendingDrops>>

Threads == {Relay} \cup Workers
Natives == {"SetPlayerRoutingBucket", "DropPlayer", "GetSkaters",
            "TriggerClientEvent", "RegisterCommand", "GetResourceMetrics"}
Locks == {"host", "buckets", "names", "drops", "events", "commands", "players"}

-----------------------------------------------------------------------------
(* What the threads do. *)

\* A lock_guard around `body`.
Section(lock, body) == << <<"take", lock>> >> \o body \o << <<"give", lock>> >>

\* Into Lua and back: DispatchNetworkEvent, Tick, InvokeCommand.
Script(place) == <<"script", place>>
Entry(place) == Section("host", <<Script(place)>>)

\* An event that may be raised here; one stands for several in a row.
Raise == <<"raise">>

\* GetResourceMetrics reads the map directly: the host's mutex is held.
Metrics == << >>

\* What each native does under the host's mutex; GetSkaters stands for all
\* that read the player snapshot, TriggerClientEvent for all that queue events.
Native(native) ==
  CASE native = "SetPlayerRoutingBucket" -> Section("buckets", << >>)
    [] native = "DropPlayer"             -> Section("drops", << <<"push">> >>)
    [] native = "GetSkaters"             -> Section("players", << >>)
    [] native = "TriggerClientEvent"     -> Section("events", << >>)
    [] native = "RegisterCommand"        -> Section("commands", << >>)
    [] native = "GetResourceMetrics"     -> Metrics

\* One iteration of the loop: receive, sweep, the three queues, publish,
\* scopes, the scheduler, and the queued client events.
Iteration ==
  <<Raise, Raise>>
  \o Section("buckets", << >>)
  \o Section("names", << >>)
  \o Section("drops", << <<"drop">> >>)
  \o Section("players", << >>) \o Section("players", << >>)
  \o <<Raise>>
  \o Entry("loop")
  \o Section("events", << >>)

\* HandlePlayerNameChanged: de-duplicate, queue, announce, send the roster.
Rename ==
  Section("players", << >>) \o Section("names", << >>) \o Section("events", << >>)
  \o Section("players", << >>) \o Section("events", << >>)

\* RestartResource: onResourceStop, the unregister hooks, the new scripts.
Restart ==
  Section("host", <<Script("worker")>> \o Section("commands", << >>)
                  \o <<Script("worker")>>)

\* MUTANT. Invokes the command while its registry is still locked.
ExecuteUnderRegistry == Section("commands", Entry("worker"))

\* The console: look the command up, then invoke it.
Execute == Section("commands", << >>) \o Entry("worker")

Requests == {Entry("worker"), Rename, Restart, Execute}

-----------------------------------------------------------------------------
Init ==
  /\ holder = [l \in Locks |-> Nobody]
  /\ todo = [t \in Threads |-> << >>]
  /\ pendingDrops = 0

Continue(t, steps) == todo' = [todo EXCEPT ![t] = steps \o Tail(@)]

Faces(t, op) == todo[t] # << >> /\ Head(todo[t])[1] = op

Iterate ==
  /\ todo[Relay] = << >>
  /\ todo' = [todo EXCEPT ![Relay] = Iteration]
  /\ UNCHANGED <<holder, pendingDrops>>

StartRequest(w) ==
  /\ todo[w] = << >>
  /\ \E request \in Requests : todo' = [todo EXCEPT ![w] = request]
  /\ UNCHANGED <<holder, pendingDrops>>

\* std::mutex is not recursive: whoever holds it, its holder too, shuts out.
Take(t) ==
  /\ Faces(t, "take")
  /\ LET lock == Head(todo[t])[2]
     IN  holder[lock] = Nobody /\ holder' = [holder EXCEPT ![lock] = t]
  /\ Continue(t, << >>)
  /\ UNCHANGED pendingDrops

Give(t) ==
  /\ Faces(t, "give")
  /\ holder' = [holder EXCEPT ![Head(todo[t])[2]] = Nobody]
  /\ Continue(t, << >>)
  /\ UNCHANGED pendingDrops

CallNative(t, native) ==
  /\ Faces(t, "script")
  /\ native \in Calls[Head(todo[t])[2]]
  /\ native = "DropPlayer" => pendingDrops < MaxDrops
  /\ Continue(t, Native(native) \o <<Head(todo[t])>>)
  /\ UNCHANGED <<holder, pendingDrops>>

ReturnFromScript(t) ==
  /\ Faces(t, "script")
  /\ Continue(t, << >>)
  /\ UNCHANGED <<holder, pendingDrops>>

RaiseEvent(t) ==
  /\ Faces(t, "raise")
  /\ Continue(t, Entry("loop")) \/ Continue(t, << >>)
  /\ UNCHANGED <<holder, pendingDrops>>

PushDrop(t) ==
  /\ Faces(t, "push")
  /\ pendingDrops' = IF pendingDrops < MaxDrops THEN pendingDrops + 1 ELSE MaxDrops
  /\ Continue(t, << >>)
  /\ UNCHANGED holder

\* MUTANT. Leaves the entry in the queue.
AfterDropKept(n) == n

\* What is left of the queue after one entry.
AfterDrop(n) == n - 1

\* The drop phase, under its mutex: playerDropped for each pending role that
\* is still there.
ApplyDrop(t) ==
  /\ Faces(t, "drop") /\ pendingDrops > 0
  /\ pendingDrops' = AfterDrop(pendingDrops)
  /\ \/ Continue(t, Entry("dropped") \o << <<"drop">> >>)
     \/ Continue(t, << <<"drop">> >>)
  /\ UNCHANGED holder

DropsDone(t) ==
  /\ Faces(t, "drop") /\ pendingDrops = 0
  /\ Continue(t, << >>)
  /\ UNCHANGED <<holder, pendingDrops>>

Work(t) ==
  \/ Take(t) \/ Give(t) \/ RaiseEvent(t)
  \/ PushDrop(t) \/ ApplyDrop(t) \/ DropsDone(t) \/ ReturnFromScript(t)

Next ==
  \/ Iterate
  \/ \E w \in Workers : StartRequest(w)
  \/ \E t \in Threads : Work(t) \/ \E native \in Natives : CallNative(t, native)

\* Threads are scheduled, a mutex that is free again and again is had at some
\* time, and scripts return.
Fairness ==
  /\ WF_vars(Iterate)
  /\ \A t \in Threads :
       WF_vars(Work(t)) /\ SF_vars(Take(t)) /\ SF_vars(ReturnFromScript(t))

Spec == Init /\ [][Next]_vars /\ Fairness

-----------------------------------------------------------------------------
Waits(t, lock) == Faces(t, "take") /\ Head(todo[t])[2] = lock

\* The host's mutex comes first.  Nobody waits for it holding a queue mutex,
\* and nobody waits for a queue mutex holding another, whatever scripts do and
\* whichever thread runs them.  The loop's drop phase is the one exception: it
\* raises playerDropped, and so takes the host, under the drop queue's mutex.
Rank(lock) == IF lock = "host" THEN 1 ELSE 2
LocksAreTakenInOrder ==
  \A t \in Threads : \A lock, held \in Locks :
    (Waits(t, lock) /\ holder[held] = t)
      => Rank(held) < Rank(lock) \/ (t = Relay /\ held = "drops")

\* Every iteration and every request comes to its end.
EveryThreadReturns ==
  \A t \in Threads : todo[t] # << >> ~> todo[t] = << >>

\* What DropPlayer's comment says: it only queues.  A worker's call returns.
InDropPlayer(t) == \E i \in DOMAIN todo[t] : todo[t][i] = <<"push">>
DropPlayerReturns ==
  \A w \in Workers : InDropPlayer(w) ~> ~ InDropPlayer(w)
=============================================================================
