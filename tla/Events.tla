------------------------------- MODULE Events -------------------------------
(***************************************************************************)
(* Who learns of a change of known_peers, and when: the ObservableHashMap  *)
(* queues an event for each change, the task of handle_known_peers_events  *)
(* turns the events into notifications, and the channels of the            *)
(* subscribers (discover_peers, discover_departures,                       *)
(* discover_fingerprint_changes, discover_next_peer) carry them out.       *)
(*                                                                         *)
(* Four kinds of tasks interleave: the session, which changes the table    *)
(* under its lock, the events task, the tasks that register a subscriber's *)
(* channel some time after the subscription was made, and the users, who   *)
(* drop receivers.  A step of the model ends where a task gives up or      *)
(* waits for a lock.                                                       *)
(***************************************************************************)
EXTENDS Integers, SequencesExt

CONSTANTS
  Peers, Identities, NoIdentity,
  Discovery,       \* channels made by discover_peers
  NextPeer,        \* those of them made by discover_next_peer
  Departure,       \* channels made by discover_departures
  Fingerprint,     \* channels made by discover_fingerprint_changes
  Impatient,       \* channels whose receiver may be dropped at any time
  MaxChanges       \* bound on the changes of the table

Channels == Discovery \cup Departure \cup Fingerprint
Absent == NoIdentity

ASSUME ChannelAssumption ==
  /\ NoIdentity \notin Identities
  /\ NextPeer \subseteq Discovery /\ Impatient \subseteq Channels \ NextPeer
  /\ Discovery \cap Departure = {} /\ Discovery \cap Fingerprint = {}
  /\ Departure \cap Fingerprint = {}
  /\ MaxChanges \in Nat

VARIABLES
  map,               \* known_peers: address -> identity, or Absent
  locked,            \* does the session hold the lock of known_peers?
  changes,           \* changes of the table so far
  queue,             \* the events task's end of the observer channel
  pc,                \* where the events task is
  batch,             \* events it has taken and not yet handled
  identity,          \* of the Added peer it is about to announce
  prev_fingerprint,
  discovery_tx, departure_tx, fingerprint_tx,
  created,           \* channels handed out to a user
  unregistered,      \* those whose sender has not reached its list yet
  dropped,           \* those whose receiver is gone
  inbox,             \* the last thing sent on each channel, as a sequence
  news               \* history: the last word sent about each peer

session == <<map, locked, changes, queue>>
task == <<pc, batch, identity, prev_fingerprint>>
lists == <<discovery_tx, departure_tx, fingerprint_tx>>
users == <<created, unregistered, dropped>>
vars == <<session, task, lists, users, inbox, news>>

Nothing == "nothing"
Views == [Peers -> Identities \cup {Absent}]
NoPeers == [p \in Peers |-> Absent]
Kinds == {"Added", "Updated", "Removed"}
Event(kind, p) == [kind |-> kind, peer |-> p]

-----------------------------------------------------------------------------
\* ObservableHashMap.  A change queues an event if there is an observer: none
\* before the events task has called add_observer, none after it has panicked.

Observed == pc \notin {"new", "panicked"}

notify_observers(e) == queue' = IF Observed THEN Append(queue, e) ELSE queue

\* The session works on the table in critical sections.
Lock ==
  /\ ~locked /\ pc # "departing" /\ changes < MaxChanges
  /\ locked' = TRUE
  /\ UNCHANGED <<map, changes, queue, task, lists, users, inbox, news>>

Unlock ==
  /\ locked /\ locked' = FALSE
  /\ UNCHANGED <<map, changes, queue, task, lists, users, inbox, news>>

Change == locked /\ changes < MaxChanges /\ changes' = changes + 1

Insert(p, id) ==
  /\ Change
  /\ map' = [map EXCEPT ![p] = id]
  /\ notify_observers(Event(IF map[p] = Absent THEN "Added" ELSE "Updated", p))
  /\ UNCHANGED <<locked, task, lists, users, inbox, news>>

\* The state of an entry changes, not its identity.
Update(p) ==
  /\ Change /\ map[p] # Absent
  /\ notify_observers(Event("Updated", p))
  /\ UNCHANGED <<map, locked, task, lists, users, inbox, news>>

RemovePeer(p) ==
  /\ Change /\ map[p] # Absent
  /\ map' = [map EXCEPT ![p] = Absent]
  /\ notify_observers(Event("Removed", p))
  /\ UNCHANGED <<locked, task, lists, users, inbox, news>>

-----------------------------------------------------------------------------
\* Subscriptions.  The channel exists at once; a spawned task adds its sender to
\* the list when it gets the list's lock.

Subscribe(c) ==
  /\ c \notin created
  /\ created' = created \cup {c}
  /\ unregistered' = unregistered \cup {c}
  /\ UNCHANGED <<session, task, lists, dropped, inbox, news>>

Register(c) ==
  /\ c \in unregistered
  /\ unregistered' = unregistered \ {c}
  /\ c \in Fingerprint => pc # "compare"     \* the events task holds that lock
  /\ discovery_tx' = IF c \in Discovery THEN Append(discovery_tx, c) ELSE discovery_tx
  /\ departure_tx' = IF c \in Departure THEN Append(departure_tx, c) ELSE departure_tx
  /\ fingerprint_tx' =
       IF c \in Fingerprint THEN Append(fingerprint_tx, c) ELSE fingerprint_tx
  /\ UNCHANGED <<session, task, created, dropped, inbox, news>>

Drop(c) ==
  /\ c \in Impatient \cap created
  /\ c \notin dropped
  /\ dropped' = dropped \cup {c}
  /\ UNCHANGED <<session, task, lists, created, unregistered, inbox, news>>

\* The task of discover_next_peer passes the first peer on and drops its receiver.
ForwardFirst(c) ==
  /\ c \in NextPeer
  /\ c \notin dropped /\ inbox[c] # <<>>
  /\ dropped' = dropped \cup {c}
  /\ UNCHANGED <<session, task, lists, created, unregistered, inbox, news>>

-----------------------------------------------------------------------------
\* broadcast_to_channels: everybody on the list whose receiver is alive gets the
\* payload.  Then the positions of the dropped ones are removed, first to last, and
\* each removal shifts the positions behind it; Vec::remove panics past the end.

\* Mutant: positions counted from one.
PositionsShifted(list) == {i + 1 : i \in {j \in DOMAIN list : list[j] \in dropped}}

Positions(list) == {i \in DOMAIN list : list[i] \in dropped}

UpTo(positions, i) == Cardinality({k \in positions : k <= i})

\* The loop over the closed positions.  Those before k have shifted the list by the time
\* it comes to k, so the first that takes k past the end panics; what is at i afterwards
\* was behind i by as many removals as were made at i or before it.
Removed(list, closed) == {k \in closed : k + UpTo(closed, k - 1) <= Len(list)}

Remaining(list, closed) ==
  LET removed == Removed(list, closed)
  IN  [i \in 1..(Len(list) - Cardinality(removed)) |-> list[i + UpTo(removed, i)]]

Panics(list, closed) == Removed(list, closed) # closed

Deliver(payload, list) ==
  inbox' = [c \in Channels |->
              IF c \in ToSet(list) \ dropped THEN <<payload>> ELSE inbox[c]]

-----------------------------------------------------------------------------
\* The events task.

generate_fingerprint(view) == view

AddObserver ==
  /\ pc = "new" /\ ~locked
  /\ pc' = "recv"
  /\ UNCHANGED <<session, batch, identity, prev_fingerprint, lists, users, inbox, news>>

\* Mutant: keeps only the latest of the events that are ready.
TakeLatest ==
  /\ pc = "recv" /\ queue # <<>>
  /\ batch' = <<Last(queue)>>
  /\ queue' = <<>>
  /\ pc' = "event"
  /\ UNCHANGED <<map, locked, changes, identity, prev_fingerprint, lists, users, inbox, news>>

\* Everything that is ready is taken at once.
TakeBatch ==
  /\ pc = "recv" /\ queue # <<>>
  /\ batch' = queue
  /\ queue' = <<>>
  /\ pc' = "event"
  /\ UNCHANGED <<map, locked, changes, identity, prev_fingerprint, lists, users, inbox, news>>

AtEvent(kind) == pc = "event" /\ batch # <<>> /\ Head(batch).kind = kind

\* Mutant: gives the event up when it has read the identity.
HandleAddedTwice ==
  /\ AtEvent("Added") /\ ~locked
  /\ batch' = Tail(batch)
  /\ IF map[Head(batch).peer] = Absent
     THEN UNCHANGED <<pc, identity>>
     ELSE pc' = "announce" /\ identity' = map[Head(batch).peer]
  /\ UNCHANGED <<session, prev_fingerprint, lists, users, inbox, news>>

\* The identity is read under the table's lock, and announced after it is released.
\* If the peer is gone already, there is nothing to announce.
HandleAdded ==
  /\ AtEvent("Added") /\ ~locked
  /\ LET p == Head(batch).peer
     IN  IF map[p] = Absent
         THEN batch' = Tail(batch) /\ UNCHANGED <<pc, identity>>
         ELSE pc' = "announce" /\ identity' = map[p] /\ UNCHANGED batch
  /\ UNCHANGED <<session, prev_fingerprint, lists, users, inbox, news>>

Announce ==
  /\ pc = "announce"
  /\ LET closed == Positions(discovery_tx)
         p == Head(batch).peer
     IN  /\ Deliver(<<p, identity>>, discovery_tx)
         /\ discovery_tx' = Remaining(discovery_tx, closed)
         /\ pc' = IF Panics(discovery_tx, closed) THEN "panicked" ELSE "event"
         /\ news' = [news EXCEPT ![p] = "here"]
  /\ batch' = Tail(batch)
  /\ identity' = NoIdentity
  /\ UNCHANGED <<session, prev_fingerprint, departure_tx, fingerprint_tx, users>>

\* Mutant: the arm's continue goes on with the next batch.
HandleUpdatedOuter ==
  /\ AtEvent("Updated")
  /\ batch' = <<>> /\ pc' = "recv"
  /\ UNCHANGED <<session, identity, prev_fingerprint, lists, users, inbox, news>>

HandleUpdated ==
  /\ AtEvent("Updated")
  /\ batch' = Tail(batch)
  /\ UNCHANGED <<session, pc, identity, prev_fingerprint, lists, users, inbox, news>>

\* Mutant: waits for a peer that is back to leave again.
HandleRemovedWaiting ==
  /\ AtEvent("Removed") /\ ~locked
  /\ map[Head(batch).peer] = Absent
  /\ pc' = "departing"
  /\ UNCHANGED <<session, batch, identity, prev_fingerprint, lists, users, inbox, news>>

\* A peer that is back already has not left.  Otherwise the table stays locked until
\* the departure has been sent.
HandleRemoved ==
  /\ AtEvent("Removed") /\ ~locked
  /\ IF map[Head(batch).peer] # Absent
     THEN batch' = Tail(batch) /\ UNCHANGED pc
     ELSE pc' = "departing" /\ UNCHANGED batch
  /\ UNCHANGED <<session, identity, prev_fingerprint, lists, users, inbox, news>>

Depart ==
  /\ pc = "departing"
  /\ LET closed == Positions(departure_tx)
         p == Head(batch).peer
     IN  /\ Deliver(p, departure_tx)
         /\ departure_tx' = Remaining(departure_tx, closed)
         /\ pc' = IF Panics(departure_tx, closed) THEN "panicked" ELSE "event"
         /\ news' = [news EXCEPT ![p] = "gone"]
  /\ batch' = Tail(batch)
  /\ UNCHANGED <<session, identity, prev_fingerprint, discovery_tx, fingerprint_tx, users>>

\* After a batch: nothing to do unless somebody listens for fingerprints; their
\* list stays locked while the task waits for the table.
FinishBatch ==
  /\ pc = "event" /\ batch = <<>>
  /\ pc' = IF fingerprint_tx = <<>> THEN "recv" ELSE "compare"
  /\ UNCHANGED <<session, batch, identity, prev_fingerprint, lists, users, inbox, news>>

Compare ==
  LET fingerprint == generate_fingerprint(map)
      closed == Positions(fingerprint_tx)
  IN  /\ pc = "compare" /\ ~locked
      /\ IF map = NoPeers \/ fingerprint = prev_fingerprint
         THEN pc' = "recv" /\ UNCHANGED <<prev_fingerprint, fingerprint_tx, inbox>>
         ELSE /\ prev_fingerprint' = fingerprint
              /\ Deliver(fingerprint, fingerprint_tx)
              /\ fingerprint_tx' = Remaining(fingerprint_tx, closed)
              /\ pc' = IF Panics(fingerprint_tx, closed) THEN "panicked" ELSE "recv"
      /\ UNCHANGED <<session, batch, identity, discovery_tx, departure_tx, users, news>>

-----------------------------------------------------------------------------
Init ==
  /\ map = NoPeers /\ locked = FALSE /\ changes = 0 /\ queue = <<>>
  /\ pc = "new" /\ batch = <<>> /\ identity = NoIdentity
  /\ prev_fingerprint = generate_fingerprint(NoPeers)
  /\ discovery_tx = <<>> /\ departure_tx = <<>> /\ fingerprint_tx = <<>>
  /\ created = {} /\ unregistered = {} /\ dropped = {}
  /\ inbox = [c \in Channels |-> <<>>]
  /\ news = [p \in Peers |-> Nothing]

Session ==
  \/ Lock \/ Unlock
  \/ \E p \in Peers : Update(p) \/ RemovePeer(p) \/ \E id \in Identities : Insert(p, id)

User == \E c \in Channels : Subscribe(c) \/ Register(c) \/ Drop(c) \/ ForwardFirst(c)

Task ==
  \/ AddObserver \/ TakeBatch \/ HandleAdded \/ Announce \/ HandleUpdated
  \/ HandleRemoved \/ Depart \/ FinishBatch \/ Compare

Next == Session \/ User \/ Task

Spec == Init /\ [][Next]_vars

\* The runtime runs the events task when it is ready, its mutexes are fair, and a session
\* does not keep the lock.  Nothing is asked of the subscribers' tasks.
FairSpec == Spec /\ SF_vars(Task) /\ WF_vars(Unlock)

-----------------------------------------------------------------------------
\* Properties.

\* Every variable has its type: the lists hold senders of channels handed out, and the
\* task announces or reports a departure only while it has an event to handle.
TypeOK ==
  /\ map \in Views /\ prev_fingerprint \in Views
  /\ locked \in BOOLEAN /\ changes \in 0..MaxChanges
  /\ queue \in Seq([kind : Kinds, peer : Peers]) /\ batch \in Seq([kind : Kinds, peer : Peers])
  /\ pc \in {"new", "recv", "event", "announce", "departing", "compare", "panicked"}
  /\ pc \in {"announce", "departing"} => batch # <<>>
  /\ identity \in Identities \cup {NoIdentity}
  /\ created \subseteq Channels /\ unregistered \subseteq created /\ dropped \subseteq created
  /\ discovery_tx \in Seq(Discovery) /\ departure_tx \in Seq(Departure)
  /\ fingerprint_tx \in Seq(Fingerprint)
  /\ news \in [Peers -> {Nothing, "here", "gone"}]

\* What the events task has not handled yet, and which of it are arrivals and departures
\* of p.
unhandled == batch \o queue
Pending(p) ==
  {i \in DOMAIN unhandled : unhandled[i].peer = p /\ unhandled[i].kind # "Updated"}

\* The last word about a peer is true: the last arrival or departure still to be
\* handled says whether it is in the table and, once there is none, so does the last
\* notification sent.  The task reads the table long after the events were queued,
\* skips arrivals of peers that have left and departures of peers that are back, and
\* announces what it read after letting go of the lock.
LastWordTrue ==
  Observed =>
    \A p \in Peers :
      /\ \A i \in Pending(p) :
           (\A j \in Pending(p) : j <= i) => (unhandled[i].kind = "Added" <=> map[p] # Absent)
      /\ Pending(p) = {} /\ news[p] # Nothing => (news[p] = "here" <=> map[p] # Absent)

Quiet == pc = "recv" /\ queue = <<>>

\* Once the events task has caught up, what a subscriber last heard is the fingerprint
\* of the table, although fingerprints are compared only after a batch, of a table
\* that may have moved on, and not at all while it is empty or nobody listens.
FingerprintCurrent ==
  Quiet /\ map # NoPeers =>
    \A c \in ToSet(fingerprint_tx) \ dropped :
      inbox[c] \in {<<>>, <<generate_fingerprint(map)>>}

\* Every subscriber that listens stays on its list.
ListenersStay ==
  \A c \in Channels \ dropped :
    /\ c \in ToSet(discovery_tx) => c \in ToSet(discovery_tx')
    /\ c \in ToSet(departure_tx) => c \in ToSet(departure_tx')
    /\ c \in ToSet(fingerprint_tx) => c \in ToSet(fingerprint_tx')

\* A subscriber leaves a list only after it has dropped its receiver ("that code will
\* notice that this channel is closed, and it will remove it from the list of
\* channels to notify", discover_next_peer).
OnlyDroppedLeave == [][ListenersStay]_vars

\* Two channels on the list are closed: their receivers are gone and no broadcast has
\* taken them off yet.
TwoClosed(list) == \E c, d \in dropped \cap ToSet(list) : c # d
TwoGoneTogether == TwoClosed(discovery_tx) \/ TwoClosed(departure_tx) \/ TwoClosed(fingerprint_tx)

\* Who leaves can hurt another subscriber of its list, or the events task, only together
\* with a second: a step that takes a subscriber that listens off its list, or makes the
\* task panic, starts with two closed channels on one list (broadcast_to_channels).
TwoToHurt ==
  [][~TwoGoneTogether => ListenersStay /\ (pc' = "panicked" => pc = "panicked")]_vars

\* The events task catches up with the table, unless broadcast_to_channels has made it
\* panic: it is never stuck between the lock of the table and the lock of a list.
CatchesUp == <>[]Quiet \/ <>[](pc = "panicked")
=============================================================================
