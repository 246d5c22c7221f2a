# A TLA+ model of Kaboodle

Kaboodle is a library with which programs on a LAN find each other and keep track
of who is there. It is an approximate implementation of the SWIM membership
protocol. This project models the parts of it that are hard to test: the protocol
between sessions, over a network that loses, reorders and duplicates datagrams; its
timeouts; sessions that are stopped and started on one table; the search for a first
member; and the tasks inside one process that turn changes of the membership table into
notifications. TLC checks the models on small instances; TLAPS proves the safety
properties for any number of sessions, peers and subscribers and any durations.

Paths below are relative to the repository (`src/kaboodle.rs` is the Rust file).

## The system

| component | state | operations | talks to |
|---|---|---|---|
| `KaboodleInner` (kaboodle.rs), one *session* | `known_peers` (shared with its `Kaboodle`), `curious_peers`, `last_broadcast_time`, two sockets, the queue of `ping_addrs` | `tick` once per second: `maybe_broadcast_join`, `handle_suspected_peers`, `ping_random_peer`, `handle_incoming_ping_requests`; until the next tick `handle_incoming_broadcasts` and `handle_incoming_messages` | other sessions, by UDP |
| messages (structs.rs) | – | `SwimBroadcast` (Join, Failed, Probe), `SwimEnvelope`/`SwimMessage` (Ping, PingRequest, Ack, KnownPeers, KnownPeersRequest) | – |
| `Kaboodle` (lib.rs), the handle | `self_addr`, `cancellation_tx`, `ping_request_tx`, lists of subscribers, `identity` | `new`, `start`, `stop`, `set_identity`, `ping_addrs`, the `discover_*` functions, getters | session (a oneshot and an mpsc channel, the shared table), events task |
| `ObservableHashMap` (observable_hashmap.rs) | the table, its observers | `insert`, `update`, `remove`, `add_observer`, `notify_observers` | events task, by a channel |
| events task (events.rs) | `prev_fingerprint`, a batch of events | takes the events that are ready, notifies subscribers, drops closed channels, compares fingerprints | subscribers, by channels |
| `generate_fingerprint` (kaboodle.rs) | – | CRC32 of the sorted table | sessions compare it to detect differences |
| `discover_mesh_member` (discovery.rs) | interval, last broadcast | broadcasts Probe, backs off, takes the first answer | sessions |
| sockets (networking.rs), errors.rs, main.rs | – | interface selection, socket options, the demo | – |

What is hard: several sessions that tick at their own pace; datagrams that arrive
late, twice, out of order or never; suspicion that is cleared by one message and
confirmed by a timeout; hearsay about peers that are gone; sessions that crash, or
stop and start again with an old table; a tick that cuts a handler short; in the
process, four kinds of tasks that share a table and three lists under separate
locks. What correctness means there:

- session: as long as it is alone on its table, never suspects or addresses itself; drops a peer only after the timeouts;
  dead peers are forgotten by everybody, and stay forgotten; hearsay is never taken
  for news; addresses keep their identities;
- time: a silent peer is given up neither early nor late, and only what was heard
  recently is passed on;
- handle: at most one session runs on; `stop` succeeds and takes effect; a session keeps
  its own entry, and a stopped one leaves the table;
- discovery: probes keep coming, and somebody is found;
- events: the last notification about a peer, and the last fingerprint, are true;
  subscribers are kept until they leave; the task neither stops nor blocks.

`PROJECT.json` lists the hazards line by line, with the properties that cover them.

## Modules

| module | contents |
|---|---|
| `Swim` | sessions, datagrams, one action per handler and per tick; its properties |
| `MCSwim` | instances of `Swim`: sessions a, b, c, who shares a table, tick bounds, lengths of identities, meshes to start from |
| `SwimProofs` | theorems about `Swim`, with proofs |
| `Membership` | the abstract specification: opinions that Kaboodles have of each other's sessions |
| `SwimRefinement` | the mapping under which `Swim` implements `Membership` |
| `SwimRefinementProofs` | the proof that it does |
| `Detector` | one session's table against the clock: timeouts, ages, latencies |
| `DetectorProofs` | theorems about `Detector`, with proofs |
| `Lifecycle` | the handle: `start`, `stop`, `ping_addrs`, and sessions that overlap |
| `LifecycleProofs` | theorems about `Lifecycle`, with proofs |
| `Discovery` | `discover_mesh_member` and the members that answer |
| `DiscoveryProofs` | theorems about `Discovery`, with proofs |
| `Events` | `ObservableHashMap`, events task, subscriptions; its properties |
| `EventsProofs` | theorems about `Events`, with proofs |
| `MCDetector`, `MCLifecycle`, `MCDiscovery`, `MCEvents` | the modules of the runs |

The definitions marked "Mutant" just before a definition are wrong versions of it,
each breaking a property in the way a slip in the code would.

### Swim

A session is named by the address of its unicast socket, and belongs to a Kaboodle
(`Owner`). `known_peers[k]` is the table that the sessions of Kaboodle k share: it maps
every address to an identity with a state, or to `Absent`. The states are those of
`PeerState`, with two differences. Instants are abstract: a timeout may or may not
have passed in any tick that finds a peer waiting, so every timing is covered. `Known`
is split by age, since the code asks only whether an entry is younger than
`MAX_PEER_SHARE_AGE` (replies to KnownPeersRequest) and which entries are the oldest
(ping targets): `Known` is young, `KnownOld` is not, and `GrowOld` is the passing of
time. Durations and latencies are in `Detector`.

A step is what a session does while it holds the lock of the table, with the sends that
follow before it asks for the lock again. `pc` says which part of `run` and `tick` comes next:

| code | actions |
|---|---|
| `run`, the check before a tick | `BeginTick`, `LeaveMesh` |
| `maybe_broadcast_join` | `MaybeBroadcastJoin` |
| `handle_suspected_peers` | `HandleSuspectedPeers` |
| `ping_random_peer` | `PingRandomPeer`, `NobodyToPing`, and `GiveUpUnsent` when `send_to` fails |
| `handle_incoming_ping_requests` | `HandleIncomingPingRequests` |
| `handle_incoming_broadcasts` | `HandleFailed`, `HandleJoin`, and `AnswerJoin` for `maybe_send_known_peers_to_peer` |
| `handle_incoming_messages`, the sender becomes Known | `Hear`, `SkipUndecodable` |
| its arms | `HandlePing`, `HandlePingRequest`, `HandleAck`, `HandleKnownPeers`, `HandleKnownPeersRequest` |
| `maybe_sync_known_peers` | `MaybeSyncKnownPeers` |
| the timeout at the end of the period | `CutShort` |
| `Kaboodle::start`, `KaboodleInner::start` | `Start`, `StartFails` |
| `Kaboodle::stop` | `StopRemove`, `StopCancel` |
| `Kaboodle::ping_addrs` | `PingAddrs` |

`hand` is the message a session has taken from its socket and not dealt with yet. The Probe arm
changes no state and is in `Discovery`. A broadcast is a copy for every running session, the
sender's own included. `AfterFailed` looks the sender up by `OutAddr`, the address
its broadcasts come from, as the code does. The length of a listing is the sum
of the lengths of its identities and of the sender's: a KnownPeers datagram longer than
`INCOMING_BUFFER_SIZE` does not decode, and the answer to a Join is cut, entry by entry,
until it is shorter than that. The field `why` of KnownPeers is history, used by
one property. `CutShort` is the end of the period dropping a handler
(`tokio::time::timeout`) that waits for the lock after the sender was inserted. Dropped while
it sends, a handler has done everything except some of its sends, which is the
loss of those; dropped before it got the lock the first time, it has done nothing, which is the
loss of the datagram.

`Start` enters a new session into the table as it is, which may be empty or inherited;
`StartFails` has done so when the broadcast sockets cannot be created, and leaves the entry
behind. After `StopRemove` and `StopCancel` the session goes on until `BeginTick` would be
next: it times out, pings and receives on a table that its successor, which may have started in
the meantime, uses too. A `stop` that is dropped before it has the lock leaves a session that
nobody stops, which is a session that is not stopped; the rest of it is in `Lifecycle`.
`alone` is history: the sessions that found no other one running when they started. `Sole(n)`
says that n is one of them and has not been stopped, so that nobody else has run on its
table. `Crash` takes all sessions of a Kaboodle and its table. A session never comes back: the
next one binds a new port, which is a new element of `Peers`.

The fingerprint is modelled as what it hashes, so two different tables never have the
same one; CRC32 collisions, and the missing separator between an address and an
identity, are outside the model.

### Membership and SwimRefinement

`Membership` says what is left of SWIM when messages, identities and ages are taken away: a
Kaboodle has an opinion of every session (none, alive, suspect, doubted), and its running sessions
revise its opinions one step at a time. One learns only of sessions that have been started, at
least in vain, suspects one peer per step and never oneself, doubts a suspect only if there is
somebody else believed alive to ask, and drops only those that are doubted, or suspected when
there is nobody to ask, or cannot even be sent a ping. `SwimRefinement` maps the
states of `known_peers` to opinions (both ages of `Known` are alive) and counts a session as up until it
ends; `ImplementsMembership` is the specification under that mapping.

### Detector

One session and its peers, who may be heard from, heard of or silent at any time. An
`Instant` is represented by its age, so that the state is finite for TLC and time
needs no origin. `Tick` is `handle_suspected_peers` followed by `ping_random_peer`;
`Pass` is the passing of time while the sockets are read, with ticks that may be up to `MaxSlack` late. `quiet` and
`direct` are history: how long the peer has been silent, and whether it was ever heard
from itself. `Mixed` is the weighted latency; since 0.8 and 0.2 are no binary fractions,
truncation may give one less than exact arithmetic, and the model allows both.

### Lifecycle

A handle and the sessions it starts, one address each, on one table. The methods of the
handle borrow it, so one call is under way at a time; `stop` is three steps, since it waits for
the lock after it has taken `self_addr` and may be dropped there, and since the session
runs between the removal and the cancellation. A session is its place in `run` and `tick`;
every function that takes the lock is a step. A session is reduced to what it does to the table;
datagrams are kept where both ends are sessions of this handle, which may be the same one,
and `Remote` stands for everybody else. Timeouts may have passed whenever a peer is found waiting.
`DropHandle` is the end of the handle without `stop`, which no session notices. What `Lifecycle` has and
`Swim` has not are the calls of the handle: the channels, the error of `stop`, the assertion of
`start`, and a future of `stop` that is dropped.

### Discovery

The loop of `discover_mesh_member` with the code's arithmetic: `interval`, the time since the last
probe, and the time waited. A timer may fire up to `MaxLate` late. The buffer is not
cleared between answers and is deserialized whole, as a `SwimEnvelope` although members
send a `ProbeResponse`: the tag of the message is what the buffer holds after the answer,
zero (Ping) in a fresh one. `dirty` is how much of the buffer an unreadable answer has
filled; a shorter answer after that may or may not be readable. Members answer with
certainty if their table has at most two entries, and else by the toss of a coin.

### Events

`map` is the table, reduced to identities. The session changes it in critical sections
(`Lock`, `Unlock`, and `Insert`, `Update`, `RemovePeer` in between), and each change
queues an event if the observer is there. The steps of the events task end where it
awaits a lock: `HandleAdded` reads the identity under the table's lock and `Announce`
sends it later; `HandleRemoved` keeps the table locked until `Depart` has sent; `FinishBatch`
keeps the fingerprint list locked until `Compare` has the table. `Subscribe` creates a
channel, `Register` is the spawned task that adds it to its list. A list is a sequence,
since `broadcast_to_channels` removes closed channels by position. The loop that removes them is
given in closed form, which can be reasoned about: `Removed` are the positions
that are still inside the list when the loop comes to them, `Remaining` is what it leaves, and it
panics (`Panics`) if there are others. That the loop of the code does just that is a theorem,
`RemovalLoop`. `inbox` keeps the last
payload of a channel, and `news` the last word about a peer, sent to the lists whoever is
on them.

## Runs

| run | instance | properties |
|---|---|---|
| `swim_reorder` | a mesh of 3 sessions with a table each, 2 datagrams in flight, loss, duplicates, handlers that are cut short, listings of 2 entries; a ticks three more times | `TypeOK`, `SelfKnown`, `NoSelfTraffic`, `IdentityFaithful`, `RemovedAfterTimeouts`, `SuspicionStands` |
| `swim_vanish` | a knows b, and b's Kaboodle may stop b, start c on b's table during or after b's last tick, fail to start it, or die; 1 in flight, loss, sends that fail, identities of b and c that do not fit into one listing, `ping_addrs` of own addresses; b and c tick once, a only answers | `SelfKnown`, `NoSelfTraffic`, `ImplementsMembership`, `StaleStaysStale`, `ForgottenForGood` |
| `swim_dead` | a and b tick and re-join for ever, c has just died; 1 in flight, loss | `StaleStaysStale`, `ForgottenForGood`, `DeadEventuallyForgotten` |
| `detector` | 2 peers, seconds, the code's 1 s, 2 s and 10 s, ticks up to 1 s late, silence up to 11 s | `TypeOK`, `GivenUpInTime`, `LatencyBounded`, `SharedRecently`, `DroppedAfterSilence` |
| `discovery` | 2 members, milliseconds, the code's intervals and buffer, timers up to 5 ms late, sends and reads that fail | `TypeOK`, `ProbesKeepComing`, `SomeoneFound` |
| `lifecycle` | 2 sessions and a remote peer, 1 datagram between them in flight, 1 address queued by `ping_addrs`, failing starts and sends, stops dropped half-way | `TypeOK`, `OneLiveSession`, `StopNeverFails`, `OwnEntryKept`, `StopTakesEffect` |
| `events_truth` | 2 peers, 3 changes, three subscribers to arrivals (one may leave, one is a one-shot, one stays), one to departures, one to fingerprints | `TypeOK`, `LastWordTrue`, `FingerprintCurrent`, `TwoToHurt`, `CatchesUp` |
| `swim_ack`, `swim_failed`, `swim_fits`, `events_next_peers`, `lifecycle_forgotten` | | one claim of the repository each, which the code does not meet |

*Bounds.* Three sessions are a prober, a suspect and a helper, the roles of the protocol, or a
peer, a predecessor and a successor. In `swim_reorder` and `swim_vanish` they start as a mesh in the middle
of its life, which spares TLC the ticks in which they join: everybody knows everybody, or has just
lost somebody again. From there a tick each is a ping, a request for indirect pings and the removal. A
session whose bound is reached sends nothing of its own accord and still answers. One datagram in
flight already covers every order of delivery along one chain of messages, since a
datagram stays in flight as long as it likes while sessions tick, age and end; two let
chains overtake each other, and duplicates let old ones return. Where the bound is
reached, what is sent beyond it is lost. `NUM_INDIRECT_PING_PEERS` and
`NUM_CANDIDATE_TARGET_PEERS` have the code's values, 3 and 5. In `Events` two peers and three
changes give a peer time to arrive, leave and come back, or change, while the task is busy
with the other; three channels on one list are two that close and one that can be hurt. In
`Detector` eleven seconds reach past `MAX_PEER_SHARE_AGE` and past both
timeouts of a peer that is pinged late. In `Discovery` the intervals need no bound, since they are capped. In
`Lifecycle` two sessions are a predecessor and a successor, and `start` never has more than one
predecessor that has not been asked to end; the loops of a session are finite, so that
the number of ticks is not bounded. Deadlock is not checked where the bounds bring a model to a stop; it is
checked in `swim_dead`, where ticks are not bounded.

*`MCUninterrupted`* is an action constraint of the runs of `Swim`: a session whose table no other
session ever touches goes through its tick, and through the handler of a message, without a step
of anybody else in between. What others do meanwhile changes neither its table nor the
message in its hand, what it sends could as well arrive later, and entries that age meanwhile could
as well have aged before, so that every
behaviour has an equivalent one in which the steps of the others come before or after.
Sessions of a Kaboodle that may be stopped, or has several, are interrupted everywhere. The theorems are
about `Spec`, without the constraint.

*`swim_dead`* starts from a full mesh in which c has just died with at most one last datagram
in flight. This is a state the protocol reaches, once everybody has joined and heard
from everybody. `DeadEventuallyForgotten` supposes that from some time on no survivor is left
alone (`NobodyAlone`), which the code does not guarantee when datagrams are lost. A survivor that has
dropped everybody joins again, and the answer lists the whole table of the other, the
dead session included; by the time the other drops it, the first may be the one who knows it
and answers. Without the hypothesis TLC finds this cycle, so the failure detector is not complete
under unbounded loss. With it, any number of re-joins may have happened before.

*Fairness.* `Delivery`: sockets are read in every period, so that a datagram that is not lost is
received; it is strong fairness because a session in its tick does not read. `Progress`: a
session ticks for ever (`run` is a loop) and goes on with the message in its hand. `Watched(p)`: entries
age, the random choices of `ping_random_peer` are fair, so that a
peer that is a candidate again and again is picked, and peers that are left waiting time out,
since `PING_TIMEOUT` is finite; strong fairness, because a message from the peer
disables its timeout for a while. In `Events` the events task runs when it can, tokio's mutexes are
fair, so that it gets the table's lock if it becomes free again and again, and sessions do not keep the
lock; nothing is asked of the subscribers' tasks.
In `Discovery` time passes and timers fire; a member that is probed again and again answers
some time, since its coin has a chance of at least 1%, and not all of its answers are lost. In `Lifecycle` the
runtime polls the tasks of sessions, and the caller of `stop` once it waits for the lock, unless it gives up.

*What the runs of the subscribers say.* Two closed channels on a list can hurt a third, or the events
task: `events_next_peers` shows the first. `TwoToHurt`, which `events_truth` checks in an
instance where this happens, says that it takes two at the same moment. It does not matter when they
were dropped: with a and c of [a, b, c, d] gone, a broadcast removes a and d and leaves [b, c], and
when b goes too the next one panics. The fingerprints are compared with one list locked; `CatchesUp` says
that the task does not get stuck there. The lists of arrivals and departures are locked by others only
for a push, during which they wait for nothing, and are not modelled as locks.

## Findings

1. `swim_ack`: an Ack forwarded by a helper does not clear the suspicion it was asked for; only
   the helper's entry is refreshed (kaboodle.rs:564 against 406-447). The suspect is
   spared only if something of its own arrives, such as the request for tables that
   follows when fingerprints differ.
2. `swim_failed`: every Failed message is ignored, since its sender is looked up under the
   address of the broadcast socket (kaboodle.rs:276). Consequently
   `RemovedAfterTimeouts` holds without an exception for Failed.
3. `swim_fits`: the reply to a KnownPeersRequest is not cut to the receive buffer
   (kaboodle.rs:503), against CHANGELOG.md:6.
4. `events_next_peers`: closed channels are removed by ascending index
   (events.rs:36); with two of them a live subscriber loses its channel or, if they are the last of the
   list, `Vec::remove` panics and the events task is gone.
5. `lifecycle_forgotten`: a session that has been asked to end still handles what arrives in its
   last tick, and takes every listed address that is not in the table, its own included
   (kaboodle.rs:454-470). The answer to its Join, which lists it, puts the
   address that `stop` has just removed back into the table.

Seen while modelling, and described in the hazards rather than by a run:

- a stopped session in its last tick may ping its successor, which shares its table. If the
  answer is lost the successor's own entry stays `WaitingForPing`, and the successor asks helpers about
  itself, drops and reports itself. Hence `SelfKnown` and parts of `NoSelfTraffic` speak of sessions that run
  alone, and `OwnEntryKept` excepts this one step; TLC refutes all three without that;
- survivors that are left alone and join again can re-teach each other a dead session for ever (see
  `swim_dead`);
- a start that fails leaves its address in the table, from where it is pinged and listed to others;
- `ping_addrs` succeeds after `stop` until the session has ended, and the request is lost;
- after a `stop` that was dropped while it waited for the lock, nothing can stop the session, and
  `start` panics on its assertion;
- a peer that is inserted before the events task has registered its observer is never announced;
- the gap between two probes exceeds `MAX_REBROADCAST_INTERVAL` (discovery.rs:24): the interval
  grows while it is waited for, so that the probe is not due when the timer fires. Starting
  from 1 s the gaps grow to almost twice the interval; `ProbesKeepComing` is the bound that holds;
- an unreadable answer to a probe leaves its bytes in the buffer and may make later ones
  unreadable.

## Proofs

`SwimProofs` proves, from the assumptions named in `Swim` (finitely many peers, each of one
Kaboodle, `NoIdentity` is no identity, broadcasts come from addresses that are not unicast addresses,
positive protocol constants), for every network and every bound:

| theorem | statement |
|---|---|
| `TypeCorrect` | `Spec => []TypeOK` |
| `SelfNeverSuspected` | `Spec => []SelfKnown` |
| `NobodyAddressesItself` | `Spec => []NoSelfTraffic` |
| `IdentitiesFaithful` | `Spec => []IdentityFaithful` |
| `VanishedNotPropagated` | `Spec => StaleStaysStale` |
| `VanishedStayForgotten` | `Spec => ForgottenForGood` |
| `DroppedInOrder` | `Spec => RemovedAfterTimeouts` |
| `HearsayRevivesNobody` | `Spec => SuspicionStands` |

`SelfKnown` is not inductive: whether somebody else can touch a session's own entry depends on who
runs on its table and what they have in hand. `SelfInv` adds what is missing. `NoGhosts`: no table,
listing, datagram or queue names a session that has not started, so a session finds nothing about
itself when it starts. `AloneInside`: beside a session that is `Sole` no other one of its Kaboodle runs.
`HandOK`: the message in hand is addressed to the session that handles it, and a ping that could
not be sent is to somebody else. `NoSelfTraffic` is inductive together with `SelfInv`. It was stated with all
its parts at once because they need each other: that a forwarded Ack never reaches the peer it is about
follows from nobody being curious about itself, which follows from no PingRequest naming
its sender, which follows from suspects and helpers being different entries of a table
without the session itself among them.

The last five rest on lemmas about single steps: how an entry of a table may change
(stay, go, be downgraded, or be written because of a datagram of the peer itself, as `Known`,
of a listing, as `KnownOld`, or of the start of the session), and what a new datagram or a new message in
hand may be. `Stale` and `Forgotten` were strengthened with what is in flight and in hand until these
lemmas preserve them.

`SwimRefinementProofs` proves `SwimImplementsMembership` (`Spec => ImplementsMembership`) with the
same invariant. `NoGhosts` makes what is learnt exist, be it a session whose start failed. Each step of a
tick maps to one step of `Membership`, or to none; every handler changes entries only to `Known` or
`KnownOld`; and a session that overlaps with another revises opinions that the two
share.

`DetectorProofs` proves for all durations that `GivenUpInTime`, `LatencyBounded`, `SharedRecently` and
`DroppedAfterSilence` hold. The invariant relates the age of a waiting entry to the time since the
last tick (a tick leaves nobody waiting who has waited for `PING_TIMEOUT`), and its silence to
its age: an entry that waits for the second ping has been silent for a timeout longer than it
has waited. Latencies are bounded by the longest wait, and a weighted mean by its larger
part.

`DiscoveryProofs` proves for all intervals and delays that the back-off stays within its bounds
(`BackOffBounded`) and `ProbesKeepComing` (`NeverSilentForLong`), from the invariant that no probe
was due when the program began to wait.

`LifecycleProofs` proves for any number of sessions `OneLiveSession`, `StopNeverFails`,
`OwnEntryKept` and `TypeOK`. The invariant `IInv`: the cancellation channel leads to the one session that is to
run on, and there is such a session as long as the handle has an address or `stop` has not used the
channel (`ChannelLeads`); only sessions that were started are asked to end. With it, every other session that
runs beside the one of the handle is cancelled, and of what such a session does to the table only the choice
of its ping target can take a Known entry away.

`EventsProofs` proves, for any peers, identities and subscribers:

| theorem | statement |
|---|---|
| `TypeCorrect` | `Spec => []TypeOK` |
| `RemovalLoop` | the second loop of `broadcast_to_channels`, round by round, ends in `Remaining` or panics as `Panics` says, for every list and all closed positions |
| `LastWord` | `Spec => []LastWordTrue` |
| `FingerprintsCurrent` | `Spec => []FingerprintCurrent` |
| `OnlyTwoGoneHurt` | `Spec => TwoToHurt` |

`Typed` is the base of all of them: the types, what the task has in hand at each place (`TaskPlace`),
and that a list holds a channel once, after it was registered, with nothing sent on it before
(`Subscribed`). `LastWordTrue` is inductive with it. The proof compares the
events that are queued, about one peer, with the peer's entry: a change appends the event that
says so (`AppendTruthful`), and the first event is announced, reported, or skipped because the
table contradicts it, in which case a later event about the same peer is there
(`TailTruthful`). `FingerprintCurrent` needs `LastFingerprint`: who listens has
heard `prev_fingerprint` or nothing, and an idle task has compared it with the table, or nobody on the
list has heard any, because the comparison is skipped while the list is empty.

`OnlyDroppedLeave` is false (finding 4), and so is that the task outlives its subscribers.
`OnlyTwoGoneHurt` is what holds whoever leaves and whenever; its condition is on the state, two closed
channels on one list. It rests on `OneClosedLeaves`: one closed position is inside the list whenever
the loop comes to it, and everybody else moves up or stays.

`RemovalLoop` is an induction over the rounds of the loop. The library's induction theorems
cannot be used, but the least number principle can be proved from the well-foundedness of
inclusion between finite sets (`Smallest`), and the first round that goes wrong does not exist.

Only model-checked: the liveness properties (`DeadEventuallyForgotten`, `SomeoneFound`, `StopTakesEffect`,
`CatchesUp`), which are out of the prover's reach since they need `ENABLED`. Every
invariant and every action property of a passing run is a theorem.

## Not modelled

The demo (main.rs), errors.rs, interface selection and socket options (networking.rs) are
input, output and declarations. CRC32 values are abstracted as described, and collisions
left out. `set_identity` shows in `Swim` only as sessions of one Kaboodle with identities of their own; that it is
refused while the handle has an address is one condition and is not modelled. In `Lifecycle` the Acks that
are passed on and the KnownPeersRequests between a session and
its successor are left out: all they add is that their sender is heard from once more; `Swim` has them.
Identities as long as the receive buffer, with which the loop in
`maybe_send_known_peers_to_peer` panics, are excluded by an assumption of `Swim`, and `Instant`s before
the start of the clock, which panic on some platforms, by the representation in
`Detector`. Convergence of separate groups (README.md of the repository) needs four
sessions, which is beyond the instances of `Swim` that TLC can search.

## Plan

1. Done: `Swim`, `Membership` and the refinement; `Detector`; `Lifecycle`; `Discovery`; `Events`; their runs, and the
   proofs above, of every invariant and action property that the passing runs check.
2. An abstract specification of the handle (at most one session that runs on, `stop` ends
   it) with `Lifecycle` shown to implement it.
3. What holds of a session beside its predecessor, in `Swim`: that its own entry, once lost, stays lost,
   and that others drop it only through its own Failed or their timeouts.
