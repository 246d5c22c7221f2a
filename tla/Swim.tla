-------------------------------- MODULE Swim --------------------------------
(***************************************************************************)
(* The SWIM mesh of kaboodle.rs.  A Kaboodle (lib.rs) keeps a table        *)
(* known_peers and runs sessions (KaboodleInner) on it.  A session has a   *)
(* unicast socket, whose address is its name, and a map curious_peers.     *)
(* Once per protocol period it runs tick, and for the rest of the period   *)
(* it handles the datagrams that reach its two sockets, one at a time.     *)
(* UDP may lose, delay, reorder and duplicate datagrams.                   *)
(*                                                                         *)
(* An action is what a session does with the table's lock in its hands,    *)
(* and the sends before it asks for the lock again.  For a session that is *)
(* stopped finishes its tick, and the next session of the Kaboodle may run *)
(* by then: the two share the table, and their actions interleave.         *)
(*                                                                         *)
(* Time is abstract: a timeout may fire in any tick that finds the peer    *)
(* waiting, and a Known entry is either younger than MAX_PEER_SHARE_AGE    *)
(* ("Known") or older ("KnownOld").  A session that has ended never comes  *)
(* back: the next one binds a new port, which is a new element of Peers.   *)
(***************************************************************************)
EXTENDS Integers, FiniteSetsExt

CONSTANTS
  Peers,                       \* unicast socket addresses, one per session
  Kaboodles,                   \* the instances of Kaboodle
  Owner,                       \* the Kaboodle each session belongs to
  NoSession,
  Identity,                    \* the identity payload of each session
  NoIdentity,                  \* stands for "no entry" in a view of the mesh
  OutAddr,                     \* source address of each session's broadcasts
  NUM_INDIRECT_PING_PEERS,
  NUM_CANDIDATE_TARGET_PEERS,
  IdentityLength,              \* of each session's identity, with its address
  INCOMING_BUFFER_SIZE

CONSTANTS                      \* the environment, and bounds on it
  Lossy,                       \* may the network lose datagrams?
  Duplicating,                 \* may the network duplicate datagrams?
  SendMayFail,                 \* may send_to report an error to ping_random_peer?
  Doomed,                      \* the Kaboodles that may be stopped or die
  Unlucky,                     \* the sessions that may find no broadcast socket
  Bootstrap,                   \* pairs <<k, a>>: k's user may call ping_addrs([a])
  MaxInFlight,                 \* bound on the datagrams in flight
  MaxTicks,                    \* bound on the ticks of each session
  Endless                      \* sessions that tick on past it

Identities == {Identity[p] : p \in Peers}

ASSUME PeersAssumption == IsFiniteSet(Peers) /\ NoSession \notin Peers

ASSUME OwnerAssumption == Owner \in [Peers -> Kaboodles]

ASSUME IdentityAssumption == NoIdentity \notin Identities

\* The broadcast sockets are not the unicast socket: theirs is a port of its
\* own (networking.rs binds broadcast_port for IPv4, an ephemeral port for IPv6).
ASSUME OutAddrAssumption == \A p \in Peers : OutAddr[p] \notin Peers

ASSUME BoundAssumption ==
  /\ NUM_INDIRECT_PING_PEERS \in Nat \ {0}
  /\ NUM_CANDIDATE_TARGET_PEERS \in Nat \ {0}
  /\ INCOMING_BUFFER_SIZE \in Nat /\ IdentityLength \in [Peers -> Nat]
  /\ \A p \in Peers : IdentityLength[p] < INCOMING_BUFFER_SIZE
  /\ MaxTicks \in [Peers -> Nat]
  /\ Doomed \subseteq Kaboodles
  /\ Unlucky \subseteq Peers
  /\ Endless \subseteq {n \in Peers : MaxTicks[n] > 0}
  /\ Bootstrap \subseteq Kaboodles \X Peers

VARIABLES
  status,          \* of each session, see Statuses
  alone,           \* history: sessions that found no other one running
  known_peers,     \* per Kaboodle: address -> PeerInfo or Absent
  ping_request_tx, \* per Kaboodle: the session it hands addresses to
  pc,              \* per session: what it does next
  hand,            \* per session: the message it is handling, in a set
  curious_peers,   \* per session: address -> who wants to hear of its Ack
  ticks,           \* protocol periods begun, counted up to MaxTicks
  ping_requests,   \* per session: addresses queued by ping_addrs
  net              \* datagrams in flight

vars == <<status, alone, known_peers, ping_request_tx, pc, hand, curious_peers,
          ticks, ping_requests, net>>
handleVars == <<status, alone, ping_request_tx>>

\* "up"; "stopping": stop has taken the address out of the table; "leaving": the
\* session is cancelled, and ends when it looks; "gone": its sockets are closed.
Statuses == {"down", "up", "stopping", "leaving", "gone"}
Running(n) == status[n] \in {"up", "stopping", "leaving"}

\* Between two ticks a session is "idle" (not begun) or at "receive"; "handle" and
\* "sync" are places in the handler of the message in its hand.
Places == {"idle", "join", "suspects", "ping", "unsent", "requests", "receive", "handle", "sync"}

Table(n) == known_peers[Owner[n]]

\* n runs, and no other session has run on its table since n started.
Sole(n) == status[n] = "up" /\ n \in alone

-----------------------------------------------------------------------------
\* Tables and views.

KnownStates == {"Known", "KnownOld"}
WaitingStates == {"WaitingForPing", "WaitingForIndirectPing"}
PeerInfo == [identity : Identities, state : KnownStates \cup WaitingStates]
Absent == [identity |-> NoIdentity, state |-> "Absent"]
Tables == [Peers -> PeerInfo \cup {Absent}]
Views == [Peers -> Identities \cup {NoIdentity}]

Info(id, st) == [identity |-> id, state |-> st]
Members(tbl) == {p \in Peers : tbl[p] # Absent}
Size(tbl) == Cardinality(Members(tbl))

\* The part of a table that lies in S, without states: what a KnownPeers
\* datagram carries.
Listing(tbl, S) ==
  [p \in Peers |-> IF p \in S THEN tbl[p].identity ELSE NoIdentity]

Listed(view) == {p \in Peers : view[p] # NoIdentity}

\* The fingerprint hashes every (address, identity) pair of the table; it is
\* modelled as what it hashes, that is, as a hash without collisions.
generate_fingerprint(tbl) == [p \in Peers |-> tbl[p].identity]

-----------------------------------------------------------------------------
\* Datagrams.  "src" is the sending session; the envelope of a unicast message
\* carries its identity.  A broadcast is one copy per running session.

Ping(n, to) ==
  [type |-> "Ping", src |-> n, to |-> to, identity |-> Identity[n]]

PingRequest(n, to, peer) ==
  [type |-> "PingRequest", src |-> n, to |-> to, identity |-> Identity[n],
   peer |-> peer]

Ack(n, to, peer, fp, num) ==
  [type |-> "Ack", src |-> n, to |-> to, identity |-> Identity[n],
   peer |-> peer, mesh_fingerprint |-> fp, num_peers |-> num]

\* "why" is history: the receiver cannot tell the two uses of KnownPeers apart.
KnownPeers(n, to, view, why) ==
  [type |-> "KnownPeers", src |-> n, to |-> to, identity |-> Identity[n],
   peers |-> view, why |-> why]

KnownPeersRequest(n, to, fp, num) ==
  [type |-> "KnownPeersRequest", src |-> n, to |-> to, identity |-> Identity[n],
   mesh_fingerprint |-> fp, num_peers |-> num]

Join(n, to) ==
  [type |-> "Join", src |-> n, to |-> to, identity |-> Identity[n]]

Failed(n, to, peer) ==
  [type |-> "Failed", src |-> n, to |-> to, peer |-> peer]

Datagrams ==
  [type : {"Ping", "Join"}, src : Peers, to : Peers, identity : Identities]
  \cup [type : {"PingRequest"}, src : Peers, to : Peers, identity : Identities,
        peer : Peers]
  \cup [type : {"Ack"}, src : Peers, to : Peers, identity : Identities,
        peer : Peers, mesh_fingerprint : Views, num_peers : Nat]
  \cup [type : {"KnownPeers"}, src : Peers, to : Peers, identity : Identities,
        peers : Views, why : {"Join", "KnownPeersRequest"}]
  \cup [type : {"KnownPeersRequest"}, src : Peers, to : Peers,
        identity : Identities, mesh_fingerprint : Views, num_peers : Nat]
  \cup [type : {"Failed"}, src : Peers, to : Peers, peer : Peers]

\* The length of a KnownPeers datagram in which n lists s; the other messages are
\* hardly longer than the identity in their envelope.
DatagramLength(n, s) ==
  IdentityLength[n] + MapThenSumSet(LAMBDA p : IdentityLength[p], s)

\* A KnownPeers datagram longer than the receive buffer is truncated, and does
\* not deserialize.
Decodes(m) ==
  m.type = "KnownPeers" => DatagramLength(m.src, Listed(m.peers)) <= INCOMING_BUFFER_SIZE

\* The datagrams in "used" leave the network and those in "out" enter it; any of
\* "out" may be lost, and what is sent to a socket nobody has bound always is.
Transmit(used, out) ==
  LET deliverable == {m \in out : Running(m.to)}
  IN  \E sent \in SUBSET deliverable, left \in SUBSET used :
        /\ Lossy \/ sent = deliverable
        /\ Duplicating \/ left = {}
        /\ net' = (net \ used) \cup left \cup sent
        /\ Cardinality(net') <= MaxInFlight

Goes(n, from, to) == Running(n) /\ pc[n] = from /\ pc' = [pc EXCEPT ![n] = to]

-----------------------------------------------------------------------------
\* The protocol period.

\* run looks at the cancellation before each tick, and nowhere else.
BeginTick(n) ==
  /\ \E place \in {"idle", "receive"} : Goes(n, place, "join")
  /\ status[n] # "leaving"
  /\ ticks[n] < MaxTicks[n] \/ n \in Endless
  /\ UNCHANGED <<handleVars, known_peers, hand, curious_peers, ticks, ping_requests, net>>

\* A Join goes out in the first tick (last_broadcast_time is None), and again
\* after REBROADCAST_INTERVAL if the table has at most one entry.
Broadcasts(n, elapsed) ==
  IF ticks[n] = 0 \/ (elapsed /\ Size(Table(n)) <= 1) THEN {Join(n, q) : q \in Peers} ELSE {}

MaybeBroadcastJoin(n) ==
  /\ Goes(n, "join", "suspects")
  /\ \E elapsed \in BOOLEAN : Transmit({}, Broadcasts(n, elapsed))
  /\ ticks' = [ticks EXCEPT ![n] = IF @ < MaxTicks[n] THEN @ + 1 ELSE @]
  /\ UNCHANGED <<handleVars, known_peers, hand, curious_peers, ping_requests>>

Waiting(tbl) == {p \in Peers : tbl[p].state \in WaitingStates}

\* Mutant: forgets to leave ourselves out.
NonSuspectedOrSelf(n, tbl) == {p \in Peers : tbl[p].state \in KnownStates}

NonSuspected(n, tbl) == {p \in Peers \ {n} : tbl[p].state \in KnownStates}

\* Mutants: gives up after the direct ping; asks the helpers again and again.
NeverIndirectly(n, tbl, expired) == {}
IndirectlyForever(n, tbl, expired) == {p \in expired : NonSuspected(n, tbl) # {}}

\* Of the waiting peers whose timeout has passed: those that get a second,
\* indirect ping, and those that are given up.
IndirectlyPinged(n, tbl, expired) ==
  {p \in expired : tbl[p].state = "WaitingForPing" /\ NonSuspected(n, tbl) # {}}

Removed(n, tbl, expired) == expired \ IndirectlyPinged(n, tbl, expired)

\* Mutant: picks the helpers from the whole table, the suspect included.
HelpersFromTable(n, tbl) ==
  LET s == Members(tbl) \ {n}
  IN  kSubset(Min({NUM_INDIRECT_PING_PEERS, Cardinality(s)}), s)

Helpers(n, tbl) ==
  LET s == NonSuspected(n, tbl)
  IN  kSubset(Min({NUM_INDIRECT_PING_PEERS, Cardinality(s)}), s)

AfterTimeouts(n, tbl, expired) ==
  [p \in Peers |->
     IF p \in IndirectlyPinged(n, tbl, expired)
     THEN Info(tbl[p].identity, "WaitingForIndirectPing")
     ELSE IF p \in Removed(n, tbl, expired) THEN Absent ELSE tbl[p]]

\* ask gives the helpers asked about each peer that gets an indirect ping.
AskHelpers(n, ask) ==
  UNION {{PingRequest(n, h, p) : h \in ask[p]} : p \in DOMAIN ask}

BroadcastFailed(n, removed) == {Failed(n, q, p) : q \in Peers, p \in removed}

HandleSuspectedPeers(n, expired) ==
  LET removed == Removed(n, Table(n), expired)
  IN  /\ Goes(n, "suspects", "ping")
      /\ expired \subseteq Waiting(Table(n))
      /\ known_peers' = [known_peers EXCEPT ![Owner[n]] = AfterTimeouts(n, @, expired)]
      /\ curious_peers' = [curious_peers EXCEPT ![n] =
                              [p \in Peers |-> IF p \in removed THEN {} ELSE @[p]]]
      /\ \E ask \in [IndirectlyPinged(n, Table(n), expired) -> Helpers(n, Table(n))] :
           Transmit({}, AskHelpers(n, ask) \cup BroadcastFailed(n, removed))
      /\ UNCHANGED <<handleVars, hand, ticks, ping_requests>>

\* One of the NUM_CANDIDATE_TARGET_PEERS entries with the oldest timestamps;
\* every KnownOld timestamp is older than every Known one.
PingCandidates(n, tbl) ==
  LET old == {p \in NonSuspected(n, tbl) : tbl[p].state = "KnownOld"}
  IN  IF Cardinality(old) >= NUM_CANDIDATE_TARGET_PEERS
      THEN old
      ELSE NonSuspected(n, tbl)

\* The target waits for an answer from now on, also when send_to then fails.
PingRandomPeer(n, target) ==
  /\ target \in PingCandidates(n, Table(n))
  /\ known_peers' = [known_peers EXCEPT ![Owner[n]][target].state = "WaitingForPing"]
  /\ \/ Goes(n, "ping", "requests") /\ Transmit({}, {Ping(n, target)}) /\ UNCHANGED hand
     \/ /\ SendMayFail /\ Goes(n, "ping", "unsent")
        /\ hand' = [hand EXCEPT ![n] = {Ping(n, target)}]
        /\ UNCHANGED net
  /\ UNCHANGED <<handleVars, curious_peers, ticks, ping_requests>>

NobodyToPing(n) ==
  /\ Goes(n, "ping", "requests")
  /\ PingCandidates(n, Table(n)) = {}
  /\ UNCHANGED <<handleVars, known_peers, hand, curious_peers, ticks, ping_requests, net>>

\* The rest of ping_random_peer if the ping could not be sent.
GiveUpUnsent(n) ==
  /\ Goes(n, "unsent", "requests")
  /\ known_peers' = [known_peers EXCEPT ![Owner[n]] =
                       [p \in Peers |-> IF Ping(n, p) \in hand[n] THEN Absent ELSE @[p]]]
  /\ hand' = [hand EXCEPT ![n] = {}]
  /\ UNCHANGED <<handleVars, curious_peers, ticks, ping_requests, net>>

HandleIncomingPingRequests(n) ==
  /\ Goes(n, "requests", "receive")
  /\ Transmit({}, {Ping(n, p) : p \in ping_requests[n]})
  /\ ping_requests' = [ping_requests EXCEPT ![n] = {}]
  /\ UNCHANGED <<handleVars, known_peers, hand, curious_peers, ticks>>

-----------------------------------------------------------------------------
\* The broadcast socket.

\* m is next at the socket of a session that reads.
Arrived(m, type) == m \in net /\ m.type = type /\ Running(m.to) /\ pc[m.to] = "receive"

\* The message in n's hand; and what is left when n is through with it.
InHand(n, type) == {m \in hand[n] : m.type = type}
Done(n) == Goes(n, "handle", "receive") /\ hand' = [hand EXCEPT ![n] = {}]

\* The sender is matched against known_peers by the address the broadcast came
\* from, OutAddr, and not by the address of the session that sent it.
AfterFailed(n, tbl, m) ==
  IF m.peer # n /\ OutAddr[m.src] \in Members(tbl)
  THEN [tbl EXCEPT ![m.peer] = Absent]
  ELSE tbl

HandleFailed(m) ==
  /\ Arrived(m, "Failed")
  /\ known_peers' = [known_peers EXCEPT ![Owner[m.to]] = AfterFailed(m.to, @, m)]
  /\ Transmit({m}, {})
  /\ UNCHANGED <<handleVars, pc, hand, curious_peers, ticks, ping_requests>>

\* With at most two members nobody else can answer; otherwise it is a coin toss
\* that may go either way for any number of members.
ShouldRespondToBroadcast(tbl) == IF Size(tbl) <= 2 THEN {TRUE} ELSE BOOLEAN

\* The answers to a Join: the whole table, whatever the state of the entries, or what
\* is left of it when entries have been taken out, one by one, until it fits the buffer.
JoinReplies(n, tbl, to) ==
  LET fits(s) == DatagramLength(n, s) < INCOMING_BUFFER_SIZE
      whole == Members(tbl)
      cut(s) == \E p \in whole \ s : ~fits(s \cup {p})
  IN  {KnownPeers(n, to, Listing(tbl, s), "Join") :
         s \in {t \in SUBSET whole : fits(t) /\ (t = whole \/ cut(t))}}

HandleJoin(m) ==
  LET n == m.to
      isNew == m.src # n /\ Table(n)[m.src] = Absent
  IN  /\ Arrived(m, "Join")
      /\ known_peers' = [known_peers EXCEPT ![Owner[n]] =
                           IF m.src = n THEN @
                           ELSE [@ EXCEPT ![m.src] = Info(m.identity, "Known")]]
      /\ Transmit({m}, {})
      /\ IF isNew
         THEN Goes(n, "receive", "handle") /\ hand' = [hand EXCEPT ![n] = {m}]
         ELSE UNCHANGED <<pc, hand>>
      /\ UNCHANGED <<handleVars, curious_peers, ticks, ping_requests>>

\* maybe_send_known_peers_to_peer; an empty table is not sent.
AnswerJoin(n) ==
  /\ Done(n)
  /\ \E m \in InHand(n, "Join") :
       \E respond \in ShouldRespondToBroadcast(Table(n)),
          reply \in JoinReplies(n, Table(n), m.src) :
         Transmit({}, IF respond /\ Listed(reply.peers) # {} THEN {reply} ELSE {})
  /\ UNCHANGED <<handleVars, known_peers, curious_peers, ticks, ping_requests>>

-----------------------------------------------------------------------------
\* The unicast socket.  Whatever the message, its sender becomes Known first; the
\* lock is free again before the message itself is looked at.

UnicastTypes == {"Ping", "PingRequest", "Ack", "KnownPeers", "KnownPeersRequest"}

\* Mutant: the peer an Ack is about is marked Known as well, with the identity of the
\* envelope.
AfterHearingOfPeer(tbl, m) ==
  LET heard == {m.src} \cup (IF m.type = "Ack" THEN {m.peer} ELSE {})
  IN  [p \in Peers |-> IF p \in heard THEN Info(m.identity, "Known") ELSE tbl[p]]

\* Only the sender of the datagram is marked Known, also when it forwards the Ack of
\* another peer.
AfterHearing(tbl, m) == [tbl EXCEPT ![m.src] = Info(m.identity, "Known")]

Hear(m) ==
  LET n == m.to
  IN  /\ \E type \in UnicastTypes : Arrived(m, type)
      /\ Decodes(m)
      /\ known_peers' = [known_peers EXCEPT ![Owner[n]] = AfterHearing(@, m)]
      /\ Goes(n, "receive", "handle")
      /\ hand' = [hand EXCEPT ![n] = {m}]
      /\ Transmit({m}, {})
      /\ UNCHANGED <<handleVars, curious_peers, ticks, ping_requests>>

HandlePing(n) ==
  /\ Done(n)
  /\ \E m \in InHand(n, "Ping") :
       Transmit({}, {Ack(n, m.src, n, generate_fingerprint(Table(n)), Size(Table(n)))})
  /\ UNCHANGED <<handleVars, known_peers, curious_peers, ticks, ping_requests>>

HandlePingRequest(n) ==
  /\ Done(n)
  /\ \E m \in InHand(n, "PingRequest") :
       /\ curious_peers' = [curious_peers EXCEPT ![n][m.peer] = @ \cup {m.src}]
       /\ Transmit({}, {Ping(n, m.peer)})
  /\ UNCHANGED <<handleVars, known_peers, ticks, ping_requests>>

\* The Ack is forwarded to those who are curious about the peer it speaks of.
HandleAck(n) ==
  /\ Goes(n, "handle", "sync")
  /\ \E m \in InHand(n, "Ack") :
       /\ curious_peers' = [curious_peers EXCEPT ![n][m.peer] = {}]
       /\ Transmit({}, {Ack(n, o, m.peer, m.mesh_fingerprint, m.num_peers) :
                          o \in curious_peers[n][m.peer]})
  /\ UNCHANGED <<handleVars, known_peers, hand, ticks, ping_requests>>

\* Mutants: takes unlisted addresses too; adds the new peers as just heard from.
AfterKnownPeersUnfiltered(tbl, view) ==
  [p \in Peers |-> IF tbl[p] = Absent THEN Info(view[p], "KnownOld") ELSE tbl[p]]
AfterKnownPeersFresh(tbl, view) ==
  [p \in Peers |-> IF tbl[p] = Absent /\ p \in Listed(view)
                   THEN Info(view[p], "Known")
                   ELSE tbl[p]]

\* Mutant: whoever lists a suspect vouches for it.
AfterKnownPeersVouched(tbl, view) ==
  [p \in Peers |-> IF tbl[p].state \notin KnownStates /\ p \in Listed(view)
                   THEN Info(view[p], "KnownOld")
                   ELSE tbl[p]]

\* Peers we did not know are added with a timestamp too old to be shared.
AfterKnownPeers(tbl, view) ==
  [p \in Peers |-> IF tbl[p] = Absent /\ p \in Listed(view)
                   THEN Info(view[p], "KnownOld")
                   ELSE tbl[p]]

HandleKnownPeers(n) ==
  /\ Done(n)
  /\ \E m \in InHand(n, "KnownPeers") :
       known_peers' = [known_peers EXCEPT ![Owner[n]] = AfterKnownPeers(@, m.peers)]
  /\ UNCHANGED <<handleVars, curious_peers, ticks, ping_requests, net>>

\* Entries shared on request: Known, recent, neither ourselves nor the asker.
Shareable(n, tbl, asker) ==
  {p \in Peers \ {n, asker} : tbl[p].state = "Known"}

HandleKnownPeersRequest(n) ==
  /\ Goes(n, "handle", "sync")
  /\ \E m \in InHand(n, "KnownPeersRequest") :
       Transmit({}, {KnownPeers(n, m.src, Listing(Table(n), Shareable(n, Table(n), m.src)),
                                "KnownPeersRequest")})
  /\ UNCHANGED <<handleVars, known_peers, hand, curious_peers, ticks, ping_requests>>

\* Whom to sync with: the peer the Ack is about, or who asks for the table.
Partner(m) == IF m.type = "Ack" THEN m.peer ELSE m.src

\* Ask for their table if it differs from ours and is not smaller.
MaybeSyncKnownPeers(n) ==
  LET tbl == Table(n)
  IN  /\ Goes(n, "sync", "receive")
      /\ \E m \in hand[n] :
           Transmit({},
             IF generate_fingerprint(tbl) = m.mesh_fingerprint \/ Size(tbl) > m.num_peers
             THEN {}
             ELSE {KnownPeersRequest(n, Partner(m), generate_fingerprint(tbl), Size(tbl))})
      /\ hand' = [hand EXCEPT ![n] = {}]
      /\ UNCHANGED <<handleVars, known_peers, curious_peers, ticks, ping_requests>>

\* A datagram that does not deserialize is skipped.
SkipUndecodable(m) ==
  /\ Arrived(m, "KnownPeers")
  /\ ~Decodes(m)
  /\ Transmit({m}, {})
  /\ UNCHANGED <<handleVars, known_peers, pc, hand, curious_peers, ticks, ping_requests>>

\* The end of the protocol period drops a handler that waits for the table's lock.
CutShort(n) ==
  /\ \/ /\ Goes(n, "handle", "receive")
        /\ \A m \in hand[n] : m.type \notin {"Ack", "PingRequest"}
     \/ Goes(n, "sync", "receive")
  /\ hand' = [hand EXCEPT ![n] = {}]
  /\ UNCHANGED <<handleVars, known_peers, curious_peers, ticks, ping_requests, net>>

-----------------------------------------------------------------------------
\* Sessions and their users.

NoTable == [p \in Peers |-> Absent]
NobodyCurious == [p \in Peers |-> {}]
Sessions(k) == {n \in Peers : Owner[n] = k}

\* start does nothing while a session of the Kaboodle is up; one that was cancelled
\* may still be running.  The new session is entered into the table as it is.
MayStart(n) == status[n] = "down" /\ \A q \in Sessions(Owner[n]) : status[q] \notin {"up", "stopping"}

AfterStart(n) == [known_peers EXCEPT ![Owner[n]][n] = Info(Identity[n], "Known")]

Start(n) ==
  /\ MayStart(n)
  /\ status' = [status EXCEPT ![n] = "up"]
  /\ alone' = IF \E q \in Sessions(Owner[n]) : Running(q) THEN alone ELSE alone \cup {n}
  /\ known_peers' = AfterStart(n)
  /\ ping_request_tx' = [ping_request_tx EXCEPT ![Owner[n]] = n]
  /\ UNCHANGED <<pc, hand, curious_peers, ticks, ping_requests, net>>

\* create_broadcast_sockets fails: the address stays in the table, its socket is closed.
StartFails(n) ==
  /\ n \in Unlucky
  /\ MayStart(n)
  /\ status' = [status EXCEPT ![n] = "gone"]
  /\ known_peers' = AfterStart(n)
  /\ UNCHANGED <<alone, ping_request_tx, pc, hand, curious_peers, ticks, ping_requests, net>>

\* stop: the address leaves the table, and then the session is told to end.
StopRemove(n) ==
  /\ Owner[n] \in Doomed /\ status[n] = "up"
  /\ status' = [status EXCEPT ![n] = "stopping"]
  /\ known_peers' = [known_peers EXCEPT ![Owner[n]][n] = Absent]
  /\ UNCHANGED <<alone, ping_request_tx, pc, hand, curious_peers, ticks, ping_requests, net>>

StopCancel(n) ==
  /\ status[n] = "stopping"
  /\ status' = [status EXCEPT ![n] = "leaving"]
  /\ UNCHANGED <<alone, known_peers, ping_request_tx, pc, hand, curious_peers, ticks,
                 ping_requests, net>>

\* The sessions in s end, and their sockets are closed.
End(s) ==
  /\ status' = [n \in Peers |-> IF n \in s THEN "gone" ELSE status[n]]
  /\ pc' = [n \in Peers |-> IF n \in s THEN "idle" ELSE pc[n]]
  /\ hand' = [n \in Peers |-> IF n \in s THEN {} ELSE hand[n]]
  /\ curious_peers' = [n \in Peers |-> IF n \in s THEN NobodyCurious ELSE curious_peers[n]]
  /\ ping_requests' = [n \in Peers |-> IF n \in s THEN {} ELSE ping_requests[n]]
  /\ net' = {m \in net : m.to \notin s}
  /\ UNCHANGED <<alone, ticks>>

\* run finds the session cancelled, without a farewell to anybody.
LeaveMesh(n) ==
  /\ status[n] = "leaving" /\ pc[n] \in {"idle", "receive"}
  /\ End({n})
  /\ UNCHANGED <<known_peers, ping_request_tx>>

\* The process dies, with its sessions and its table.
Crash(k) ==
  /\ k \in Doomed
  /\ \E n \in Sessions(k) : Running(n)
  /\ End({n \in Sessions(k) : Running(n)})
  /\ known_peers' = [known_peers EXCEPT ![k] = NoTable]
  /\ ping_request_tx' = [ping_request_tx EXCEPT ![k] = NoSession]

\* Mutant: queues every address.
PingAnyAddrs(k, a) ==
  LET n == ping_request_tx[k]
  IN  /\ <<k, a>> \in Bootstrap
      /\ n # NoSession /\ status[n] \in {"up", "leaving"}
      /\ ping_requests' = [ping_requests EXCEPT ![n] = @ \cup {a}]
      /\ UNCHANGED <<handleVars, known_peers, pc, hand, curious_peers, ticks, net>>

\* ping_addrs queues the addresses that are not in the table, for the session that was
\* started last, as long as it runs.
PingAddrs(k, a) ==
  LET n == ping_request_tx[k]
  IN  /\ <<k, a>> \in Bootstrap
      /\ n # NoSession /\ status[n] \in {"up", "leaving"}
      /\ known_peers[k][a] = Absent
      /\ ping_requests' = [ping_requests EXCEPT ![n] = @ \cup {a}]
      /\ UNCHANGED <<handleVars, known_peers, pc, hand, curious_peers, ticks, net>>

\* MAX_PEER_SHARE_AGE passes without a word from p.  Nobody looks at the age of its own
\* entry, but another session on the table does.
GrowOld(k, p) ==
  /\ ~(Owner[p] = k /\ Sole(p))
  /\ known_peers[k][p].state = "Known"
  /\ known_peers' = [known_peers EXCEPT ![k][p].state = "KnownOld"]
  /\ UNCHANGED <<handleVars, pc, hand, curious_peers, ticks, ping_requests, net>>

-----------------------------------------------------------------------------
Init ==
  /\ status = [n \in Peers |-> "down"]
  /\ alone = {}
  /\ known_peers = [k \in Kaboodles |-> NoTable]
  /\ ping_request_tx = [k \in Kaboodles |-> NoSession]
  /\ pc = [n \in Peers |-> "idle"]
  /\ hand = [n \in Peers |-> {}]
  /\ curious_peers = [n \in Peers |-> NobodyCurious]
  /\ ticks = [n \in Peers |-> 0]
  /\ ping_requests = [n \in Peers |-> {}]
  /\ net = {}

Tick(n) ==
  \/ BeginTick(n)
  \/ MaybeBroadcastJoin(n)
  \/ \E expired \in SUBSET Waiting(Table(n)) : HandleSuspectedPeers(n, expired)
  \/ \E target \in Peers : PingRandomPeer(n, target)
  \/ NobodyToPing(n)
  \/ GiveUpUnsent(n)
  \/ HandleIncomingPingRequests(n)

Receive(m) == HandleFailed(m) \/ HandleJoin(m) \/ Hear(m) \/ SkipUndecodable(m)

Handle(n) ==
  \/ AnswerJoin(n)
  \/ HandlePing(n)
  \/ HandlePingRequest(n)
  \/ HandleAck(n)
  \/ HandleKnownPeers(n)
  \/ HandleKnownPeersRequest(n)
  \/ MaybeSyncKnownPeers(n)
  \/ CutShort(n)

Next ==
  \/ \E n \in Peers : \/ Start(n) \/ StartFails(n) \/ StopRemove(n) \/ StopCancel(n)
                      \/ LeaveMesh(n) \/ Tick(n) \/ Handle(n)
  \/ \E k \in Kaboodles : Crash(k)
  \/ \E k \in Kaboodles, p \in Peers : PingAddrs(k, p) \/ GrowOld(k, p)
  \/ \E m \in net : Receive(m)

Spec == Init /\ [][Next]_vars

\* What the code's scheduling gives: a session goes on with its tick and with the message
\* in its hand, datagrams in flight are received (tick reads both sockets in every
\* period), and knowledge ages.  Its random choices are fair: a peer that is again and
\* again among the candidates is pinged in the end, and a peer that is left waiting times
\* out.
TimesOut(n, p) ==
  \E expired \in SUBSET Waiting(Table(n)) : p \in expired /\ HandleSuspectedPeers(n, expired)

Delivery == SF_vars(\E m \in net : Receive(m))

Watched(p) ==
  \A n \in Peers \ {p} :
    WF_vars(GrowOld(Owner[n], p)) /\ SF_vars(PingRandomPeer(n, p)) /\ SF_vars(TimesOut(n, p))

Progress(n) == WF_vars(Start(n)) /\ SF_vars(Tick(n)) /\ WF_vars(Handle(n))

Fairness == Delivery /\ \A p \in Peers : Progress(p) /\ Watched(p)

FairSpec == Spec /\ Fairness

-----------------------------------------------------------------------------
\* Properties.

\* Every variable has its type; a table maps addresses to PeerInfos, and the
\* datagrams in flight and in hand are the messages of structs.rs.
TypeOK ==
  /\ status \in [Peers -> Statuses]
  /\ alone \subseteq Peers
  /\ known_peers \in [Kaboodles -> Tables]
  /\ ping_request_tx \in [Kaboodles -> Peers \cup {NoSession}]
  /\ pc \in [Peers -> Places]
  /\ hand \in [Peers -> SUBSET Datagrams]
  /\ curious_peers \in [Peers -> [Peers -> SUBSET Peers]]
  /\ ticks \in [Peers -> Nat]
  /\ ping_requests \in [Peers -> SUBSET Peers]
  /\ net \subseteq Datagrams

\* A session that runs alone never suspects or forgets itself, whatever others say of
\* it ("that doesn't mean we should forget about ourselves", handle_incoming_broadcasts):
\* handle_suspected_peers removes any entry that waits too long, its own included.
\* Beside the session before it, which may ping it, this does not hold.
SelfKnown == \A n \in Peers : Sole(n) => Table(n)[n].state = "Known"

\* The messages that have been sent and not yet dealt with.
Carried == net \cup UNION {hand[n] : n \in Peers}

\* No helper is ever asked to ping itself, and nobody is curious on its own behalf,
\* however sessions overlap.  A session that runs alone never addresses itself either,
\* not even through others: it asks no helper about itself, no forwarded Ack makes it
\* ask itself for its table, and ping_addrs does not queue its own address.
NoSelfTraffic ==
  /\ \A m \in Carried :
       /\ m.type \notin {"Join", "Failed"} /\ m.src = m.to => ~Sole(m.src)
       /\ m.type = "PingRequest" => m.to \notin {m.src, m.peer}
       /\ m.type = "PingRequest" /\ m.peer = m.src => ~Sole(m.src)
       /\ m.type = "Ack" /\ m.peer = m.to => ~Sole(m.to)
  /\ \A n \in Peers : curious_peers[n][n] = {}
  /\ \A n, p \in Peers : n \notin curious_peers[n][p]
  /\ \A n, p \in Peers : p \in curious_peers[n][p] => ~Sole(p)
  /\ \A n \in Peers : n \in ping_requests[n] => ~Sole(n)

\* Over any number of hops, an address is only ever paired with the identity of the
\* session behind it: in tables, in the listings of KnownPeers and in envelopes.
IdentityFaithful ==
  /\ \A k \in Kaboodles, p \in Peers :
       known_peers[k][p].identity \in {Identity[p], NoIdentity}
  /\ \A m \in Carried :
       /\ m.type # "Failed" => m.identity = Identity[m.src]
       /\ m.type = "KnownPeers" =>
            \A p \in Peers : m.peers[p] \in {Identity[p], NoIdentity}

\* p has ended and what is left of it is stale: nobody has heard from it lately,
\* nothing it sent is in flight, and no reply to a KnownPeersRequest lists it.
Stale(p) ==
  /\ status[p] = "gone"
  /\ \A k \in Kaboodles : known_peers[k][p].state # "Known"
  /\ \A m \in net :
       /\ m.src = p => m.type = "Failed"
       /\ m.type = "KnownPeers" /\ m.why = "KnownPeersRequest" => m.peers[p] = NoIdentity

\* A vanished peer that has become stale stays so: hearsay never makes it fresh
\* again, hence it is never again listed in a reply to a KnownPeersRequest
\* ("now-vanished peers don't get propagated around via KnownPeersRequest messages
\* indefinitely", handle_incoming_messages).
StaleStaysStale == [][\A p \in Peers : Stale(p) => Stale(p)']_vars

\* p has ended, no table has it, and no datagram can bring it back.
Forgotten(p) ==
  /\ status[p] = "gone"
  /\ \A k \in Kaboodles : known_peers[k][p] = Absent
  /\ \A m \in net : m.src = p => m.type = "Failed"
  /\ \A m \in Carried : m.type = "KnownPeers" => m.peers[p] = NoIdentity

\* Once the mesh has forgotten a vanished peer it never comes back, although late
\* PingRequests, forwarded Acks, fingerprints and Failed messages about it may
\* still be in flight and sessions may still be curious about it.
ForgottenForGood == [][\A p \in Peers : Forgotten(p) => Forgotten(p)']_vars

\* No session runs that is left with at most one entry in its table, so that none
\* broadcasts its Join again.
NobodyAlone == \A n \in Peers : status[n] = "up" => Size(Table(n)) > 1

\* From the time on that nobody is left alone any more, sessions that have ended are
\* eventually gone from every table, for good: the failure detector is complete, in
\* spite of lost datagrams, of hearsay about the dead and of repeated Joins before, whose
\* answers list the dead as well.
DeadEventuallyForgotten ==
  <>[]NobodyAlone =>
    <>[](\A n, p \in Peers :
           status[n] = "up" /\ status[p] = "gone" => Table(n)[p] = Absent)

\* While a Kaboodle runs, it drops a peer only after both the direct and the indirect
\* ping of a session went unanswered, or after the direct one if there was no helper
\* to ask (handle_suspected_peers), or because a ping could not be sent at all
\* (ping_random_peer), or because it is its own address and is stopped.  In particular no
\* Failed message drops it.
RemovedAfterTimeouts ==
  [][\A k \in Kaboodles, p \in Peers :
       known_peers[k][p] # Absent /\ known_peers'[k][p] = Absent
       => LET st == known_peers[k][p].state
          IN  \/ st = "WaitingForIndirectPing"
              \/ /\ st = "WaitingForPing"
                 /\ \E n \in Sessions(k) : NonSuspected(n, known_peers[k]) = {}
              \/ \E n \in Sessions(k) : pc[n] = "unsent" /\ Ping(n, p) \in hand[n]
              \/ Owner[p] = k /\ status[p] = "up" /\ status'[p] = "stopping"
              \/ \A n \in Sessions(k) : status'[n] \in {"down", "gone"}]_vars

\* A suspicion stands until the Kaboodle hears from the suspect itself: no listing by
\* others who have not noticed yet, no late answer to a Join and no session that overlaps
\* with it on the table takes it back, so that sessions cannot keep a dead peer alive by
\* telling each other of it (handle_incoming_messages).
SuspicionStands ==
  [][\A k \in Kaboodles, p \in Peers :
       /\ known_peers[k][p].state \in WaitingStates
       /\ known_peers'[k][p].state \in KnownStates
       => \E m \in net : m.src = p /\ Owner[m.to] = k /\ m.type # "Failed"]_vars

\* What the comment in handle_suspected_peers promises: "if any peer ACKs, mark P
\* as up".  P, the peer the Ack is about, is waiting for indirect pings.
AckMarksUp ==
  [][\A n \in Peers : \A m \in InHand(n, "Ack") :
       HandleAck(n) /\ Table(n)[m.peer].state = "WaitingForIndirectPing"
       => Table(n)'[m.peer].state \in KnownStates]_vars

\* What the log line of handle_incoming_broadcasts says: a Failed message is ignored
\* only "because sender is not a mesh member".
FailedHeeded ==
  [][\A m \in net :
       HandleFailed(m) /\ m.peer # m.to /\ Table(m.to)[m.src] # Absent
       => Table(m.to)'[m.peer] = Absent]_vars

\* What the changelog says of 0.1.4: no message is too big for its receiver.
EveryDatagramFits == \A m \in net : Decodes(m)
=============================================================================
