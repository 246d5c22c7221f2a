----------------------------- MODULE SwimProofs -----------------------------
(***************************************************************************)
(* Proofs about Swim, for every set of sessions, every network (lossy or   *)
(* not, duplicating or not) and every value of the bounds.                 *)
(***************************************************************************)
EXTENDS Swim, FiniteSetTheorems, TLAPS

-----------------------------------------------------------------------------
\* Facts about the operators.

\* What a session receives next is in flight now, or was sent in this step.
LEMMA NetAfter ==
  ASSUME NEW used, NEW out, used \subseteq net, Transmit(used, out)
  PROVE  net' \subseteq net \cup out
BY DEF Transmit

\* The number of entries of a table, which datagrams carry, is a number.
LEMMA SizeType ==
  ASSUME NEW tbl
  PROVE  Size(tbl) \in Nat
<1>1. Members(tbl) \subseteq Peers
  BY DEF Members
<1>2. IsFiniteSet(Members(tbl))
  BY <1>1, PeersAssumption, FS_Subset
<1> QED
  BY <1>2, FS_CardinalityType DEF Size

\* An entry in one of the four states is there, and has an identity.
LEMMA EntryType ==
  ASSUME NEW e \in PeerInfo \cup {Absent}
  PROVE  /\ e.identity \in Identities \cup {NoIdentity}
         /\ e.state \in KnownStates \cup WaitingStates \cup {"Absent"}
         /\ e.state # "Absent" => e \in PeerInfo
         /\ e # Absent => e \in PeerInfo
BY DEF PeerInfo, Absent

\* What a KnownPeers datagram lists is a view.
LEMMA ListingType ==
  ASSUME NEW tbl \in Tables, NEW S
  PROVE  Listing(tbl, S) \in Views
BY EntryType DEF Listing, Tables, Views

\* So is what a fingerprint stands for.
LEMMA FingerprintType ==
  ASSUME NEW tbl \in Tables
  PROVE  generate_fingerprint(tbl) \in Views
BY EntryType DEF generate_fingerprint, Tables, Views

\* The helpers are peers that are not suspected.
LEMMA HelpersUnsuspected ==
  ASSUME NEW n, NEW tbl, NEW h \in Helpers(n, tbl)
  PROVE  h \subseteq NonSuspected(n, tbl)
BY DEF Helpers, kSubset

\* Every datagram has a sender and a receiver, and the fields of its type.
LEMMA Fields ==
  ASSUME NEW m \in Datagrams
  PROVE  /\ m.src \in Peers /\ m.to \in Peers
         /\ m.type # "Failed" => m.identity \in Identities
         /\ m.type \in {"PingRequest", "Ack", "Failed"} => m.peer \in Peers
         /\ m.type \in {"Ack", "KnownPeersRequest"} =>
              m.mesh_fingerprint \in Views /\ m.num_peers \in Nat
         /\ m.type = "KnownPeers" =>
              m.peers \in Views /\ m.why \in {"Join", "KnownPeersRequest"}
BY DEF Datagrams

-----------------------------------------------------------------------------
\* Types.

LEMMA AfterHearingType ==
  ASSUME NEW tbl \in Tables, NEW m \in Datagrams, m.type # "Failed"
  PROVE  AfterHearing(tbl, m) \in Tables
BY Fields DEF AfterHearing, Tables, Info, PeerInfo, KnownStates

LEMMA AfterTimeoutsType ==
  ASSUME NEW n, NEW tbl \in Tables, NEW expired, expired \subseteq Waiting(tbl)
  PROVE  AfterTimeouts(n, tbl, expired) \in Tables
<1> SUFFICES ASSUME NEW p \in Peers
             PROVE  AfterTimeouts(n, tbl, expired)[p] \in PeerInfo \cup {Absent}
  BY DEF AfterTimeouts, Tables
<1>1. tbl[p] \in PeerInfo \cup {Absent}
  BY DEF Tables
<1>2. p \in IndirectlyPinged(n, tbl, expired) => tbl[p] \in PeerInfo
  BY <1>1, EntryType DEF IndirectlyPinged
<1> QED
  BY <1>1, <1>2 DEF AfterTimeouts, Info, PeerInfo, WaitingStates

LEMMA AfterKnownPeersType ==
  ASSUME NEW tbl \in Tables, NEW view \in Views
  PROVE  AfterKnownPeers(tbl, view) \in Tables
BY DEF AfterKnownPeers, Tables, Views, Listed, Info, PeerInfo, KnownStates

LEMMA AfterFailedType ==
  ASSUME NEW n, NEW tbl \in Tables, NEW m
  PROVE  AfterFailed(n, tbl, m) \in Tables
BY DEF AfterFailed, Tables

\* What the code sends are the messages of structs.rs.
LEMMA Messages ==
  ASSUME NEW n \in Peers, NEW to \in Peers
  PROVE  /\ Ping(n, to) \in Datagrams /\ Join(n, to) \in Datagrams
         /\ \A peer \in Peers :
              PingRequest(n, to, peer) \in Datagrams /\ Failed(n, to, peer) \in Datagrams
         /\ \A peer \in Peers, fp \in Views, num \in Nat :
              Ack(n, to, peer, fp, num) \in Datagrams
         /\ \A fp \in Views, num \in Nat : KnownPeersRequest(n, to, fp, num) \in Datagrams
         /\ \A view \in Views, why \in {"Join", "KnownPeersRequest"} :
              KnownPeers(n, to, view, why) \in Datagrams
<1> Identity[n] \in Identities
  BY DEF Identities
<1>1. Ping(n, to) \in Datagrams /\ Join(n, to) \in Datagrams
  BY DEF Ping, Join, Datagrams
<1>2. \A peer \in Peers :
        PingRequest(n, to, peer) \in Datagrams /\ Failed(n, to, peer) \in Datagrams
  BY DEF PingRequest, Failed, Datagrams
<1>3. \A peer \in Peers, fp \in Views, num \in Nat :
        Ack(n, to, peer, fp, num) \in Datagrams
  BY DEF Ack, Datagrams
<1>4. \A fp \in Views, num \in Nat : KnownPeersRequest(n, to, fp, num) \in Datagrams
  BY DEF KnownPeersRequest, Datagrams
<1>5. \A view \in Views, why \in {"Join", "KnownPeersRequest"} :
        KnownPeers(n, to, view, why) \in Datagrams
  BY DEF KnownPeers, Datagrams
<1> QED
  BY <1>1, <1>2, <1>3, <1>4, <1>5

\* What a session sends at once is made of messages.
LEMMA TickMessages ==
  ASSUME TypeOK, NEW n \in Peers
  PROVE  /\ \A elapsed \in BOOLEAN : Broadcasts(n, elapsed) \subseteq Datagrams
         /\ \A removed \in SUBSET Peers : BroadcastFailed(n, removed) \subseteq Datagrams
         /\ \A S \in SUBSET Peers : \A ask \in [S -> Helpers(n, Table(n))] :
              AskHelpers(n, ask) \subseteq Datagrams
<1>1. \A elapsed \in BOOLEAN : Broadcasts(n, elapsed) \subseteq Datagrams
  BY Messages DEF Broadcasts
<1>2. \A removed \in SUBSET Peers : BroadcastFailed(n, removed) \subseteq Datagrams
  BY Messages DEF BroadcastFailed
<1>3. ASSUME NEW S \in SUBSET Peers, NEW ask \in [S -> Helpers(n, Table(n))]
      PROVE  AskHelpers(n, ask) \subseteq Datagrams
  <2>1. \A p \in S : ask[p] \subseteq Peers
    BY HelpersUnsuspected DEF NonSuspected
  <2> QED
    BY <2>1, Messages DEF AskHelpers
<1> QED
  BY <1>1, <1>2, <1>3

\* A tick keeps the types.
LEMMA TickTypes ==
  ASSUME TypeOK, NEW n \in Peers, Tick(n)
  PROVE  TypeOK'
<1> USE DEF TypeOK
<1>0. Owner[n] \in Kaboodles /\ Table(n) \in Tables
  BY OwnerAssumption DEF Table
<1>1. CASE BeginTick(n)
  BY <1>1 DEF BeginTick, Goes, Places, handleVars
<1>2. CASE MaybeBroadcastJoin(n)
  <2>1. net' \subseteq Datagrams
    BY <1>2, TickMessages, NetAfter DEF MaybeBroadcastJoin
  <2> QED
    BY <1>2, <2>1 DEF MaybeBroadcastJoin, Goes, Places, handleVars
<1>3. ASSUME NEW expired \in SUBSET Waiting(Table(n)), HandleSuspectedPeers(n, expired)
      PROVE  TypeOK'
  <2> DEFINE removed == Removed(n, Table(n), expired)
             S == IndirectlyPinged(n, Table(n), expired)
  <2>1. removed \in SUBSET Peers /\ S \in SUBSET Peers
    BY DEF Removed, IndirectlyPinged, Waiting
  <2>2. AfterTimeouts(n, Table(n), expired) \in Tables
    BY <1>0, AfterTimeoutsType
  <2>3. known_peers' \in [Kaboodles -> Tables]
    BY <1>0, <1>3, <2>2 DEF HandleSuspectedPeers, Table
  <2>4. PICK ask \in [S -> Helpers(n, Table(n))] :
          Transmit({}, AskHelpers(n, ask) \cup BroadcastFailed(n, removed))
    BY <1>3 DEF HandleSuspectedPeers
  <2>5. AskHelpers(n, ask) \cup BroadcastFailed(n, removed) \subseteq Datagrams
    <3> HIDE DEF S, removed
    <3> QED
      BY <2>1, <2>4, TickMessages
  <2>6. net' \subseteq Datagrams
    BY <2>4, <2>5, NetAfter
  <2> QED
    BY <1>3, <2>3, <2>6 DEF HandleSuspectedPeers, Goes, Places, handleVars
<1>4. ASSUME NEW target \in Peers, PingRandomPeer(n, target)
      PROVE  TypeOK'
  <2>1. Table(n)[target] \in PeerInfo
    BY <1>0, <1>4, EntryType
       DEF PingRandomPeer, PingCandidates, NonSuspected, Tables, KnownStates
  <2>2. [Table(n)[target] EXCEPT !.state = "WaitingForPing"] \in PeerInfo
    BY <2>1 DEF PeerInfo, WaitingStates
  <2>3. known_peers' \in [Kaboodles -> Tables]
    BY <1>0, <1>4, <2>2 DEF PingRandomPeer, Table, Tables
  <2>4. Ping(n, target) \in Datagrams
    BY Messages
  <2>5. net' \subseteq Datagrams
    <3>1. Transmit({}, {Ping(n, target)}) \/ net' = net
      BY <1>4 DEF PingRandomPeer
    <3>2. {Ping(n, target)} \subseteq Datagrams
      BY <2>4
    <3>3. CASE Transmit({}, {Ping(n, target)})
      BY <3>2, <3>3, NetAfter
    <3> QED
      BY <3>1, <3>3
  <2>6. hand' \in [Peers -> SUBSET Datagrams]
    <3>1. hand' = hand \/ hand' = [hand EXCEPT ![n] = {Ping(n, target)}]
      BY <1>4 DEF PingRandomPeer
    <3>2. CASE hand' = [hand EXCEPT ![n] = {Ping(n, target)}]
      BY <2>4, <3>2
    <3> QED
      BY <3>1, <3>2
  <2> QED
    BY <1>4, <2>3, <2>5, <2>6 DEF PingRandomPeer, Goes, Places, handleVars
<1>5. CASE NobodyToPing(n)
  BY <1>5 DEF NobodyToPing, Goes, Places, handleVars
<1>6. CASE GiveUpUnsent(n)
  <2>1. [p \in Peers |-> IF Ping(n, p) \in hand[n] THEN Absent ELSE Table(n)[p]] \in Tables
    BY <1>0 DEF Tables
  <2>2. known_peers' \in [Kaboodles -> Tables]
    BY <1>0, <1>6, <2>1 DEF GiveUpUnsent, Table
  <2> QED
    BY <1>6, <2>2 DEF GiveUpUnsent, Goes, Places, handleVars
<1>7. CASE HandleIncomingPingRequests(n)
  <2>1. {Ping(n, p) : p \in ping_requests[n]} \subseteq Datagrams
    BY Messages
  <2>2. net' \subseteq Datagrams
    BY <1>7, <2>1, NetAfter DEF HandleIncomingPingRequests
  <2> QED
    BY <1>7, <2>2 DEF HandleIncomingPingRequests, Goes, Places, handleVars
<1> QED
  BY <1>1, <1>2, <1>3, <1>4, <1>5, <1>6, <1>7 DEF Tick

\* So does the receipt of a datagram.
LEMMA ReceiveTypes ==
  ASSUME TypeOK, NEW m \in net, Receive(m)
  PROVE  TypeOK'
<1> USE DEF TypeOK
<1> DEFINE n == m.to
<1>0. m \in Datagrams /\ n \in Peers /\ m.src \in Peers /\ Owner[n] \in Kaboodles
      /\ Table(n) \in Tables
  BY Fields, OwnerAssumption DEF Table
<1>1. CASE HandleFailed(m)
  BY <1>0, <1>1, AfterFailedType, NetAfter DEF HandleFailed, Table, handleVars
<1>2. CASE HandleJoin(m)
  <2>1. [Table(n) EXCEPT ![m.src] = Info(m.identity, "Known")] \in Tables
    BY <1>0, <1>2, AfterHearingType DEF HandleJoin, Arrived, AfterHearing
  <2>2. known_peers' \in [Kaboodles -> Tables]
    BY <1>0, <1>2, <2>1 DEF HandleJoin, Table
  <2>3. net' \subseteq Datagrams
    BY <1>2, NetAfter DEF HandleJoin
  <2>4. /\ \/ pc' = pc /\ hand' = hand
           \/ pc' = [pc EXCEPT ![n] = "handle"] /\ hand' = [hand EXCEPT ![n] = {m}]
        /\ UNCHANGED <<status, alone, ping_request_tx, curious_peers, ticks, ping_requests>>
    BY <1>2 DEF HandleJoin, Goes, handleVars
  <2>5. pc' \in [Peers -> Places] /\ hand' \in [Peers -> SUBSET Datagrams]
    <3>1. {m} \in SUBSET Datagrams
      BY <1>0
    <3>2. CASE pc' = [pc EXCEPT ![n] = "handle"] /\ hand' = [hand EXCEPT ![n] = {m}]
      BY <3>1, <3>2 DEF Places
    <3> QED
      BY <2>4, <3>2
  <2> QED
    BY <2>2, <2>3, <2>4, <2>5
<1>3. CASE Hear(m)
  <2>1. m.type # "Failed"
    BY <1>3 DEF Hear, Arrived, UnicastTypes
  <2>2. known_peers' \in [Kaboodles -> Tables]
    BY <1>0, <1>3, <2>1, AfterHearingType DEF Hear, Table
  <2>3. net' \subseteq Datagrams
    BY <1>3, NetAfter DEF Hear
  <2> QED
    BY <1>0, <1>3, <2>2, <2>3 DEF Hear, Goes, Places, handleVars
<1>4. CASE SkipUndecodable(m)
  BY <1>4, NetAfter DEF SkipUndecodable, handleVars
<1> QED
  BY <1>1, <1>2, <1>3, <1>4 DEF Receive

\* So does what a session does with the message in its hand.
LEMMA HandleTypes ==
  ASSUME TypeOK, NEW n \in Peers, Handle(n)
  PROVE  TypeOK'
<1> USE DEF TypeOK
<1>0. Owner[n] \in Kaboodles /\ Table(n) \in Tables /\ hand[n] \subseteq Datagrams
  BY OwnerAssumption DEF Table
<1>1. CASE AnswerJoin(n)
  <2>1. PICK m \in hand[n] : \E reply \in JoinReplies(n, Table(n), m.src) :
          Transmit({}, {reply}) \/ Transmit({}, {})
    BY <1>1 DEF AnswerJoin, InHand
  <2>2. m.src \in Peers
    BY <1>0, <2>1, Fields
  <2>3. JoinReplies(n, Table(n), m.src) \subseteq Datagrams
    BY <1>0, <2>2, ListingType, Messages DEF JoinReplies
  <2>4. net' \subseteq Datagrams
    BY <2>1, <2>3, NetAfter
  <2> QED
    BY <1>1, <2>4 DEF AnswerJoin, Done, Goes, Places, handleVars
<1>2. CASE HandlePing(n)
  <2>1. PICK m \in hand[n] :
          Transmit({}, {Ack(n, m.src, n, generate_fingerprint(Table(n)), Size(Table(n)))})
    BY <1>2 DEF HandlePing, InHand
  <2>2. {Ack(n, m.src, n, generate_fingerprint(Table(n)), Size(Table(n)))} \subseteq Datagrams
    BY <1>0, <2>1, Fields, Messages, SizeType, FingerprintType
  <2>3. net' \subseteq Datagrams
    BY <2>1, <2>2, NetAfter
  <2> QED
    BY <1>2, <2>3 DEF HandlePing, Done, Goes, Places, handleVars
<1>3. CASE HandlePingRequest(n)
  <2>1. PICK m \in hand[n] :
          /\ m.type = "PingRequest"
          /\ curious_peers' = [curious_peers EXCEPT ![n][m.peer] = @ \cup {m.src}]
          /\ Transmit({}, {Ping(n, m.peer)})
    BY <1>3 DEF HandlePingRequest, InHand
  <2>2. m.src \in Peers /\ m.peer \in Peers
    BY <1>0, <2>1, Fields
  <2>3. {Ping(n, m.peer)} \subseteq Datagrams
    BY <2>2, Messages
  <2>4. net' \subseteq Datagrams
    BY <2>1, <2>3, NetAfter
  <2>5. curious_peers' \in [Peers -> [Peers -> SUBSET Peers]]
    BY <2>1, <2>2
  <2> QED
    BY <1>3, <2>4, <2>5 DEF HandlePingRequest, Done, Goes, Places, handleVars
<1>4. CASE HandleAck(n)
  <2>1. PICK m \in hand[n] :
          /\ m.type = "Ack"
          /\ curious_peers' = [curious_peers EXCEPT ![n][m.peer] = {}]
          /\ Transmit({}, {Ack(n, o, m.peer, m.mesh_fingerprint, m.num_peers) :
                             o \in curious_peers[n][m.peer]})
    BY <1>4 DEF HandleAck, InHand
  <2>2. m.peer \in Peers /\ m.mesh_fingerprint \in Views /\ m.num_peers \in Nat
    BY <1>0, <2>1, Fields
  <2>3. {Ack(n, o, m.peer, m.mesh_fingerprint, m.num_peers) :
           o \in curious_peers[n][m.peer]} \subseteq Datagrams
    BY <2>2, Messages
  <2>4. net' \subseteq Datagrams
    BY <2>1, <2>3, NetAfter
  <2>5. curious_peers' \in [Peers -> [Peers -> SUBSET Peers]]
    BY <2>1, <2>2
  <2> QED
    BY <1>4, <2>4, <2>5 DEF HandleAck, Goes, Places, handleVars
<1>5. CASE HandleKnownPeers(n)
  <2>1. PICK m \in hand[n] :
          /\ m.type = "KnownPeers"
          /\ known_peers' = [known_peers EXCEPT ![Owner[n]] = AfterKnownPeers(@, m.peers)]
    BY <1>5 DEF HandleKnownPeers, InHand
  <2>2. m.peers \in Views
    BY <1>0, <2>1, Fields
  <2>3. known_peers' \in [Kaboodles -> Tables]
    BY <1>0, <2>1, <2>2, AfterKnownPeersType DEF Table
  <2> QED
    BY <1>5, <2>3 DEF HandleKnownPeers, Done, Goes, Places, handleVars
<1>6. CASE HandleKnownPeersRequest(n)
  <2> DEFINE shared(m) == Listing(Table(n), Shareable(n, Table(n), m.src))
  <2>1. PICK m \in hand[n] : Transmit({}, {KnownPeers(n, m.src, shared(m), "KnownPeersRequest")})
    BY <1>6 DEF HandleKnownPeersRequest, InHand
  <2>2. m.src \in Peers /\ shared(m) \in Views
    BY <1>0, <2>1, Fields, ListingType
  <2>3. net' \subseteq Datagrams
    BY <2>1, <2>2, Messages, NetAfter
  <2> QED
    BY <1>6, <2>3 DEF HandleKnownPeersRequest, Goes, Places, handleVars
<1>7. CASE MaybeSyncKnownPeers(n)
  <2> DEFINE asked(m) == KnownPeersRequest(n, Partner(m), generate_fingerprint(Table(n)),
                                           Size(Table(n)))
  <2>1. PICK m \in hand[n] : Transmit({}, {}) \/ Transmit({}, {asked(m)})
    BY <1>7 DEF MaybeSyncKnownPeers
  <2>2. Partner(m) \in Peers
    BY <1>0, <2>1, Fields DEF Partner
  <2>3. asked(m) \in Datagrams
    BY <1>0, <2>2, Messages, SizeType, FingerprintType
  <2>4. net' \subseteq Datagrams
    BY <2>1, <2>3, NetAfter
  <2> QED
    BY <1>7, <2>4 DEF MaybeSyncKnownPeers, Goes, Places, handleVars
<1>8. CASE CutShort(n)
  BY <1>8 DEF CutShort, Goes, Places, handleVars
<1> QED
  BY <1>1, <1>2, <1>3, <1>4, <1>5, <1>6, <1>7, <1>8 DEF Handle

\* And so does every step.
LEMMA TypeStep ==
  ASSUME TypeOK, [Next]_vars
  PROVE  TypeOK'
<1> USE DEF TypeOK, Statuses
<1>1. ASSUME NEW n \in Peers, Start(n) \/ StartFails(n)
      PROVE  TypeOK'
  <2>1. Info(Identity[n], "Known") \in PeerInfo /\ Owner[n] \in Kaboodles
    BY OwnerAssumption DEF Info, PeerInfo, Identities, KnownStates
  <2>2. AfterStart(n) \in [Kaboodles -> Tables]
    BY <2>1 DEF AfterStart, Tables
  <2>3. CASE Start(n)
    BY <2>1, <2>2, <2>3 DEF Start
  <2>4. CASE StartFails(n)
    BY <2>2, <2>4 DEF StartFails
  <2> QED
    BY <1>1, <2>3, <2>4
<1>2. ASSUME NEW n \in Peers, StopRemove(n)
      PROVE  TypeOK'
  <2>1. known_peers' \in [Kaboodles -> Tables]
    BY <1>2, OwnerAssumption DEF StopRemove, Tables
  <2> QED
    BY <1>2, <2>1 DEF StopRemove
<1>3. ASSUME NEW n \in Peers, StopCancel(n)
      PROVE  TypeOK'
  BY <1>3 DEF StopCancel
<1>4. ASSUME NEW s, End(s)
      PROVE  /\ alone' \subseteq Peers /\ status' \in [Peers -> Statuses]
             /\ pc' \in [Peers -> Places] /\ hand' \in [Peers -> SUBSET Datagrams]
             /\ curious_peers' \in [Peers -> [Peers -> SUBSET Peers]]
             /\ ticks' \in [Peers -> Nat] /\ ping_requests' \in [Peers -> SUBSET Peers]
             /\ net' \subseteq Datagrams
  <2>1. NobodyCurious \in [Peers -> SUBSET Peers]
    BY DEF NobodyCurious
  <2> QED
    BY <1>4, <2>1 DEF End, Places
<1>5. ASSUME NEW n \in Peers, LeaveMesh(n)
      PROVE  TypeOK'
  BY <1>4, <1>5 DEF LeaveMesh
<1>6. ASSUME NEW k \in Kaboodles, Crash(k)
      PROVE  TypeOK'
  <2>1. known_peers' \in [Kaboodles -> Tables]
    BY <1>6 DEF Crash, NoTable, Tables
  <2>2. ping_request_tx' \in [Kaboodles -> Peers \cup {NoSession}]
    BY <1>6 DEF Crash
  <2> QED
    BY <1>4, <1>6, <2>1, <2>2 DEF Crash
<1>7. ASSUME NEW k \in Kaboodles, NEW p \in Peers, PingAddrs(k, p)
      PROVE  TypeOK'
  BY <1>7 DEF PingAddrs, handleVars
<1>8. ASSUME NEW k \in Kaboodles, NEW p \in Peers, GrowOld(k, p)
      PROVE  TypeOK'
  <2>1. known_peers[k][p] \in PeerInfo
    BY <1>8, EntryType DEF GrowOld, Tables
  <2>2. [known_peers[k][p] EXCEPT !.state = "KnownOld"] \in PeerInfo
    BY <2>1 DEF PeerInfo, KnownStates
  <2> QED
    BY <1>8, <2>2 DEF GrowOld, Tables, handleVars
<1>9. CASE UNCHANGED vars
  BY <1>9 DEF vars
<1> QED
  BY <1>1, <1>2, <1>3, <1>5, <1>6, <1>7, <1>8, <1>9, TickTypes, HandleTypes, ReceiveTypes
     DEF Next

LEMMA TypeInit == Init => TypeOK
BY DEF Init, TypeOK, Statuses, Places, NoTable, NobodyCurious, Tables

\* Type correctness: whatever the network does, tables hold PeerInfos and the
\* network the messages of structs.rs.
THEOREM TypeCorrect == Spec => []TypeOK
BY TypeInit, TypeStep, PTL DEF Spec

-----------------------------------------------------------------------------
\* What one step does: to the network, to the messages in hand, to the status of a
\* session and to the entries of a table.

\* What n may send on account of the message in its hand.
Answers(n, x) ==
  \/ \E m \in InHand(n, "PingRequest") : x = Ping(n, m.peer)
  \/ \E m \in InHand(n, "Ping") : \E fp, num : x = Ack(n, m.src, n, fp, num)
  \/ \E m \in InHand(n, "Ack") : \E o \in curious_peers[n][m.peer] : \E fp, num :
       x = Ack(n, o, m.peer, fp, num)
  \/ \E m \in InHand(n, "Join"), S \in SUBSET Peers :
       x = KnownPeers(n, m.src, Listing(Table(n), S), "Join")
  \/ \E m \in InHand(n, "KnownPeersRequest") :
       x = KnownPeers(n, m.src, Listing(Table(n), Shareable(n, Table(n), m.src)),
                      "KnownPeersRequest")
  \/ \E m \in hand[n] : \E fp, num : x = KnownPeersRequest(n, Partner(m), fp, num)

\* What n may send now.
Sends(n, x) ==
  \/ \E to \in Peers : x = Join(n, to)
  \/ \E to, peer \in Peers : x = Failed(n, to, peer)
  \/ \E to \in NonSuspected(n, Table(n)) : x = Ping(n, to)
  \/ \E to \in ping_requests[n] : x = Ping(n, to)
  \/ \E to \in NonSuspected(n, Table(n)), peer \in Waiting(Table(n)) :
       x = PingRequest(n, to, peer)
  \/ pc[n] \in {"handle", "sync"} /\ Answers(n, x)

\* What is new in the network has been sent, and its receiver runs.
LEMMA Delivered ==
  ASSUME NEW used, NEW out, Transmit(used, out), NEW x \in net', used \subseteq net, x \notin net
  PROVE  x \in out /\ Running(x.to)
BY DEF Transmit

LEMMA TickSends ==
  ASSUME TypeOK, NEW n \in Peers, Tick(n), NEW x \in net', x \notin net
  PROVE  Running(n) /\ Sends(n, x) /\ Running(x.to)
<1>1. CASE BeginTick(n) \/ NobodyToPing(n) \/ GiveUpUnsent(n)
  BY <1>1 DEF BeginTick, NobodyToPing, GiveUpUnsent
<1>2. CASE MaybeBroadcastJoin(n)
  <2>1. PICK elapsed \in BOOLEAN : Transmit({}, Broadcasts(n, elapsed))
    BY <1>2 DEF MaybeBroadcastJoin
  <2>2. x \in Broadcasts(n, elapsed) /\ Running(x.to)
    BY <2>1, Delivered
  <2> QED
    BY <1>2, <2>2 DEF MaybeBroadcastJoin, Goes, Broadcasts, Sends
<1>3. ASSUME NEW expired \in SUBSET Waiting(Table(n)), HandleSuspectedPeers(n, expired)
      PROVE  Running(n) /\ Sends(n, x) /\ Running(x.to)
  <2> DEFINE S == IndirectlyPinged(n, Table(n), expired)
             removed == Removed(n, Table(n), expired)
  <2>1. PICK ask \in [S -> Helpers(n, Table(n))] :
          Transmit({}, AskHelpers(n, ask) \cup BroadcastFailed(n, removed))
    BY <1>3 DEF HandleSuspectedPeers
  <2>2. x \in AskHelpers(n, ask) \cup BroadcastFailed(n, removed) /\ Running(x.to)
    <3> HIDE DEF S, removed
    <3> QED
      BY <2>1, Delivered
  <2>3. CASE x \in AskHelpers(n, ask)
    <3>1. PICK p \in S : \E h \in ask[p] : x = PingRequest(n, h, p)
      BY <2>3 DEF AskHelpers
    <3>2. PICK h \in ask[p] : x = PingRequest(n, h, p)
      BY <3>1
    <3>3. p \in Waiting(Table(n)) /\ h \in NonSuspected(n, Table(n))
      BY <3>2, HelpersUnsuspected DEF IndirectlyPinged
    <3> QED
      BY <1>3, <2>2, <3>2, <3>3 DEF HandleSuspectedPeers, Goes, Sends
  <2>4. CASE x \in BroadcastFailed(n, removed)
    <3>1. removed \subseteq Peers
      BY DEF Removed, Waiting
    <3> QED
      BY <1>3, <2>2, <2>4, <3>1 DEF HandleSuspectedPeers, Goes, Sends, BroadcastFailed
  <2> QED
    BY <2>2, <2>3, <2>4
<1>4. ASSUME NEW target \in Peers, PingRandomPeer(n, target)
      PROVE  Running(n) /\ Sends(n, x) /\ Running(x.to)
  <2>1. Transmit({}, {Ping(n, target)}) /\ Running(n) /\ target \in NonSuspected(n, Table(n))
    BY <1>4 DEF PingRandomPeer, PingCandidates, Goes
  <2>2. x \in {Ping(n, target)} /\ Running(x.to)
    BY <2>1, Delivered
  <2> QED
    BY <2>1, <2>2 DEF Sends
<1>5. CASE HandleIncomingPingRequests(n)
  <2>1. Transmit({}, {Ping(n, p) : p \in ping_requests[n]}) /\ Running(n)
    BY <1>5 DEF HandleIncomingPingRequests, Goes
  <2>2. x \in {Ping(n, p) : p \in ping_requests[n]} /\ Running(x.to)
    BY <2>1, Delivered
  <2> QED
    BY <2>1, <2>2 DEF Sends
<1> QED
  BY <1>1, <1>2, <1>3, <1>4, <1>5 DEF Tick

LEMMA HandleSends ==
  ASSUME TypeOK, NEW n \in Peers, Handle(n), NEW x \in net', x \notin net
  PROVE  Running(n) /\ Sends(n, x) /\ Running(x.to)
<1>1. CASE AnswerJoin(n)
  <2>1. PICK m \in InHand(n, "Join") : \E reply \in JoinReplies(n, Table(n), m.src) :
          Transmit({}, {reply}) \/ Transmit({}, {})
    BY <1>1 DEF AnswerJoin
  <2>2. x \in JoinReplies(n, Table(n), m.src) /\ Running(x.to)
    BY <2>1, Delivered
  <2>3. PICK S \in SUBSET Peers : x = KnownPeers(n, m.src, Listing(Table(n), S), "Join")
    BY <2>2 DEF JoinReplies, Members
  <2> QED
    BY <1>1, <2>2, <2>3 DEF AnswerJoin, Done, Goes, Sends, Answers
<1>2. CASE HandlePing(n)
  <2>1. PICK m \in InHand(n, "Ping") :
          Transmit({}, {Ack(n, m.src, n, generate_fingerprint(Table(n)), Size(Table(n)))})
    BY <1>2 DEF HandlePing
  <2>2. x = Ack(n, m.src, n, generate_fingerprint(Table(n)), Size(Table(n))) /\ Running(x.to)
    BY <2>1, Delivered
  <2> QED
    BY <1>2, <2>2 DEF HandlePing, Done, Goes, Sends, Answers
<1>3. CASE HandlePingRequest(n)
  <2>1. PICK m \in InHand(n, "PingRequest") : Transmit({}, {Ping(n, m.peer)})
    BY <1>3 DEF HandlePingRequest
  <2>2. x = Ping(n, m.peer) /\ Running(x.to)
    BY <2>1, Delivered
  <2> QED
    BY <1>3, <2>2 DEF HandlePingRequest, Done, Goes, Sends, Answers
<1>4. CASE HandleAck(n)
  <2>1. PICK m \in InHand(n, "Ack") :
          Transmit({}, {Ack(n, o, m.peer, m.mesh_fingerprint, m.num_peers) :
                          o \in curious_peers[n][m.peer]})
    BY <1>4 DEF HandleAck
  <2>2. /\ x \in {Ack(n, o, m.peer, m.mesh_fingerprint, m.num_peers) :
                    o \in curious_peers[n][m.peer]}
        /\ Running(x.to)
    BY <2>1, Delivered
  <2> QED
    BY <1>4, <2>2 DEF HandleAck, Goes, Sends, Answers
<1>5. CASE HandleKnownPeersRequest(n)
  <2> DEFINE reply(m) == KnownPeers(n, m.src,
                           Listing(Table(n), Shareable(n, Table(n), m.src)), "KnownPeersRequest")
  <2>1. PICK m \in InHand(n, "KnownPeersRequest") : Transmit({}, {reply(m)})
    BY <1>5 DEF HandleKnownPeersRequest
  <2>2. x = reply(m) /\ Running(x.to)
    BY <2>1, Delivered
  <2> QED
    BY <1>5, <2>2 DEF HandleKnownPeersRequest, Goes, Sends, Answers
<1>6. CASE MaybeSyncKnownPeers(n)
  <2> DEFINE asked(m) == KnownPeersRequest(n, Partner(m), generate_fingerprint(Table(n)),
                                           Size(Table(n)))
  <2>1. PICK m \in hand[n] : Transmit({}, {}) \/ Transmit({}, {asked(m)})
    BY <1>6 DEF MaybeSyncKnownPeers
  <2>2. x = asked(m) /\ Running(x.to)
    BY <2>1, Delivered
  <2> QED
    BY <1>6, <2>2 DEF MaybeSyncKnownPeers, Goes, Sends, Answers
<1>7. CASE HandleKnownPeers(n) \/ CutShort(n)
  BY <1>7 DEF HandleKnownPeers, CutShort
<1> QED
  BY <1>1, <1>2, <1>3, <1>4, <1>5, <1>6, <1>7 DEF Handle

\* A new datagram comes from a running session, and goes to one.
LEMMA NewDatagrams ==
  ASSUME TypeOK, [Next]_vars, NEW x \in net', x \notin net
  PROVE  \E n \in Peers : Running(n) /\ Sends(n, x) /\ Running(x.to)
<1>1. ASSUME NEW n \in Peers, \/ Start(n) \/ StartFails(n) \/ StopRemove(n)
                              \/ StopCancel(n) \/ LeaveMesh(n)
      PROVE  FALSE
  BY <1>1 DEF Start, StartFails, StopRemove, StopCancel, LeaveMesh, End
<1>2. ASSUME NEW k \in Kaboodles, NEW p \in Peers, PingAddrs(k, p) \/ GrowOld(k, p)
      PROVE  FALSE
  BY <1>2 DEF PingAddrs, GrowOld
<1>3. ASSUME NEW m \in net, Receive(m)
      PROVE  FALSE
  <2>1. Transmit({m}, {})
    BY <1>3 DEF Receive, HandleFailed, HandleJoin, Hear, SkipUndecodable
  <2> QED
    BY <2>1, Delivered
<1>4. ASSUME NEW k \in Kaboodles, Crash(k)
      PROVE  FALSE
  BY <1>4 DEF Crash, End
<1> QED
  BY <1>1, <1>2, <1>3, <1>4, TickSends, HandleSends DEF Next, vars

\* A message comes into a session's hand from the network, addressed to it, and it
\* begins to handle it; or it is a ping that it could not send.
LEMMA NewInHand ==
  ASSUME TypeOK, [Next]_vars, NEW r \in Peers, NEW x \in hand'[r], x \notin hand[r]
  PROVE  /\ Running(r)
         /\ \/ /\ x \in net /\ x.to = r /\ pc'[r] = "handle"
               /\ x.type # "Failed" /\ (x.type = "Join" => x.src # r)
            \/ /\ pc'[r] = "unsent"
               /\ \E target \in NonSuspected(r, Table(r)) : x = Ping(r, target)
<1> DEFINE Goal == /\ Running(r)
                   /\ \/ /\ x \in net /\ x.to = r /\ pc'[r] = "handle"
                         /\ x.type # "Failed" /\ (x.type = "Join" => x.src # r)
                      \/ /\ pc'[r] = "unsent"
                         /\ \E target \in NonSuspected(r, Table(r)) : x = Ping(r, target)
<1>1. ASSUME NEW n \in Peers, \/ Start(n) \/ StartFails(n) \/ StopRemove(n)
                              \/ StopCancel(n) \/ LeaveMesh(n)
      PROVE  FALSE
  BY <1>1 DEF Start, StartFails, StopRemove, StopCancel, LeaveMesh, End
<1>2. ASSUME NEW k \in Kaboodles, Crash(k)
      PROVE  FALSE
  BY <1>2 DEF Crash, End
<1>3. ASSUME NEW k \in Kaboodles, NEW p \in Peers, PingAddrs(k, p) \/ GrowOld(k, p)
      PROVE  FALSE
  BY <1>3 DEF PingAddrs, GrowOld
<1>4. ASSUME NEW n \in Peers, Tick(n)
      PROVE  Goal
  <2>1. CASE \E target \in Peers : PingRandomPeer(n, target)
    <3>1. PICK target \in Peers : PingRandomPeer(n, target)
      BY <2>1
    <3>2. /\ Running(n) /\ target \in NonSuspected(n, Table(n))
          /\ \/ hand' = hand
             \/ /\ pc' = [pc EXCEPT ![n] = "unsent"]
                /\ hand' = [hand EXCEPT ![n] = {Ping(n, target)}]
      BY <3>1 DEF PingRandomPeer, PingCandidates, Goes
    <3> QED
      BY <3>2 DEF TypeOK
  <2>2. CASE ~\E target \in Peers : PingRandomPeer(n, target)
    <3>1. hand' = hand \/ hand' = [hand EXCEPT ![n] = {}]
      BY <1>4, <2>2 DEF Tick, BeginTick, MaybeBroadcastJoin, HandleSuspectedPeers,
           NobodyToPing, GiveUpUnsent, HandleIncomingPingRequests
    <3> QED
      BY <3>1 DEF TypeOK
  <2> QED
    BY <2>1, <2>2
<1>5. ASSUME NEW n \in Peers, Handle(n)
      PROVE  FALSE
  <2>1. hand' = hand \/ hand' = [hand EXCEPT ![n] = {}]
    BY <1>5 DEF Handle, AnswerJoin, HandlePing, HandlePingRequest, HandleAck, HandleKnownPeers,
         HandleKnownPeersRequest, MaybeSyncKnownPeers, CutShort, Done
  <2> QED
    BY <2>1 DEF TypeOK
<1>6. ASSUME NEW m \in net, Receive(m)
      PROVE  Goal
  <2>1. \/ hand' = hand
        \/ /\ Running(m.to) /\ pc' = [pc EXCEPT ![m.to] = "handle"]
           /\ hand' = [hand EXCEPT ![m.to] = {m}]
           /\ m.type # "Failed" /\ (m.type = "Join" => m.src # m.to)
    BY <1>6 DEF Receive, HandleFailed, HandleJoin, Hear, SkipUndecodable, Goes, Arrived,
         UnicastTypes
  <2> QED
    BY <2>1 DEF TypeOK
<1> QED
  BY <1>1, <1>2, <1>3, <1>4, <1>5, <1>6 DEF Next, vars

\* A session begins once and ends once.
LEMMA StatusSteps ==
  ASSUME TypeOK, [Next]_vars, NEW p \in Peers
  PROVE  /\ status[p] = "gone" => status'[p] = "gone"
         /\ status'[p] = "down" => status[p] = "down"
         /\ status[p] = "down" /\ status'[p] # "down" => status'[p] \in {"up", "gone"}
         /\ status'[p] = "up" => status[p] \in {"down", "up"}
<1>1. ASSUME NEW n \in Peers, \/ Start(n) \/ StartFails(n) \/ StopRemove(n)
                              \/ StopCancel(n) \/ LeaveMesh(n)
      PROVE  \/ status' = [status EXCEPT ![n] = "up"] /\ status[n] = "down"
             \/ status' = [status EXCEPT ![n] = "gone"] /\ status[n] \in {"down", "leaving"}
             \/ status' = [status EXCEPT ![n] = "stopping"] /\ status[n] = "up"
             \/ status' = [status EXCEPT ![n] = "leaving"] /\ status[n] = "stopping"
  <2>1. LeaveMesh(n) => status' = [status EXCEPT ![n] = "gone"]
    BY DEF LeaveMesh, End, TypeOK
  <2> QED
    BY <1>1, <2>1 DEF Start, StartFails, MayStart, StopRemove, StopCancel, LeaveMesh
<1>2. ASSUME NEW k \in Kaboodles, Crash(k)
      PROVE  status' = [n \in Peers |-> IF n \in Sessions(k) /\ Running(n) THEN "gone" ELSE status[n]]
  BY <1>2 DEF Crash, End, Sessions
<1>3. ASSUME NEW k \in Kaboodles, NEW q \in Peers, PingAddrs(k, q) \/ GrowOld(k, q)
      PROVE  status' = status
  BY <1>3 DEF PingAddrs, GrowOld, handleVars
<1>4. ASSUME NEW n \in Peers, Tick(n) \/ Handle(n)
      PROVE  status' = status
  BY <1>4 DEF Tick, BeginTick, MaybeBroadcastJoin, HandleSuspectedPeers, PingRandomPeer,
       NobodyToPing, GiveUpUnsent, HandleIncomingPingRequests, Handle, AnswerJoin, HandlePing,
       HandlePingRequest, HandleAck, HandleKnownPeers, HandleKnownPeersRequest,
       MaybeSyncKnownPeers, CutShort, handleVars
<1>5. ASSUME NEW m \in net, Receive(m)
      PROVE  status' = status
  BY <1>5 DEF Receive, HandleFailed, HandleJoin, Hear, SkipUndecodable, handleVars
<1> QED
  BY <1>1, <1>2, <1>3, <1>4, <1>5 DEF Next, vars, TypeOK, Running

\* What becomes of the table of k.
TableStep(k, tbl, new) ==
  \/ new = tbl
  \/ \E n \in Sessions(k), expired \in SUBSET Waiting(tbl) :
       Running(n) /\ new = AfterTimeouts(n, tbl, expired)
  \/ \E n \in Sessions(k) : \E target \in NonSuspected(n, tbl) :
       Running(n) /\ new = [tbl EXCEPT ![target].state = "WaitingForPing"]
  \/ \E n \in Sessions(k) :
       /\ Running(n) /\ pc[n] = "unsent"
       /\ new = [p \in Peers |-> IF Ping(n, p) \in hand[n] THEN Absent ELSE tbl[p]]
  \/ \E m \in net : m.to \in Sessions(k) /\ Running(m.to) /\ new = AfterFailed(m.to, tbl, m)
  \/ \E m \in net : m.to \in Sessions(k) /\ m.type # "Failed" /\ new = AfterHearing(tbl, m)
  \/ \E n \in Sessions(k) : \E m \in InHand(n, "KnownPeers") : new = AfterKnownPeers(tbl, m.peers)
  \/ \E n \in Sessions(k) : /\ status[n] = "down" /\ status'[n] # "down"
                            /\ new = [tbl EXCEPT ![n] = Info(Identity[n], "Known")]
  \/ \E n \in Sessions(k) : /\ status[n] = "up" /\ status'[n] = "stopping"
                            /\ new = [tbl EXCEPT ![n] = Absent]
  \/ new = NoTable /\ \A n \in Sessions(k) : ~Running(n)'
  \/ \E p \in Peers : /\ ~(Owner[p] = k /\ Sole(p)) /\ tbl[p].state = "Known"
                      /\ new = [tbl EXCEPT ![p].state = "KnownOld"]

LEMMA TableSteps ==
  ASSUME TypeOK, [Next]_vars, NEW k \in Kaboodles
  PROVE  TableStep(k, known_peers[k], known_peers'[k])
<1> DEFINE tbl == known_peers[k]
           new == known_peers'[k]
           Goal == TableStep(k, tbl, new)
<1>0. \A n \in Peers : Owner[n] \in Kaboodles /\ (Owner[n] = k => n \in Sessions(k))
  BY OwnerAssumption DEF Sessions
<1>1. ASSUME NEW n \in Peers, Start(n) \/ StartFails(n)
      PROVE  Goal
  <2>1. known_peers' = AfterStart(n) /\ status[n] = "down" /\ status'[n] # "down"
    BY <1>1 DEF Start, StartFails, MayStart, TypeOK
  <2>2. new = tbl \/ (Owner[n] = k /\ new = [tbl EXCEPT ![n] = Info(Identity[n], "Known")])
    BY <1>0, <2>1 DEF AfterStart, TypeOK
  <2> QED
    BY <1>0, <2>1, <2>2 DEF TableStep
<1>2. ASSUME NEW n \in Peers, StopRemove(n)
      PROVE  Goal
  <2>1. status[n] = "up" /\ status'[n] = "stopping"
    BY <1>2 DEF StopRemove, TypeOK
  <2>2. new = tbl \/ (Owner[n] = k /\ new = [tbl EXCEPT ![n] = Absent])
    BY <1>0, <1>2 DEF StopRemove, TypeOK
  <2> QED
    BY <1>0, <2>1, <2>2 DEF TableStep
<1>3. ASSUME NEW n \in Peers, StopCancel(n) \/ LeaveMesh(n)
      PROVE  Goal
  BY <1>3 DEF StopCancel, LeaveMesh, TableStep
<1>4. ASSUME NEW j \in Kaboodles, Crash(j)
      PROVE  Goal
  <2>1. new = tbl \/ (j = k /\ new = NoTable)
    BY <1>4 DEF Crash, TypeOK
  <2>2. \A n \in Sessions(j) : ~Running(n)'
    BY <1>4 DEF Crash, End, Running, Sessions
  <2> QED
    BY <2>1, <2>2 DEF TableStep
<1>5. ASSUME NEW j \in Kaboodles, NEW p \in Peers, PingAddrs(j, p)
      PROVE  Goal
  BY <1>5 DEF PingAddrs, TableStep
<1>6. ASSUME NEW j \in Kaboodles, NEW p \in Peers, GrowOld(j, p)
      PROVE  Goal
  <2>1. new = tbl \/ (j = k /\ new = [tbl EXCEPT ![p].state = "KnownOld"])
    BY <1>6 DEF GrowOld, TypeOK
  <2> QED
    BY <1>6, <2>1 DEF GrowOld, TableStep
<1>7. ASSUME NEW n \in Peers, Tick(n)
      PROVE  Goal
  <2>1. CASE BeginTick(n) \/ MaybeBroadcastJoin(n) \/ NobodyToPing(n)
             \/ HandleIncomingPingRequests(n)
    BY <2>1 DEF BeginTick, MaybeBroadcastJoin, NobodyToPing, HandleIncomingPingRequests, TableStep
  <2>2. ASSUME NEW expired \in SUBSET Waiting(Table(n)), HandleSuspectedPeers(n, expired)
        PROVE  Goal
    <3>1. Running(n) /\ (new = tbl \/ (Owner[n] = k /\ new = AfterTimeouts(n, tbl, expired)))
      BY <1>0, <2>2 DEF HandleSuspectedPeers, Goes, TypeOK
    <3> QED
      BY <1>0, <2>2, <3>1 DEF TableStep, Table
  <2>3. ASSUME NEW target \in Peers, PingRandomPeer(n, target)
        PROVE  Goal
    <3>1. /\ Running(n) /\ target \in NonSuspected(n, Table(n))
          /\ \/ new = tbl
             \/ Owner[n] = k /\ new = [tbl EXCEPT ![target].state = "WaitingForPing"]
      BY <1>0, <2>3 DEF PingRandomPeer, PingCandidates, Goes, TypeOK
    <3> QED
      BY <1>0, <2>3, <3>1 DEF TableStep, Table
  <2>4. CASE GiveUpUnsent(n)
    <3> DEFINE left == [p \in Peers |-> IF Ping(n, p) \in hand[n] THEN Absent ELSE tbl[p]]
    <3>1. /\ Running(n) /\ pc[n] = "unsent"
          /\ new = tbl \/ (Owner[n] = k /\ new = left)
      BY <1>0, <2>4 DEF GiveUpUnsent, Goes, TypeOK
    <3> QED
      BY <1>0, <3>1 DEF TableStep
  <2> QED
    BY <1>7, <2>1, <2>2, <2>3, <2>4 DEF Tick
<1>8. ASSUME NEW n \in Peers, Handle(n)
      PROVE  Goal
  <2>1. CASE HandleKnownPeers(n)
    <3>1. PICK m \in InHand(n, "KnownPeers") :
            new = tbl \/ (Owner[n] = k /\ new = AfterKnownPeers(tbl, m.peers))
      BY <1>0, <2>1 DEF HandleKnownPeers, TypeOK
    <3> QED
      BY <1>0, <3>1 DEF TableStep
  <2>2. CASE known_peers' = known_peers
    BY <2>2 DEF TableStep
  <2> QED
    BY <1>8, <2>1, <2>2 DEF Handle, AnswerJoin, HandlePing, HandlePingRequest, HandleAck,
         HandleKnownPeersRequest, MaybeSyncKnownPeers, CutShort
<1>9. ASSUME NEW m \in net, Receive(m)
      PROVE  Goal
  <2>0. m.to \in Peers
    BY Fields DEF TypeOK
  <2>1. CASE HandleFailed(m)
    <3>1. Running(m.to) /\ (new = tbl \/ (Owner[m.to] = k /\ new = AfterFailed(m.to, tbl, m)))
      BY <1>0, <2>0, <2>1 DEF HandleFailed, Arrived, TypeOK
    <3> QED
      BY <1>0, <2>0, <3>1 DEF TableStep
  <2>2. CASE HandleJoin(m) \/ Hear(m)
    <3>1. m.type # "Failed" /\ (new = tbl \/ (Owner[m.to] = k /\ new = AfterHearing(tbl, m)))
      BY <1>0, <2>0, <2>2 DEF HandleJoin, Hear, Arrived, UnicastTypes, AfterHearing, TypeOK
    <3> QED
      BY <1>0, <2>0, <3>1 DEF TableStep
  <2>3. CASE SkipUndecodable(m)
    BY <2>3 DEF SkipUndecodable, TableStep
  <2> QED
    BY <1>9, <2>1, <2>2, <2>3 DEF Receive
<1> QED
  BY <1>1, <1>2, <1>3, <1>4, <1>5, <1>6, <1>7, <1>8, <1>9 DEF Next, vars, TableStep

\* In one step an entry stays, goes, is downgraded, or is written because of a
\* datagram of the peer itself, because of hearsay, or because its session begins.
EntryStep(e, new, q) ==
  \/ new = e
  \/ new = Absent
  \/ /\ e # Absent /\ new.identity = e.identity
     /\ new.state \in WaitingStates \cup {"KnownOld"}
  \/ \E m \in net : /\ m.type # "Failed" /\ m.src = q
                    /\ new = Info(m.identity, "Known")
  \/ \E m \in Carried : /\ m.type = "KnownPeers" /\ q \in Listed(m.peers)
                        /\ new = Info(m.peers[q], "KnownOld")
  \/ status[q] = "down" /\ status'[q] # "down" /\ new = Info(Identity[q], "Known")

LEMMA EntrySteps ==
  ASSUME TypeOK, [Next]_vars, NEW k \in Kaboodles, NEW q \in Peers
  PROVE  EntryStep(known_peers[k][q], known_peers'[k][q], q)
<1> DEFINE tbl == known_peers[k]
           new == known_peers'[k]
           Goal == EntryStep(tbl[q], new[q], q)
<1>0. tbl \in Tables /\ Sessions(k) \subseteq Peers
  BY DEF TypeOK, Sessions
<1>1. ASSUME NEW n \in Sessions(k), NEW expired \in SUBSET Waiting(tbl),
             new = AfterTimeouts(n, tbl, expired)
      PROVE  Goal
  <2>1. q \in IndirectlyPinged(n, tbl, expired) => tbl[q] # Absent
    BY DEF IndirectlyPinged, Absent
  <2>2. \/ new[q] = tbl[q] \/ new[q] = Absent
        \/ /\ q \in IndirectlyPinged(n, tbl, expired)
           /\ new[q] = Info(tbl[q].identity, "WaitingForIndirectPing")
    BY <1>1 DEF AfterTimeouts
  <2>3. \A id, st : Info(id, st).identity = id /\ Info(id, st).state = st
    BY DEF Info
  <2> QED
    BY <2>1, <2>2, <2>3 DEF EntryStep, WaitingStates
<1>2. ASSUME NEW n \in Sessions(k), NEW target \in NonSuspected(n, tbl),
             new = [tbl EXCEPT ![target].state = "WaitingForPing"]
      PROVE  Goal
  <2>1. tbl[target] \in PeerInfo /\ tbl[target] # Absent
    BY <1>0, EntryType DEF NonSuspected, KnownStates, Tables, Absent
  <2>2. new[q] = tbl[q] \/ (target = q /\ new[q] = [tbl[q] EXCEPT !.state = "WaitingForPing"])
    BY <1>0, <1>2 DEF Tables
  <2> QED
    BY <2>1, <2>2 DEF EntryStep, PeerInfo, WaitingStates
<1>3. ASSUME NEW n \in Sessions(k),
             new = [p \in Peers |-> IF Ping(n, p) \in hand[n] THEN Absent ELSE tbl[p]]
      PROVE  Goal
  BY <1>3 DEF EntryStep
<1>4. ASSUME NEW m \in net, new = AfterFailed(m.to, tbl, m)
      PROVE  Goal
  BY <1>0, <1>4 DEF AfterFailed, Tables, EntryStep
<1>5. ASSUME NEW m \in net, m.type # "Failed", new = AfterHearing(tbl, m)
      PROVE  Goal
  BY <1>0, <1>5 DEF AfterHearing, Tables, EntryStep
<1>6. ASSUME NEW n \in Sessions(k), NEW m \in InHand(n, "KnownPeers"),
             new = AfterKnownPeers(tbl, m.peers)
      PROVE  Goal
  <2>1. m \in Carried /\ m.type = "KnownPeers"
    BY <1>0 DEF InHand, Carried
  <2>2. new[q] = tbl[q] \/ (q \in Listed(m.peers) /\ new[q] = Info(m.peers[q], "KnownOld"))
    BY <1>6 DEF AfterKnownPeers
  <2> QED
    BY <2>1, <2>2 DEF EntryStep
<1>7. ASSUME NEW n \in Sessions(k), status[n] = "down", status'[n] # "down",
             new = [tbl EXCEPT ![n] = Info(Identity[n], "Known")]
      PROVE  Goal
  BY <1>0, <1>7 DEF Tables, EntryStep
<1>8. ASSUME NEW n \in Sessions(k), new = [tbl EXCEPT ![n] = Absent]
      PROVE  Goal
  BY <1>0, <1>8 DEF Tables, EntryStep
<1>9. ASSUME new = NoTable
      PROVE  Goal
  BY <1>9 DEF NoTable, EntryStep
<1>10. ASSUME NEW p \in Peers, tbl[p].state = "Known",
              new = [tbl EXCEPT ![p].state = "KnownOld"]
      PROVE  Goal
  <2>1. tbl[p] \in PeerInfo /\ tbl[p] # Absent
    BY <1>0, <1>10, EntryType DEF Tables, Absent
  <2>2. new[q] = tbl[q] \/ (p = q /\ new[q] = [tbl[q] EXCEPT !.state = "KnownOld"])
    BY <1>0, <1>10 DEF Tables
  <2> QED
    BY <2>1, <2>2 DEF EntryStep, PeerInfo
<1>11. ASSUME new = tbl
       PROVE  Goal
  BY <1>11 DEF EntryStep
<1>12. TableStep(k, tbl, new)
  BY TableSteps
<1> HIDE DEF Goal, tbl, new
<1>13. Goal
  BY <1>1, <1>2, <1>3, <1>4, <1>5, <1>6, <1>7, <1>8, <1>9, <1>10, <1>11, <1>12 DEF TableStep
<1> QED
  BY <1>13 DEF Goal, tbl, new

\* What is in flight or in hand has been sent, or could not be sent.
LEMMA NewCarried ==
  ASSUME TypeOK, [Next]_vars, NEW x \in Carried', x \notin Carried
  PROVE  \E n \in Peers : /\ Running(n) /\ Sends(n, x)
                          /\ Running(x.to) \/ \E to \in NonSuspected(n, Table(n)) : x = Ping(n, to)
<1>1. CASE x \in net'
  BY <1>1, NewDatagrams DEF Carried
<1>2. CASE x \notin net'
  <2>1. PICK r \in Peers : x \in hand'[r]
    BY <1>2 DEF Carried
  <2>2. x \notin hand[r] /\ x \notin net
    BY DEF Carried
  <2>3. Running(r) /\ \E to \in NonSuspected(r, Table(r)) : x = Ping(r, to)
    BY <2>1, <2>2, NewInHand
  <2> QED
    BY <2>3 DEF Sends
<1> QED
  BY <1>1, <1>2

\* A session sends under its own identity, and lists what is in its table; only fresh
\* entries are listed on request.
LEMMA Envelopes ==
  ASSUME NEW n, NEW x, Sends(n, x)
  PROVE  /\ x.src = n
         /\ x.type # "Failed" => x.identity = Identity[n]
         /\ x.type = "KnownPeers" =>
              \E S \in SUBSET Peers :
                /\ x.peers = Listing(Table(n), S)
                /\ x.why = "KnownPeersRequest" => \A q \in S : Table(n)[q].state = "Known"
<1> DEFINE Goal == /\ x.src = n
                   /\ x.type # "Failed" => x.identity = Identity[n]
                   /\ x.type = "KnownPeers" =>
                        \E S \in SUBSET Peers :
                          /\ x.peers = Listing(Table(n), S)
                          /\ x.why = "KnownPeersRequest" =>
                               \A q \in S : Table(n)[q].state = "Known"
<1>1. ASSUME NEW to, x = Join(n, to) \/ x = Ping(n, to)
      PROVE  Goal
  BY <1>1 DEF Join, Ping
<1>2. ASSUME NEW to, NEW peer, x = Failed(n, to, peer) \/ x = PingRequest(n, to, peer)
      PROVE  Goal
  BY <1>2 DEF Failed, PingRequest
<1>3. ASSUME NEW to, NEW peer, NEW fp, NEW num,
             x = Ack(n, to, peer, fp, num) \/ x = KnownPeersRequest(n, to, fp, num)
      PROVE  Goal
  BY <1>3 DEF Ack, KnownPeersRequest
<1>4. ASSUME NEW to, NEW S \in SUBSET Peers, x = KnownPeers(n, to, Listing(Table(n), S), "Join")
      PROVE  Goal
  BY <1>4 DEF KnownPeers
<1>5. ASSUME NEW to, x = KnownPeers(n, to, Listing(Table(n), Shareable(n, Table(n), to)),
                                    "KnownPeersRequest")
      PROVE  Goal
  <2> DEFINE S == Shareable(n, Table(n), to)
  <2>1. S \in SUBSET Peers /\ \A q \in S : Table(n)[q].state = "Known"
    BY DEF Shareable
  <2> HIDE DEF S
  <2> QED
    BY <1>5, <2>1 DEF KnownPeers, S
<1>6. Goal
  <2> HIDE DEF Goal
  <2> QED
    BY <1>1, <1>2, <1>3, <1>4, <1>5 DEF Sends, Answers
<1> QED
  BY <1>6

\* Who becomes curious has asked for a ping.
LEMMA CuriousSteps ==
  ASSUME TypeOK, [Next]_vars, NEW n \in Peers, NEW q \in Peers,
         NEW o \in curious_peers'[n][q], o \notin curious_peers[n][q]
  PROVE  \E m \in InHand(n, "PingRequest") :
           m.src = o /\ m.peer = q /\ pc[n] = "handle"
<1> DEFINE Goal == \E m \in InHand(n, "PingRequest") :
                     m.src = o /\ m.peer = q /\ pc[n] = "handle"
<1>1. ASSUME NEW r \in Peers, \/ Start(r) \/ StartFails(r) \/ StopRemove(r)
                              \/ StopCancel(r) \/ LeaveMesh(r)
      PROVE  Goal
  BY <1>1 DEF Start, StartFails, StopRemove, StopCancel, LeaveMesh, End, NobodyCurious
<1>2. ASSUME NEW k \in Kaboodles, Crash(k)
      PROVE  Goal
  BY <1>2 DEF Crash, End, NobodyCurious
<1>3. ASSUME NEW k \in Kaboodles, NEW p \in Peers, PingAddrs(k, p) \/ GrowOld(k, p)
      PROVE  Goal
  BY <1>3 DEF PingAddrs, GrowOld
<1>4. ASSUME NEW r \in Peers, Tick(r)
      PROVE  Goal
  <2>1. ASSUME NEW expired, HandleSuspectedPeers(r, expired)
        PROVE  Goal
    BY <2>1 DEF HandleSuspectedPeers, TypeOK
  <2> QED
    BY <1>4, <2>1 DEF Tick, BeginTick, MaybeBroadcastJoin, PingRandomPeer, NobodyToPing,
         GiveUpUnsent, HandleIncomingPingRequests
<1>5. ASSUME NEW r \in Peers, Handle(r)
      PROVE  Goal
  <2>1. CASE HandlePingRequest(r)
    <3>1. PICK m \in InHand(r, "PingRequest") :
            curious_peers' = [curious_peers EXCEPT ![r][m.peer] = @ \cup {m.src}]
      BY <2>1 DEF HandlePingRequest
    <3>2. r = n /\ m.peer = q /\ m.src = o
      BY <3>1 DEF TypeOK
    <3> QED
      BY <2>1, <3>1, <3>2 DEF HandlePingRequest, Done, Goes
  <2>2. CASE HandleAck(r)
    <3>1. PICK m \in InHand(r, "Ack") :
            curious_peers' = [curious_peers EXCEPT ![r][m.peer] = {}]
      BY <2>2 DEF HandleAck
    <3> QED
      BY <3>1 DEF TypeOK
  <2> QED
    BY <1>5, <2>1, <2>2 DEF Handle, AnswerJoin, HandlePing, HandleKnownPeers,
         HandleKnownPeersRequest, MaybeSyncKnownPeers, CutShort
<1>6. ASSUME NEW m \in net, Receive(m)
      PROVE  Goal
  BY <1>6 DEF Receive, HandleFailed, HandleJoin, Hear, SkipUndecodable
<1> QED
  BY <1>1, <1>2, <1>3, <1>4, <1>5, <1>6 DEF Next, vars

\* What is queued was not in the table, and is queued for the session started last.
LEMMA RequestSteps ==
  ASSUME TypeOK, [Next]_vars, NEW n \in Peers,
         NEW a \in ping_requests'[n], a \notin ping_requests[n]
  PROVE  /\ Running(n)
         /\ \E k \in Kaboodles : ping_request_tx[k] = n /\ known_peers[k][a] = Absent
<1> DEFINE Goal == /\ Running(n)
                   /\ \E k \in Kaboodles : ping_request_tx[k] = n /\ known_peers[k][a] = Absent
<1>1. ASSUME NEW r \in Peers, \/ Start(r) \/ StartFails(r) \/ StopRemove(r)
                              \/ StopCancel(r) \/ LeaveMesh(r)
      PROVE  Goal
  BY <1>1 DEF Start, StartFails, StopRemove, StopCancel, LeaveMesh, End
<1>2. ASSUME NEW k \in Kaboodles, Crash(k)
      PROVE  Goal
  BY <1>2 DEF Crash, End
<1>3. ASSUME NEW k \in Kaboodles, NEW p \in Peers, GrowOld(k, p)
      PROVE  Goal
  BY <1>3 DEF GrowOld
<1>4. ASSUME NEW k \in Kaboodles, NEW p \in Peers, PingAddrs(k, p)
      PROVE  Goal
  BY <1>4 DEF PingAddrs, TypeOK, Running
<1>5. ASSUME NEW r \in Peers, Tick(r)
      PROVE  Goal
  <2>1. ping_requests' = ping_requests \/ ping_requests' = [ping_requests EXCEPT ![r] = {}]
    BY <1>5 DEF Tick, BeginTick, MaybeBroadcastJoin, HandleSuspectedPeers, PingRandomPeer,
         NobodyToPing, GiveUpUnsent, HandleIncomingPingRequests
  <2> QED
    BY <2>1 DEF TypeOK
<1>6. ASSUME NEW r \in Peers, Handle(r)
      PROVE  Goal
  BY <1>6 DEF Handle, AnswerJoin, HandlePing, HandlePingRequest, HandleAck, HandleKnownPeers,
       HandleKnownPeersRequest, MaybeSyncKnownPeers, CutShort
<1>7. ASSUME NEW m \in net, Receive(m)
      PROVE  Goal
  BY <1>7 DEF Receive, HandleFailed, HandleJoin, Hear, SkipUndecodable
<1> QED
  BY <1>1, <1>2, <1>3, <1>4, <1>5, <1>6, <1>7 DEF Next, vars

\* A session is alone if it begins while no other session of its Kaboodle runs.
LEMMA AloneSteps ==
  ASSUME TypeOK, [Next]_vars, NEW n \in Peers, n \in alone', n \notin alone
  PROVE  status[n] = "down" /\ status'[n] = "up" /\ \A q \in Sessions(Owner[n]) : ~Running(q)
<1> DEFINE Goal == /\ status[n] = "down" /\ status'[n] = "up"
                   /\ \A q \in Sessions(Owner[n]) : ~Running(q)
<1>1. ASSUME NEW r \in Peers, Start(r)
      PROVE  Goal
  BY <1>1 DEF Start, MayStart, TypeOK
<1>2. ASSUME NEW r \in Peers, StartFails(r) \/ StopRemove(r) \/ StopCancel(r) \/ LeaveMesh(r)
      PROVE  FALSE
  BY <1>2 DEF StartFails, StopRemove, StopCancel, LeaveMesh, End
<1>3. ASSUME NEW k \in Kaboodles, Crash(k)
      PROVE  FALSE
  BY <1>3 DEF Crash, End
<1>4. ASSUME NEW k \in Kaboodles, NEW p \in Peers, PingAddrs(k, p) \/ GrowOld(k, p)
      PROVE  FALSE
  BY <1>4 DEF PingAddrs, GrowOld, handleVars
<1>5. ASSUME NEW r \in Peers, Tick(r)
      PROVE  FALSE
  BY <1>5 DEF Tick, BeginTick, MaybeBroadcastJoin, HandleSuspectedPeers, PingRandomPeer,
       NobodyToPing, GiveUpUnsent, HandleIncomingPingRequests, handleVars
<1>6. ASSUME NEW r \in Peers, Handle(r)
      PROVE  FALSE
  BY <1>6 DEF Handle, AnswerJoin, HandlePing, HandlePingRequest, HandleAck, HandleKnownPeers,
       HandleKnownPeersRequest, MaybeSyncKnownPeers, CutShort, handleVars
<1>7. ASSUME NEW m \in net, Receive(m)
      PROVE  FALSE
  BY <1>7 DEF Receive, HandleFailed, HandleJoin, Hear, SkipUndecodable, handleVars
<1> QED
  BY <1>1, <1>2, <1>3, <1>4, <1>5, <1>6, <1>7 DEF Next, vars

-----------------------------------------------------------------------------
\* No trace of a session before it begins.

NoGhost(p) ==
  /\ p \notin alone /\ hand[p] = {} /\ ping_requests[p] = {}
  /\ \A k \in Kaboodles : known_peers[k][p] = Absent
  /\ \A m \in Carried : /\ m.src # p /\ m.to # p
                        /\ m.type = "KnownPeers" => m.peers[p] = NoIdentity
  /\ \A n, q \in Peers : p \notin curious_peers[n][q]

NoGhosts == \A p \in Peers : status[p] = "down" => NoGhost(p)

LEMMA NoGhostsStep ==
  ASSUME TypeOK, NoGhosts, [Next]_vars
  PROVE  NoGhosts'
<1> SUFFICES ASSUME NEW p \in Peers, status'[p] = "down"
             PROVE  NoGhost(p)'
  BY DEF NoGhosts
<1>1. status[p] = "down" /\ NoGhost(p) /\ ~Running(p)
  BY StatusSteps DEF NoGhosts, Running
<1>2. p \notin alone'
  BY <1>1, AloneSteps DEF NoGhost
<1>3. hand'[p] = {}
  BY <1>1, NewInHand DEF NoGhost
<1>4. ping_requests'[p] = {}
  BY <1>1, RequestSteps DEF NoGhost
<1>5. ASSUME NEW k \in Kaboodles
      PROVE  known_peers'[k][p] = Absent
  <2>1. EntryStep(known_peers[k][p], known_peers'[k][p], p)
    BY EntrySteps
  <2>2. known_peers[k][p] = Absent
    BY <1>1 DEF NoGhost
  <2>3. \A m \in net : m \in Carried /\ m.src # p
    BY <1>1 DEF NoGhost, Carried
  <2>4. \A m \in Carried : m.type = "KnownPeers" => p \notin Listed(m.peers)
    BY <1>1 DEF NoGhost, Listed
  <2> QED
    BY <2>1, <2>2, <2>3, <2>4 DEF EntryStep
<1>6. ASSUME NEW x \in Carried'
      PROVE  /\ x.src # p /\ x.to # p
             /\ x.type = "KnownPeers" => x.peers[p] = NoIdentity
  <2>1. CASE x \in Carried
    BY <1>1, <2>1 DEF NoGhost
  <2>2. CASE x \notin Carried
    <3>1. PICK n \in Peers : /\ Running(n) /\ Sends(n, x)
                             /\ \/ Running(x.to)
                                \/ \E to \in NonSuspected(n, Table(n)) : x = Ping(n, to)
      BY <2>2, NewCarried
    <3>2. Table(n)[p] = Absent
      BY <1>1, OwnerAssumption DEF NoGhost, Table
    <3>3. p \notin NonSuspected(n, Table(n))
      BY <3>2 DEF NonSuspected, Absent, KnownStates
    <3>4. \A to : Ping(n, to).to = to
      BY DEF Ping
    <3>5. x.src = n
      BY <3>1, Envelopes
    <3>6. \A S : Listing(Table(n), S)[p] = NoIdentity
      BY <3>2 DEF Listing, Absent
    <3>7. x.type = "KnownPeers" => x.peers[p] = NoIdentity
      BY <3>1, <3>6, Envelopes
    <3> QED
      BY <1>1, <3>1, <3>3, <3>4, <3>5, <3>7
  <2> QED
    BY <2>1, <2>2
<1>7. ASSUME NEW n \in Peers, NEW q \in Peers
      PROVE  p \notin curious_peers'[n][q]
  <2>1. \A m \in InHand(n, "PingRequest") : m \in Carried
    BY DEF InHand, Carried
  <2> QED
    BY <1>1, <2>1, CuriousSteps DEF NoGhost
<1> QED
  BY <1>2, <1>3, <1>4, <1>5, <1>6, <1>7 DEF NoGhost

LEMMA NoGhostsInit == Init => NoGhosts
BY DEF Init, NoGhosts, NoGhost, Carried, NoTable, NobodyCurious

-----------------------------------------------------------------------------
\* A session that runs alone keeps knowing itself.

\* Nobody else runs on its table.
AloneInside ==
  \A n \in Peers : Sole(n) => \A q \in Sessions(Owner[n]) \ {n} : ~Running(q)

\* A message in hand is addressed to the session that handles it; or it is a ping that
\* could not be sent, to somebody else.
HandOK ==
  \A n \in Peers :
    /\ pc[n] \in {"handle", "sync"} =>
         \A m \in hand[n] : m.to = n /\ (m.type = "Join" => m.src # n) /\ m.type # "Failed"
    /\ pc[n] = "unsent" =>
         SendMayFail /\ \E target \in Peers \ {n} : hand[n] = {Ping(n, target)}

SelfInv == NoGhosts /\ AloneInside /\ HandOK /\ SelfKnown

LEMMA SoleSteps ==
  ASSUME TypeOK, [Next]_vars, NEW p \in Peers, Sole(p)'
  PROVE  Sole(p) \/ status[p] = "down"
BY StatusSteps, AloneSteps DEF Sole

\* Start is the only step in which a session begins to run.
LEMMA Beginnings ==
  ASSUME TypeOK, [Next]_vars, NEW q \in Peers, Running(q)', ~Running(q)
  PROVE  /\ Start(q)
         /\ status[q] = "down" /\ \A n \in Sessions(Owner[q]) : status[n] # "up"
         /\ \A r \in Peers \ {q} : status'[r] = status[r]
<1> DEFINE Goal == /\ Start(q)
                   /\ status[q] = "down" /\ \A n \in Sessions(Owner[q]) : status[n] # "up"
                   /\ \A r \in Peers \ {q} : status'[r] = status[r]
<1>1. ASSUME NEW n \in Peers, Start(n)
      PROVE  Goal
  <2>1. status' = [status EXCEPT ![n] = "up"]
    BY <1>1 DEF Start
  <2>2. n = q
    BY <2>1 DEF TypeOK, Running
  <2>3. status[q] = "down" /\ \A r \in Sessions(Owner[q]) : status[r] # "up"
    BY <1>1, <2>2 DEF Start, MayStart
  <2> QED
    BY <1>1, <2>1, <2>2, <2>3 DEF TypeOK
<1>2. ASSUME NEW n \in Peers, StartFails(n) \/ StopRemove(n) \/ StopCancel(n) \/ LeaveMesh(n)
      PROVE  FALSE
  BY <1>2 DEF StartFails, StopRemove, StopCancel, LeaveMesh, End, TypeOK, Running
<1>3. ASSUME NEW k \in Kaboodles, Crash(k)
      PROVE  FALSE
  BY <1>3 DEF Crash, End, Running
<1>4. CASE status' = status
  BY <1>4 DEF Running
<1>5. ASSUME NEW n \in Peers, Tick(n) \/ Handle(n)
      PROVE  status' = status
  BY <1>5 DEF Tick, BeginTick, MaybeBroadcastJoin, HandleSuspectedPeers, PingRandomPeer,
       NobodyToPing, GiveUpUnsent, HandleIncomingPingRequests, Handle, AnswerJoin, HandlePing,
       HandlePingRequest, HandleAck, HandleKnownPeers, HandleKnownPeersRequest,
       MaybeSyncKnownPeers, CutShort, handleVars
<1>6. ASSUME NEW k \in Kaboodles, NEW p \in Peers, PingAddrs(k, p) \/ GrowOld(k, p)
      PROVE  status' = status
  BY <1>6 DEF PingAddrs, GrowOld, handleVars
<1>7. ASSUME NEW m \in net, Receive(m)
      PROVE  status' = status
  BY <1>7 DEF Receive, HandleFailed, HandleJoin, Hear, SkipUndecodable, handleVars
<1> QED
  BY <1>1, <1>2, <1>3, <1>4, <1>5, <1>6, <1>7 DEF Next, vars

LEMMA AloneInsideStep ==
  ASSUME TypeOK, NoGhosts, AloneInside, [Next]_vars
  PROVE  AloneInside'
<1> SUFFICES ASSUME NEW n \in Peers, Sole(n)', NEW q \in Sessions(Owner[n]) \ {n}, Running(q)'
             PROVE  FALSE
  BY DEF AloneInside, Sessions
<1>0. q \in Peers /\ Owner[q] = Owner[n] /\ n \in Sessions(Owner[q])
  BY DEF Sessions
<1>1. CASE Sole(n)
  <2>1. ~Running(q) /\ status[n] = "up"
    BY <1>1 DEF AloneInside, Sole
  <2> QED
    BY <1>0, <2>1, Beginnings
<1>2. CASE ~Sole(n)
  <2>1. status[n] = "down" /\ status'[n] = "up" /\ n \in alone'
    BY <1>2, SoleSteps DEF Sole
  <2>2. n \notin alone
    BY <2>1 DEF NoGhosts, NoGhost
  <2>3. ~Running(q)
    BY <2>1, <2>2, AloneSteps
  <2> QED
    BY <1>0, <2>1, <2>3, Beginnings
<1> QED
  BY <1>1, <1>2

LEMMA HandOKStep ==
  ASSUME TypeOK, HandOK, [Next]_vars
  PROVE  HandOK'
<1> SUFFICES ASSUME NEW n \in Peers
             PROVE  /\ pc'[n] \in {"handle", "sync"} =>
                         \A m \in hand'[n] :
                           m.to = n /\ (m.type = "Join" => m.src # n) /\ m.type # "Failed"
                    /\ pc'[n] = "unsent" =>
                         SendMayFail /\ \E target \in Peers \ {n} : hand'[n] = {Ping(n, target)}
  BY DEF HandOK
<1> DEFINE Goal == /\ pc'[n] \in {"handle", "sync"} =>
                        \A m \in hand'[n] :
                          m.to = n /\ (m.type = "Join" => m.src # n) /\ m.type # "Failed"
                   /\ pc'[n] = "unsent" =>
                        SendMayFail /\ \E target \in Peers \ {n} : hand'[n] = {Ping(n, target)}
           Kept == hand'[n] = hand[n] /\ pc'[n] = pc[n]
           Reset == pc'[n] \notin {"handle", "sync", "unsent"}
           Synced == hand'[n] \subseteq hand[n] /\ pc'[n] = "sync" /\ pc[n] = "handle"
           Taken == \E m \in net : /\ hand'[n] = {m} /\ pc'[n] = "handle"
                                   /\ m.to = n /\ m.type # "Failed"
                                   /\ m.type = "Join" => m.src # n
           Unsent == /\ pc'[n] = "unsent" /\ SendMayFail
                     /\ \E target \in Peers \ {n} : hand'[n] = {Ping(n, target)}
<1>1. CASE Kept \/ Reset \/ Synced \/ Taken
  BY <1>1 DEF HandOK
<1>2. CASE Unsent
  BY <1>2
<1>3. ASSUME NEW r \in Peers, \/ Start(r) \/ StartFails(r) \/ StopRemove(r)
                              \/ StopCancel(r) \/ LeaveMesh(r)
      PROVE  Kept \/ Reset
  BY <1>3 DEF Start, StartFails, StopRemove, StopCancel, LeaveMesh, End
<1>4. ASSUME NEW k \in Kaboodles, Crash(k)
      PROVE  Kept \/ Reset
  BY <1>4 DEF Crash, End
<1>5. ASSUME NEW k \in Kaboodles, NEW p \in Peers, PingAddrs(k, p) \/ GrowOld(k, p)
      PROVE  Kept
  BY <1>5 DEF PingAddrs, GrowOld
<1>6. ASSUME NEW r \in Peers, Tick(r)
      PROVE  Kept \/ Reset \/ Unsent
  <2>1. ASSUME NEW target \in Peers, PingRandomPeer(r, target)
        PROVE  Kept \/ Reset \/ Unsent
    <3>1. target # r
      BY <2>1 DEF PingRandomPeer, PingCandidates, NonSuspected
    <3>2. \/ pc' = [pc EXCEPT ![r] = "requests"] /\ hand' = hand
          \/ /\ SendMayFail /\ pc' = [pc EXCEPT ![r] = "unsent"]
             /\ hand' = [hand EXCEPT ![r] = {Ping(r, target)}]
      BY <2>1 DEF PingRandomPeer, Goes
    <3> QED
      BY <3>1, <3>2 DEF TypeOK
  <2>2. ASSUME ~\E target \in Peers : PingRandomPeer(r, target)
        PROVE  Kept \/ Reset
    <3>1. /\ \E to \in {"join", "suspects", "ping", "requests", "receive"} :
               pc' = [pc EXCEPT ![r] = to]
          /\ hand' = hand \/ hand' = [hand EXCEPT ![r] = {}]
      BY <1>6, <2>2 DEF Tick, BeginTick, MaybeBroadcastJoin, HandleSuspectedPeers, NobodyToPing,
           GiveUpUnsent, HandleIncomingPingRequests, Goes
    <3> QED
      BY <3>1 DEF TypeOK
  <2> QED
    BY <2>1, <2>2
<1>7. ASSUME NEW r \in Peers, Handle(r)
      PROVE  Kept \/ Reset \/ Synced
  <2>1. \/ /\ pc' = [pc EXCEPT ![r] = "receive"] /\ hand' = [hand EXCEPT ![r] = {}]
        \/ /\ pc[r] = "handle" /\ pc' = [pc EXCEPT ![r] = "sync"] /\ hand' = hand
    BY <1>7 DEF Handle, AnswerJoin, HandlePing, HandlePingRequest, HandleAck, HandleKnownPeers,
         HandleKnownPeersRequest, MaybeSyncKnownPeers, CutShort, Done, Goes
  <2> QED
    BY <2>1 DEF TypeOK
<1>8. ASSUME NEW m \in net, Receive(m)
      PROVE  Kept \/ Taken
  <2>0. m.to \in Peers
    BY Fields DEF TypeOK
  <2>1. \/ pc' = pc /\ hand' = hand
        \/ /\ pc' = [pc EXCEPT ![m.to] = "handle"] /\ hand' = [hand EXCEPT ![m.to] = {m}]
           /\ m.type # "Failed" /\ (m.type = "Join" => m.src # m.to)
    BY <1>8 DEF Receive, HandleFailed, HandleJoin, Hear, SkipUndecodable, Goes, Arrived,
         UnicastTypes
  <2> QED
    BY <2>0, <2>1 DEF TypeOK
<1>9. CASE UNCHANGED vars
  BY <1>1, <1>9 DEF vars
<1> HIDE DEF Kept, Reset, Synced, Taken, Unsent
<1> QED
  BY <1>1, <1>2, <1>3, <1>4, <1>5, <1>6, <1>7, <1>8, <1>9 DEF Next

\* The entry of a session that runs alone is spared by every step of its own, and only
\* its own steps, and those of nobody in particular, change its table.
LEMMA SelfStep ==
  ASSUME TypeOK, SelfInv, [Next]_vars
  PROVE  SelfKnown'
<1> SUFFICES ASSUME NEW n \in Peers, Sole(n)'
             PROVE  Table(n)'[n].state = "Known"
  BY DEF SelfKnown
<1> DEFINE k == Owner[n]
           tbl == known_peers[k]
           new == known_peers'[k]
           Goal == new[n].state = "Known"
<1>0. k \in Kaboodles /\ tbl \in Tables /\ n \in Sessions(k) /\ Sessions(k) \subseteq Peers
  BY OwnerAssumption DEF TypeOK, Sessions
<1>1. CASE ~Sole(n)
  <2>1. status[n] = "down" /\ status'[n] = "up"
    BY <1>1, SoleSteps DEF Sole
  <2>2. Start(n)
    BY <2>1, Beginnings DEF Running
  <2> QED
    BY <1>0, <2>2 DEF Start, AfterStart, TypeOK, Tables, Info, Table
<1>2. CASE Sole(n)
  <2>1. /\ tbl[n].state = "Known" /\ status[n] = "up" /\ status'[n] = "up"
        /\ \A q \in Sessions(k) : Running(q) => q = n
        /\ pc[n] = "unsent" => \E target \in Peers \ {n} : hand[n] = {Ping(n, target)}
    BY <1>2 DEF SelfInv, SelfKnown, AloneInside, HandOK, Sole, Table
  <2>2. tbl[n] # Absent
    BY <2>1 DEF Absent
  <2>3. ASSUME NEW q \in Sessions(k), NEW expired \in SUBSET Waiting(tbl),
               new = AfterTimeouts(q, tbl, expired)
        PROVE  Goal
    <3>1. n \notin expired
      BY <2>1 DEF Waiting, WaitingStates
    <3> QED
      BY <2>1, <2>3, <3>1 DEF AfterTimeouts, IndirectlyPinged, Removed
  <2>4. ASSUME NEW q \in Sessions(k), Running(q), NEW target \in NonSuspected(q, tbl),
               new = [tbl EXCEPT ![target].state = "WaitingForPing"]
        PROVE  Goal
    <3>1. target # n
      BY <2>1, <2>4 DEF NonSuspected
    <3> QED
      BY <1>0, <2>1, <2>4, <3>1 DEF Tables
  <2>5. ASSUME NEW q \in Sessions(k), Running(q), pc[q] = "unsent",
               new = [p \in Peers |-> IF Ping(q, p) \in hand[q] THEN Absent ELSE tbl[p]]
        PROVE  Goal
    <3>1. Ping(n, n) \notin hand[n]
      BY <2>1, <2>5 DEF Ping
    <3> QED
      BY <2>1, <2>5, <3>1
  <2>6. ASSUME NEW m \in net, m.to \in Sessions(k), Running(m.to), new = AfterFailed(m.to, tbl, m)
        PROVE  Goal
    BY <1>0, <2>1, <2>6 DEF AfterFailed, Tables
  <2>7. ASSUME NEW m \in net, new = AfterHearing(tbl, m)
        PROVE  Goal
    BY <1>0, <2>1, <2>7 DEF AfterHearing, Tables, Info
  <2>8. ASSUME NEW view, new = AfterKnownPeers(tbl, view)
        PROVE  Goal
    BY <2>1, <2>2, <2>8 DEF AfterKnownPeers
  <2>9. ASSUME NEW q \in Sessions(k), new = [tbl EXCEPT ![q] = Info(Identity[q], "Known")]
        PROVE  Goal
    BY <1>0, <2>1, <2>9 DEF Tables, Info
  <2>10. ASSUME NEW q \in Sessions(k), status[q] = "up", status'[q] = "stopping"
         PROVE  FALSE
    BY <2>1, <2>10 DEF Running
  <2>11. ASSUME \A q \in Sessions(k) : ~Running(q)'
         PROVE  FALSE
    BY <1>0, <2>1, <2>11 DEF Running
  <2>12. ASSUME NEW p \in Peers, ~(Owner[p] = k /\ Sole(p)),
                new = [tbl EXCEPT ![p].state = "KnownOld"]
         PROVE  Goal
    BY <1>0, <1>2, <2>1, <2>12 DEF Tables
  <2>13. ASSUME new = tbl
         PROVE  Goal
    BY <2>1, <2>13
  <2>14. TableStep(k, tbl, new)
    BY <1>0, TableSteps
  <2>15. Goal
    <3> HIDE DEF Goal, tbl, new, k
    <3> QED
      BY <2>3, <2>4, <2>5, <2>6, <2>7, <2>8, <2>9, <2>10, <2>11, <2>12, <2>13, <2>14
         DEF TableStep
  <2> QED
    BY <2>15 DEF Table
<1> QED
  BY <1>1, <1>2

LEMMA SelfInvInit == Init => SelfInv
<1> SUFFICES ASSUME Init
             PROVE  SelfInv
  OBVIOUS
<1>1. NoGhosts
  BY NoGhostsInit
<1>2. AloneInside /\ HandOK /\ SelfKnown
  BY DEF Init, AloneInside, HandOK, SelfKnown, Sole
<1> QED
  BY <1>1, <1>2 DEF SelfInv

LEMMA SelfInvStep ==
  ASSUME TypeOK, SelfInv, [Next]_vars
  PROVE  SelfInv'
BY NoGhostsStep, AloneInsideStep, HandOKStep, SelfStep DEF SelfInv

LEMMA SelfInvariant == Spec => []SelfInv
BY TypeCorrect, SelfInvInit, SelfInvStep, PTL DEF Spec

\* A session that has its Kaboodle's table to itself never suspects or forgets itself,
\* however many peers suspect it and whatever they tell it.
THEOREM SelfNeverSuspected == Spec => []SelfKnown
BY SelfInvariant, PTL DEF SelfInv

-----------------------------------------------------------------------------
\* Nobody addresses itself.

\* What NoSelfTraffic asks of one datagram.
Proper(m) ==
  /\ m.type \notin {"Join", "Failed"} /\ m.src = m.to => ~Sole(m.src)
  /\ m.type = "PingRequest" => m.to \notin {m.src, m.peer}
  /\ m.type = "PingRequest" /\ m.peer = m.src => ~Sole(m.src)
  /\ m.type = "Ack" /\ m.peer = m.to => ~Sole(m.to)

ProperCuriosity ==
  /\ \A n \in Peers : curious_peers[n][n] = {}
  /\ \A n, p \in Peers : n \notin curious_peers[n][p]
  /\ \A n, p \in Peers : p \in curious_peers[n][p] => ~Sole(p)

ProperRequests == \A n \in Peers : n \in ping_requests[n] => ~Sole(n)

\* ping_addrs hands its addresses to a session of its own Kaboodle.
TxOK == \A k \in Kaboodles : ping_request_tx[k] \in Sessions(k) \cup {NoSession}

LEMMA TxOKStep ==
  ASSUME TypeOK, TxOK, [Next]_vars
  PROVE  TxOK'
<1> SUFFICES ASSUME NEW k \in Kaboodles
             PROVE  ping_request_tx'[k] \in Sessions(k) \cup {NoSession}
  BY DEF TxOK, Sessions
<1> DEFINE Goal == ping_request_tx'[k] \in {ping_request_tx[k], NoSession} \cup Sessions(k)
<1>1. ASSUME NEW n \in Peers, Start(n)
      PROVE  Goal
  BY <1>1, OwnerAssumption DEF Start, TypeOK, Sessions
<1>2. ASSUME NEW n \in Peers, StartFails(n) \/ StopRemove(n) \/ StopCancel(n) \/ LeaveMesh(n)
      PROVE  Goal
  BY <1>2 DEF StartFails, StopRemove, StopCancel, LeaveMesh
<1>3. ASSUME NEW j \in Kaboodles, Crash(j)
      PROVE  Goal
  BY <1>3 DEF Crash, TypeOK
<1>4. ASSUME NEW j \in Kaboodles, NEW p \in Peers, PingAddrs(j, p) \/ GrowOld(j, p)
      PROVE  Goal
  BY <1>4 DEF PingAddrs, GrowOld, handleVars
<1>5. ASSUME NEW n \in Peers, Tick(n) \/ Handle(n)
      PROVE  Goal
  BY <1>5 DEF Tick, BeginTick, MaybeBroadcastJoin, HandleSuspectedPeers, PingRandomPeer,
       NobodyToPing, GiveUpUnsent, HandleIncomingPingRequests, Handle, AnswerJoin, HandlePing,
       HandlePingRequest, HandleAck, HandleKnownPeers, HandleKnownPeersRequest,
       MaybeSyncKnownPeers, CutShort, handleVars
<1>6. ASSUME NEW m \in net, Receive(m)
      PROVE  Goal
  BY <1>6 DEF Receive, HandleFailed, HandleJoin, Hear, SkipUndecodable, handleVars
<1>7. Goal
  <2> HIDE DEF Goal
  <2>1. CASE UNCHANGED vars
    BY <2>1 DEF vars, Goal
  <2> QED
    BY <1>1, <1>2, <1>3, <1>4, <1>5, <1>6, <2>1 DEF Next
<1> QED
  BY <1>7 DEF TxOK

\* What a session sends is proper: it does not ask a helper about itself because it does
\* not suspect itself, and the others have not asked it to, nor is anybody curious about
\* itself.
LEMMA ProperSends ==
  ASSUME TypeOK, SelfInv, NoSelfTraffic, NEW n \in Peers, NEW x, Sends(n, x)
  PROVE  Proper(x)
<1>0. /\ Table(n) \in Tables
      /\ \A m \in hand[n] : m \in Datagrams /\ Proper(m)
      /\ ProperCuriosity /\ ProperRequests
      /\ Sole(n) => Table(n)[n].state = "Known"
  BY OwnerAssumption DEF TypeOK, Table, NoSelfTraffic, Proper, Carried, ProperCuriosity,
     ProperRequests, SelfInv, SelfKnown
<1>1. ASSUME NEW to, x = Join(n, to)
      PROVE  Proper(x)
  BY <1>1 DEF Proper, Join
<1>2. ASSUME NEW to, NEW peer, x = Failed(n, to, peer)
      PROVE  Proper(x)
  BY <1>2 DEF Proper, Failed
<1>3. ASSUME NEW to, n = to => ~Sole(n), x = Ping(n, to)
      PROVE  Proper(x)
  BY <1>3 DEF Proper, Ping
<1>4. ASSUME NEW to \in NonSuspected(n, Table(n)), NEW peer \in Waiting(Table(n)),
             x = PingRequest(n, to, peer)
      PROVE  Proper(x)
  <2>1. to \notin {n, peer} /\ (peer = n => ~Sole(n))
    BY <1>0, <1>4 DEF NonSuspected, Waiting, KnownStates, WaitingStates
  <2> QED
    BY <1>4, <2>1 DEF Proper, PingRequest
<1>5. ASSUME NEW to, NEW peer, NEW fp, NEW num, to = n => ~Sole(n), peer = to => ~Sole(to),
             x = Ack(n, to, peer, fp, num)
      PROVE  Proper(x)
  BY <1>5 DEF Proper, Ack
<1>6. ASSUME NEW to, NEW view, NEW why, n = to => ~Sole(n), x = KnownPeers(n, to, view, why)
      PROVE  Proper(x)
  BY <1>6 DEF Proper, KnownPeers
<1>7. ASSUME NEW to, NEW fp, NEW num, n = to => ~Sole(n), x = KnownPeersRequest(n, to, fp, num)
      PROVE  Proper(x)
  BY <1>7 DEF Proper, KnownPeersRequest
<1>8. ASSUME pc[n] \in {"handle", "sync"}, Answers(n, x)
      PROVE  Proper(x)
  <2>1. \A m \in hand[n] :
          /\ m.to = n /\ (m.type = "Join" => m.src # n) /\ m.type # "Failed"
          /\ m.src = n => ~Sole(n)
          /\ m.type = "PingRequest" => m.peer # n
          /\ m.type = "Ack" /\ m.peer = n => ~Sole(n)
    BY <1>0, <1>8 DEF SelfInv, HandOK, Proper
  <2>2. ASSUME NEW m \in InHand(n, "PingRequest"), x = Ping(n, m.peer)
        PROVE  Proper(x)
    BY <1>3, <2>1, <2>2 DEF InHand
  <2>3. ASSUME NEW m \in InHand(n, "Ping"), NEW fp, NEW num, x = Ack(n, m.src, n, fp, num)
        PROVE  Proper(x)
    BY <1>5, <2>1, <2>3 DEF InHand
  <2>4. ASSUME NEW m \in InHand(n, "Ack"), NEW fp, NEW num,
               NEW o \in curious_peers[n][m.peer], x = Ack(n, o, m.peer, fp, num)
        PROVE  Proper(x)
    <3>1. m.peer \in Peers /\ o # n /\ (m.peer = o => ~Sole(o))
      BY <1>0, <2>4, Fields DEF InHand, ProperCuriosity
    <3> QED
      BY <1>5, <2>4, <3>1
  <2>5. ASSUME NEW m \in hand[n], NEW view, NEW why, x = KnownPeers(n, m.src, view, why)
        PROVE  Proper(x)
    BY <1>6, <2>1, <2>5
  <2>6. ASSUME NEW m \in hand[n], NEW fp, NEW num, x = KnownPeersRequest(n, Partner(m), fp, num)
        PROVE  Proper(x)
    <3>1. n = Partner(m) => ~Sole(n)
      BY <2>1 DEF Partner
    <3> QED
      BY <1>7, <2>6, <3>1
  <2>7. \A type : InHand(n, type) \subseteq hand[n]
    BY DEF InHand
  <2> QED
    BY <1>8, <2>2, <2>3, <2>4, <2>5, <2>6, <2>7 DEF Answers
<1>9. /\ \A to \in NonSuspected(n, Table(n)) : to # n
      /\ \A to \in ping_requests[n] : n = to => ~Sole(n)
  BY <1>0 DEF NonSuspected, ProperRequests
<1> QED
  BY <1>1, <1>2, <1>3, <1>4, <1>8, <1>9 DEF Sends

LEMMA NoSelfTrafficStep ==
  ASSUME TypeOK, SelfInv, TxOK, NoSelfTraffic, [Next]_vars
  PROVE  NoSelfTraffic'
<1>0. \A p \in Peers : Sole(p)' => Sole(p) \/ (status[p] = "down" /\ NoGhost(p))
  BY SoleSteps DEF SelfInv, NoGhosts
<1>1. ASSUME NEW x \in Carried'
      PROVE  Proper(x)'
  <2>1. Proper(x) /\ x.src \in Peers
    <3>1. CASE x \in Carried
      <4>1. x \in Datagrams
        BY <3>1 DEF Carried, TypeOK
      <4> QED
        BY <3>1, <4>1, Fields DEF NoSelfTraffic, Proper
    <3>2. CASE x \notin Carried
      BY <3>2, NewCarried, ProperSends, Envelopes
    <3> QED
      BY <3>1, <3>2
  <2>2. status[x.src] = "down" => FALSE
    <3>1. CASE x \in Carried
      BY <2>1, <3>1 DEF SelfInv, NoGhosts, NoGhost
    <3>2. CASE x \notin Carried
      BY <3>2, NewCarried, Envelopes DEF Running
    <3> QED
      BY <3>1, <3>2
  <2>3. x.type = "Ack" /\ status[x.to] = "down" => x.to \notin Peers
    <3>1. CASE x \in Carried
      BY <3>1 DEF SelfInv, NoGhosts, NoGhost
    <3>2. CASE x \notin Carried
      <4>1. \A n, to : Ping(n, to).type = "Ping"
        BY DEF Ping
      <4> QED
        BY <3>2, <4>1, NewCarried DEF Running
    <3> QED
      BY <3>1, <3>2
  <2>4. Sole(x.src)' => Sole(x.src)
    BY <1>0, <2>1, <2>2
  <2>5. x.type = "Ack" /\ Sole(x.to)' => Sole(x.to)
    <3>1. Sole(x.to)' => x.to \in Peers
      BY TypeStep DEF Sole, TypeOK
    <3> QED
      BY <1>0, <2>3, <3>1
  <2> QED
    BY <2>1, <2>4, <2>5 DEF Proper
<1>2. ASSUME NEW n \in Peers, NEW q \in Peers, NEW o \in curious_peers'[n][q]
      PROVE  o # n /\ q # n /\ (o = q => ~Sole(o)')
  <2>1. o \in Peers
    BY TypeStep DEF TypeOK
  <2>2. CASE o \in curious_peers[n][q]
    <3>1. o # n /\ q # n /\ (o = q => ~Sole(o))
      BY <2>2 DEF NoSelfTraffic
    <3>2. status[o] # "down"
      BY <2>1, <2>2 DEF SelfInv, NoGhosts, NoGhost
    <3> QED
      BY <1>0, <2>1, <3>1, <3>2
  <2>3. CASE o \notin curious_peers[n][q]
    <3>1. PICK m \in InHand(n, "PingRequest") : m.src = o /\ m.peer = q /\ pc[n] = "handle"
      BY <2>3, CuriousSteps
    <3>2. m \in Carried /\ m.type = "PingRequest" /\ m.to = n
      BY <3>1 DEF InHand, Carried, SelfInv, HandOK
    <3>3. o # n /\ q # n /\ (o = q => ~Sole(o))
      BY <3>1, <3>2 DEF NoSelfTraffic
    <3>4. status[o] # "down"
      BY <2>1, <3>1, <3>2 DEF SelfInv, NoGhosts, NoGhost
    <3> QED
      BY <1>0, <2>1, <3>3, <3>4
  <2> QED
    BY <2>2, <2>3
<1>3. ASSUME NEW n \in Peers, n \in ping_requests'[n]
      PROVE  ~Sole(n)'
  <2>1. CASE n \in ping_requests[n]
    <3>1. ~Sole(n) /\ status[n] # "down"
      BY <2>1 DEF NoSelfTraffic, SelfInv, NoGhosts, NoGhost
    <3> QED
      BY <1>0, <3>1
  <2>2. CASE n \notin ping_requests[n]
    <3>1. PICK k \in Kaboodles : ping_request_tx[k] = n /\ known_peers[k][n] = Absent
      BY <1>3, <2>2, RequestSteps
    <3>2. Owner[n] = k
      BY <3>1, PeersAssumption DEF TxOK, Sessions
    <3>3. ~Sole(n) /\ status[n] # "down"
      BY <1>3, <2>2, <3>1, <3>2, RequestSteps DEF SelfInv, SelfKnown, Table, Absent, Running
    <3> QED
      BY <1>0, <3>3
  <2> QED
    BY <2>1, <2>2
<1> QED
  BY <1>1, <1>2, <1>3, TypeStep DEF NoSelfTraffic, Proper, TypeOK

LEMMA NoSelfTrafficInit == Init => NoSelfTraffic /\ TxOK
BY DEF Init, NoSelfTraffic, TxOK, NobodyCurious, Carried

\* No helper is asked to ping itself and nobody is curious about itself on its own behalf,
\* however sessions overlap; and a session that has its Kaboodle's table to itself never
\* addresses itself, be it through others or through its user.
THEOREM NobodyAddressesItself == Spec => []NoSelfTraffic
BY TypeCorrect, SelfInvariant, NoSelfTrafficInit, NoSelfTrafficStep, TxOKStep, PTL DEF Spec

-----------------------------------------------------------------------------
\* The vanished.

LEMMA StaleStep ==
  ASSUME TypeOK, [Next]_vars, NEW p \in Peers, Stale(p)
  PROVE  Stale(p)'
<1>1. status'[p] = "gone"
  BY StatusSteps DEF Stale
<1>2. ASSUME NEW k \in Kaboodles
      PROVE  known_peers'[k][p].state # "Known"
  <2>1. ~\E m \in net : m.type # "Failed" /\ m.src = p
    BY DEF Stale
  <2>2. \A id : Info(id, "KnownOld").state # "Known" /\ Absent.state # "Known"
    BY DEF Info, Absent
  <2>3. /\ known_peers[k][p].state # "Known" /\ status[p] # "down"
        /\ EntryStep(known_peers[k][p], known_peers'[k][p], p)
    BY EntrySteps DEF Stale
  <2> QED
    BY <2>1, <2>2, <2>3 DEF EntryStep, WaitingStates
<1>3. ASSUME NEW x \in net'
      PROVE  /\ x.src = p => x.type = "Failed"
             /\ x.type = "KnownPeers" /\ x.why = "KnownPeersRequest" =>
                  x.peers[p] = NoIdentity
  <2>1. CASE x \in net
    BY <2>1 DEF Stale
  <2>2. CASE x \notin net
    <3>1. PICK n \in Peers : Running(n) /\ Sends(n, x)
      BY <2>2, NewDatagrams
    <3>2. x.src # p
      BY <3>1, Envelopes DEF Running, Stale
    <3>3. ASSUME x.type = "KnownPeers", x.why = "KnownPeersRequest"
          PROVE  x.peers[p] = NoIdentity
      <4>1. PICK S \in SUBSET Peers :
              x.peers = Listing(Table(n), S) /\ \A q \in S : Table(n)[q].state = "Known"
        BY <3>1, <3>3, Envelopes
      <4>2. p \notin S
        BY <4>1, OwnerAssumption DEF Stale, Table
      <4> QED
        BY <4>1, <4>2 DEF Listing
    <3> QED
      BY <3>2, <3>3
  <2> QED
    BY <2>1, <2>2
<1> QED
  BY <1>1, <1>2, <1>3 DEF Stale

\* Stale knowledge of a vanished peer never becomes fresh again, in any mesh, with
\* any loss, duplication, reordering and timing: it is never listed again in reply to
\* a KnownPeersRequest.
THEOREM VanishedNotPropagated == Spec => StaleStaysStale
<1>1. TypeOK /\ [Next]_vars => [\A p \in Peers : Stale(p) => Stale(p)']_vars
  BY StaleStep
<1> QED
  BY <1>1, TypeCorrect, PTL DEF Spec, StaleStaysStale

LEMMA ForgottenStep ==
  ASSUME TypeOK, [Next]_vars, NEW p \in Peers, Forgotten(p)
  PROVE  Forgotten(p)'
<1>1. status'[p] = "gone"
  BY StatusSteps DEF Forgotten
<1>2. ASSUME NEW k \in Kaboodles
      PROVE  known_peers'[k][p] = Absent
  <2>1. ASSUME NEW m \in Carried, m.type = "KnownPeers", p \in Listed(m.peers)
        PROVE  FALSE
    BY <2>1 DEF Forgotten, Listed
  <2> QED
    BY <2>1, EntrySteps DEF Forgotten, EntryStep
<1>3. ASSUME NEW x \in net', x.src = p
      PROVE  x.type = "Failed"
  BY <1>3, NewDatagrams, Envelopes DEF Forgotten, Running
<1>4. ASSUME NEW x \in Carried', x.type = "KnownPeers"
      PROVE  x.peers[p] = NoIdentity
  <2>1. CASE x \in Carried
    BY <1>4, <2>1 DEF Forgotten
  <2>2. CASE x \notin Carried
    <3>1. PICK n \in Peers, S \in SUBSET Peers : x.peers = Listing(Table(n), S)
      BY <1>4, <2>2, NewCarried, Envelopes
    <3>2. Table(n)[p] = Absent
      BY OwnerAssumption DEF Forgotten, Table
    <3> QED
      BY <3>1, <3>2 DEF Listing, Absent
  <2> QED
    BY <2>1, <2>2
<1> QED
  BY <1>1, <1>2, <1>3, <1>4 DEF Forgotten

\* Once no table, no listing and no datagram of its own is left, a vanished peer
\* never comes back, whatever else about it is still in flight.
THEOREM VanishedStayForgotten == Spec => ForgottenForGood
<1>1. TypeOK /\ [Next]_vars => [\A p \in Peers : Forgotten(p) => Forgotten(p)']_vars
  BY ForgottenStep
<1> QED
  BY <1>1, TypeCorrect, PTL DEF Spec, ForgottenForGood

-----------------------------------------------------------------------------
\* Identities.

LEMMA IdentityStep ==
  ASSUME TypeOK, IdentityFaithful, [Next]_vars
  PROVE  IdentityFaithful'
<1>1. ASSUME NEW k \in Kaboodles, NEW q \in Peers
      PROVE  known_peers'[k][q].identity \in {Identity[q], NoIdentity}
  <2>1. EntryStep(known_peers[k][q], known_peers'[k][q], q)
    BY EntrySteps
  <2>2. \A m \in net : m.type # "Failed" /\ m.src = q => m.identity = Identity[q]
    BY DEF IdentityFaithful, Carried
  <2>3. \A m \in Carried : m.type = "KnownPeers" => m.peers[q] \in {Identity[q], NoIdentity}
    BY DEF IdentityFaithful
  <2>4. \A id, st : Info(id, st).identity = id /\ Absent.identity = NoIdentity
    BY DEF Info, Absent
  <2>5. known_peers[k][q].identity \in {Identity[q], NoIdentity}
    BY DEF IdentityFaithful
  <2> QED
    BY <2>1, <2>2, <2>3, <2>4, <2>5 DEF EntryStep
<1>2. ASSUME NEW x \in Carried'
      PROVE  /\ x.type # "Failed" => x.identity = Identity[x.src]
             /\ x.type = "KnownPeers" =>
                  \A q \in Peers : x.peers[q] \in {Identity[q], NoIdentity}
  <2>1. CASE x \in Carried
    BY <2>1 DEF IdentityFaithful
  <2>2. CASE x \notin Carried
    <3>1. PICK n \in Peers : Sends(n, x)
      BY <2>2, NewCarried
    <3>2. x.type # "Failed" => x.identity = Identity[x.src]
      BY <3>1, Envelopes
    <3>3. ASSUME x.type = "KnownPeers", NEW q \in Peers
          PROVE  x.peers[q] \in {Identity[q], NoIdentity}
      <4>1. PICK S \in SUBSET Peers : x.peers = Listing(Table(n), S)
        BY <3>1, <3>3, Envelopes
      <4>2. Table(n)[q].identity \in {Identity[q], NoIdentity}
        BY OwnerAssumption DEF IdentityFaithful, Table
      <4> QED
        BY <4>1, <4>2 DEF Listing
    <3> QED
      BY <3>2, <3>3
  <2> QED
    BY <2>1, <2>2
<1> QED
  BY <1>1, <1>2 DEF IdentityFaithful

LEMMA IdentityInit == Init => IdentityFaithful
BY DEF Init, IdentityFaithful, NoTable, Absent, Carried

\* However often it is passed on, an address keeps the identity of its session.
THEOREM IdentitiesFaithful == Spec => []IdentityFaithful
BY TypeCorrect, IdentityInit, IdentityStep, PTL DEF Spec

-----------------------------------------------------------------------------
\* What becomes of a suspect.

\* While it runs, a Kaboodle drops a peer only after the direct and the indirect ping,
\* or after the direct one if nobody could be asked, or because a ping could not be
\* sent, or because it is its own session and is stopped: no message, of any kind, ever
\* drops a peer.
THEOREM DroppedInOrder == Spec => RemovedAfterTimeouts
<1> DEFINE Allowed(k, p) ==
      LET st == known_peers[k][p].state
      IN  \/ st = "WaitingForIndirectPing"
          \/ /\ st = "WaitingForPing"
             /\ \E n \in Sessions(k) : NonSuspected(n, known_peers[k]) = {}
          \/ \E n \in Sessions(k) : pc[n] = "unsent" /\ Ping(n, p) \in hand[n]
          \/ Owner[p] = k /\ status[p] = "up" /\ status'[p] = "stopping"
          \/ \A n \in Sessions(k) : status'[n] \in {"down", "gone"}
<1>1. ASSUME TypeOK, TypeOK', [Next]_vars, NEW k \in Kaboodles, NEW p \in Peers,
             known_peers[k][p] # Absent, known_peers'[k][p] = Absent
      PROVE  Allowed(k, p)
  <2> DEFINE tbl == known_peers[k]
             new == known_peers'[k]
  <2>0. tbl \in Tables /\ \A n \in Sessions(k) : n \in Peers /\ Owner[n] = k
    BY <1>1 DEF TypeOK, Sessions
  <2>1. ASSUME NEW n \in Sessions(k), NEW expired \in SUBSET Waiting(tbl),
               new = AfterTimeouts(n, tbl, expired)
        PROVE  Allowed(k, p)
    <3>1. p \in expired /\ ~(tbl[p].state = "WaitingForPing" /\ NonSuspected(n, tbl) # {})
      BY <1>1, <2>1 DEF AfterTimeouts, Removed, IndirectlyPinged, Info, Absent
    <3> QED
      BY <3>1 DEF Waiting, WaitingStates
  <2>2. ASSUME NEW q \in Peers, new = [tbl EXCEPT ![q].state = "WaitingForPing"]
                                \/ new = [tbl EXCEPT ![q].state = "KnownOld"]
        PROVE  FALSE
    <3>1. new[p] = tbl[p] \/ new[p] = [tbl[p] EXCEPT !.state = "WaitingForPing"]
          \/ new[p] = [tbl[p] EXCEPT !.state = "KnownOld"]
      BY <2>0, <2>2 DEF Tables
    <3>2. tbl[p] \in PeerInfo
      BY <1>1, <2>0, EntryType DEF Tables
    <3> QED
      BY <1>1, <3>1, <3>2 DEF PeerInfo, Absent
  <2>3. ASSUME NEW n \in Sessions(k), pc[n] = "unsent",
               new = [q \in Peers |-> IF Ping(n, q) \in hand[n] THEN Absent ELSE tbl[q]]
        PROVE  Allowed(k, p)
    BY <1>1, <2>3
  <2>4. ASSUME NEW m \in net, new = AfterFailed(m.to, tbl, m)
        PROVE  FALSE
    <3>1. m.src \in Peers
      BY <1>1, Fields DEF TypeOK
    <3> QED
      BY <1>1, <2>4, <3>1, OutAddrAssumption DEF AfterFailed, Members
  <2>5. ASSUME NEW m \in net, new = AfterHearing(tbl, m)
        PROVE  FALSE
    BY <1>1, <2>0, <2>5 DEF AfterHearing, Tables, Info, Absent
  <2>6. ASSUME NEW view, new = AfterKnownPeers(tbl, view)
        PROVE  FALSE
    BY <1>1, <2>6 DEF AfterKnownPeers
  <2>7. ASSUME NEW n \in Sessions(k), new = [tbl EXCEPT ![n] = Info(Identity[n], "Known")]
        PROVE  FALSE
    BY <1>1, <2>0, <2>7 DEF Tables, Info, Absent
  <2>8. ASSUME NEW n \in Sessions(k), status[n] = "up", status'[n] = "stopping",
               new = [tbl EXCEPT ![n] = Absent]
        PROVE  Allowed(k, p)
    <3>1. n = p
      BY <1>1, <2>0, <2>8 DEF Tables
    <3> QED
      BY <2>0, <2>8, <3>1
  <2>9. ASSUME \A n \in Sessions(k) : ~Running(n)'
        PROVE  Allowed(k, p)
    BY <1>1, <2>0, <2>9 DEF Running, TypeOK, Statuses
  <2>10. TableStep(k, tbl, new) /\ new # tbl
    BY <1>1, TableSteps
  <2>11. \A n : NonSuspected(n, tbl) \subseteq Peers
    BY DEF NonSuspected
  <2> HIDE DEF Allowed, tbl, new
  <2> QED
    BY <2>1, <2>2, <2>3, <2>4, <2>5, <2>6, <2>7, <2>8, <2>9, <2>10, <2>11 DEF TableStep
<1>2. TypeOK /\ TypeOK' /\ [Next]_vars =>
        [\A k \in Kaboodles, p \in Peers :
           known_peers[k][p] # Absent /\ known_peers'[k][p] = Absent => Allowed(k, p)]_vars
  BY <1>1
<1> QED
  BY <1>2, TypeCorrect, PTL DEF Spec, RemovedAfterTimeouts

\* In one step, an entry that waits becomes Known only because a session on the table
\* hears from the peer it is about.
LEMMA Cleared ==
  ASSUME TypeOK, NoGhosts, [Next]_vars, NEW k \in Kaboodles, NEW p \in Peers,
         known_peers[k][p].state \in WaitingStates, known_peers'[k][p].state \in KnownStates
  PROVE  \E m \in net : m.src = p /\ Owner[m.to] = k /\ m.type # "Failed"
<1> DEFINE tbl == known_peers[k]
           new == known_peers'[k]
           Goal == \E m \in net : m.src = p /\ Owner[m.to] = k /\ m.type # "Failed"
<1>0. /\ tbl \in Tables /\ tbl[p] # Absent /\ Absent.state \notin KnownStates /\ new[p] # tbl[p]
      /\ tbl[p].state \notin KnownStates
      /\ \A n \in Sessions(k) : n \in Peers /\ Owner[n] = k
  BY DEF TypeOK, Absent, WaitingStates, KnownStates, Sessions
<1>1. ASSUME NEW n \in Sessions(k), NEW expired, new = AfterTimeouts(n, tbl, expired)
      PROVE  FALSE
  <2>1. \A id : Info(id, "WaitingForIndirectPing").state \notin KnownStates
    BY DEF Info, KnownStates
  <2> QED
    BY <1>0, <1>1, <2>1 DEF AfterTimeouts
<1>2. ASSUME NEW q \in Peers, q # p, NEW st, new = [tbl EXCEPT ![q].state = st]
      PROVE  FALSE
  BY <1>0, <1>2 DEF Tables
<1>3. ASSUME NEW n \in Sessions(k), 
             new = [q \in Peers |-> IF Ping(n, q) \in hand[n] THEN Absent ELSE tbl[q]]
      PROVE  FALSE
  BY <1>0, <1>3
<1>4. ASSUME NEW m \in net, new = AfterFailed(m.to, tbl, m)
      PROVE  FALSE
  BY <1>0, <1>4 DEF AfterFailed, Tables
<1>5. ASSUME NEW m \in net, m.to \in Sessions(k), m.type # "Failed", new = AfterHearing(tbl, m)
      PROVE  Goal
  BY <1>0, <1>5 DEF AfterHearing, Tables
<1>6. ASSUME NEW view, new = AfterKnownPeers(tbl, view)
      PROVE  FALSE
  BY <1>0, <1>6 DEF AfterKnownPeers
<1>7. ASSUME NEW n \in Sessions(k), status[n] = "down",
             new = [tbl EXCEPT ![n] = Info(Identity[n], "Known")]
      PROVE  FALSE
  <2>1. n # p
    BY <1>0, <1>7 DEF NoGhosts, NoGhost
  <2> QED
    BY <1>0, <1>7, <2>1 DEF Tables
<1>8. ASSUME NEW n \in Sessions(k), new = [tbl EXCEPT ![n] = Absent]
      PROVE  FALSE
  BY <1>0, <1>8 DEF Tables
<1>9. ASSUME new = NoTable
      PROVE  FALSE
  BY <1>0, <1>9 DEF NoTable
<1>10. TableStep(k, tbl, new) /\ new # tbl
  BY <1>0, TableSteps
<1>11. \A q \in Peers : tbl[q].state \in KnownStates => q # p
  BY <1>0
<1>12. /\ \A n : \A q \in NonSuspected(n, tbl) : q \in Peers /\ tbl[q].state \in KnownStates
       /\ "Known" \in KnownStates
  BY DEF NonSuspected, KnownStates
<1>13. Goal
  <2> HIDE DEF Goal, tbl, new
  <2> QED
    BY <1>1, <1>2, <1>3, <1>4, <1>5, <1>6, <1>7, <1>8, <1>9, <1>10, <1>11, <1>12 DEF TableStep
<1> QED
  BY <1>13

\* A suspicion is taken back only when the suspect itself has been heard from, in any mesh
\* and over any network: listings do not revive whoever waits
\* (handle_incoming_messages, handle_incoming_broadcasts).
THEOREM HearsayRevivesNobody == Spec => SuspicionStands
<1>1. TypeOK /\ NoGhosts /\ [Next]_vars =>
        [\A k \in Kaboodles, p \in Peers :
           /\ known_peers[k][p].state \in WaitingStates
           /\ known_peers'[k][p].state \in KnownStates
           => \E m \in net : m.src = p /\ Owner[m.to] = k /\ m.type # "Failed"]_vars
  BY Cleared
<1> QED
  BY <1>1, TypeCorrect, SelfInvariant, PTL DEF Spec, SuspicionStands, SelfInv
=============================================================================
