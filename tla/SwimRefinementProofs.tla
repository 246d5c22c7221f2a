------------------------ MODULE SwimRefinementProofs ------------------------
(***************************************************************************)
(* Proof that Swim implements Membership, for any number of sessions and   *)
(* of Kaboodles, any network and any overlap of sessions on a table.       *)
(***************************************************************************)
EXTENDS SwimProofs, SwimRefinement

\* What an entry of a table says, as an opinion.
LEMMA OpinionOf ==
  ASSUME NEW e \in PeerInfo \cup {Absent}
  PROVE  /\ Opinion(e) \in {"none", "alive", "suspect", "doubted"}
         /\ Opinion(e) = "none" <=> e = Absent
         /\ Opinion(e) = "alive" <=> e.state \in KnownStates
         /\ Opinion(e) = "suspect" <=> e.state = "WaitingForPing"
         /\ Opinion(e) = "doubted" <=> e.state = "WaitingForIndirectPing"
<1>1. e.state \in {"Known", "KnownOld", "WaitingForPing", "WaitingForIndirectPing", "Absent"}
  BY DEF PeerInfo, Absent, KnownStates, WaitingStates
<1>2. e.state = "Absent" <=> e = Absent
  BY DEF PeerInfo, Absent, KnownStates, WaitingStates
<1>3. /\ e.state \in KnownStates => Opinion(e) = "alive"
      /\ e.state = "WaitingForPing" => Opinion(e) = "suspect"
      /\ e.state = "WaitingForIndirectPing" => Opinion(e) = "doubted"
      /\ e.state = "Absent" => Opinion(e) = "none"
  BY <1>1 DEF Opinion, KnownStates
<1> QED
  BY <1>1, <1>2, <1>3 DEF KnownStates

LEMMA OpinionsAt ==
  ASSUME NEW tables, NEW k \in Kaboodles, NEW p \in Peers
  PROVE  Opinions(tables)[k][p] = Opinion(tables[k][p])
BY DEF Opinions

LEMMA OpinionsType ==
  ASSUME NEW tables \in [Kaboodles -> Tables]
  PROVE  Opinions(tables) \in M!Views
BY OpinionOf DEF Opinions, Tables, M!Views, M!Opinions

\* A session runs exactly when Membership calls it up.
LEMMA PresenceOf ==
  ASSUME TypeOK, NEW n \in Peers
  PROVE  /\ Presence(status)[n] = "up" <=> Running(n)
         /\ Presence(status)[n] = "down" <=> status[n] = "down"
BY DEF Presence, Running, TypeOK, Statuses

\* For a peer that waits for a ping, the abstract helpers are those of the code.
LEMMA SameHelpers ==
  ASSUME TypeOK, NEW n \in Peers, NEW p \in Peers, Table(n)[p].state = "WaitingForPing"
  PROVE  M!Helpers(n, p) = NonSuspected(n, Table(n))
<1>1. Owner[n] \in Kaboodles
  BY OwnerAssumption
<1>2. \A h \in Peers :
        Opinions(known_peers)[Owner[n]][h] = "alive" <=> Table(n)[h].state \in KnownStates
  BY <1>1, OpinionsAt, OpinionOf DEF TypeOK, Tables, Table
<1> QED
  BY <1>2 DEF M!Helpers, NonSuspected, KnownStates

-----------------------------------------------------------------------------
\* Steps of one session that revise the opinions of its Kaboodle.

\* A step that writes the table of one running session, entry by entry.
LEMMA ReviseOne ==
  ASSUME TypeOK, TypeOK', NEW n \in Peers, Running(n), UNCHANGED status,
         \A k \in Kaboodles \ {Owner[n]} : known_peers'[k] = known_peers[k],
         \A p \in Peers :
           M!Stay(n, p) \/ M!Learn(n, p) \/ M!Clear(n, p) \/ M!Suspect(n, p)
             \/ M!Doubt(n, p) \/ M!Drop(n, p),
         \A p, q \in Peers : M!Suspect(n, p) /\ M!Suspect(n, q) => p = q
  PROVE  M!Revise(n)
<1>1. Opinions(known_peers') \in M!Views
  BY OpinionsType DEF TypeOK
<1>2. M!OthersStay(n)
  BY DEF M!OthersStay, Opinions
<1>3. Presence(status)[n] = "up" /\ UNCHANGED Presence(status)
  BY PresenceOf DEF Presence
<1> QED
  BY <1>1, <1>2, <1>3 DEF M!Revise

\* A step in which a session hears of peers that have been started.
LEMMA HearingRefines ==
  ASSUME TypeOK, TypeOK', NEW n \in Peers, Running(n), UNCHANGED status,
         NEW new, known_peers' = [known_peers EXCEPT ![Owner[n]] = new],
         \A p \in Peers :
           \/ new[p] = Table(n)[p]
           \/ new[p].state \in KnownStates /\ status[p] # "down"
  PROVE  M!Revise(n)
<1>1. Owner[n] \in Kaboodles
  BY OwnerAssumption
<1>2. known_peers'[Owner[n]] = new /\ new \in Tables /\ Table(n) \in Tables
  BY <1>1 DEF TypeOK, Table
<1>3. ASSUME NEW p \in Peers
      PROVE  /\ M!Stay(n, p) \/ M!Learn(n, p) \/ M!Clear(n, p)
             /\ ~M!Suspect(n, p)
  <2>1. /\ Opinions(known_peers)[Owner[n]][p] = Opinion(Table(n)[p])
        /\ Opinions(known_peers')[Owner[n]][p] = Opinion(new[p])
    <3>1. /\ Opinions(known_peers)[Owner[n]][p] = Opinion(known_peers[Owner[n]][p])
          /\ Opinions(known_peers')[Owner[n]][p] = Opinion(known_peers'[Owner[n]][p])
      BY <1>1, OpinionsAt
    <3> QED
      BY <1>2, <3>1 DEF Table
  <2>2. Table(n)[p] \in PeerInfo \cup {Absent} /\ new[p] \in PeerInfo \cup {Absent}
    BY <1>2 DEF Tables
  <2>3. CASE new[p] = Table(n)[p]
    BY <2>1, <2>3 DEF M!Stay, M!Suspect, M!Turns
  <2>4. CASE new[p].state \in KnownStates /\ status[p] # "down"
    <3>1. /\ Opinion(new[p]) = "alive"
          /\ Opinion(Table(n)[p]) \in {"none", "alive", "suspect", "doubted"}
      BY <2>2, <2>4, OpinionOf
    <3>2. Presence(status)[p] # "down"
      BY <2>4, PresenceOf
    <3> QED
      BY <2>1, <3>1, <3>2 DEF M!Stay, M!Learn, M!Clear, M!Suspect, M!Turns
  <2> QED
    BY <2>3, <2>4
<1>4. \A k \in Kaboodles \ {Owner[n]} : known_peers'[k] = known_peers[k]
  BY DEF TypeOK
<1> QED
  BY <1>3, <1>4, ReviseOne

LEMMA ReceiveRefines ==
  ASSUME TypeOK, TypeOK', NoGhosts, NEW m \in net, Receive(m)
  PROVE  M!Revise(m.to) \/ UNCHANGED M!vars
<1> DEFINE n == m.to
<1>1. m \in Datagrams /\ n \in Peers /\ m.src \in Peers /\ Owner[n] \in Kaboodles
  BY Fields, OwnerAssumption DEF TypeOK
<1>2. status[m.src] # "down" /\ Running(n) /\ UNCHANGED status
  BY <1>1 DEF NoGhosts, NoGhost, Carried, Receive, HandleFailed, HandleJoin, Hear,
       SkipUndecodable, Arrived, handleVars
<1>3. Table(n) \in Tables
  BY <1>1 DEF TypeOK, Table
<1>4. CASE HandleFailed(m) \/ SkipUndecodable(m)
  <2>1. AfterFailed(n, Table(n), m) = Table(n)
    BY <1>1, OutAddrAssumption DEF AfterFailed, Members
  <2>2. UNCHANGED known_peers
    BY <1>1, <1>4, <2>1 DEF HandleFailed, SkipUndecodable, Table, TypeOK
  <2> QED
    BY <1>2, <2>2 DEF M!vars, Opinions, Presence
<1>5. CASE HandleJoin(m)
  <2>1. PICK new \in {Table(n), [Table(n) EXCEPT ![m.src] = Info(m.identity, "Known")]} :
          known_peers' = [known_peers EXCEPT ![Owner[n]] = new]
    BY <1>5 DEF HandleJoin, Table
  <2>2. ASSUME NEW p \in Peers
        PROVE  \/ new[p] = Table(n)[p]
               \/ new[p].state \in KnownStates /\ status[p] # "down"
    BY <1>2, <1>3, <2>1 DEF Info, KnownStates, Tables
  <2> QED
    BY <1>1, <1>2, <2>1, <2>2, HearingRefines
<1>6. CASE Hear(m)
  <2> DEFINE new == AfterHearing(Table(n), m)
  <2>1. known_peers' = [known_peers EXCEPT ![Owner[n]] = new]
    BY <1>6 DEF Hear, Table
  <2>2. ASSUME NEW p \in Peers
        PROVE  \/ new[p] = Table(n)[p]
               \/ new[p].state \in KnownStates /\ status[p] # "down"
    BY <1>2, <1>3 DEF AfterHearing, Info, KnownStates, Tables
  <2> HIDE DEF new
  <2> QED
    BY <1>1, <1>2, <2>1, <2>2, HearingRefines
<1> QED
  BY <1>4, <1>5, <1>6 DEF Receive

LEMMA HandleRefines ==
  ASSUME TypeOK, TypeOK', NoGhosts, NEW n \in Peers, Handle(n)
  PROVE  M!Revise(n) \/ UNCHANGED M!vars
<1>1. CASE HandleKnownPeers(n)
  <2>1. PICK m \in InHand(n, "KnownPeers") :
          known_peers' = [known_peers EXCEPT ![Owner[n]] = AfterKnownPeers(@, m.peers)]
    BY <1>1 DEF HandleKnownPeers
  <2> DEFINE new == AfterKnownPeers(Table(n), m.peers)
  <2>2. known_peers' = [known_peers EXCEPT ![Owner[n]] = new]
    BY <2>1 DEF Table
  <2>3. Running(n) /\ UNCHANGED status
    BY <1>1 DEF HandleKnownPeers, Done, Goes, handleVars
  <2>4. m \in Carried /\ m.type = "KnownPeers"
    BY <2>1 DEF InHand, Carried
  <2>5. ASSUME NEW p \in Peers
        PROVE  \/ new[p] = Table(n)[p]
               \/ new[p].state \in KnownStates /\ status[p] # "down"
    <3>1. p \in Listed(m.peers) => status[p] # "down"
      BY <2>4 DEF NoGhosts, NoGhost, Listed
    <3> QED
      BY <3>1 DEF AfterKnownPeers, Info, KnownStates
  <2> HIDE DEF new
  <2> QED
    BY <2>2, <2>3, <2>5, HearingRefines
<1>2. CASE \/ AnswerJoin(n) \/ HandlePing(n) \/ HandlePingRequest(n) \/ HandleAck(n)
           \/ HandleKnownPeersRequest(n) \/ MaybeSyncKnownPeers(n) \/ CutShort(n)
  <2>1. UNCHANGED <<status, known_peers>>
    BY <1>2 DEF AnswerJoin, HandlePing, HandlePingRequest, HandleAck, HandleKnownPeersRequest,
         MaybeSyncKnownPeers, CutShort, handleVars
  <2> QED
    BY <2>1 DEF M!vars, Opinions, Presence
<1> QED
  BY <1>1, <1>2 DEF Handle

-----------------------------------------------------------------------------
\* The tick.

LEMMA TimeoutsRefine ==
  ASSUME TypeOK, TypeOK', NEW n \in Peers, NEW expired \in SUBSET Waiting(Table(n)),
         HandleSuspectedPeers(n, expired)
  PROVE  M!Revise(n)
<1> DEFINE new == AfterTimeouts(n, Table(n), expired)
<1>1. Owner[n] \in Kaboodles /\ Running(n) /\ UNCHANGED status
  BY OwnerAssumption DEF HandleSuspectedPeers, Goes, handleVars
<1>2. known_peers' = [known_peers EXCEPT ![Owner[n]] = new]
  BY DEF HandleSuspectedPeers, Table
<1>3. known_peers'[Owner[n]] = new /\ new \in Tables /\ Table(n) \in Tables
  BY <1>1, <1>2 DEF TypeOK, Table
<1>4. ASSUME NEW p \in Peers
      PROVE  /\ M!Stay(n, p) \/ M!Doubt(n, p) \/ M!Drop(n, p)
             /\ ~M!Suspect(n, p)
  <2> DEFINE e == Table(n)[p]
  <2>1. /\ Opinions(known_peers)[Owner[n]][p] = Opinion(e)
        /\ Opinions(known_peers')[Owner[n]][p] = Opinion(new[p])
    BY <1>1, <1>3, OpinionsAt DEF Table
  <2>2. e \in PeerInfo \cup {Absent} /\ new[p] \in PeerInfo \cup {Absent}
    BY <1>3 DEF Tables
  <2>3. \/ new[p] = e
        \/ /\ e.state = "WaitingForPing" /\ NonSuspected(n, Table(n)) # {}
           /\ new[p].state = "WaitingForIndirectPing"
        \/ /\ e.state = "WaitingForPing" /\ NonSuspected(n, Table(n)) = {}
           /\ new[p] = Absent
        \/ e.state = "WaitingForIndirectPing" /\ new[p] = Absent
    BY DEF AfterTimeouts, IndirectlyPinged, Removed, Waiting, WaitingStates, Info
  <2>4. e.state = "WaitingForPing" => M!Helpers(n, p) = NonSuspected(n, Table(n))
    BY SameHelpers
  <2> HIDE DEF new
  <2>5. CASE new[p] = e
    BY <2>1, <2>5 DEF M!Stay, M!Suspect, M!Turns
  <2>6. CASE /\ e.state = "WaitingForPing" /\ NonSuspected(n, Table(n)) # {}
             /\ new[p].state = "WaitingForIndirectPing"
    BY <2>1, <2>2, <2>4, <2>6, OpinionOf DEF M!Doubt, M!Suspect, M!Turns
  <2>7. CASE /\ e.state = "WaitingForPing" /\ NonSuspected(n, Table(n)) = {}
             /\ new[p] = Absent
    BY <2>1, <2>2, <2>4, <2>7, OpinionOf DEF M!Drop, M!Suspect, M!Turns
  <2>8. CASE e.state = "WaitingForIndirectPing" /\ new[p] = Absent
    BY <2>1, <2>2, <2>8, OpinionOf DEF M!Drop, M!Suspect, M!Turns
  <2> QED
    BY <2>3, <2>5, <2>6, <2>7, <2>8
<1>5. \A k \in Kaboodles \ {Owner[n]} : known_peers'[k] = known_peers[k]
  BY <1>2 DEF TypeOK
<1> HIDE DEF new
<1> QED
  BY <1>1, <1>4, <1>5, ReviseOne

LEMMA PingRefines ==
  ASSUME TypeOK, TypeOK', NEW n \in Peers, NEW target \in Peers, PingRandomPeer(n, target)
  PROVE  M!Revise(n)
<1>1. Owner[n] \in Kaboodles /\ Running(n) /\ UNCHANGED status
  BY OwnerAssumption DEF PingRandomPeer, Goes, handleVars
<1>2. target # n /\ Table(n)[target].state \in KnownStates
  BY DEF PingRandomPeer, PingCandidates, NonSuspected
<1>3. known_peers' = [known_peers EXCEPT ![Owner[n]][target].state = "WaitingForPing"]
  BY DEF PingRandomPeer
<1>4. Table(n) \in Tables /\ Table(n)[target] \in PeerInfo
  <2>1. Table(n) \in Tables
    BY <1>1 DEF TypeOK, Table
  <2> QED
    BY <1>2, <2>1, EntryType DEF Tables, Absent, KnownStates
<1>5. /\ known_peers'[Owner[n]][target] = [Table(n)[target] EXCEPT !.state = "WaitingForPing"]
      /\ \A p \in Peers \ {target} : known_peers'[Owner[n]][p] = Table(n)[p]
  BY <1>1, <1>3, <1>4 DEF TypeOK, Tables, Table
<1>6. known_peers'[Owner[n]][target].state = "WaitingForPing"
  BY <1>4, <1>5 DEF PeerInfo
<1>7. ASSUME NEW p \in Peers
      PROVE  /\ M!Stay(n, p) \/ M!Suspect(n, p)
             /\ M!Suspect(n, p) => p = target
  <2>1. /\ Opinions(known_peers)[Owner[n]][p] = Opinion(Table(n)[p])
        /\ Opinions(known_peers')[Owner[n]][p] = Opinion(known_peers'[Owner[n]][p])
    BY <1>1, OpinionsAt DEF Table
  <2>2. /\ Table(n)[p] \in PeerInfo \cup {Absent}
        /\ known_peers'[Owner[n]][p] \in PeerInfo \cup {Absent}
    BY <1>1, <1>4 DEF TypeOK, Tables
  <2>3. CASE p = target
    <3>1. /\ Opinion(Table(n)[p]) = "alive"
          /\ Opinion(known_peers'[Owner[n]][p]) = "suspect"
      BY <1>2, <1>6, <2>2, <2>3, OpinionOf
    <3> QED
      BY <1>2, <2>1, <2>3, <3>1 DEF M!Suspect, M!Turns
  <2>4. CASE p # target
    BY <1>5, <2>1, <2>4 DEF M!Stay, M!Suspect, M!Turns
  <2> QED
    BY <2>3, <2>4
<1>8. \A k \in Kaboodles \ {Owner[n]} : known_peers'[k] = known_peers[k]
  BY <1>3 DEF TypeOK
<1>9. \A p, q \in Peers : M!Suspect(n, p) /\ M!Suspect(n, q) => p = q
  BY <1>7
<1> QED
  BY <1>1, <1>7, <1>8, <1>9, ReviseOne

\* The ping in the hand of a session that could not send it is to one other peer.
LEMMA GivingUpRefines ==
  ASSUME TypeOK, TypeOK', HandOK, NEW n \in Peers, GiveUpUnsent(n)
  PROVE  \E p \in Peers : M!GiveUp(n, p)
<1>1. PICK target \in Peers \ {n} : hand[n] = {Ping(n, target)}
  BY DEF GiveUpUnsent, Goes, HandOK
<1>2. SendMayFail
  BY DEF GiveUpUnsent, Goes, HandOK
<1>3. Owner[n] \in Kaboodles /\ Running(n) /\ UNCHANGED status
  BY OwnerAssumption DEF GiveUpUnsent, Goes, handleVars
<1>4. \A p \in Peers : Ping(n, p) \in hand[n] <=> p = target
  BY <1>1 DEF Ping
<1>5. known_peers' = [known_peers EXCEPT ![Owner[n]] =
                        [p \in Peers |-> IF p = target THEN Absent ELSE @[p]]]
  BY <1>4 DEF GiveUpUnsent
<1>6. Opinion(Absent) = "none"
  BY DEF Opinion, Absent, KnownStates
<1>7. Opinions(known_peers') = [Opinions(known_peers) EXCEPT ![Owner[n]][target] = "none"]
  <2>0. Owner[n] \in Kaboodles /\ target \in Peers
    BY <1>3
  <2>1. /\ known_peers'[Owner[n]][target] = Absent
        /\ \A k \in Kaboodles, p \in Peers :
             k # Owner[n] \/ p # target => known_peers'[k][p] = known_peers[k][p]
    BY <1>3, <1>5 DEF TypeOK, Tables
  <2>2. \A k \in Kaboodles, p \in Peers :
          Opinion(known_peers'[k][p]) = IF k = Owner[n] /\ p = target THEN "none"
                                        ELSE Opinion(known_peers[k][p])
    BY <1>6, <2>1
  <2> QED
    BY <2>0, <2>2 DEF Opinions
<1>8. Presence(status)[n] = "up" /\ UNCHANGED Presence(status)
  BY <1>3, PresenceOf DEF Presence
<1>9. M!GiveUp(n, target)
  BY <1>1, <1>2, <1>7, <1>8 DEF M!GiveUp
<1> QED
  BY <1>1, <1>9

LEMMA TickRefines ==
  ASSUME TypeOK, TypeOK', HandOK, NEW n \in Peers, Tick(n)
  PROVE  M!Revise(n) \/ (\E p \in Peers : M!GiveUp(n, p)) \/ UNCHANGED M!vars
<1>1. CASE \/ BeginTick(n) \/ MaybeBroadcastJoin(n) \/ NobodyToPing(n)
           \/ HandleIncomingPingRequests(n)
  <2>1. UNCHANGED <<status, known_peers>>
    BY <1>1 DEF BeginTick, MaybeBroadcastJoin, NobodyToPing, HandleIncomingPingRequests, handleVars
  <2> QED
    BY <2>1 DEF M!vars, Opinions, Presence
<1> QED
  BY <1>1, TimeoutsRefine, PingRefines, GivingUpRefines DEF Tick

-----------------------------------------------------------------------------
\* Sessions come and go.

LEMMA StartRefines ==
  ASSUME TypeOK, TypeOK', NEW n \in Peers, Start(n) \/ StartFails(n)
  PROVE  M!Appear(n)
<1>1. Owner[n] \in Kaboodles /\ status[n] = "down" /\ known_peers' = AfterStart(n)
  BY OwnerAssumption DEF Start, StartFails, MayStart
<1>2. Opinion(Info(Identity[n], "Known")) = "alive"
  BY DEF Opinion, Info, KnownStates
<1>3. Opinions(known_peers') = [Opinions(known_peers) EXCEPT ![Owner[n]][n] = "alive"]
  <2>0. Owner[n] \in Kaboodles /\ n \in Peers
    BY <1>1
  <2>1. /\ known_peers'[Owner[n]][n] = Info(Identity[n], "Known")
        /\ \A k \in Kaboodles, p \in Peers :
             k # Owner[n] \/ p # n => known_peers'[k][p] = known_peers[k][p]
    BY <1>1 DEF AfterStart, TypeOK, Tables
  <2>2. \A k \in Kaboodles, p \in Peers :
          Opinion(known_peers'[k][p]) = IF k = Owner[n] /\ p = n THEN "alive"
                                        ELSE Opinion(known_peers[k][p])
    BY <1>2, <2>1
  <2> QED
    BY <2>0, <2>2 DEF Opinions
<1>4. \/ Presence(status)' = [Presence(status) EXCEPT ![n] = "up"]
      \/ Presence(status)' = [Presence(status) EXCEPT ![n] = "gone"]
  <2>1. status' = [status EXCEPT ![n] = "up"] \/ status' = [status EXCEPT ![n] = "gone"]
    BY DEF Start, StartFails
  <2> QED
    BY <2>1 DEF Presence, TypeOK
<1> QED
  BY <1>1, <1>3, <1>4, PresenceOf DEF M!Appear

LEMMA StopRefines ==
  ASSUME TypeOK, TypeOK', NEW n \in Peers, StopRemove(n)
  PROVE  M!Retract(n)
<1>1. Owner[n] \in Kaboodles /\ Running(n)
  BY OwnerAssumption DEF StopRemove, Running
<1>2. Opinion(Absent) = "none"
  BY DEF Opinion, Absent, KnownStates
<1>3. Opinions(known_peers') = [Opinions(known_peers) EXCEPT ![Owner[n]][n] = "none"]
  <2>0. Owner[n] \in Kaboodles /\ n \in Peers
    BY <1>1
  <2>1. /\ known_peers'[Owner[n]][n] = Absent
        /\ \A k \in Kaboodles, p \in Peers :
             k # Owner[n] \/ p # n => known_peers'[k][p] = known_peers[k][p]
    BY <1>1 DEF StopRemove, TypeOK, Tables
  <2>2. \A k \in Kaboodles, p \in Peers :
          Opinion(known_peers'[k][p]) = IF k = Owner[n] /\ p = n THEN "none"
                                        ELSE Opinion(known_peers[k][p])
    BY <1>2, <2>1
  <2> QED
    BY <2>0, <2>2 DEF Opinions
<1>4. UNCHANGED Presence(status)
  BY DEF StopRemove, Presence, TypeOK
<1> QED
  BY <1>1, <1>3, <1>4, PresenceOf DEF M!Retract

LEMMA LeaveRefines ==
  ASSUME TypeOK, TypeOK', NEW n \in Peers, LeaveMesh(n)
  PROVE  M!Leave(n)
<1>1. Running(n) /\ UNCHANGED known_peers
  BY DEF LeaveMesh, Running
<1>2. Presence(status)' = [Presence(status) EXCEPT ![n] = "gone"]
  <2>1. status' = [status EXCEPT ![n] = "gone"]
    BY DEF LeaveMesh, End, TypeOK
  <2> QED
    BY <2>1 DEF Presence, TypeOK
<1> QED
  BY <1>1, <1>2, PresenceOf DEF M!Leave, Opinions

LEMMA CrashRefines ==
  ASSUME TypeOK, TypeOK', NEW k \in Kaboodles, Crash(k)
  PROVE  M!Crash(k)
<1>1. Opinion(Absent) = "none"
  BY DEF Opinion, Absent, KnownStates
<1>2. Opinions(known_peers') = [Opinions(known_peers) EXCEPT ![k] = M!NoOpinion]
  BY <1>1 DEF Crash, NoTable, Opinions, TypeOK, M!NoOpinion
<1>3. status' = [n \in Peers |-> IF Owner[n] = k /\ Running(n) THEN "gone" ELSE status[n]]
  BY DEF Crash, End, Sessions
<1>4. Presence(status)' =
        [n \in Peers |-> IF Owner[n] = k /\ Presence(status)[n] = "up"
                         THEN "gone" ELSE Presence(status)[n]]
  BY <1>3, PresenceOf DEF Presence
<1> QED
  BY <1>2, <1>4 DEF M!Crash

\* Every step of Swim is a step of Membership, or none.
LEMMA StepRefines ==
  ASSUME TypeOK, TypeOK', NoGhosts, HandOK, [Next]_vars
  PROVE  [M!Next]_(M!vars)
<1>1. ASSUME NEW n \in Peers, Start(n) \/ StartFails(n) \/ StopRemove(n) \/ LeaveMesh(n)
      PROVE  M!Next
  BY <1>1, StartRefines, StopRefines, LeaveRefines DEF M!Next
<1>2. ASSUME NEW n \in Peers, StopCancel(n)
      PROVE  UNCHANGED M!vars
  BY <1>2 DEF StopCancel, M!vars, Opinions, Presence, TypeOK
<1>3. ASSUME NEW n \in Peers, Tick(n) \/ Handle(n)
      PROVE  [M!Next]_(M!vars)
  BY <1>3, TickRefines, HandleRefines DEF M!Next
<1>4. ASSUME NEW k \in Kaboodles, Crash(k)
      PROVE  M!Next
  BY <1>4, CrashRefines DEF M!Next
<1>5. ASSUME NEW k \in Kaboodles, NEW p \in Peers, PingAddrs(k, p)
      PROVE  UNCHANGED M!vars
  BY <1>5 DEF PingAddrs, handleVars, M!vars, Opinions, Presence
<1>6. ASSUME NEW k \in Kaboodles, NEW p \in Peers, GrowOld(k, p)
      PROVE  UNCHANGED M!vars
  <2>1. \A j \in Kaboodles, q \in Peers : Opinion(known_peers'[j][q]) = Opinion(known_peers[j][q])
    BY <1>6 DEF GrowOld, TypeOK, Tables, Opinion, KnownStates
  <2> QED
    BY <1>6, <2>1 DEF GrowOld, handleVars, M!vars, Opinions, Presence
<1>7. ASSUME NEW m \in net, Receive(m)
      PROVE  [M!Next]_(M!vars)
  <2>1. m.to \in Peers
    BY Fields DEF TypeOK
  <2> QED
    BY <1>7, <2>1, ReceiveRefines DEF M!Next
<1>8. CASE UNCHANGED vars
  BY <1>8 DEF vars, M!vars, Opinions, Presence
<1> QED
  BY <1>1, <1>2, <1>3, <1>4, <1>5, <1>6, <1>7, <1>8 DEF Next

LEMMA InitRefines == Init => M!Init
<1>1. Opinion(Absent) = "none"
  BY DEF Opinion, Absent, KnownStates
<1> QED
  BY <1>1 DEF Init, M!Init, Opinions, Presence, NoTable

\* The protocol implements the membership specification: in any mesh and any network,
\* and however the sessions of a Kaboodle overlap or fail to start, the opinions of the
\* Kaboodles about each other's sessions change only as Membership allows.
THEOREM SwimImplementsMembership == Spec => ImplementsMembership
<1>1. TypeOK /\ TypeOK' /\ NoGhosts /\ HandOK /\ [Next]_vars => [M!Next]_(M!vars)
  BY StepRefines
<1>2. SelfInv => NoGhosts /\ HandOK
  BY DEF SelfInv
<1> QED
  BY <1>1, <1>2, InitRefines, TypeCorrect, SelfInvariant, PTL DEF Spec, ImplementsMembership, M!Spec
=============================================================================
