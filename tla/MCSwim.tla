------------------------------- MODULE MCSwim -------------------------------
(***************************************************************************)
(* Small instances of Swim for TLC.                                        *)
(***************************************************************************)
EXTENDS SwimRefinement, TLC

CONSTANTS a, b, c, A, B, C

\* Every session in a Kaboodle of its own; or b and c in the same one.
MCApart == [p \in Peers |-> IF p = a THEN A ELSE IF p = b THEN B ELSE C]
MCShared == [p \in Peers |-> IF p = a THEN A ELSE B]

MCIdentity == [p \in Peers |-> p]
MCOutAddr == [p \in Peers |-> <<"broadcast", p>>]

\* Lengths of identities: all alike; or those of b and c too long for one datagram.
MCAlike == [p \in Peers |-> 1]
MCLong == [p \in Peers |-> IF p = a THEN 1 ELSE 3]

MCNoBootstrap == {}
MCBootstrap == {<<A, a>>, <<B, b>>}

\* Ticks of a, b and c: three are enough to ping, to ask for indirect pings and to
\* give up.  A session that never ticks still answers.
MC311 == [p \in Peers |-> IF p = a THEN 3 ELSE 1]
MC411 == [p \in Peers |-> IF p = a THEN 4 ELSE 1]
MC321 == [p \in Peers |-> IF p = a THEN 3 ELSE IF p = b THEN 2 ELSE 1]
MC111 == [p \in Peers |-> 1]
MC121 == [p \in Peers |-> IF p = b THEN 2 ELSE 1]

\* A session whose table nobody else ever touches is not interrupted in its tick, nor in
\* the handler of a message: what others do meanwhile could as well come before or after.
Alone(n) == Owner[n] \notin Doomed /\ Sessions(Owner[n]) = {n}
MCUninterrupted ==
  \A n \in Peers : Alone(n) /\ pc[n] \notin {"idle", "receive"} => pc'[n] # pc[n]

\* A mesh in the middle of its life.  The sessions in "joined" have joined, and those of
\* them in "dead" have just died; k knows the sessions in knows[k].
MCMesh(joined, dead, knows) ==
  /\ status = [p \in Peers |-> IF p \notin joined THEN "down" ELSE IF p \in dead THEN "gone" ELSE "up"]
  /\ alone = joined
  /\ ping_request_tx = [k \in Kaboodles |->
       IF Sessions(k) \cap (joined \ dead) = {} THEN NoSession
       ELSE CHOOSE p \in Sessions(k) \cap (joined \ dead) : TRUE]
  /\ known_peers = [k \in Kaboodles |->
       [p \in Peers |-> IF p \in knows[k] THEN Info(Identity[p], "Known") ELSE Absent]]
  /\ pc = [p \in Peers |-> IF p \in joined \ dead THEN "receive" ELSE "idle"]
  /\ hand = [p \in Peers |-> {}]
  /\ curious_peers = [p \in Peers |-> NobodyCurious]
  /\ ticks = [p \in Peers |-> IF p \in joined THEN 1 ELSE 0]
  /\ ping_requests = [p \in Peers |-> {}]

\* Everybody knows everybody, but a may have lost c again, or not have heard of it yet.
MCThree ==
  /\ \E known \in {{a, b}, Peers} :
       MCMesh(Peers, {}, [k \in Kaboodles |-> IF k = A THEN known ELSE Peers])
  /\ net = {}
MCThreeSpec == MCThree /\ [][Next]_vars

\* a and b know each other, and c is b's successor.
MCPair == MCMesh({a, b}, {}, [k \in Kaboodles |-> {a, b}]) /\ net = {}
MCPairSpec == MCPair /\ [][Next]_vars

\* A full mesh in which c has just died, and one last datagram of c may still be in
\* flight.
MCFingerprint == [p \in Peers |-> Identity[p]]
MCLastWords ==
  {Ping(c, b), Ack(c, a, c, MCFingerprint, 3), KnownPeersRequest(c, b, MCFingerprint, 3),
   KnownPeers(c, a, [p \in Peers |-> IF p = b THEN Identity[b] ELSE NoIdentity],
              "KnownPeersRequest")}
MCAfterDeath ==
  /\ MCMesh(Peers, {c}, [k \in Kaboodles |-> IF k = C THEN {} ELSE Peers])
  /\ \E s \in SUBSET MCLastWords : Cardinality(s) <= 1 /\ net = s

MCAfterDeathSpec ==
  MCAfterDeath /\ [][Next]_vars /\ Delivery /\ (\A n \in Peers : Progress(n)) /\ Watched(c)
=============================================================================
