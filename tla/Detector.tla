------------------------------ MODULE Detector ------------------------------
(***************************************************************************)
(* The clock of one session: when a silent peer is suspected and given up, *)
(* how long an entry is shared, and the latency that is measured on the    *)
(* way.  Swim lets timeouts fire at any time; here they fire as in         *)
(* kaboodle.rs, against PING_TIMEOUT and MAX_PEER_SHARE_AGE, and the peers *)
(* are an environment that may be heard from, or of, at any time.          *)
(*                                                                         *)
(* An Instant is represented by its age, the time that has passed since.   *)
(* Durations are natural numbers, of any unit.                             *)
(***************************************************************************)
EXTENDS Integers, FiniteSetsExt

CONSTANTS
  Peers,                       \* the addresses of the others
  PROTOCOL_PERIOD,
  PING_TIMEOUT,
  MAX_PEER_SHARE_AGE,
  NUM_CANDIDATE_TARGET_PEERS,
  SendMayFail,                 \* may send_to report an error to ping_random_peer?
  MaxSlack,                    \* a period may be that much longer than PROTOCOL_PERIOD
  MaxQuiet                     \* bound: time stops when a peer has been silent so long

ASSUME DurationAssumption ==
  /\ PROTOCOL_PERIOD \in Nat /\ PING_TIMEOUT \in Nat \ {0}
  /\ MAX_PEER_SHARE_AGE \in Nat
  /\ MaxSlack \in Nat /\ MaxQuiet \in Nat
  /\ NUM_CANDIDATE_TARGET_PEERS \in Nat \ {0}

VARIABLES
  known_peers,     \* address -> entry, or Absent
  elapsed          \* time since the beginning of the tick

vars == <<known_peers, elapsed>>

None == -1
Latencies == Nat \cup {None}
States == {"Known", "WaitingForPing", "WaitingForIndirectPing"}

\* age belongs to the Instant in the state.  quiet and direct are history: the time
\* since the peer was last heard from, or first heard of, and which of the two.
Entries == [state : States, age : Nat, latency : Latencies, quiet : Nat, direct : BOOLEAN]
Absent == [state |-> "Absent", age |-> 0, latency |-> None, quiet |-> 0, direct |-> FALSE]

Waiting == {p \in Peers : known_peers[p].state \in {"WaitingForPing", "WaitingForIndirectPing"}}
NonSuspected == {p \in Peers : known_peers[p].state = "Known"}

-----------------------------------------------------------------------------
\* Hearing from a peer.

\* 80% of the new latency and 20% of the previous one, in binary fractions and
\* truncated: the result may be one less than that of exact arithmetic.
Mixed(new, prev) ==
  LET exact == (8 * new + 2 * prev) \div 10
  IN  {exact} \cup (IF exact > 0 THEN {exact - 1} ELSE {})

\* Mutant: measures from the last time the peer was heard from.
latency_since_heard(e) ==
  IF e = Absent THEN {None}
  ELSE IF e.latency = None THEN {e.age} ELSE Mixed(e.age, e.latency)

calculate_peer_latency(e) ==
  IF e.state \in {"Known", "Absent"} THEN {e.latency}
  ELSE IF e.latency = None THEN {e.age} ELSE Mixed(e.age, e.latency)

Heard(latency) ==
  [state |-> "Known", age |-> 0, latency |-> latency, quiet |-> 0, direct |-> TRUE]

\* Any message of p.
HearFrom(p) ==
  /\ \E latency \in calculate_peer_latency(known_peers[p]) :
       known_peers' = [known_peers EXCEPT ![p] = Heard(latency)]
  /\ UNCHANGED elapsed

\* A Join of p keeps the latency.
HearJoin(p) ==
  /\ known_peers' = [known_peers EXCEPT ![p] = Heard(@.latency)]
  /\ UNCHANGED elapsed

\* Mutant: takes hearsay for news.
HearOfFresh(p) ==
  /\ known_peers[p] = Absent
  /\ known_peers' = [known_peers EXCEPT ![p] =
       [state |-> "Known", age |-> 0, latency |-> None, quiet |-> 0, direct |-> FALSE]]
  /\ UNCHANGED elapsed

\* Somebody else lists p, in a KnownPeers message.
HearOf(p) ==
  /\ known_peers[p] = Absent
  /\ known_peers' = [known_peers EXCEPT ![p] =
       [state |-> "Known", age |-> MAX_PEER_SHARE_AGE, latency |-> None,
        quiet |-> 0, direct |-> FALSE]]
  /\ UNCHANGED elapsed

\* What the answer to a KnownPeersRequest lists (the one who asks apart).
Shareable == {p \in NonSuspected : known_peers[p].age < MAX_PEER_SHARE_AGE}

-----------------------------------------------------------------------------
\* The tick.

\* Mutant: a peer that has waited for exactly the timeout waits on.
ExpiredLater == {p \in Waiting : known_peers[p].age > PING_TIMEOUT}

Expired == {p \in Waiting : known_peers[p].age >= PING_TIMEOUT}

IndirectlyPinged ==
  {p \in Expired : known_peers[p].state = "WaitingForPing" /\ NonSuspected # {}}

Removed == Expired \ IndirectlyPinged

\* Mutant: the time of the direct ping is kept.
AfterTimeoutsKept(p) ==
  IF p \in Removed THEN Absent
  ELSE IF p \in IndirectlyPinged
       THEN [known_peers[p] EXCEPT !.state = "WaitingForIndirectPing"]
  ELSE known_peers[p]

AfterTimeouts(p) ==
  IF p \in Removed THEN Absent
  ELSE IF p \in IndirectlyPinged
       THEN [known_peers[p] EXCEPT !.state = "WaitingForIndirectPing", !.age = 0]
  ELSE known_peers[p]

\* The target is one of the NUM_CANDIDATE_TARGET_PEERS oldest entries: fewer than
\* that many are older than it.
PingCandidates ==
  {p \in NonSuspected :
     Cardinality({q \in NonSuspected : known_peers[q].age > known_peers[p].age})
       < NUM_CANDIDATE_TARGET_PEERS}

Pinged(e) == [e EXCEPT !.state = "WaitingForPing", !.age = 0]

Tick ==
  /\ elapsed >= PROTOCOL_PERIOD
  /\ elapsed' = 0
  /\ \/ /\ PingCandidates = {}
        /\ known_peers' = [p \in Peers |-> AfterTimeouts(p)]
     \/ \E target \in PingCandidates, failed \in BOOLEAN :
          /\ failed => SendMayFail
          /\ known_peers' =
               [p \in Peers |->
                  IF p # target THEN AfterTimeouts(p)
                  ELSE IF failed THEN Absent ELSE Pinged(known_peers[p])]

-----------------------------------------------------------------------------
\* Time.

Older(e, d) ==
  IF e = Absent THEN Absent ELSE [e EXCEPT !.age = @ + d, !.quiet = @ + d]

\* Mutant: the end of the period does not end the loop that reads the sockets.
PassOnAndOn(d) ==
  /\ \A p \in Peers : known_peers[p].quiet + d <= MaxQuiet
  /\ elapsed < MaxQuiet
  /\ elapsed' = elapsed + d
  /\ known_peers' = [p \in Peers |-> Older(known_peers[p], d)]

\* The tick reads its sockets for what is left of the period; a task that is late
\* makes it longer.
Pass(d) ==
  /\ elapsed + d <= PROTOCOL_PERIOD + MaxSlack
  /\ \A p \in Peers : known_peers[p].quiet + d <= MaxQuiet
  /\ elapsed' = elapsed + d
  /\ known_peers' = [p \in Peers |-> Older(known_peers[p], d)]

Init ==
  /\ known_peers = [p \in Peers |-> Absent]
  /\ elapsed = PROTOCOL_PERIOD

Next ==
  \/ \E p \in Peers : HearFrom(p) \/ HearJoin(p) \/ HearOf(p)
  \/ Tick
  \/ Pass(1)

Spec == Init /\ [][Next]_vars

-----------------------------------------------------------------------------
\* Properties.

\* Every entry has its type, and a tick ends in time.
TypeOK ==
  /\ known_peers \in [Peers -> Entries \cup {Absent}]
  /\ elapsed \in 0..(PROTOCOL_PERIOD + MaxSlack)

\* How long an entry can wait between two looks at it.
MaxWait == PING_TIMEOUT + PROTOCOL_PERIOD + MaxSlack

\* A peer that is waiting is looked at in every tick: it asks for help, or is given up,
\* at the first tick after PING_TIMEOUT, and never waits longer.
GivenUpInTime ==
  \A p \in Waiting : known_peers[p].age < PING_TIMEOUT + elapsed

\* No peer is given up early: it has been silent for two timeouts, or for one if no
\* other peer could be asked, since it was last heard from or first heard of
\* (handle_suspected_peers), unless a ping to it could not even be sent.
DroppedAfterSilence ==
  [][\A p \in Peers :
       known_peers[p] # Absent /\ known_peers'[p] = Absent
       => \/ known_peers[p].quiet >= 2 * PING_TIMEOUT
          \/ known_peers[p].quiet >= PING_TIMEOUT /\ NonSuspected = {}
          \/ SendMayFail /\ p \in NonSuspected]_vars

\* A latency is never longer than a peer can be waited for, however it was mixed, and
\* although the indirect ping and messages that are no answer are measured too.
LatencyBounded ==
  \A p \in Peers : known_peers[p].latency < MaxWait

\* What is shared on request was heard from the peer itself, within
\* MAX_PEER_SHARE_AGE ("who we have heard from since MAX_PEER_SHARE_AGE",
\* handle_incoming_messages).
SharedRecently ==
  \A p \in Shareable : known_peers[p].direct /\ known_peers[p].quiet < MAX_PEER_SHARE_AGE
=============================================================================
