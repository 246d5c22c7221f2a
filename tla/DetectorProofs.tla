--------------------------- MODULE DetectorProofs ---------------------------
(***************************************************************************)
(* Proofs about Detector, for every set of peers and every choice of the   *)
(* durations.                                                              *)
(***************************************************************************)
EXTENDS Detector, TLAPS

\* What holds of one entry, el after the beginning of the tick.
EntryOK(e, el) ==
  /\ e \in Entries \cup {Absent}
  /\ e.state \in {"WaitingForPing", "WaitingForIndirectPing"} =>
       e.age <= e.quiet /\ e.age < PING_TIMEOUT + el
  /\ e.state = "WaitingForIndirectPing" => e.quiet >= e.age + PING_TIMEOUT
  /\ e.latency < MaxWait
  /\ e.state = "Known" /\ e.age < MAX_PEER_SHARE_AGE => e.direct /\ e.age = e.quiet

IInv ==
  /\ elapsed \in 0..(PROTOCOL_PERIOD + MaxSlack)
  /\ known_peers \in [Peers -> Entries \cup {Absent}]
  /\ \A p \in Peers : EntryOK(known_peers[p], elapsed)

LEMMA AbsentOK ==
  ASSUME NEW el \in Nat
  PROVE  EntryOK(Absent, el)
BY DurationAssumption
   DEF EntryOK, Absent, Entries, None, Latencies, MaxWait

\* Mixing two latencies yields nothing above the longer of them.
LEMMA MixedBounded ==
  ASSUME NEW new \in Nat, NEW prev \in Nat, NEW bound \in Nat,
         new < bound, prev < bound, NEW r \in Mixed(new, prev)
  PROVE  r \in Nat /\ r < bound
<1> DEFINE exact == (8 * new + 2 * prev) \div 10
<1>1. exact \in Nat /\ exact < bound
  OBVIOUS
<1>2. r = exact \/ (exact > 0 /\ r = exact - 1)
  BY DEF Mixed
<1> HIDE DEF exact
<1> QED
  BY <1>1, <1>2

LEMMA LatencyOK ==
  ASSUME NEW el \in 0..(PROTOCOL_PERIOD + MaxSlack), NEW e, EntryOK(e, el),
         NEW l \in calculate_peer_latency(e) \cup {e.latency}
  PROVE  l \in Latencies /\ l < MaxWait
<1> USE DurationAssumption
<1>1. e.latency \in Latencies /\ e.latency < MaxWait
  BY DEF EntryOK, Entries, Absent, Latencies
<1>2. CASE l = e.latency
  BY <1>1, <1>2
<1>3. CASE l # e.latency
  <2>1. e.state \in {"WaitingForPing", "WaitingForIndirectPing"}
    BY <1>3 DEF calculate_peer_latency, EntryOK, Entries, Absent, States
  <2>2. e.age \in Nat /\ e.age < MaxWait /\ MaxWait \in Nat
    BY <2>1 DEF EntryOK, Entries, Absent, MaxWait
  <2>3. l = e.age \/ (e.latency # None /\ l \in Mixed(e.age, e.latency))
    BY <1>3, <2>1 DEF calculate_peer_latency
  <2>4. e.latency # None => e.latency \in Nat
    BY <1>1 DEF Latencies
  <2> QED
    BY <1>1, <2>2, <2>3, <2>4, MixedBounded DEF Latencies
<1> QED
  BY <1>2, <1>3

LEMMA HeardOK ==
  ASSUME NEW el \in Nat, NEW l \in Latencies, l < MaxWait
  PROVE  EntryOK(Heard(l), el)
BY DurationAssumption DEF EntryOK, Heard, Entries, States

LEMMA HearsayOK ==
  ASSUME NEW el \in Nat
  PROVE  EntryOK([state |-> "Known", age |-> MAX_PEER_SHARE_AGE, latency |-> None,
                  quiet |-> 0, direct |-> FALSE], el)
BY DurationAssumption
   DEF EntryOK, Entries, States, None, Latencies, MaxWait

LEMMA PingedOK ==
  ASSUME NEW el \in Nat, NEW e, EntryOK(e, el), e.state = "Known"
  PROVE  EntryOK(Pinged(e), 0)
<1>1. e \in Entries
  BY DEF EntryOK, Absent
<1>2. Pinged(e) \in Entries
  BY <1>1 DEF Pinged, Entries, States
<1> QED
  BY <1>1, <1>2, DurationAssumption DEF EntryOK, Pinged, Entries

LEMMA AfterTimeoutsOK ==
  ASSUME IInv, NEW p \in Peers
  PROVE  EntryOK(AfterTimeouts(p), 0)
<1> DEFINE e == known_peers[p]
<1> USE DurationAssumption
<1>0. EntryOK(e, elapsed) /\ elapsed \in Nat
  BY DEF IInv
<1>1. CASE p \in Removed
  BY <1>1, AbsentOK DEF AfterTimeouts
<1>2. CASE p \in IndirectlyPinged
  <2>1. e.state = "WaitingForPing" /\ e.age >= PING_TIMEOUT
    BY <1>2 DEF IndirectlyPinged, Expired
  <2>2. e \in Entries
    BY <1>0, <2>1 DEF EntryOK, Absent
  <2>3. AfterTimeouts(p) = [e EXCEPT !.state = "WaitingForIndirectPing", !.age = 0]
    BY <1>2 DEF AfterTimeouts, Removed
  <2>4. AfterTimeouts(p) =
          [state |-> "WaitingForIndirectPing", age |-> 0, latency |-> e.latency,
           quiet |-> e.quiet, direct |-> e.direct]
    BY <2>2, <2>3 DEF Entries
  <2>5. AfterTimeouts(p) \in Entries
    BY <2>2, <2>4 DEF Entries, States
  <2>6. e.quiet \in Nat /\ e.age \in Nat /\ e.age <= e.quiet /\ e.latency < MaxWait
    BY <1>0, <2>1, <2>2 DEF EntryOK, Entries
  <2> QED
    BY <2>1, <2>4, <2>5, <2>6 DEF EntryOK
<1>3. CASE p \notin Removed /\ p \notin IndirectlyPinged
  <2>1. AfterTimeouts(p) = e /\ p \notin Expired
    BY <1>3 DEF AfterTimeouts, Removed
  <2>2. e.state \in {"WaitingForPing", "WaitingForIndirectPing"} => e.age < PING_TIMEOUT
    <3>1. e.state \in {"WaitingForPing", "WaitingForIndirectPing"} => e.age \in Nat
      BY <1>0 DEF EntryOK, Entries, Absent
    <3> QED
      BY <2>1, <3>1 DEF Expired, Waiting
  <2> QED
    BY <1>0, <2>1, <2>2 DEF EntryOK
<1> QED
  BY <1>1, <1>2, <1>3

LEMMA OlderOK ==
  ASSUME NEW el \in Nat, NEW e, EntryOK(e, el), NEW d \in Nat
  PROVE  EntryOK(Older(e, d), el + d)
<1>1. CASE e = Absent
  BY <1>1, AbsentOK DEF Older
<1>2. CASE e # Absent
  <2>1. e \in Entries
    BY <1>2 DEF EntryOK
  <2>2. Older(e, d) =
          [state |-> e.state, age |-> e.age + d, latency |-> e.latency,
           quiet |-> e.quiet + d, direct |-> e.direct]
    BY <1>2, <2>1 DEF Older, Entries
  <2>3. e.age \in Nat /\ e.quiet \in Nat /\ e.age + d \in Nat /\ e.quiet + d \in Nat
    BY <2>1 DEF Entries
  <2>4. Older(e, d) \in Entries
    BY <2>1, <2>2, <2>3 DEF Entries
  <2> QED
    BY <2>1, <2>2, <2>3, <2>4, DurationAssumption DEF EntryOK
<1> QED
  BY <1>1, <1>2

LEMMA IInvInit == Init => IInv
BY AbsentOK, DurationAssumption DEF Init, IInv

LEMMA IInvStep ==
  ASSUME IInv, [Next]_vars
  PROVE  IInv'
<1> USE DurationAssumption
<1>0. elapsed \in Nat /\ \A p \in Peers : EntryOK(known_peers[p], elapsed)
  BY DEF IInv
<1>1. ASSUME NEW p \in Peers, HearFrom(p) \/ HearJoin(p) \/ HearOf(p)
      PROVE  IInv'
  <2>1. PICK new : /\ known_peers' = [known_peers EXCEPT ![p] = new]
                   /\ EntryOK(new, elapsed)
    <3>1. CASE HearFrom(p)
      <4>1. PICK l \in calculate_peer_latency(known_peers[p]) :
              known_peers' = [known_peers EXCEPT ![p] = Heard(l)]
        BY <3>1 DEF HearFrom
      <4>2. l \in Latencies /\ l < MaxWait
        BY <1>0, LatencyOK DEF IInv
      <4> QED
        BY <1>0, <4>1, <4>2, HeardOK
    <3>2. CASE HearJoin(p)
      <4>1. known_peers' = [known_peers EXCEPT ![p] = Heard(known_peers[p].latency)]
        BY <3>2 DEF HearJoin
      <4>2. known_peers[p].latency \in Latencies /\ known_peers[p].latency < MaxWait
        BY <1>0, LatencyOK DEF IInv
      <4> QED
        BY <1>0, <4>1, <4>2, HeardOK
    <3>3. CASE HearOf(p)
      BY <1>0, <3>3, HearsayOK DEF HearOf
    <3> QED
      BY <1>1, <3>1, <3>2, <3>3
  <2>2. elapsed' = elapsed
    BY <1>1 DEF HearFrom, HearJoin, HearOf
  <2>3. new \in Entries \cup {Absent}
    BY <2>1 DEF EntryOK
  <2> QED
    BY <1>0, <2>1, <2>2, <2>3 DEF IInv
<1>2. CASE Tick
  <2>1. ASSUME NEW p \in Peers
        PROVE  EntryOK(known_peers'[p], 0)
    <3>1. \/ known_peers'[p] = AfterTimeouts(p)
          \/ known_peers'[p] = Absent
          \/ p \in PingCandidates /\ known_peers'[p] = Pinged(known_peers[p])
      BY <1>2 DEF Tick
    <3>2. p \in PingCandidates => known_peers[p].state = "Known"
      BY DEF PingCandidates, NonSuspected
    <3> QED
      BY <1>0, <3>1, <3>2, AfterTimeoutsOK, AbsentOK, PingedOK
  <2>2. elapsed' = 0
    BY <1>2 DEF Tick
  <2>3. known_peers' = [p \in Peers |-> known_peers'[p]]
    BY <1>2 DEF Tick
  <2> QED
    BY <2>1, <2>2, <2>3 DEF IInv, EntryOK
<1>3. CASE Pass(1)
  <2>1. \A p \in Peers : EntryOK(Older(known_peers[p], 1), elapsed + 1)
    BY <1>0, OlderOK
  <2> QED
    BY <1>0, <1>3, <2>1 DEF Pass, IInv, EntryOK
<1>4. CASE UNCHANGED vars
  BY <1>4 DEF vars, IInv
<1> QED
  BY <1>1, <1>2, <1>3, <1>4 DEF Next

LEMMA Invariance == Spec => []IInv
BY IInvInit, IInvStep, PTL DEF Spec

\* Whatever latency is mixed and whatever is heard, every entry has its type, and a tick
\* is over within a period and the slack (calculate_peer_latency, Kaboodle's tick).
THEOREM TypeCorrect == Spec => []TypeOK
<1>1. IInv => TypeOK
  BY DEF IInv, TypeOK
<1> QED
  BY <1>1, Invariance, PTL

\* No entry ever waits longer than the timeout and one period.
THEOREM WaitsEnd == Spec => []GivenUpInTime
<1>1. IInv => GivenUpInTime
  BY DEF IInv, EntryOK, GivenUpInTime, Waiting
<1> QED
  BY <1>1, Invariance, PTL

\* No measured latency exceeds the time for which a peer can be waited for.
THEOREM LatenciesBounded == Spec => []LatencyBounded
<1>1. IInv => LatencyBounded
  BY DEF IInv, EntryOK, LatencyBounded
<1> QED
  BY <1>1, Invariance, PTL

\* Hearsay is never shared on request, nor what is older than MAX_PEER_SHARE_AGE.
THEOREM OnlyFreshShared == Spec => []SharedRecently
<1>1. IInv => SharedRecently
  BY DEF IInv, EntryOK, SharedRecently, Shareable, NonSuspected
<1> QED
  BY <1>1, Invariance, PTL

\* A peer is given up only after the silence that handle_suspected_peers asks for.
THEOREM NoEarlyDrop == Spec => DroppedAfterSilence
<1>1. ASSUME IInv, [Next]_vars, NEW p \in Peers,
             known_peers[p] # Absent, known_peers'[p] = Absent
      PROVE  \/ known_peers[p].quiet >= 2 * PING_TIMEOUT
             \/ known_peers[p].quiet >= PING_TIMEOUT /\ NonSuspected = {}
             \/ SendMayFail /\ p \in NonSuspected
  <2> DEFINE e == known_peers[p]
  <2>0. EntryOK(e, elapsed) /\ e \in Entries
    BY <1>1 DEF IInv, EntryOK
  <2>1. \A l : Heard(l) # Absent
    BY DEF Heard, Absent
  <2>2. \A d : Older(e, d) # Absent
    BY <1>1, <2>0 DEF Older, Absent, Entries, States
  <2>3. Tick
    <3>1. ASSUME NEW q \in Peers, HearFrom(q) \/ HearJoin(q) \/ HearOf(q)
          PROVE  FALSE
      <4>1. PICK new : new # Absent /\ known_peers' = [known_peers EXCEPT ![q] = new]
        BY <2>1, <3>1 DEF HearFrom, HearJoin, HearOf, Absent
      <4> QED
        BY <1>1, <4>1 DEF IInv
    <3>2. ~Pass(1) /\ known_peers' # known_peers
      BY <1>1, <2>2 DEF Pass
    <3> QED
      BY <1>1, <3>1, <3>2 DEF Next, vars
  <2>4. \/ known_peers'[p] = AfterTimeouts(p)
        \/ p \in PingCandidates /\ SendMayFail
        \/ known_peers'[p] = Pinged(e)
    BY <2>3 DEF Tick
  <2>5. CASE p \in PingCandidates /\ SendMayFail
    BY <2>5 DEF PingCandidates
  <2>6. CASE known_peers'[p] = Pinged(e)
    <3>1. Pinged(e).state = "WaitingForPing"
      BY <2>0 DEF Pinged, Entries
    <3> QED
      BY <1>1, <2>6, <3>1 DEF Absent
  <2>7. CASE known_peers'[p] = AfterTimeouts(p)
    <3>1. p \in Removed
      <4>1. [e EXCEPT !.state = "WaitingForIndirectPing", !.age = 0].state # Absent.state
        BY <2>0 DEF Absent, Entries
      <4> QED
        BY <1>1, <2>7, <4>1 DEF AfterTimeouts
    <3>2. e.age >= PING_TIMEOUT /\ p \in Waiting
      BY <3>1 DEF Removed, Expired
    <3>3. e.state = "WaitingForIndirectPing" \/ NonSuspected = {}
      BY <3>1, <3>2 DEF Removed, IndirectlyPinged, Waiting
    <3>4. e.quiet >= e.age /\ e.age \in Nat /\ e.quiet \in Nat
      BY <2>0, <3>2 DEF EntryOK, Entries, Waiting
    <3> QED
      BY <2>0, <3>2, <3>3, <3>4, DurationAssumption DEF EntryOK
  <2> QED
    BY <2>4, <2>5, <2>6, <2>7
<1>2. IInv /\ [Next]_vars =>
        [\A p \in Peers :
           known_peers[p] # Absent /\ known_peers'[p] = Absent
           => \/ known_peers[p].quiet >= 2 * PING_TIMEOUT
              \/ known_peers[p].quiet >= PING_TIMEOUT /\ NonSuspected = {}
              \/ SendMayFail /\ p \in NonSuspected]_vars
  BY <1>1
<1> QED
  BY <1>2, Invariance, PTL DEF Spec, DroppedAfterSilence
=============================================================================
