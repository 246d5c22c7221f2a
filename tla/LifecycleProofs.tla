-------------------------- MODULE LifecycleProofs ---------------------------
(***************************************************************************)
(* Proofs about Lifecycle, for any number of sessions.                     *)
(***************************************************************************)
EXTENDS Lifecycle, TLAPS

PCs == {"unused", "failed", "top", "join", "suspects", "ping", "requests", "recv", "ended"}

\* The part of the type invariant that the proofs need.
Typed ==
  /\ self_addr \in Sessions \cup {NoAddr}
  /\ cancellation_tx \in Sessions \cup {NoAddr}
  /\ cancelled \subseteq Sessions
  /\ pc \in [Sessions -> PCs]

\* Only sessions that were started are asked to end.
OnlyStarted == \A s \in cancelled : pc[s] # "unused"

\* The cancellation channel leads to the one session that is to run on, if there is one,
\* and there is one while the handle has an address or stop has not used the channel.
ChannelLeads ==
  /\ Live \ cancelled \subseteq {cancellation_tx}
  /\ cancellation_tx # NoAddr => cancellation_tx \in Live \ cancelled
  /\ self_addr # NoAddr => cancellation_tx = self_addr /\ ping_request_tx = self_addr
  /\ call \in {"stop", "cancel"} => self_addr = NoAddr /\ cancellation_tx # NoAddr

IInv == Typed /\ OnlyStarted /\ ChannelLeads /\ StopNeverFails

\* The initial state satisfies the invariant (Kaboodle::new).
LEMMA InitIInv == Init => IInv
  BY AddrAssumption
  DEF Init, IInv, Typed, OnlyStarted, ChannelLeads, StopNeverFails, Live, PCs

\* A step that leaves the handle alone, asks nobody to end, and lets a session end only
\* when it was asked to, keeps the invariant.
LEMMA SessionKeeps ==
  ASSUME IInv, UNCHANGED <<handle, cancelled>>, pc' \in [Sessions -> PCs],
         \A s \in Sessions : pc'[s] = "unused" => pc[s] = "unused",
         Live' \subseteq Live, Live \ cancelled \subseteq Live'
  PROVE  IInv'
<1>1. OnlyStarted'
  BY DEF IInv, OnlyStarted, Typed
<1>2. ChannelLeads'
  BY DEF IInv, ChannelLeads, handle
<1> QED
  BY <1>1, <1>2 DEF IInv, Typed, StopNeverFails, handle

\* A call of the handle keeps the invariant.
LEMMA CallsKeep == ASSUME IInv, Calls PROVE IInv'
<1> USE DEF IInv, Typed, StopNeverFails
<1>1. ASSUME NEW s \in Sessions, Start(s) PROVE IInv'
  <2>1. s # NoAddr /\ pc[s] = "unused"
    BY <1>1, AddrAssumption DEF Start, IsNew
  <2>2. Typed'
    BY <1>1, <2>1 DEF Start, PCs
  <2>3. Live' = Live \cup {s} /\ s \notin cancelled
    BY <1>1, <2>1 DEF Start, Live, OnlyStarted
  <2>4. OnlyStarted'
    BY <1>1, <2>1 DEF Start, OnlyStarted
  <2>5. ChannelLeads'
    <3>1. NoAddr \notin Live
      BY AddrAssumption DEF Live
    <3> QED
      BY <1>1, <2>1, <2>3, <3>1 DEF Start, ChannelLeads
  <2> QED
    BY <1>1, <2>2, <2>4, <2>5 DEF Start
<1>2. ASSUME NEW s \in Sessions, StartFails(s) PROVE IInv'
  <2>1. pc[s] = "unused" /\ UNCHANGED <<handle, cancelled>>
    BY <1>2 DEF StartFails, IsNew
  <2>2. pc' \in [Sessions -> PCs] /\ Live' = Live
    BY <1>2, <2>1 DEF StartFails, Live, PCs
  <2>3. \A t \in Sessions : pc'[t] = "unused" => pc[t] = "unused"
    BY <1>2 DEF StartFails
  <2> QED
    BY <2>1, <2>2, <2>3, SessionKeeps
<1>3. CASE StartPanics \/ StopAbandoned \/ DropHandle
  BY <1>3 DEF StartPanics, StopAbandoned, DropHandle, sessions, OnlyStarted, ChannelLeads, Live
<1>4. CASE StopBegin
  BY <1>4 DEF StopBegin, sessions, OnlyStarted, ChannelLeads, Live
<1>5. CASE StopRemove
  BY <1>5 DEF StopRemove, sessions, OnlyStarted, ChannelLeads, Live
<1>6. CASE StopCancel
  <2>1. cancellation_tx \in Live \ cancelled /\ self_addr = NoAddr
    BY <1>6 DEF StopCancel, ChannelLeads
  <2>2. Live' = Live /\ Live \subseteq Sessions
    BY <1>6, AddrAssumption DEF StopCancel, Live
  <2>3. OnlyStarted'
    BY <1>6, <2>1 DEF StopCancel, OnlyStarted, Live
  <2> QED
    BY <1>6, <2>1, <2>2, <2>3 DEF StopCancel, ChannelLeads
<1>7. ASSUME NEW a \in Addrs, PingAddrs(a) PROVE IInv'
  BY <1>7 DEF PingAddrs, handle, OnlyStarted, ChannelLeads, Live
<1> QED BY <1>1, <1>2, <1>3, <1>4, <1>5, <1>6, <1>7 DEF Calls

\* Where a part of the tick leads.
LEMMA GotoKeeps ==
  ASSUME IInv, NEW s \in Sessions, NEW from, NEW to \in PCs \ {"unused", "failed", "ended"},
         Goto(s, from, to), from \notin {"unused", "failed", "ended"},
         UNCHANGED <<handle, cancelled>>
  PROVE  IInv'
<1>1. pc' \in [Sessions -> PCs] /\ Live' = Live
  BY DEF IInv, Typed, Goto, Live, PCs
<1>2. \A t \in Sessions : pc'[t] = "unused" => pc[t] = "unused"
  BY DEF IInv, Typed, Goto
<1> QED
  BY <1>1, <1>2, SessionKeeps

\* What a session does by itself keeps the invariant.
LEMMA StepKeeps == ASSUME IInv, NEW s \in Sessions, Step(s) PROVE IInv'
<1>1. CASE End(s)
  <2>1. PICK place \in {"top", "recv"} : Goto(s, place, "ended")
    BY <1>1 DEF End
  <2>2. /\ UNCHANGED <<handle, cancelled>>
        /\ pc' \in [Sessions -> PCs]
        /\ \A t \in Sessions : pc'[t] = "unused" => pc[t] = "unused"
    BY <1>1, <2>1 DEF End, Goto, PCs, handle, IInv, Typed
  <2>3. Live' \subseteq Live /\ Live \ cancelled \subseteq Live'
    BY <1>1, <2>1 DEF End, Goto, Live, IInv, Typed
  <2> QED
    BY <2>2, <2>3, SessionKeeps
<1>2. CASE BeginTick(s)
  BY <1>2, GotoKeeps DEF BeginTick, PCs
<1>3. CASE \/ maybe_broadcast_join(s) \/ handle_suspected_peers(s) \/ ping_random_peer(s)
           \/ handle_incoming_ping_requests(s)
  BY <1>3, GotoKeeps DEF maybe_broadcast_join, handle_suspected_peers, ping_random_peer,
     handle_incoming_ping_requests, PCs
<1> QED BY <1>1, <1>2, <1>3 DEF Step

\* Every step keeps the invariant.
LEMMA NextKeeps == IInv /\ [Next]_vars => IInv'
<1> SUFFICES ASSUME IInv, [Next]_vars PROVE IInv'
  OBVIOUS
<1>1. ASSUME UNCHANGED <<handle, pc, cancelled>> PROVE IInv'
  BY <1>1, SessionKeeps DEF IInv, Typed, Live
<1>2. ASSUME NEW s \in Sessions, ReceiveRemote(s) PROVE IInv'
  BY <1>1, <1>2 DEF ReceiveRemote, sessions
<1>3. ASSUME NEW m \in mail, Receive(m.to, m) PROVE IInv'
  BY <1>1, <1>3 DEF Receive
<1>4. CASE UNCHANGED vars
  BY <1>1, <1>4 DEF vars, sessions
<1> QED
  BY <1>2, <1>3, <1>4, CallsKeep, StepKeeps DEF Next

LEMMA Invariance == Spec => []IInv
  BY InitIInv, NextKeeps, PTL DEF Spec

\* However start and stop are called, and stop dropped half-way, at most one session runs
\* that was not asked to end (Kaboodle::start, Kaboodle::stop).
THEOREM OnlyOneRuns == Spec => []OneLiveSession
<1>1. IInv => OneLiveSession
  BY DEF IInv, ChannelLeads, OneLiveSession
<1> QED BY <1>1, Invariance, PTL

\* stop finds the channel, and a session at its other end (Kaboodle::stop).
THEOREM StopSucceeds == Spec => []StopNeverFails
<1>1. IInv => StopNeverFails
  BY DEF IInv
<1> QED BY <1>1, Invariance, PTL

-----------------------------------------------------------------------------
\* The types of the whole state.

PeerStates == {"Absent", "Known", "WaitingForPing", "WaitingForIndirectPing"}
Types == {"Join", "Ping", "Ack", "PingRequest", "KnownPeers"}

\* The rest of TypeOK, and stop has an address in hand until it has the lock.
Typing ==
  /\ ping_request_tx \in Sessions \cup {NoAddr} /\ leaving \in Sessions \cup {NoAddr}
  /\ call = "stop" => leaving \in Sessions
  /\ call \in {"none", "stop", "cancel", "StoppingFailed", "panicked", "dropped"}
  /\ joined \subseteq Sessions
  /\ requests \in [Sessions -> SUBSET Addrs]
  /\ mail \subseteq Datagrams
  /\ table \in [Addrs -> PeerStates]

LEMMA PostTyped ==
  ASSUME NEW type \in Types, NEW s \in Sessions, NEW targets, NEW peers \in SUBSET Addrs
  PROVE  Post(type, s, targets, peers) \subseteq Datagrams
BY DEF Post, Datagrams, Types, Live

LEMMA SendTyped ==
  ASSUME NEW box \in SUBSET Datagrams, NEW posted \in SUBSET Datagrams, Send(box, posted)
  PROVE  mail' \subseteq Datagrams
BY DEF Send

LEMMA AnswerTyped ==
  ASSUME NEW s \in Sessions, NEW m \in Datagrams
  PROVE  Answer(s, m) \subseteq Datagrams
<1>1. /\ Post("KnownPeers", s, {m.src}, Known \cup {m.src}) \subseteq Datagrams
      /\ Post("Ack", s, {m.src}, {}) \subseteq Datagrams
      /\ Post("Ping", s, m.peers, {}) \subseteq Datagrams
  <2>1. m.src \in Addrs /\ Known \subseteq Addrs
    BY DEF Datagrams, Addrs, Known
  <2> QED
    BY <2>1, PostTyped DEF Types
<1>2. CASE m.type = "Join" /\ table[m.src] = "Absent"
  <2>1. Answer(s, m) = Post("KnownPeers", s, {m.src}, Known \cup {m.src})
    BY <1>2, Zenon DEF Answer
  <2> QED
    BY <1>1, <2>1
<1>3. CASE m.type = "Ping"
  <2>1. Answer(s, m) = Post("Ack", s, {m.src}, {})
    BY <1>3, Zenon DEF Answer
  <2> QED
    BY <1>1, <2>1
<1>4. CASE m.type = "PingRequest"
  <2>1. Answer(s, m) = Post("Ping", s, m.peers, {})
    BY <1>4, Zenon DEF Answer
  <2> QED
    BY <1>1, <2>1
<1>5. CASE ~(m.type = "Join" /\ table[m.src] = "Absent") /\ m.type # "Ping"
           /\ m.type # "PingRequest"
  <2>1. Answer(s, m) = {}
    BY <1>5, Zenon DEF Answer
  <2> QED
    BY <2>1
<1> QED
  BY <1>2, <1>3, <1>4, <1>5

\* A step that leaves the handle alone keeps the types if those of what it changes are kept.
LEMMA SessionTyped ==
  ASSUME Typing, UNCHANGED handle, joined' \subseteq Sessions,
         requests' \in [Sessions -> SUBSET Addrs], mail' \subseteq Datagrams,
         table' \in [Addrs -> PeerStates]
  PROVE  Typing'
BY DEF Typing, handle

LEMMA CallsTyped == ASSUME IInv, Typing, Calls PROVE Typing'
<1> USE DEF Typing, PeerStates
<1>1. ASSUME NEW s \in Sessions, Start(s) \/ StartFails(s) PROVE Typing'
  <2>1. s \in Addrs /\ table' = [table EXCEPT ![s] = "Known"]
    BY <1>1 DEF Start, StartFails, Addrs
  <2>2. table' \in [Addrs -> PeerStates]
    BY <2>1
  <2>3. CASE Start(s)
    BY <2>2, <2>3 DEF Start
  <2>4. CASE StartFails(s)
    BY <2>2, <2>4 DEF StartFails, handle
  <2> QED
    BY <1>1, <2>3, <2>4
<1>2. CASE StartPanics \/ StopBegin \/ StopAbandoned \/ DropHandle
  BY <1>2 DEF StartPanics, StopBegin, StopAbandoned, DropHandle, sessions, IInv, Typed
<1>3. CASE StopRemove
  BY <1>3 DEF StopRemove, sessions, Addrs
<1>4. CASE StopCancel
  BY <1>4 DEF StopCancel
<1>5. ASSUME NEW a \in Addrs, PingAddrs(a) PROVE Typing'
  BY <1>5 DEF PingAddrs, handle, Live
<1> QED
  BY <1>1, <1>2, <1>3, <1>4, <1>5 DEF Calls

LEMMA StepTyped == ASSUME Typing, NEW s \in Sessions, Step(s) PROVE Typing'
<1>0. /\ mail \subseteq Datagrams /\ joined \subseteq Sessions
      /\ requests \in [Sessions -> SUBSET Addrs] /\ table \in [Addrs -> PeerStates]
  BY DEF Typing
<1>1. CASE End(s)
  <2>1. mail' \subseteq Datagrams /\ requests' \in [Sessions -> SUBSET Addrs]
    BY <1>0, <1>1 DEF End
  <2> QED
    BY <1>0, <1>1, <2>1, SessionTyped DEF End
<1>2. CASE BeginTick(s)
  BY <1>0, <1>2, SessionTyped DEF BeginTick
<1>3. CASE maybe_broadcast_join(s)
  <2>1. Post("Join", s, Sessions, {}) \subseteq Datagrams
    BY PostTyped DEF Types
  <2>2. mail' \subseteq Datagrams /\ joined' \subseteq Sessions
    BY <1>0, <1>3, <2>1, SendTyped DEF maybe_broadcast_join
  <2> QED
    BY <1>0, <1>3, <2>2, SessionTyped DEF maybe_broadcast_join
<1>4. CASE handle_suspected_peers(s)
  <2>1. table' \in [Addrs -> PeerStates]
    BY <1>0, <1>4 DEF handle_suspected_peers, PeerStates
  <2>2. \A indirectly \in SUBSET Addrs :
          UNION {Post("PingRequest", s, NonSuspected(s), {a}) : a \in indirectly} \subseteq Datagrams
    <3>1. \A a \in Addrs : Post("PingRequest", s, NonSuspected(s), {a}) \subseteq Datagrams
      BY PostTyped DEF Types
    <3> QED
      BY <3>1
  <2>3. \E indirectly \in SUBSET Addrs :
          Send(mail, UNION {Post("PingRequest", s, NonSuspected(s), {a}) : a \in indirectly})
    BY <1>4 DEF handle_suspected_peers, Waiting
  <2>4. mail' \subseteq Datagrams
    BY <1>0, <2>2, <2>3, SendTyped
  <2> QED
    BY <1>0, <1>4, <2>1, <2>4, SessionTyped DEF handle_suspected_peers
<1>5. CASE ping_random_peer(s)
  <2>1. table' \in [Addrs -> PeerStates]
    BY <1>0, <1>5 DEF ping_random_peer, PeerStates
  <2>2. \A target : Post("Ping", s, {target}, {}) \subseteq Datagrams
    BY PostTyped DEF Types
  <2>3. mail' = mail \/ \E target : Send(mail, Post("Ping", s, {target}, {}))
    BY <1>5 DEF ping_random_peer
  <2>4. mail' \subseteq Datagrams
    BY <1>0, <2>2, <2>3, SendTyped
  <2> QED
    BY <1>0, <1>5, <2>1, <2>4, SessionTyped DEF ping_random_peer
<1>6. CASE handle_incoming_ping_requests(s)
  <2>1. Post("Ping", s, requests[s], {}) \subseteq Datagrams
    BY PostTyped DEF Types
  <2>2. mail' \subseteq Datagrams /\ requests' \in [Sessions -> SUBSET Addrs]
    BY <1>0, <1>6, <2>1, SendTyped DEF handle_incoming_ping_requests
  <2> QED
    BY <1>0, <1>6, <2>2, SessionTyped DEF handle_incoming_ping_requests
<1> QED
  BY <1>1, <1>2, <1>3, <1>4, <1>5, <1>6 DEF Step

LEMMA NextTyped == IInv /\ Typing /\ [Next]_vars => Typing'
<1> SUFFICES ASSUME IInv, Typing, [Next]_vars PROVE Typing'
  OBVIOUS
<1>0. /\ mail \subseteq Datagrams /\ joined \subseteq Sessions
      /\ requests \in [Sessions -> SUBSET Addrs] /\ table \in [Addrs -> PeerStates]
  BY DEF Typing
<1>1. \A a, listed : Heard(a, listed) \in [Addrs -> PeerStates]
  BY <1>0 DEF Heard, PeerStates
<1>2. ASSUME NEW s \in Sessions, ReceiveRemote(s) PROVE Typing'
  BY <1>0, <1>1, <1>2, SessionTyped DEF ReceiveRemote, sessions
<1>3. ASSUME NEW m \in mail, Receive(m.to, m) PROVE Typing'
  <2>1. m \in Datagrams /\ m.to \in Sessions
    BY <1>0 DEF Datagrams
  <2>2. mail' = mail \ {m} \/ Send(mail \ {m}, Answer(m.to, m))
    BY <1>3 DEF Receive
  <2>3. mail' \subseteq Datagrams
    BY <1>0, <2>1, <2>2, SendTyped, AnswerTyped
  <2>4. table' \in [Addrs -> PeerStates]
    BY <1>0, <1>1, <1>3 DEF Receive
  <2> QED
    BY <1>0, <1>3, <2>3, <2>4, SessionTyped DEF Receive
<1>4. CASE UNCHANGED vars
  BY <1>0, <1>4, SessionTyped DEF vars, sessions
<1> QED
  BY <1>2, <1>3, <1>4, CallsTyped, StepTyped DEF Next

LEMMA TypingAlways == Spec => []Typing
<1>1. Init => Typing
  BY DEF Init, Typing, PeerStates
<1> QED
  BY <1>1, NextTyped, Invariance, PTL DEF Spec

\* Every part of the state keeps its type, and start hands over all of a session or
\* nothing, also when it fails: while the handle has an address both of its channels lead
\* to the session that has it (Kaboodle::start, Kaboodle::stop).
THEOREM TypeCorrect == Spec => []TypeOK
<1>1. IInv /\ Typing => TypeOK
  BY DEF IInv, Typed, ChannelLeads, Typing, TypeOK, PCs, PeerStates
<1> QED
  BY <1>1, Invariance, TypingAlways, PTL

-----------------------------------------------------------------------------
\* The own entry of a running session.

\* The handle's address is taken before the entry is removed.
LEMMA EntryStep ==
  ASSUME IInv, Typing, [Next]_vars, self_addr # NoAddr, self_addr' = self_addr,
         table[self_addr] = "Known", table'[self_addr] # "Known"
  PROVE  \E s \in Live \cap cancelled :
           s # self_addr /\ pc[s] = "ping" /\ pc'[s] = "requests"
<1>0. self_addr \in Sessions /\ self_addr \in Addrs /\ table \in [Addrs -> PeerStates]
  BY DEF IInv, Typed, Typing, Addrs
<1>1. ASSUME NEW s \in Sessions, Start(s) \/ StartFails(s) PROVE FALSE
  BY <1>0, <1>1 DEF Start, StartFails
<1>2. CASE StopRemove
  BY <1>2 DEF StopRemove, IInv, ChannelLeads
<1>3. CASE StartPanics \/ StopBegin \/ StopAbandoned \/ StopCancel \/ DropHandle
  BY <1>3 DEF StartPanics, StopBegin, StopAbandoned, StopCancel, DropHandle
<1>4. ASSUME NEW a \in Addrs, PingAddrs(a) PROVE FALSE
  BY <1>4 DEF PingAddrs
<1>5. ASSUME NEW a, NEW listed, table' = Heard(a, listed) PROVE FALSE
  BY <1>0, <1>5 DEF Heard
<1>6. ASSUME NEW s \in Sessions, Step(s)
      PROVE  s \in Live \cap cancelled /\ s # self_addr /\ pc[s] = "ping" /\ pc'[s] = "requests"
  <2>1. CASE \/ End(s) \/ BeginTick(s) \/ maybe_broadcast_join(s)
             \/ handle_incoming_ping_requests(s)
    BY <2>1 DEF End, BeginTick, maybe_broadcast_join, handle_incoming_ping_requests
  <2>2. CASE handle_suspected_peers(s)
    <3>1. \A a \in Addrs : table[a] = "Known" => table'[a] = "Known"
      BY <1>0, <2>2 DEF handle_suspected_peers, Waiting
    <3> QED
      BY <1>0, <3>1
  <2>3. CASE ping_random_peer(s)
    <3>1. pc[s] = "ping" /\ pc'[s] = "requests" /\ s \in Live
      BY <2>3 DEF ping_random_peer, Goto, Live, IInv, Typed
    <3>2. s # self_addr
      BY <1>0, <2>3 DEF ping_random_peer, NonSuspected
    <3>3. s \in cancelled
      BY <3>1, <3>2 DEF IInv, ChannelLeads
    <3> QED
      BY <3>1, <3>2, <3>3
  <2> QED
    BY <1>6, <2>1, <2>2, <2>3 DEF Step
<1>7. ASSUME NEW s \in Sessions, ReceiveRemote(s) PROVE FALSE
  BY <1>5, <1>7 DEF ReceiveRemote
<1>8. ASSUME NEW m \in mail, Receive(m.to, m) PROVE FALSE
  BY <1>5, <1>8 DEF Receive
<1>9. CASE UNCHANGED vars
  BY <1>9 DEF vars
<1> QED
  BY <1>1, <1>2, <1>3, <1>4, <1>6, <1>7, <1>8, <1>9 DEF Next, Calls

\* A running session keeps its own entry, unless a predecessor that was asked to end, and
\* is still in its last tick, picks it for a ping (handle_suspected_peers,
\* ping_random_peer, handle_incoming_messages, Kaboodle::stop).
THEOREM OwnEntryStays == Spec => OwnEntryKept
<1>1. IInv /\ Typing /\ [Next]_vars =>
        [self_addr # NoAddr /\ self_addr' = self_addr
           /\ table[self_addr] = "Known" /\ table'[self_addr] # "Known"
         => \E s \in Live \cap cancelled :
              s # self_addr /\ pc[s] = "ping" /\ pc'[s] = "requests"]_vars
  BY EntryStep
<1> QED
  BY <1>1, Invariance, TypingAlways, PTL DEF Spec, OwnEntryKept
=============================================================================
