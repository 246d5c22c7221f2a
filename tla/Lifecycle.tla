----------------------------- MODULE Lifecycle ------------------------------
(***************************************************************************)
(* One Kaboodle handle (lib.rs) over its life: start, stop and ping_addrs, *)
(* and the sessions they start and stop.  stop only asks a session to end; *)
(* the session is a task of its own that goes on until the end of its      *)
(* tick, on the same table as its successor.                               *)
(*                                                                         *)
(* A session is reduced to what it does to that table: an address it hears *)
(* from becomes Known, whatever the message was; Swim has the messages in  *)
(* full, and the Acks that are passed on and the KnownPeersRequests, which *)
(* tell the receiver no more than that their sender is there, are only     *)
(* found there.  A Failed is ignored by all that receive it (Swim).  The   *)
(* other peers are one address, Remote, which may say anything at any time.*)
(***************************************************************************)
EXTENDS Naturals, FiniteSets

CONSTANTS
  Sessions,       \* the addresses that sockets are bound to, a new one by every start
  Remote,         \* another peer
  NoAddr,
  SendMayFail,    \* may send_to report an error to ping_random_peer?
  MaxMail,        \* bound: datagrams in flight between the sessions; further ones are lost
  MaxRequests,    \* bound: addresses that ping_addrs has queued at a time
  MayAbandon      \* may a caller drop the future of stop before it has the lock?

ASSUME AddrAssumption ==
  Remote \notin Sessions /\ NoAddr \notin Sessions /\ NoAddr # Remote

VARIABLES
  \* the handle
  self_addr, cancellation_tx, ping_request_tx,
  call,           \* the call that is under way, or how the handle ended
  leaving,        \* stop: the address it has taken
  \* the sessions
  pc, cancelled, joined,
  requests,       \* the channel from ping_addrs to handle_incoming_ping_requests
  mail,           \* datagrams between the sessions, to their own addresses too
  \* shared
  table           \* known_peers

handle == <<self_addr, cancellation_tx, ping_request_tx, call, leaving>>
sessions == <<pc, cancelled, joined, requests, mail>>
vars == <<handle, sessions, table>>

Addrs == Sessions \cup {Remote}
Live == {s \in Sessions : pc[s] \notin {"unused", "failed", "ended"}}
Known == {a \in Addrs : table[a] # "Absent"}
Waiting == {a \in Addrs : table[a] \in {"WaitingForPing", "WaitingForIndirectPing"}}
NonSuspected(s) == {a \in Addrs \ {s} : table[a] = "Known"}

Datagrams ==
  [type : {"Join", "Ping", "Ack", "PingRequest", "KnownPeers"},
   src : Sessions, to : Sessions, peers : SUBSET Addrs]

\* A datagram to each of the targets that is a session and still has its socket, be it
\* the sender itself.
Post(type, s, targets, peers) ==
  {[type |-> type, src |-> s, to |-> t, peers |-> peers] : t \in targets \cap Live}

\* Any of those that are posted may be lost.
Send(box, posted) ==
  \E sent \in SUBSET posted :
    /\ mail' = box \cup sent
    /\ Cardinality(mail') <= MaxMail

-----------------------------------------------------------------------------
\* The handle.  Its methods borrow it, so that one call is under way at a time.

\* Every start binds a socket to a new address, no matter which.
IsNew(s) == pc[s] = "unused" /\ s = CHOOSE t \in Sessions : pc[t] = "unused"

\* Mutant: nobody checks that the last session was asked to end.
StartUnasserted(s) ==
  /\ call = "none" /\ self_addr = NoAddr
  /\ IsNew(s)
  /\ table' = [table EXCEPT ![s] = "Known"]
  /\ pc' = [pc EXCEPT ![s] = "top"]
  /\ self_addr' = s /\ cancellation_tx' = s /\ ping_request_tx' = s
  /\ UNCHANGED <<call, leaving, cancelled, joined, requests, mail>>

Start(s) ==
  /\ call = "none" /\ self_addr = NoAddr /\ cancellation_tx = NoAddr
  /\ IsNew(s)
  /\ table' = [table EXCEPT ![s] = "Known"]
  /\ pc' = [pc EXCEPT ![s] = "top"]
  /\ self_addr' = s /\ cancellation_tx' = s /\ ping_request_tx' = s
  /\ UNCHANGED <<call, leaving, cancelled, joined, requests, mail>>

\* Mutant: the handle takes the address before it knows that start succeeds.
StartFailsAssigned(s) ==
  /\ call = "none" /\ self_addr = NoAddr /\ cancellation_tx = NoAddr
  /\ IsNew(s)
  /\ table' = [table EXCEPT ![s] = "Known"]
  /\ pc' = [pc EXCEPT ![s] = "failed"]
  /\ self_addr' = s
  /\ UNCHANGED <<cancellation_tx, ping_request_tx, call, leaving, cancelled, joined,
                 requests, mail>>

\* The sockets for broadcasts cannot be created: the address is in the table already.
StartFails(s) ==
  /\ call = "none" /\ self_addr = NoAddr /\ cancellation_tx = NoAddr
  /\ IsNew(s)
  /\ table' = [table EXCEPT ![s] = "Known"]
  /\ pc' = [pc EXCEPT ![s] = "failed"]
  /\ UNCHANGED <<handle, cancelled, joined, requests, mail>>

\* The assertion in start.
StartPanics ==
  /\ call = "none" /\ self_addr = NoAddr /\ cancellation_tx # NoAddr
  /\ call' = "panicked"
  /\ UNCHANGED <<self_addr, cancellation_tx, ping_request_tx, leaving, sessions, table>>

\* Mutant: the address is not taken.
StopBeginKept ==
  /\ call = "none" /\ self_addr # NoAddr
  /\ leaving' = self_addr
  /\ call' = "stop"
  /\ UNCHANGED <<self_addr, cancellation_tx, ping_request_tx, sessions, table>>

\* stop, until it waits for the lock.
StopBegin ==
  /\ call = "none" /\ self_addr # NoAddr
  /\ leaving' = self_addr
  /\ self_addr' = NoAddr
  /\ call' = "stop"
  /\ UNCHANGED <<cancellation_tx, ping_request_tx, sessions, table>>

StopAbandoned ==
  /\ MayAbandon /\ call = "stop"
  /\ call' = "none" /\ leaving' = NoAddr
  /\ UNCHANGED <<self_addr, cancellation_tx, ping_request_tx, sessions, table>>

StopRemove ==
  /\ call = "stop"
  /\ table' = [table EXCEPT ![leaving] = "Absent"]
  /\ call' = "cancel" /\ leaving' = NoAddr
  /\ UNCHANGED <<self_addr, cancellation_tx, ping_request_tx, sessions>>

\* Mutant: the channel is closed and nothing is sent.
StopCancelClosed ==
  /\ call = "cancel"
  /\ cancellation_tx' = NoAddr
  /\ call' = "none"
  /\ UNCHANGED <<self_addr, ping_request_tx, leaving, sessions, table>>

\* The channel is used up; its receiver is gone if the session has ended.
StopCancel ==
  /\ call = "cancel"
  /\ cancellation_tx' = NoAddr
  /\ IF cancellation_tx \in Live
     THEN call' = "none" /\ cancelled' = cancelled \cup {cancellation_tx}
     ELSE call' = "StoppingFailed" /\ UNCHANGED cancelled
  /\ UNCHANGED <<self_addr, ping_request_tx, leaving,
                 pc, joined, requests, mail, table>>

\* stop does not reset ping_request_tx: this succeeds as long as the last session runs,
\* asked to end or not.
PingAddrs(a) ==
  /\ call = "none"
  /\ ping_request_tx \in Live
  /\ a \notin Known
  /\ Cardinality(requests[ping_request_tx]) < MaxRequests
  /\ requests' = [requests EXCEPT ![ping_request_tx] = @ \cup {a}]
  /\ UNCHANGED <<handle, pc, cancelled, joined, mail, table>>

\* The handle goes out of scope.  A closed channel is no cancellation to a session.
DropHandle ==
  /\ call = "none"
  /\ call' = "dropped"
  /\ UNCHANGED <<self_addr, cancellation_tx, ping_request_tx, leaving, sessions, table>>

-----------------------------------------------------------------------------
\* A session.  pc is the next part of run and tick; each takes the lock for itself.  Before
\* the first tick it is at the "top" of run, afterwards in the loop that receives.

Goto(s, from, to) == pc[s] = from /\ pc' = [pc EXCEPT ![s] = to]

\* With the session go its socket and its end of the channels, and what they hold.
End(s) ==
  /\ s \in cancelled
  /\ \E place \in {"top", "recv"} : Goto(s, place, "ended")
  /\ mail' = {m \in mail : m.to # s}
  /\ requests' = [requests EXCEPT ![s] = {}]
  /\ UNCHANGED <<handle, cancelled, joined, table>>

\* Not cancelled, the next tick begins.
BeginTick(s) ==
  /\ s \notin cancelled
  /\ \E place \in {"top", "recv"} : Goto(s, place, "join")
  /\ UNCHANGED <<handle, cancelled, joined, requests, mail, table>>

\* Any tick but the first may come too early after the last Join.
maybe_broadcast_join(s) ==
  /\ Goto(s, "join", "suspects")
  /\ \/ /\ s \in joined => Cardinality(Known) <= 1
        /\ joined' = joined \cup {s}
        /\ Send(mail, Post("Join", s, Sessions, {}))
     \/ /\ s \in joined
        /\ UNCHANGED <<joined, mail>>
  /\ UNCHANGED <<handle, cancelled, requests, table>>

\* Any of those it waits for may have timed out.
handle_suspected_peers(s) ==
  /\ Goto(s, "suspects", "ping")
  /\ \E expired \in SUBSET Waiting :
       LET indirectly == {a \in expired : table[a] = "WaitingForPing" /\ NonSuspected(s) # {}}
       IN  /\ table' = [a \in Addrs |->
                          IF a \in indirectly THEN "WaitingForIndirectPing"
                          ELSE IF a \in expired THEN "Absent" ELSE table[a]]
           /\ Send(mail, UNION {Post("PingRequest", s, NonSuspected(s), {a}) : a \in indirectly})
  /\ UNCHANGED <<handle, cancelled, joined, requests>>

\* Mutant: the session may choose itself.
PingAnyone(s) ==
  /\ Goto(s, "ping", "requests")
  /\ \/ /\ NonSuspected(NoAddr) = {}
        /\ UNCHANGED <<table, mail>>
     \/ \E target \in NonSuspected(NoAddr) :
          /\ table' = [table EXCEPT ![target] = "WaitingForPing"]
          /\ Send(mail, Post("Ping", s, {target}, {}))
  /\ UNCHANGED <<handle, cancelled, joined, requests>>

ping_random_peer(s) ==
  /\ Goto(s, "ping", "requests")
  /\ \/ /\ NonSuspected(s) = {}
        /\ UNCHANGED <<table, mail>>
     \/ \E target \in NonSuspected(s) :
          \/ /\ table' = [table EXCEPT ![target] = "WaitingForPing"]
             /\ Send(mail, Post("Ping", s, {target}, {}))
          \/ /\ SendMayFail
             /\ table' = [table EXCEPT ![target] = "Absent"]
             /\ UNCHANGED mail
  /\ UNCHANGED <<handle, cancelled, joined, requests>>

handle_incoming_ping_requests(s) ==
  /\ Goto(s, "requests", "recv")
  /\ requests' = [requests EXCEPT ![s] = {}]
  /\ Send(mail, Post("Ping", s, requests[s], {}))
  /\ UNCHANGED <<handle, cancelled, joined, table>>

\* The table once somebody has heard from a, and of those a lists: all that are not in
\* the table are taken from the list, the receiver itself too.
Heard(a, listed) ==
  [b \in Addrs |-> IF b = a \/ (b \in listed /\ table[b] = "Absent") THEN "Known" ELSE table[b]]

\* Whoever joins may be sent the table; the one who is pinged answers; the one who is
\* asked to ping another does.
Answer(s, m) ==
  CASE m.type = "Join" /\ table[m.src] = "Absent" ->
         Post("KnownPeers", s, {m.src}, Known \cup {m.src})
    [] m.type = "Ping" -> Post("Ack", s, {m.src}, {})
    [] m.type = "PingRequest" -> Post("Ping", s, m.peers, {})
    [] OTHER -> {}

\* A datagram of a session, which may be the receiver.  The own Join is ignored.
Receive(s, m) ==
  /\ pc[s] = "recv" /\ m.to = s
  /\ IF m.type = "Join" /\ m.src = s
     THEN /\ mail' = mail \ {m}
          /\ UNCHANGED table
     ELSE /\ table' = Heard(m.src, IF m.type = "KnownPeers" THEN m.peers ELSE {})
          /\ Send(mail \ {m}, Answer(s, m))
  /\ UNCHANGED <<handle, pc, cancelled, joined, requests>>

\* Remote says something.  It may list any session that has announced itself.
ReceiveRemote(s) ==
  /\ pc[s] = "recv"
  /\ \E listed \in SUBSET joined : table' = Heard(Remote, listed)
  /\ UNCHANGED <<handle, sessions>>

-----------------------------------------------------------------------------
Init ==
  /\ self_addr = NoAddr /\ cancellation_tx = NoAddr /\ ping_request_tx = NoAddr
  /\ call = "none" /\ leaving = NoAddr
  /\ pc = [s \in Sessions |-> "unused"]
  /\ cancelled = {} /\ joined = {}
  /\ requests = [s \in Sessions |-> {}]
  /\ mail = {}
  /\ table = [a \in Addrs |-> "Absent"]

\* What a session does next by itself.
Step(s) ==
  \/ End(s) \/ BeginTick(s) \/ maybe_broadcast_join(s) \/ handle_suspected_peers(s)
  \/ ping_random_peer(s) \/ handle_incoming_ping_requests(s)

Calls ==
  \/ \E s \in Sessions : Start(s) \/ StartFails(s)
  \/ StartPanics \/ StopBegin \/ StopAbandoned \/ StopRemove \/ StopCancel
  \/ \E a \in Addrs : PingAddrs(a)
  \/ DropHandle

Next ==
  \/ Calls
  \/ \E s \in Sessions : Step(s) \/ ReceiveRemote(s)
  \/ \E m \in mail : Receive(m.to, m)

Spec == Init /\ [][Next]_vars

\* The runtime polls the task of every session, and the caller of stop, who may give up
\* only until it has the lock.
FairSpec ==
  /\ Spec
  /\ WF_vars(StopRemove) /\ WF_vars(StopCancel)
  /\ \A s \in Sessions : WF_vars(Step(s))

-----------------------------------------------------------------------------
\* Properties.

\* Every part of the state has its type, and start gives the handle all of its session or
\* nothing: while it has an address, both channels lead to the session that has it.
TypeOK ==
  /\ {self_addr, cancellation_tx, ping_request_tx, leaving} \subseteq Sessions \cup {NoAddr}
  /\ self_addr # NoAddr => cancellation_tx = self_addr /\ ping_request_tx = self_addr
  /\ call \in {"none", "stop", "cancel", "StoppingFailed", "panicked", "dropped"}
  /\ pc \in [Sessions -> {"unused", "failed", "top", "join", "suspects", "ping",
                          "requests", "recv", "ended"}]
  /\ cancelled \subseteq Sessions /\ joined \subseteq Sessions
  /\ requests \in [Sessions -> SUBSET Addrs]
  /\ mail \subseteq Datagrams
  /\ table \in [Addrs -> {"Absent", "Known", "WaitingForPing", "WaitingForIndirectPing"}]

\* However calls to start and stop are mixed, and dropped half-way, at most one session
\* runs that has not been asked to end (the assertion in Kaboodle::start).
OneLiveSession ==
  \A s, t \in Live \ cancelled : s = t

\* stop never returns StoppingFailed ("This should not happen", Kaboodle::stop): while
\* there is an address there is a session that listens to the cancellation.
StopNeverFails == call # "StoppingFailed"

\* The own address of a running session is in its table, as Known ("that doesn't mean we
\* should forget about ourselves", handle_incoming_broadcasts), and only a predecessor
\* that is still in its last tick and picks it for a ping can change that: not the
\* timeouts, pings and listings of the session itself, not what others say or fail to
\* say, and not a call of the handle.
OwnEntryKept ==
  [][self_addr # NoAddr /\ self_addr' = self_addr
     /\ table[self_addr] = "Known" /\ table'[self_addr] # "Known"
     => \E s \in Live \cap cancelled :
          s # self_addr /\ pc[s] = "ping" /\ pc'[s] = "requests"]_vars

\* After stop the table forgets the address ("forget about our soon-to-be-previous
\* self_addr", Kaboodle::stop), even if no other session ever puts it back.
StoppedForgotten ==
  \A s \in cancelled :
    (\A t \in Sessions \ {s} : pc[t] = "unused") => table[s] = "Absent"

\* stop takes effect: the session ends, whatever arrives meanwhile, unless the caller
\* drops stop half-way (run, tick).
StopTakesEffect ==
  \A s \in Sessions :
    (call = "stop" /\ leaving = s)
      ~> (pc[s] = "ended" \/ (call = "none" /\ cancellation_tx = s))
=============================================================================
