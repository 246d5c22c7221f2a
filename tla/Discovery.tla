------------------------------ MODULE Discovery ------------------------------
(***************************************************************************)
(* discover_mesh_member of discovery.rs: a program that is no member of    *)
(* the mesh broadcasts Probe until some member answers.  The members toss  *)
(* a coin whether to answer (maybe_respond_to_probe); the network may lose *)
(* probes and answers, and deliver answers late.                           *)
(*                                                                         *)
(* Durations are milliseconds.  A datagram is reduced to its sender and to *)
(* what decides whether it is read: its length, that is, the eight bytes   *)
(* of the identity's length and the identity.                              *)
(***************************************************************************)
EXTENDS Integers, FiniteSetsExt

CONSTANTS
  Members,                     \* the sessions that receive our broadcasts
  Length,                      \* length of each member's ProbeResponse
  TableSize,                   \* number of entries of each member's known_peers
  Nobody,                      \* stands for no member
  START_REBROADCAST_INTERVAL,
  MAX_REBROADCAST_INTERVAL,
  INCOMING_BUFFER_SIZE

CONSTANTS                      \* the environment
  MaxLate,                     \* a timer may fire that many milliseconds late
  Granule,                     \* time passes by that much, or until the timer is due
  SendMayFail                  \* may send_to report an error?

ASSUME IntervalAssumption ==
  /\ START_REBROADCAST_INTERVAL \in Nat \ {0}
  /\ MAX_REBROADCAST_INTERVAL \in Nat
  /\ START_REBROADCAST_INTERVAL <= MAX_REBROADCAST_INTERVAL

ASSUME EnvironmentAssumption ==
  /\ MaxLate \in Nat /\ Granule \in Nat \ {0}
  /\ INCOMING_BUFFER_SIZE \in Nat
  /\ Length \in [Members -> Nat] /\ TableSize \in [Members -> Nat]
  /\ Nobody \notin Members

VARIABLES
  pc,              \* "top" of the loop, "waiting" for recv_from, "done", "failed"
  interval,        \* rebroadcast_interval
  since,           \* time since last_broadcast_time
  waited,          \* time since the present timeout was set
  dirty,           \* length of the part of buf that is not zero
  probed,          \* members that a probe may still reach
  answers,         \* members whose answer is on its way
  found            \* the member that is returned

timing == <<interval, since, waited>>
vars == <<pc, timing, dirty, probed, answers, found>>

-----------------------------------------------------------------------------
\* The loop.

\* Mutant: waits for two intervals.
DueLate == since >= interval + interval

Due == since >= interval

SendProbe ==
  /\ pc = "top" /\ Due
  /\ since' = 0
  /\ pc' = "waiting" /\ waited' = 0
  /\ probed' = Members
  /\ UNCHANGED <<interval, dirty, answers, found>>

SendFails ==
  /\ pc = "top" /\ Due
  /\ SendMayFail
  /\ pc' = "failed"
  /\ UNCHANGED <<timing, dirty, probed, answers, found>>

\* The timeout is set although no probe has been sent.
WaitOn ==
  /\ pc = "top" /\ ~Due
  /\ pc' = "waiting" /\ waited' = 0
  /\ UNCHANGED <<interval, since, dirty, probed, answers, found>>

\* Mutant: grows for ever.
NextIntervalUncapped(i) == (i * 5) \div 4

\* The interval times 1.25, in whole milliseconds.
NextInterval(i) == Min({MAX_REBROADCAST_INTERVAL, (i * 5) \div 4})

TimeOut ==
  /\ pc = "waiting" /\ waited >= interval
  /\ interval' = NextInterval(interval)
  /\ pc' = "top"
  /\ UNCHANGED <<since, waited, dirty, probed, answers, found>>

\* recv_from reports an error; the program goes on at once.
ReadFails ==
  /\ pc = "waiting"
  /\ pc' = "top"
  /\ UNCHANGED <<timing, dirty, probed, answers, found>>

Pass(d) ==
  /\ pc = "waiting"
  /\ waited + d <= interval + MaxLate
  /\ since' = since + d /\ waited' = waited + d
  /\ UNCHANGED <<pc, interval, dirty, probed, answers, found>>

\* The whole buffer is read as a SwimEnvelope, although the answer is a
\* ProbeResponse.  The tag of the message comes after the answer: zero, the tag of
\* Ping, in a fresh buffer, and whatever a longer, unreadable answer has left there
\* otherwise.
Readable(m) ==
  IF Length[m] + 4 > INCOMING_BUFFER_SIZE THEN {FALSE}
  ELSE IF dirty <= Length[m] THEN {TRUE}
  ELSE BOOLEAN

Receive(m) ==
  /\ pc = "waiting"
  /\ m \in answers
  /\ answers' = answers \ {m}
  /\ \E readable \in Readable(m) :
       IF readable
       THEN found' = m /\ pc' = "done" /\ UNCHANGED dirty
       ELSE /\ pc' = "top"
            /\ dirty' = Max({dirty, Min({Length[m], INCOMING_BUFFER_SIZE})})
            /\ UNCHANGED found
  /\ UNCHANGED <<timing, probed>>

-----------------------------------------------------------------------------
\* The members and the network.

\* Mutant: only those that know of nobody else answer.
AnswerIfAlone(m) ==
  /\ m \in probed
  /\ TableSize[m] <= 2
  /\ probed' = probed \ {m} /\ answers' = answers \cup {m}
  /\ UNCHANGED <<pc, timing, dirty, found>>

Answer(m) ==
  /\ m \in probed
  /\ probed' = probed \ {m}
  /\ answers' = answers \cup {m}
  /\ UNCHANGED <<pc, timing, dirty, found>>

\* should_respond_to_broadcast: certain for a table of at most two entries.
StaySilent(m) ==
  /\ m \in probed
  /\ TableSize[m] > 2
  /\ probed' = probed \ {m}
  /\ UNCHANGED <<pc, timing, dirty, answers, found>>

\* The probe does not reach m, or the answer does not come back.
Lose(m) ==
  /\ m \in probed
  /\ probed' = probed \ {m}
  /\ UNCHANGED <<pc, timing, dirty, answers, found>>

-----------------------------------------------------------------------------
Init ==
  /\ pc = "top"
  /\ interval = START_REBROADCAST_INTERVAL
  /\ since = START_REBROADCAST_INTERVAL + 1000
  /\ waited = 0 /\ dirty = 0
  /\ probed = {} /\ answers = {}
  /\ found = Nobody

Loop ==
  \/ SendProbe \/ SendFails \/ WaitOn \/ TimeOut \/ ReadFails
  \/ \E m \in Members : Receive(m)

\* The moments the model looks at.
Later ==
  \E d \in {Granule, interval - waited, interval + MaxLate - waited} : d > 0 /\ Pass(d)

Outside == \E m \in Members : Answer(m) \/ StaySilent(m) \/ Lose(m)

Next == Loop \/ Later \/ Outside

Spec == Init /\ [][Next]_vars

\* Time passes, whether reads fail or not, and timers fire; a member that is probed
\* again and again answers in the end, and not all answers are lost.
Fairness ==
  /\ WF_vars(SendProbe \/ SendFails) /\ WF_vars(WaitOn)
  /\ SF_vars(Later) /\ WF_vars(TimeOut)
  /\ \A m \in Members : SF_vars(Answer(m)) /\ SF_vars(Receive(m))

FairSpec == Spec /\ Fairness

-----------------------------------------------------------------------------
\* Properties.

\* Every variable has its type, and the interval its bounds.
TypeOK ==
  /\ pc \in {"top", "waiting", "done", "failed"}
  /\ interval \in 1..MAX_REBROADCAST_INTERVAL
  /\ since \in Nat /\ waited \in Nat
  /\ dirty \in 0..INCOMING_BUFFER_SIZE
  /\ probed \subseteq Members /\ answers \subseteq Members
  /\ found \in Members \cup {Nobody}

\* Between two probes there are never two whole intervals (and the delay of one
\* timer): the interval grows while the program waits, and whether a probe is due is
\* only looked at when a timer fires, a read fails or an unreadable answer arrives.
ProbesKeepComing ==
  pc = "waiting" => since < interval + interval + MaxLate

\* A probing program finds a member, or fails because it cannot send, unless an
\* unreadable answer has spoilt its buffer.
SomeoneFound == <>(pc \in {"done", "failed"} \/ dirty > 0)
=============================================================================
