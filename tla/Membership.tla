----------------------------- MODULE Membership -----------------------------
(***************************************************************************)
(* What a SWIM mesh promises about the opinions its Kaboodles have of each *)
(* other's sessions, without messages, datagrams, identities or ages.  One *)
(* step of a session revises the opinions it shares with the other         *)
(* sessions of its Kaboodle; Swim implements it.                           *)
(***************************************************************************)
CONSTANTS
  Peers,
  Kaboodles,
  Owner,                       \* the Kaboodle of each session
  PingMayFail                  \* may a ping fail at once, before any timeout?

VARIABLES
  status,          \* "down", "up" or "gone"
  view             \* view[k][p]: what k thinks of p

vars == <<status, view>>

Opinions == {"none", "alive", "suspect", "doubted"}
Views == [Kaboodles -> [Peers -> Opinions]]
NoOpinion == [p \in Peers |-> "none"]

\* Those whom session n can ask about p.
Helpers(n, p) == {h \in Peers \ {n, p} : view[Owner[n]][h] = "alive"}

-----------------------------------------------------------------------------
\* How session n may change its Kaboodle's opinion about p in one step.

Turns(n, p, from, to) == view[Owner[n]][p] \in from /\ view'[Owner[n]][p] = to

\* p, or somebody who knew p, has been heard from: p exists.
Learn(n, p) == Turns(n, p, {"none"}, "alive") /\ status[p] # "down"

\* p has been heard from.
Clear(n, p) == Turns(n, p, {"suspect", "doubted"}, "alive") /\ status[p] # "down"

\* p has been sent a ping.
Suspect(n, p) == n # p /\ Turns(n, p, {"alive"}, "suspect")

\* p has not answered, and somebody else is asked about it.
Doubt(n, p) == Turns(n, p, {"suspect"}, "doubted") /\ Helpers(n, p) # {}

\* A peer is given up after the second chance, or when there is nobody to give it one.
Drop(n, p) ==
  \/ Turns(n, p, {"doubted"}, "none")
  \/ Turns(n, p, {"suspect"}, "none") /\ Helpers(n, p) = {}

Stay(n, p) == view'[Owner[n]][p] = view[Owner[n]][p]

OthersStay(n) == \A k \in Kaboodles \ {Owner[n]} : view'[k] = view[k]

\* One peer is pinged at a time; everything else may happen to several at once.
Revise(n) ==
  /\ status[n] = "up" /\ UNCHANGED status
  /\ view' \in Views
  /\ \A p \in Peers :
       Stay(n, p) \/ Learn(n, p) \/ Clear(n, p) \/ Suspect(n, p) \/ Doubt(n, p) \/ Drop(n, p)
  /\ \A p, q \in Peers : Suspect(n, p) /\ Suspect(n, q) => p = q
  /\ OthersStay(n)

\* A ping to p could not be sent.
GiveUp(n, p) ==
  /\ status[n] = "up" /\ UNCHANGED status
  /\ n # p /\ PingMayFail
  /\ view' = [view EXCEPT ![Owner[n]][p] = "none"]

-----------------------------------------------------------------------------
\* A session begins, or fails to, and is part of its Kaboodle's view from then on.
Appear(n) ==
  /\ status[n] = "down"
  /\ status' = [status EXCEPT ![n] = "up"] \/ status' = [status EXCEPT ![n] = "gone"]
  /\ view' = [view EXCEPT ![Owner[n]][n] = "alive"]

\* A session that is about to leave takes itself out of its Kaboodle's view.
Retract(n) ==
  /\ status[n] = "up" /\ UNCHANGED status
  /\ view' = [view EXCEPT ![Owner[n]][n] = "none"]

Leave(n) == status[n] = "up" /\ status' = [status EXCEPT ![n] = "gone"] /\ UNCHANGED view

\* All sessions of k end together, and their opinions with them.
Crash(k) ==
  /\ status' = [n \in Peers |-> IF Owner[n] = k /\ status[n] = "up" THEN "gone" ELSE status[n]]
  /\ view' = [view EXCEPT ![k] = NoOpinion]

\* Any mesh in which nobody is suspected, and nobody is known before it has begun.
Init ==
  /\ status \in [Peers -> {"down", "up", "gone"}]
  /\ view \in [Kaboodles -> [Peers -> {"none", "alive"}]]
  /\ \A k \in Kaboodles, p \in Peers : view[k][p] = "alive" => status[p] # "down"

Next ==
  \/ \E n \in Peers : Appear(n) \/ Retract(n) \/ Leave(n) \/ Revise(n)
  \/ \E n, p \in Peers : GiveUp(n, p)
  \/ \E k \in Kaboodles : Crash(k)

Spec == Init /\ [][Next]_vars
=============================================================================
