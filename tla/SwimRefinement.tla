--------------------------- MODULE SwimRefinement ---------------------------
(***************************************************************************)
(* Swim implements Membership: the states of known_peers are opinions, and *)
(* a session that is being stopped is there until it ends.                 *)
(***************************************************************************)
EXTENDS Swim

Opinion(info) ==
  CASE info.state \in KnownStates -> "alive"
    [] info.state = "WaitingForPing" -> "suspect"
    [] info.state = "WaitingForIndirectPing" -> "doubted"
    [] OTHER -> "none"

Opinions(tables) == [k \in Kaboodles |-> [p \in Peers |-> Opinion(tables[k][p])]]

Presence(st) == [n \in Peers |-> IF st[n] \in {"down", "gone"} THEN st[n] ELSE "up"]

M == INSTANCE Membership WITH
       status <- Presence(status), view <- Opinions(known_peers), PingMayFail <- SendMayFail

\* Whatever datagrams are lost, late, cut short or handled twice, and however sessions
\* of a Kaboodle overlap, it changes its opinions only as Membership allows: every peer
\* gets its second chance as long as there is somebody to give it, one peer is pinged at a
\* time, no session suspects itself, and only sessions that have been started, at least
\* in vain, are believed to be there.
ImplementsMembership == M!Spec
=============================================================================
