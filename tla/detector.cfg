SPECIFICATION Spec
CONSTANTS
  a = a
  b = b
  Peers = {a, b}
  PROTOCOL_PERIOD = 1
  PING_TIMEOUT = 2
  MAX_PEER_SHARE_AGE = 10
  NUM_CANDIDATE_TARGET_PEERS = 5
  SendMayFail = TRUE
  MaxSlack = 1
  MaxQuiet = 11
\* Time is bounded.
CHECK_DEADLOCK FALSE
INVARIANTS
  TypeOK
  GivenUpInTime
  LatencyBounded
  SharedRecently
PROPERTIES
  DroppedAfterSilence
