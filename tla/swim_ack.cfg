SPECIFICATION Spec
CONSTANTS
  a = a
  b = b
  c = c
  A = A
  B = B
  C = C
  none = none
  Peers = {a, b, c}
  Kaboodles = {A, B, C}
  Owner <- MCApart
  NoSession = none
  Identity <- MCIdentity
  NoIdentity = none
  OutAddr <- MCOutAddr
  NUM_INDIRECT_PING_PEERS = 3
  NUM_CANDIDATE_TARGET_PEERS = 5
  IdentityLength <- MCAlike
  INCOMING_BUFFER_SIZE = 5
  Lossy = TRUE
  Duplicating = FALSE
  SendMayFail = FALSE
  Doomed = {}
  Unlucky = {}
  Bootstrap <- MCNoBootstrap
  MaxInFlight = 1
  MaxTicks <- MC311
  Endless = {}
\* The ticks are bounded, so every behaviour of the model comes to a stop.
CHECK_DEADLOCK FALSE
ACTION_CONSTRAINT MCUninterrupted
PROPERTIES
  AckMarksUp
