SPECIFICATION FairSpec
CONSTANTS
  p1 = p1
  p2 = p2
  i = i
  none = none
  c = c
  d = d
  e = e
  x = x
  f = f
  Peers = {p1, p2}
  Identities = {i}
  NoIdentity = none
  Discovery = {c, d, x}
  NextPeer = {d}
  Departure = {e}
  Fingerprint = {f}
  Impatient = {c}
  MaxChanges = 3
\* The changes are bounded, so the events task ends up waiting for ever.
CHECK_DEADLOCK FALSE
INVARIANTS
  TypeOK
  LastWordTrue
  FingerprintCurrent
PROPERTIES
  TwoToHurt
  CatchesUp
