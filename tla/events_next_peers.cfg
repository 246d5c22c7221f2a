SPECIFICATION Spec
CONSTANTS
  p1 = p1
  p2 = p2
  i = i
  none = none
  c = c
  d = d
  x = x
  Peers = {p1, p2}
  Identities = {i}
  NoIdentity = none
  Discovery = {c, d, x}
  NextPeer = {c, d}
  Departure = {}
  Fingerprint = {}
  Impatient = {}
  MaxChanges = 3
\* The changes are bounded, so the events task ends up waiting for ever.
CHECK_DEADLOCK FALSE
PROPERTIES
  OnlyDroppedLeave
