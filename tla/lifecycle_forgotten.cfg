SPECIFICATION Spec
CONSTANTS
  Sessions = {s1, s2}
  Remote = r
  NoAddr = noaddr
  SendMayFail = FALSE
  MaxMail = 1
  MaxRequests = 1
  MayAbandon = FALSE
INVARIANTS StoppedForgotten
CHECK_DEADLOCK FALSE
