SPECIFICATION FairSpec
CONSTANTS
  Sessions = {s1, s2}
  Remote = r
  NoAddr = noaddr
  SendMayFail = TRUE
  MaxMail = 1
  MaxRequests = 1
  MayAbandon = TRUE
INVARIANTS TypeOK OneLiveSession StopNeverFails
PROPERTIES OwnEntryKept StopTakesEffect
CHECK_DEADLOCK FALSE
