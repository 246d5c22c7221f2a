SPECIFICATION FairSpec
CONSTANTS
  a = a
  b = b
  Members = {a, b}
  Length <- MCLength
  TableSize <- MCTableSize
  Nobody = nobody
  START_REBROADCAST_INTERVAL = 1000
  MAX_REBROADCAST_INTERVAL = 10000
  INCOMING_BUFFER_SIZE = 1024
  MaxLate = 5
  Granule = 4000
  SendMayFail = TRUE
\* The search ends when a member is found.
CHECK_DEADLOCK FALSE
INVARIANTS
  TypeOK
  ProbesKeepComing
PROPERTIES
  SomeoneFound
