SPECIFICATION FairSpec
CONSTANTS
  Events = {e1, e2}
  Times = {1}
  Year = 0
  MaxNow = 1
  Appts = {a1}
  Requests = {r1}
  Null = Null
  Attempts = 2
  PageSize = 1
  MaxRev = 2
  MaxConnects = 2
  MaxQueue = 1
  MaxFaults = 1
  e1 = e1
  e2 = e2
  a1 = a1
  r1 = r1
INVARIANT TypeOK
INVARIANT Covered
INVARIANT OwnNotBlocked
INVARIANT NoBlocksAfterDisconnect
CHECK_DEADLOCK FALSE
PROPERTY BlocksFollow
PROPERTY ConflictReported
