SPECIFICATION Spec
CONSTANTS
  MaxAppts = 2
  MaxEvents = 2
  ServiceRequests = {s1}
  Requests = {r1, r2}
  Starts = {1, 2}
  MaxFaults = 1
  s1 = s1
  r1 = r1
  r2 = r2
CHECK_DEADLOCK FALSE
INVARIANT TypeOK
INVARIANT OneLivePerBooking
INVARIANT EventFollows
INVARIANT VisitFollows
PROPERTY TerminalFinal
