SPECIFICATION FairSpec
CONSTANTS
  Rules = {u1}
  Entries = {e1, e2, e3}
  Jobs = {j1}
  Requests = {r1}
  Workers = {w1}
  Null = Null
  Ops = {"create", "update", "cancel", "pause", "resume"}
  Faults = {"error", "crash"}
  Serial = TRUE
  Intervals = {1}
  Limits = {Null}
  Ends = {Null}
  Edits <- DueEdits
  MaxActive = 2
  Attempts = 2
  MaxDay = 2
  MaxDue = 2
  MaxFaults = 2
  e1 = e1
  e2 = e2
  e3 = e3
  j1 = j1
  r1 = r1
  u1 = u1
  w1 = w1
INVARIANT ScheduledOnce
PROPERTY FinalStaysFinal
PROPERTY NoBackfill
PROPERTY DueServed
