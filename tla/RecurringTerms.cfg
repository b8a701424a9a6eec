SPECIFICATION Spec
CONSTANTS
  Rules = {u1, u2}
  Entries = {e1, e2}
  Jobs = {j1}
  Requests = {r1}
  Workers = {w1}
  Null = Null
  Ops = {"create", "cancel", "pause", "skip", "trigger"}
  Faults = {"error", "crash"}
  Serial = TRUE
  Intervals = {1}
  Limits = {Null, 1}
  Ends = {Null, 1}
  Edits <- NoEdits
  MaxActive = 1
  Attempts = 2
  MaxDay = 1
  MaxDue = 2
  MaxFaults = 1
  e1 = e1
  e2 = e2
  j1 = j1
  r1 = r1
  u1 = u1
  u2 = u2
  w1 = w1
SYMMETRY RowSymmetry
INVARIANT TypeOK
INVARIANT OccurrencesCounted
PROPERTY WithinTerms
