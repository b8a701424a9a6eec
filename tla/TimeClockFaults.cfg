SPECIFICATION Spec
CONSTANTS
  Employees = {e1}
  Sessions = {s1, s2}
  Breaks = {b1, b2}
  Shifts = {h1}
  Requests = {r1}
  Jobs = {j1}
  Admins = {}
  Null = Null
  Ops = {"clock_in", "clock_out", "start_break", "end_break", "create_shift", "update_shift", "remove_shift", "remind_job", "missed_job"}
  Faults = {"error", "crash"}
  Serial = TRUE
  Settings <- PlainSettings
  Billable = {e1}
  Projects = {TRUE, FALSE}
  GeoInputs = {"inside"}
  BreakTypes = {"unpaid"}
  ShiftStarts = {0}
  ShiftStatusInputs = {"scheduled", "cancelled"}
  Window = 1
  DayLength = 10
  MaxTime = 1
  b1 = b1
  b2 = b2
  e1 = e1
  h1 = h1
  j1 = j1
  r1 = r1
  s1 = s1
  s2 = s2
SYMMETRY RowSymmetry
INVARIANT OneActiveSession
INVARIANT CompletedIsFinal
PROPERTY ImplementsAttendance
