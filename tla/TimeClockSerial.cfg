SPECIFICATION Spec
CONSTANTS
  Employees = {e1}
  Sessions = {s1, s2, s3}
  Breaks = {b1}
  Shifts = {h1}
  Requests = {r1}
  Jobs = {j1}
  Admins = {a1}
  Null = Null
  Ops = {"clock_in", "clock_out", "start_break", "end_break", "create_shift", "remove_shift", "missed_job"}
  Faults = {}
  Serial = TRUE
  Settings <- GpsSettings
  Billable = {e1}
  Projects = {TRUE}
  GeoInputs = {"no_coords", "outside"}
  BreakTypes = {"paid", "unpaid"}
  ShiftStarts = {0, 1, 2}
  ShiftStatusInputs = {}
  Window = 1
  DayLength = 2
  MaxTime = 5
  a1 = a1
  b1 = b1
  e1 = e1
  h1 = h1
  j1 = j1
  r1 = r1
  s1 = s1
  s2 = s2
  s3 = s3
SYMMETRY RowSymmetry
INVARIANT MinutesAccounted
INVARIANT OvertimeCaps
PROPERTY MissedOnlyIfAbsent
