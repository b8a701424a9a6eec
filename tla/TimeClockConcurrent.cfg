SPECIFICATION Spec
CONSTANTS
  Employees = {e1}
  Sessions = {s1}
  Breaks = {b1, b2}
  Shifts = {h1}
  Requests = {r1, r2}
  Jobs = {}
  Admins = {a1}
  Null = Null
  Ops = {"clock_in", "clock_out", "start_break", "end_break", "create_shift", "update_shift", "remove_shift"}
  Faults = {"error", "crash"}
  Serial = FALSE
  Settings <- PlainSettings
  Billable = {e1}
  Projects = {TRUE}
  GeoInputs = {"inside"}
  BreakTypes = {"unpaid"}
  ShiftStarts = {0}
  ShiftStatusInputs = {"cancelled"}
  Window = 1
  DayLength = 10
  MaxTime = 1
  a1 = a1
  b1 = b1
  b2 = b2
  e1 = e1
  h1 = h1
  r1 = r1
  r2 = r2
  s1 = s1
SYMMETRY SlotSymmetry
INVARIANT BreakGate
INVARIANT LaborNotLost
INVARIANT TakenShiftOffList
