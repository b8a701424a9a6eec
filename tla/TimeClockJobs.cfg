SPECIFICATION FairSpec
CONSTANTS
  Employees = {e1}
  Sessions = {}
  Breaks = {}
  Shifts = {h1, h2}
  Requests = {r1}
  Jobs = {j1, j2}
  Admins = {}
  Null = Null
  Ops = {"create_shift", "update_shift", "remove_shift", "remind_job", "missed_job"}
  Faults = {}
  Serial = FALSE
  Settings <- PlainSettings
  Billable = {e1}
  Projects = {TRUE}
  GeoInputs = {"inside"}
  BreakTypes = {"unpaid"}
  ShiftStarts = {0, 1}
  ShiftStatusInputs = {"scheduled", "cancelled"}
  Window = 1
  DayLength = 10
  MaxTime = 2
  e1 = e1
  h1 = h1
  h2 = h2
  j1 = j1
  j2 = j2
  r1 = r1
INVARIANT ReminderAtMostOnce
PROPERTY MissedEventually
