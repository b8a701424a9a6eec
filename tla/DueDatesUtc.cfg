SPECIFICATION Spec
CONSTANTS
  BaseYear = 2027
  BaseWeekday = 5
  LastMonth = 180
  West = 0
  Starts <- EarlyDays
  Intervals = {1, 2}
  DaysOfMonth = {None, 1, 15, 28}
  DaysOfWeek = {None, 0, 3}
  None = None
  MaxSteps = 6
INVARIANT OnSchedule
