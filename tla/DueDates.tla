------------------------------- MODULE DueDates -------------------------------
(***************************************************************************)
(* RecurringExpenseService.calculateNextDueDate and its helpers, and the   *)
(* chain of due dates a rule goes through.                                 *)
(*                                                                         *)
(* An instant is a number of quarter days (6 hours), a day a number of     *)
(* days since 1 January of BaseYear.  next_due_date is a DATE column: it   *)
(* is read as midnight UTC and written as the UTC day of an instant, while *)
(* getDate, getDay, addMonths and new Date(y, m, d) use the clock of the   *)
(* host, West quarter days behind UTC.  Changes to summer time are left    *)
(* out.                                                                    *)
(***************************************************************************)
EXTENDS Integers, TLC

CONSTANTS
  BaseYear,
  BaseWeekday,   \* the weekday of its first day, 0 = Sunday
  LastMonth,     \* bound: the calendar ends after this month, counted from 0
  West,          \* quarter days the host's clock is behind UTC
  Starts,        \* inputs: start_date
  Intervals,     \* inputs: interval
  DaysOfMonth,   \* inputs: day_of_month, or None
  DaysOfWeek,    \* inputs: day_of_week, or None
  None,
  MaxSteps       \* bound: due dates looked at per rule

ASSUME CalendarAssumption ==
  /\ {BaseYear, LastMonth, MaxSteps} \subseteq Nat
  /\ BaseWeekday \in 0..6
  /\ West \in 0..3
  /\ Starts \subseteq Nat \ {0}
  /\ Intervals \subseteq 1..12
  /\ DaysOfMonth \subseteq (1..28) \cup {None}
  /\ DaysOfWeek \subseteq (0..6) \cup {None}
  /\ None \notin Nat

VARIABLES
  rule,   \* frequency, interval, dayOfMonth, dayOfWeek, start
  due,    \* next_due_date, as stored
  steps   \* occurrences so far

vars == <<rule, due, steps>>

-----------------------------------------------------------------------------
(* The calendar *)

IsLeap(year) == year % 4 = 0 /\ (year % 100 # 0 \/ year % 400 = 0)

DaysInMonth(month) ==
  LET m == (month % 12) + 1 IN
    CASE m = 2 -> IF IsLeap(BaseYear + (month \div 12)) THEN 29 ELSE 28
      [] m \in {4, 6, 9, 11} -> 30
      [] OTHER -> 31

MonthStart[month \in 0..LastMonth + 1] ==
  IF month = 0 THEN 0 ELSE MonthStart[month - 1] + DaysInMonth(month - 1)

(* The calendar ends after the last due date looked at.                    *)
ASSUME CalendarLasts ==
  \A s \in Starts, i \in Intervals : \E m \in 0..LastMonth :
    /\ MonthStart[m] <= s /\ s < MonthStart[m + 1]
    /\ m + MaxSteps * i * 12 <= LastMonth

MonthOf(day) == CHOOSE m \in 0..LastMonth : MonthStart[m] <= day /\ day < MonthStart[m + 1]
DateOf(day) == day - MonthStart[MonthOf(day)] + 1
WeekdayOf(day) == (BaseWeekday + day) % 7
MinOf(a, b) == IF a < b THEN a ELSE b

(* A day of the month, snapped to the last one the month has.              *)
SnappedDay(month, day) == MonthStart[month] + MinOf(day, DaysInMonth(month)) - 1

-----------------------------------------------------------------------------
(* Instants *)

FromColumn(day) == 4 * day
ToColumn(t) == t \div 4
LocalDay(t) == (t - West) \div 4
LocalMidnight(day) == 4 * day + West

addDays(t, n) == t + 4 * n

(* date-fns: the same date n months later, snapped, at the same time of day*)
addMonths(t, n) ==
  LET day == LocalDay(t)
  IN t + 4 * (SnappedDay(MonthOf(day) + n, DateOf(day)) - day)

-----------------------------------------------------------------------------
(* The algorithm *)

resolveDay(t, preferredDay) ==
  LocalMidnight(SnappedDay(MonthOf(LocalDay(t)), preferredDay))

advanceToWeekday(t, target) ==
  addDays(t, (target - WeekdayOf(LocalDay(t)) + 7) % 7)

MonthsPer == [monthly |-> 1, quarterly |-> 3, annual |-> 12]
MonthFrequencies == DOMAIN MonthsPer
Frequencies == {"daily", "weekly"} \cup MonthFrequencies

calculateNextDueDate(r, t) ==
  CASE r.frequency = "daily" -> addDays(t, r.interval)
    [] r.frequency = "weekly" ->
         LET advanced == addDays(t, 7 * r.interval)
         IN IF r.dayOfWeek # None THEN advanceToWeekday(advanced, r.dayOfWeek) ELSE advanced
    [] r.frequency \in MonthFrequencies ->
         LET advanced == addMonths(t, r.interval * MonthsPer[r.frequency])
         IN resolveDay(advanced, IF r.dayOfMonth # None THEN r.dayOfMonth ELSE DateOf(LocalDay(t)))

-----------------------------------------------------------------------------
(* The due dates of a rule *)

MutWithDefaults(r) == r

(* create stores the day of the start date where the request gives none.   *)
WithDefaults(r) ==
  LET day == LocalDay(FromColumn(r.start))
  IN [r EXCEPT
       !.dayOfMonth = IF @ = None /\ r.frequency \in MonthFrequencies THEN DateOf(day) ELSE @,
       !.dayOfWeek = IF @ = None /\ r.frequency = "weekly" THEN WeekdayOf(day) ELSE @]

Requests == [frequency : Frequencies, interval : Intervals, dayOfMonth : DaysOfMonth,
             dayOfWeek : DaysOfWeek, start : Starts]

(* Of the two preferred days only the one the frequency looks at matters.  *)
Relevant(r) ==
  /\ r.frequency # "weekly" => r.dayOfWeek = None
  /\ r.frequency \notin MonthFrequencies => r.dayOfMonth = None

Init ==
  /\ \E r \in Requests : Relevant(r) /\ rule = WithDefaults(r)
  /\ due = rule.start
  /\ steps = 0

Occur ==
  /\ steps < MaxSteps
  /\ due' = ToColumn(calculateNextDueDate(rule, FromColumn(due)))
  /\ steps' = steps + 1
  /\ UNCHANGED rule

Done == steps = MaxSteps /\ UNCHANGED vars

Next == Occur \/ Done

Spec == Init /\ [][Next]_vars

-----------------------------------------------------------------------------
(* Properties *)

(* The n-th due date after the start, straight from the rule.              *)
Expected(r, n) ==
  IF n = 0 THEN r.start
  ELSE CASE r.frequency = "daily" -> r.start + n * r.interval
         [] r.frequency = "weekly" ->
              LET target == IF r.dayOfWeek # None THEN r.dayOfWeek ELSE WeekdayOf(r.start)
              IN r.start + 7 * r.interval * n + ((target - WeekdayOf(r.start) + 7) % 7)
         [] r.frequency \in MonthFrequencies ->
              SnappedDay(MonthOf(r.start) + n * r.interval * MonthsPer[r.frequency],
                         IF r.dayOfMonth # None THEN r.dayOfMonth ELSE DateOf(r.start))

(* calculateNextDueDate does not drift: however many short months and leap *)
(* years a rule goes through, its n-th due date is the preferred day of    *)
(* the n-th period (the comment in create: 31 January, 28 February, 31     *)
(* March, 30 April).                                                       *)
OnSchedule == due = Expected(rule, steps)
=============================================================================
