---------------------------- MODULE DueDatesProofs ----------------------------
(***************************************************************************)
(* On a host whose clock is UTC no rule drifts: for every start date,      *)
(* interval, preferred day and calendar, the n-th due date is the one the  *)
(* rule gives for its n-th period.  The lengths of the months are summed   *)
(* by recursion over the calendar; facts about them are proved by looking  *)
(* at the first month for which they would fail.                           *)
(***************************************************************************)
EXTENDS DueDates, WellFoundedInduction, TLAPS

-----------------------------------------------------------------------------
(* The calendar *)

(* A non-empty set of naturals has a first element.                        *)
LEMMA FirstNatural ==
  ASSUME NEW T, T \subseteq Nat, T # {}
  PROVE  \E m \in T : \A y \in T : m <= y
<1>1. PICK m \in T : \A y \in T : ~(<<y, m>> \in OpToRel(<, Nat))
  BY NatLessThanWellFounded, WFMin
<1>2. ASSUME NEW y \in T PROVE m <= y
  <2>1. m \in Nat /\ y \in Nat
    OBVIOUS
  <2>2. ~(y < m)
    BY <1>1, <2>1 DEF OpToRel
  <2>3. QED
    BY <2>1, <2>2
<1>3. QED
  BY <1>2

(* A month has 28 to 31 days.                                              *)
LEMMA MonthLength == \A m : DaysInMonth(m) \in 28..31
BY DEF DaysInMonth

IsCalendar(f, n) == f = [m \in 0..n |-> IF m = 0 THEN 0 ELSE f[m - 1] + DaysInMonth(m - 1)]

(* The recursion over the months defines a function.                       *)
LEMMA CalendarExists == \A n \in Nat : \E f : IsCalendar(f, n)
<1> DEFINE T == {n \in Nat : ~\E f : IsCalendar(f, n)}
<1>1. SUFFICES ASSUME T # {} PROVE FALSE
  OBVIOUS
<1>2. T \subseteq Nat
  OBVIOUS
<1>3. PICK n \in T : \A y \in T : n <= y
  <2> HIDE DEF T
  <2>1. QED
    BY <1>1, <1>2, FirstNatural
<1>4. n # 0
  <2>1. IsCalendar([m \in 0..0 |-> 0], 0)
    BY DEF IsCalendar
  <2>2. QED
    BY <2>1
<1>5. n - 1 \in Nat /\ n - 1 \notin T
  BY <1>3, <1>4
<1>6. PICK g : IsCalendar(g, n - 1)
  BY <1>5
<1> DEFINE f == [m \in 0..n |-> IF m = n THEN g[n - 1] + DaysInMonth(n - 1) ELSE g[m]]
<1>7. f = [m \in 0..n |-> IF m = 0 THEN 0 ELSE f[m - 1] + DaysInMonth(m - 1)]
  <2>1. ASSUME NEW m \in 0..n PROVE f[m] = IF m = 0 THEN 0 ELSE f[m - 1] + DaysInMonth(m - 1)
    <3>1. CASE m = n
      BY <1>4, <1>5, <3>1
    <3>2. CASE m # n
      <4>1. m \in 0..(n - 1) /\ f[m] = g[m]
        BY <1>5, <3>2
      <4>2. g[m] = IF m = 0 THEN 0 ELSE g[m - 1] + DaysInMonth(m - 1)
        BY <1>6, <4>1 DEF IsCalendar
      <4>3. m # 0 => f[m - 1] = g[m - 1]
        BY <1>5, <4>1
      <4>4. QED
        BY <4>1, <4>2, <4>3
    <3>3. QED
      BY <3>1, <3>2
  <2>2. QED
    BY <2>1
<1>8. IsCalendar(f, n)
  BY <1>7 DEF IsCalendar
<1>9. QED
  BY <1>3, <1>8

(* Each month starts where the one before it ends.                         *)
LEMMA MonthStarts ==
  /\ MonthStart[0] = 0
  /\ \A m \in 0..LastMonth : MonthStart[m + 1] = MonthStart[m] + DaysInMonth(m)
<1>1. MonthStart = CHOOSE f : IsCalendar(f, LastMonth + 1)
  BY DEF MonthStart, IsCalendar
<1>2. IsCalendar(MonthStart, LastMonth + 1)
  BY <1>1, CalendarExists, CalendarAssumption
<1>3. LastMonth \in Nat
  BY CalendarAssumption
<1>4. \A m \in 0..(LastMonth + 1) :
        MonthStart[m] = IF m = 0 THEN 0 ELSE MonthStart[m - 1] + DaysInMonth(m - 1)
  BY <1>2 DEF IsCalendar
<1>5. QED
  BY <1>3, <1>4

(* It starts on a day.                                                    *)
LEMMA MonthStartType == \A m \in 0..(LastMonth + 1) : MonthStart[m] \in Nat
<1> DEFINE T == {m \in 0..(LastMonth + 1) : MonthStart[m] \notin Nat}
<1>1. SUFFICES ASSUME T # {} PROVE FALSE
  OBVIOUS
<1>2. T \subseteq Nat /\ LastMonth \in Nat
  BY CalendarAssumption
<1>3. PICK m \in T : \A y \in T : m <= y
  <2> HIDE DEF T
  <2>1. QED
    BY <1>1, <1>2, FirstNatural
<1>4. m # 0
  BY <1>3, MonthStarts
<1>5. m - 1 \in 0..LastMonth /\ m - 1 \notin T
  BY <1>2, <1>3, <1>4
<1>6. MonthStart[m - 1] \in Nat /\ MonthStart[m] = MonthStart[m - 1] + DaysInMonth(m - 1)
  BY <1>2, <1>5, MonthStarts
<1>7. QED
  BY <1>3, <1>6, MonthLength

(* Months do not overlap.                                                  *)
LEMMA MonthsInOrder ==
  ASSUME NEW a \in 0..LastMonth, NEW b \in 0..LastMonth, a < b
  PROVE  MonthStart[a + 1] <= MonthStart[b]
<1> DEFINE T == {m \in 0..LastMonth : a < m /\ ~(MonthStart[a + 1] <= MonthStart[m])}
<1>1. SUFFICES ASSUME T # {} PROVE FALSE
  OBVIOUS
<1>2. T \subseteq Nat /\ LastMonth \in Nat /\ a + 1 \in 0..(LastMonth + 1)
  BY CalendarAssumption
<1>3. PICK m \in T : \A y \in T : m <= y
  <2> HIDE DEF T
  <2>1. QED
    BY <1>1, <1>2, FirstNatural
<1>4. m # a + 1
  BY <1>2, <1>3, MonthStartType
<1>5. m - 1 \in 0..LastMonth /\ a < m - 1 /\ m - 1 \notin T
  BY <1>2, <1>3, <1>4
<1>6. /\ MonthStart[a + 1] <= MonthStart[m - 1]
      /\ MonthStart[m] = MonthStart[m - 1] + DaysInMonth(m - 1)
  BY <1>2, <1>5, MonthStarts
<1>7. QED
  BY <1>2, <1>3, <1>5, <1>6, MonthLength, MonthStartType

(* MonthOf finds the month a day lies in.                                  *)
LEMMA MonthFound ==
  ASSUME NEW m \in 0..LastMonth, NEW day \in Nat, MonthStart[m] <= day, day < MonthStart[m + 1]
  PROVE  MonthOf(day) = m
<1>1. ASSUME NEW k \in 0..LastMonth, MonthStart[k] <= day, day < MonthStart[k + 1] PROVE k = m
  <2>1. /\ MonthStart[k] \in Nat /\ MonthStart[k + 1] \in Nat
        /\ MonthStart[m] \in Nat /\ MonthStart[m + 1] \in Nat /\ LastMonth \in Nat
    BY MonthStartType, CalendarAssumption
  <2>2. CASE k < m
    BY <1>1, <2>1, <2>2, MonthsInOrder
  <2>3. CASE m < k
    BY <1>1, <2>1, <2>3, MonthsInOrder
  <2>4. QED
    BY <2>1, <2>2, <2>3
<1>2. QED
  BY <1>1 DEF MonthOf

(* A snapped day lies in its month, on the preferred day or its last one.  *)
LEMMA SnappedLies ==
  ASSUME NEW m \in 0..LastMonth, NEW day \in 1..31
  PROVE  /\ SnappedDay(m, day) \in Nat
         /\ MonthStart[m] <= SnappedDay(m, day) /\ SnappedDay(m, day) < MonthStart[m + 1]
         /\ MonthOf(SnappedDay(m, day)) = m
<1>1. MonthStart[m] \in Nat /\ MonthStart[m + 1] = MonthStart[m] + DaysInMonth(m) /\ LastMonth \in Nat
  BY MonthStarts, MonthStartType, CalendarAssumption
<1>2. PICK d \in 1..31 : d = MinOf(day, DaysInMonth(m)) /\ d <= DaysInMonth(m)
  BY MonthLength DEF MinOf
<1>3. SnappedDay(m, day) = MonthStart[m] + d - 1
  BY <1>2 DEF SnappedDay
<1>4. SnappedDay(m, day) \in Nat /\ MonthStart[m] <= SnappedDay(m, day) /\ SnappedDay(m, day) < MonthStart[m + 1]
  BY <1>1, <1>2, <1>3, MonthLength
<1>5. QED
  BY <1>4, MonthFound

(* A day of the calendar has a date of 1 to 31.                            *)
LEMMA DateLies ==
  ASSUME NEW m \in 0..LastMonth, NEW day \in Nat, MonthStart[m] <= day, day < MonthStart[m + 1]
  PROVE  DateOf(day) \in 1..31
<1>1. MonthStart[m] \in Nat /\ MonthStart[m + 1] = MonthStart[m] + DaysInMonth(m) /\ LastMonth \in Nat
  BY MonthStarts, MonthStartType, CalendarAssumption
<1>2. QED
  BY <1>1, MonthFound, MonthLength DEF DateOf

-----------------------------------------------------------------------------
(* One due date after another, on a host in UTC *)

(* A daily rule moves on by its interval.                                  *)
LEMMA DailyStep ==
  ASSUME West = 0, NEW r, r.frequency = "daily", NEW due0 \in Nat, NEW i \in Nat, i = r.interval
  PROVE  ToColumn(calculateNextDueDate(r, FromColumn(due0))) = due0 + i
<1>1. calculateNextDueDate(r, FromColumn(due0)) = addDays(FromColumn(due0), r.interval)
  BY DEF calculateNextDueDate, MonthFrequencies, MonthsPer
<1>2. addDays(FromColumn(due0), r.interval) = 4 * (due0 + i)
  BY DEF addDays, FromColumn
<1>3. PICK x \in Nat : x = due0 + i
  OBVIOUS
<1>4. (4 * x) \div 4 = x
  OBVIOUS
<1>5. QED
  BY <1>1, <1>2, <1>3, <1>4 DEF ToColumn

(* A weekly one moves on by its weeks, then to its weekday.                *)
LEMMA WeeklyStep ==
  ASSUME West = 0, NEW r, r.frequency = "weekly", NEW due0 \in Nat,
         NEW i \in Nat, i = r.interval,
         NEW w \in 0..6, w = r.dayOfWeek, w # None
  PROVE  ToColumn(calculateNextDueDate(r, FromColumn(due0))) =
           due0 + 7 * i + ((w - WeekdayOf(due0 + 7 * i) + 7) % 7)
<1>1. PICK day \in Nat : day = due0 + 7 * i
  OBVIOUS
<1>2. addDays(FromColumn(due0), 7 * i) = 4 * day
  BY <1>1 DEF addDays, FromColumn
<1>3. LocalDay(4 * day) = day
  BY <1>1 DEF LocalDay
<1>4. PICK k \in 0..6 : k = (w - WeekdayOf(day) + 7) % 7
  BY CalendarAssumption DEF WeekdayOf
<1>5. calculateNextDueDate(r, FromColumn(due0)) = advanceToWeekday(4 * day, w)
  BY <1>2 DEF calculateNextDueDate, MonthFrequencies, MonthsPer
<1>6. advanceToWeekday(4 * day, w) = 4 * day + 4 * k
  BY <1>3, <1>4 DEF advanceToWeekday, addDays
<1>7. PICK x \in Nat : x = day + k
  BY <1>1, <1>4
<1>8. 4 * day + 4 * k = 4 * x /\ (4 * x) \div 4 = x
  BY <1>1, <1>4, <1>7
<1>9. QED
  BY <1>1, <1>4, <1>5, <1>6, <1>7, <1>8 DEF ToColumn

(* A rule by months moves on by its months, to the preferred day, or to    *)
(* the last one, of the month it comes to.                                 *)
LEMMA MonthStep ==
  ASSUME West = 0, NEW r, r.frequency \in MonthFrequencies, NEW due0 \in Nat,
         NEW k \in Nat, k = r.interval * MonthsPer[r.frequency],
         NEW m \in 0..LastMonth, MonthStart[m] <= due0, due0 < MonthStart[m + 1],
         m + k <= LastMonth,
         r.dayOfMonth \in 1..31, r.dayOfMonth # None
  PROVE  ToColumn(calculateNextDueDate(r, FromColumn(due0))) = SnappedDay(m + k, r.dayOfMonth)
<1>1. m + k \in 0..LastMonth /\ LastMonth \in Nat
  BY CalendarAssumption
<1>2. LocalDay(FromColumn(due0)) = due0 /\ FromColumn(due0) = 4 * due0
  BY DEF LocalDay, FromColumn
<1>3. PICK s \in Nat : s = SnappedDay(m + k, DateOf(due0)) /\ MonthOf(s) = m + k
  BY <1>1, DateLies, SnappedLies
<1>4. addMonths(FromColumn(due0), k) = 4 * s
  <2>1. MonthOf(due0) = m
    BY MonthFound
  <2>2. addMonths(FromColumn(due0), k) = 4 * due0 + 4 * (s - due0)
    BY <1>2, <1>3, <2>1 DEF addMonths
  <2>3. QED
    BY <2>2
<1>5. LocalDay(4 * s) = s
  BY DEF LocalDay
<1>6. resolveDay(4 * s, r.dayOfMonth) = 4 * SnappedDay(m + k, r.dayOfMonth)
  BY <1>1, <1>3, <1>5, SnappedLies DEF resolveDay, LocalMidnight
<1>7. calculateNextDueDate(r, FromColumn(due0)) = resolveDay(4 * s, r.dayOfMonth)
  BY <1>4 DEF calculateNextDueDate, MonthFrequencies, MonthsPer
<1>8. QED
  BY <1>1, <1>6, <1>7, SnappedLies DEF ToColumn

-----------------------------------------------------------------------------
(* The rule keeps its schedule *)

(* What create leaves in a rule, and the schedule kept so far.             *)
DatesInv ==
  /\ rule.frequency \in Frequencies
  /\ rule.interval \in Intervals
  /\ rule.start \in Starts
  /\ rule.frequency = "weekly" => rule.dayOfWeek \in 0..6
  /\ rule.frequency \in MonthFrequencies => rule.dayOfMonth \in 1..31
  /\ steps \in 0..MaxSteps
  /\ OnSchedule

(* The calendar reaches every month a rule comes to.                       *)
LEMMA MonthReached ==
  ASSUME NEW s \in Starts, NEW i \in Intervals, NEW n \in 0..MaxSteps, NEW p \in {1, 3, 12}
  PROVE  /\ MonthOf(s) \in 0..LastMonth
         /\ MonthStart[MonthOf(s)] <= s /\ s < MonthStart[MonthOf(s) + 1]
         /\ n * i * p \in Nat
         /\ MonthOf(s) + n * i * p <= LastMonth
<1>1. PICK m \in 0..LastMonth : /\ MonthStart[m] <= s /\ s < MonthStart[m + 1]
                               /\ m + MaxSteps * i * 12 <= LastMonth
  BY CalendarLasts
<1>2. s \in Nat /\ i \in 1..12 /\ MaxSteps \in Nat /\ LastMonth \in Nat
  BY CalendarAssumption
<1>3. MonthOf(s) = m
  BY <1>1, <1>2, MonthFound
<1>4. PICK a \in Nat, b \in Nat : a = n * i /\ b = MaxSteps * i /\ a <= b
  <2>1. n * i \in Nat /\ MaxSteps * i \in Nat /\ n * i <= MaxSteps * i
    BY <1>2
  <2>2. QED
    BY <2>1
<1>5. a * p \in Nat /\ a * p <= b * 12
  BY <1>4
<1>6. QED
  BY <1>1, <1>2, <1>3, <1>4, <1>5

(* The weekday a weekly rule came to is the one it comes to next.          *)
LEMMA WeekdayKept ==
  ASSUME NEW s \in Nat, NEW q \in Nat, NEW w \in 0..6
  PROVE  /\ WeekdayOf(s + 7 * q) = WeekdayOf(s)
         /\ WeekdayOf(s + 7 * q + ((w - WeekdayOf(s) + 7) % 7)) = w
<1>1. BaseWeekday \in 0..6
  BY CalendarAssumption
<1>2. PICK x \in 0..6, y \in Nat : x = WeekdayOf(s) /\ BaseWeekday + s = 7 * y + x
  BY <1>1 DEF WeekdayOf
<1>3. WeekdayOf(s + 7 * q) = x
  BY <1>1, <1>2 DEF WeekdayOf
<1>4. CASE w >= x
  <2>1. (w - x + 7) % 7 = w - x
    BY <1>2, <1>4
  <2>2. QED
    BY <1>1, <1>2, <1>3, <1>4, <2>1 DEF WeekdayOf
<1>5. CASE w < x
  <2>1. (w - x + 7) % 7 = w - x + 7
    BY <1>2, <1>5
  <2>2. QED
    BY <1>1, <1>2, <1>3, <1>5, <2>1 DEF WeekdayOf
<1>6. QED
  BY <1>2, <1>4, <1>5

(* The rule create stores.                                                 *)
LEMMA DatesInit == ASSUME West = 0, Init PROVE DatesInv
<1>1. PICK r \in Requests : Relevant(r) /\ rule = WithDefaults(r)
  BY DEF Init
<1>2. /\ r.frequency \in Frequencies /\ r.interval \in Intervals /\ r.start \in Starts
      /\ r.dayOfMonth \in (1..28) \cup {None} /\ r.dayOfWeek \in (0..6) \cup {None}
      /\ r.start \in Nat /\ None \notin Nat /\ BaseWeekday \in 0..6
  BY CalendarAssumption DEF Requests
<1>3. LocalDay(FromColumn(r.start)) = r.start
  BY <1>2 DEF LocalDay, FromColumn
<1>4. DateOf(r.start) \in 1..31
  <2>1. PICK m \in 0..LastMonth : MonthStart[m] <= r.start /\ r.start < MonthStart[m + 1]
    BY <1>2, CalendarLasts
  <2>2. QED
    BY <1>2, <2>1, DateLies
<1>5. WeekdayOf(r.start) \in 0..6
  BY <1>2 DEF WeekdayOf
<1>6. /\ rule.frequency = r.frequency /\ rule.interval = r.interval /\ rule.start = r.start
      /\ rule.dayOfMonth =
           IF r.dayOfMonth = None /\ r.frequency \in MonthFrequencies THEN DateOf(r.start) ELSE r.dayOfMonth
      /\ rule.dayOfWeek =
           IF r.dayOfWeek = None /\ r.frequency = "weekly" THEN WeekdayOf(r.start) ELSE r.dayOfWeek
  BY <1>1, <1>3 DEF WithDefaults, Requests
<1>7. OnSchedule
  BY DEF Init, OnSchedule, Expected
<1>8. steps \in 0..MaxSteps
  BY CalendarAssumption DEF Init
<1>9. QED
  BY <1>2, <1>4, <1>5, <1>6, <1>7, <1>8 DEF DatesInv

(* The frequencies differ, and the months of each are 1, 3 or 12.          *)
LEMMA MonthsOfFrequency ==
  /\ "daily" \notin MonthFrequencies /\ "weekly" \notin MonthFrequencies
  /\ \A f \in MonthFrequencies : MonthsPer[f] \in {1, 3, 12}
BY DEF MonthFrequencies, MonthsPer

(* One period more.                                                        *)
LEMMA OneMorePeriod == \A n \in Nat, i \in Nat : (n + 1) * i = n * i + i /\ n * i \in Nat
OBVIOUS

(* The schedule of a daily rule.                                           *)
LEMMA DailySchedule ==
  ASSUME West = 0, NEW r, r.frequency = "daily", NEW i \in Nat, i = r.interval,
         NEW s \in Nat, s = r.start, NEW n \in Nat
  PROVE  ToColumn(calculateNextDueDate(r, FromColumn(Expected(r, n)))) = Expected(r, n + 1)
<1>1. PICK q \in Nat : q = n * i
  OBVIOUS
<1>2. (n + 1) * i = q + i
  BY <1>1, OneMorePeriod
<1>3. Expected(r, n) = s + q
  <2>1. n = 0 => q = 0
    BY <1>1
  <2>2. QED
    BY <1>1, <2>1, MonthsOfFrequency DEF Expected
<1>4. PICK due0 \in Nat : due0 = s + q
  BY <1>1
<1>5. n + 1 # 0
  OBVIOUS
<1>6. Expected(r, n + 1) = s + (n + 1) * i
  BY <1>5, MonthsOfFrequency DEF Expected
<1>7. Expected(r, n + 1) = due0 + i
  BY <1>2, <1>4, <1>6
<1>8. ToColumn(calculateNextDueDate(r, FromColumn(due0))) = due0 + i
  BY DailyStep
<1>9. QED
  BY <1>3, <1>4, <1>7, <1>8

(* The schedule of a weekly rule: from its second date on it stays on its  *)
(* weekday, so nothing is added to its weeks again.                        *)
LEMMA WeeklySchedule ==
  ASSUME West = 0, NEW r, r.frequency = "weekly", NEW i \in Nat, i = r.interval,
         NEW s \in Nat, s = r.start, NEW w \in 0..6, w = r.dayOfWeek, w # None, NEW n \in Nat
  PROVE  ToColumn(calculateNextDueDate(r, FromColumn(Expected(r, n)))) = Expected(r, n + 1)
<1>1. PICK q \in Nat : q = n * i
  OBVIOUS
<1>2. 7 * i * (n + 1) = 7 * (q + i) /\ 7 * i * n = 7 * q
  BY <1>1
<1>3. PICK x \in 0..6 : x = WeekdayOf(s)
  BY CalendarAssumption DEF WeekdayOf
<1>4. PICK k \in 0..6 : k = (w - x + 7) % 7
  BY <1>3
<1>5. n + 1 # 0
  OBVIOUS
<1>6. \A j \in Nat : j # 0 => Expected(r, j) = s + 7 * i * j + k
  BY <1>3, <1>4, MonthsOfFrequency DEF Expected
<1>7. Expected(r, n + 1) = s + 7 * (q + i) + k
  BY <1>2, <1>5, <1>6
<1>8. CASE n = 0
  <2>1. Expected(r, n) = s /\ q = 0
    BY <1>1, <1>8 DEF Expected
  <2>2. WeekdayOf(s + 7 * i) = x
    BY <1>3, WeekdayKept
  <2>3. ToColumn(calculateNextDueDate(r, FromColumn(s))) =
          s + 7 * i + ((w - WeekdayOf(s + 7 * i) + 7) % 7)
    BY WeeklyStep
  <2>5. ToColumn(calculateNextDueDate(r, FromColumn(s))) = s + 7 * i + k
    BY <1>4, <2>2, <2>3
  <2>4. QED
    BY <1>7, <2>1, <2>5
<1>9. CASE n # 0
  <2>1. PICK due0 \in Nat : due0 = s + 7 * q + k
    OBVIOUS
  <2>2. Expected(r, n) = due0
    BY <1>2, <1>6, <1>9, <2>1
  <2>3. PICK p \in Nat : p = q + i
    BY <1>1
  <2>4. due0 + 7 * i = s + 7 * p + k
    BY <2>1, <2>3, <1>1, <1>4
  <2>5. WeekdayOf(s + 7 * p + k) = w
    <3>1. WeekdayOf(s + 7 * p + ((w - WeekdayOf(s) + 7) % 7)) = w
      BY WeekdayKept
    <3>2. QED
      BY <1>3, <1>4, <3>1
  <2>6. (w - w + 7) % 7 = 0
    OBVIOUS
  <2>7. ToColumn(calculateNextDueDate(r, FromColumn(due0))) = due0 + 7 * i + ((w - w + 7) % 7)
    BY <2>4, <2>5, WeeklyStep
  <2>8. due0 + 7 * i + ((w - w + 7) % 7) = s + 7 * p + k
    BY <2>1, <2>3, <2>4, <2>6, <1>4
  <2>9. QED
    BY <1>7, <2>2, <2>3, <2>7, <2>8
<1>10. QED
  BY <1>8, <1>9

(* The schedule of a rule by months: each date lies in the month of its    *)
(* period, so the next one is found from there.                            *)
LEMMA MonthSchedule ==
  ASSUME West = 0, NEW r, r.frequency \in MonthFrequencies,
         NEW i \in Intervals, i = r.interval, NEW s \in Starts, s = r.start,
         NEW d \in 1..31, d = r.dayOfMonth, d # None,
         NEW n \in 0..MaxSteps, n + 1 \in 0..MaxSteps
  PROVE  ToColumn(calculateNextDueDate(r, FromColumn(Expected(r, n)))) = Expected(r, n + 1)
<1>1. n \in Nat /\ i \in 1..12 /\ s \in Nat /\ LastMonth \in Nat
  BY CalendarAssumption
<1>2. PICK p \in {1, 3, 12} : p = MonthsPer[r.frequency]
  BY MonthsOfFrequency
<1>3. PICK m \in 0..LastMonth : m = MonthOf(s) /\ MonthStart[m] <= s /\ s < MonthStart[m + 1]
  BY MonthReached, <1>2
<1>4. n * i * p \in Nat /\ m + n * i * p <= LastMonth
  BY <1>3, MonthReached
<1>5. (n + 1) * i * p \in Nat /\ m + (n + 1) * i * p <= LastMonth
  BY <1>3, MonthReached
<1>6. i * p \in Nat
  BY <1>1
<1>7. (n + 1) * i * p = n * i * p + i * p
  <2>1. PICK q \in Nat : q = n * i
    BY <1>1
  <2>2. (n + 1) * i = q + i
    BY <1>1, <2>1
  <2>3. (q + i) * p = q * p + i * p
    BY <1>1, <2>1
  <2>4. QED
    BY <2>1, <2>2, <2>3
<1>8. PICK c \in Nat, k \in Nat : c = n * i * p /\ k = i * p /\ (n + 1) * i * p = c + k
  BY <1>4, <1>6, <1>7
<1>9. m + c \in 0..LastMonth /\ (m + c) + k <= LastMonth /\ (m + c) + k = m + (c + k)
  <2>1. m + c <= LastMonth /\ m + (c + k) <= LastMonth
    BY <1>4, <1>5, <1>8
  <2>2. QED
    BY <1>1, <2>1
<1>10. \A j \in Nat : j # 0 => Expected(r, j) = SnappedDay(m + j * i * p, d)
  BY <1>2, <1>3, MonthsOfFrequency DEF Expected
<1>11. PICK due0 \in Nat : /\ due0 = Expected(r, n)
                           /\ MonthStart[m + c] <= due0 /\ due0 < MonthStart[(m + c) + 1]
  <2>1. CASE n = 0
    <3>1. Expected(r, n) = s
      BY <2>1 DEF Expected
    <3>2. c = 0
      BY <1>1, <1>8, <2>1
    <3>3. m + c = m
      BY <3>2
    <3>4. QED
      BY <1>1, <1>3, <3>1, <3>3
  <2>2. CASE n # 0
    <3>1. Expected(r, n) = SnappedDay(m + c, d)
      BY <1>1, <1>8, <1>10, <2>2
    <3>2. QED
      BY <1>9, <3>1, SnappedLies
  <2>3. QED
    BY <2>1, <2>2
<1>12. ToColumn(calculateNextDueDate(r, FromColumn(due0))) = SnappedDay((m + c) + k, d)
  BY <1>2, <1>8, <1>9, <1>11, MonthStep
<1>13. Expected(r, n + 1) = SnappedDay(m + (c + k), d)
  <2>1. n + 1 \in Nat /\ n + 1 # 0
    BY <1>1
  <2>2. Expected(r, n + 1) = SnappedDay(m + (n + 1) * i * p, d)
    BY <1>10, <2>1
  <2>3. QED
    BY <1>8, <2>2
<1>14. QED
  BY <1>9, <1>11, <1>12, <1>13

(* The due date after the n-th is the one after it.                        *)
LEMMA DatesOccur == ASSUME West = 0, DatesInv, Occur PROVE DatesInv'
<1>1. rule' = rule /\ steps' = steps + 1 /\ steps < MaxSteps
  BY DEF Occur
<1>2. PICK n \in 0..MaxSteps : n = steps
  BY DEF DatesInv
<1>3. MaxSteps \in Nat /\ None \notin Nat
  BY CalendarAssumption
<1>4. n + 1 \in 0..MaxSteps /\ n \in Nat
  BY <1>1, <1>2, <1>3
<1>5. due' = ToColumn(calculateNextDueDate(rule, FromColumn(Expected(rule, n))))
  BY <1>2 DEF Occur, DatesInv, OnSchedule
<1>6. PICK r : r = rule
  OBVIOUS
<1>7. /\ r.frequency \in Frequencies /\ r.interval \in Intervals /\ r.start \in Starts
      /\ r.frequency = "weekly" => r.dayOfWeek \in 0..6
      /\ r.frequency \in MonthFrequencies => r.dayOfMonth \in 1..31
  BY <1>6 DEF DatesInv
<1>8. r.interval \in Nat /\ r.start \in Nat
  <2>1. Intervals \subseteq Nat /\ Starts \subseteq Nat
    BY CalendarAssumption
  <2>2. QED
    BY <1>7, <2>1
<1>9. ToColumn(calculateNextDueDate(r, FromColumn(Expected(r, n)))) = Expected(r, n + 1)
  <2>1. CASE r.frequency = "daily"
    BY <1>4, <1>8, <2>1, DailySchedule
  <2>2. CASE r.frequency = "weekly"
    <3>1. r.dayOfWeek \in 0..6 /\ r.dayOfWeek # None
      BY <1>3, <1>7, <2>2
    <3>2. QED
      BY <1>4, <1>8, <2>2, <3>1, WeeklySchedule
  <2>3. CASE r.frequency \in MonthFrequencies
    <3>1. r.dayOfMonth \in 1..31 /\ r.dayOfMonth # None
      BY <1>3, <1>7, <2>3
    <3>2. QED
      BY <1>4, <1>7, <2>3, <3>1, MonthSchedule
  <2>4. QED
    BY <1>7, <2>1, <2>2, <2>3 DEF Frequencies
<1>10. OnSchedule'
  BY <1>1, <1>2, <1>5, <1>6, <1>9 DEF OnSchedule
<1>11. steps' \in 0..MaxSteps
  BY <1>1, <1>2, <1>4
<1>12. QED
  BY <1>1, <1>10, <1>11 DEF DatesInv

(* A rule does not drift where the host's clock is UTC: whatever short     *)
(* months, leap years and periods it goes through, its n-th due date is    *)
(* the preferred day of its n-th period (calculateNextDueDate; the comment *)
(* in create).                                                             *)
THEOREM RulesDoNotDrift == ASSUME West = 0 PROVE Spec => []OnSchedule
<1>1. ASSUME Init PROVE DatesInv
  BY <1>1, DatesInit
<1>2. ASSUME DatesInv, [Next]_vars PROVE DatesInv'
  <2>1. CASE Occur
    BY <1>2, <2>1, DatesOccur
  <2>2. CASE UNCHANGED vars
    BY <1>2, <2>2 DEF DatesInv, OnSchedule, Expected, vars
  <2>3. QED
    BY <1>2, <2>1, <2>2 DEF Next, Done
<1>3. DatesInv => OnSchedule
  BY DEF DatesInv
<1>4. QED
  BY <1>1, <1>2, <1>3, PTL DEF Spec
=============================================================================
