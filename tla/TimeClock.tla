------------------------------ MODULE TimeClock ------------------------------
(***************************************************************************)
(* The time clock of one tenant: clock sessions, breaks, work shifts, the  *)
(* labour cost posted for a session, and the two queue jobs over shifts.   *)
(*                                                                         *)
(* Every HTTP request and every queue job runs in a slot (Requests, Jobs). *)
(* A slot takes one step per database call it awaits, so the steps of two  *)
(* handlers interleave exactly where the Node process yields.  A           *)
(* $transaction whose writes are guarded by its own conditional update is  *)
(* one step: its row lock is held until the commit.  Time is counted in    *)
(* minutes.  Requests that are refused change nothing and are no steps.    *)
(***************************************************************************)
EXTENDS Integers, Sequences, FiniteSetsExt, TLC

CONSTANTS
  Employees,    \* the active employee profiles
  Sessions,     \* identities of clock_session rows
  Breaks,       \* identities of break_entry rows
  Shifts,       \* identities of work_shift rows
  Requests,     \* slots for HTTP requests in flight
  Jobs,         \* slots for jobs of the time-clock queue
  Null,         \* the database NULL
  Ops,          \* the operations a run may start
  Faults,       \* subset of {"error", "crash"}
  Serial,       \* TRUE: a handler starts only when no other is in flight
  Settings,     \* the tenant's time_clock_settings
  Billable,     \* employees with a crew member and an hourly rate
  Admins,       \* the users with an active Owner or Admin membership
  Projects,     \* values of "the session has a project" a request may carry
  GeoInputs,    \* what the coordinates of a request turn out to be
  BreakTypes,   \* break types a request may ask for
  ShiftStarts,  \* values of scheduled_start
  ShiftStatusInputs, \* statuses an administrator sets on a shift
  Window,       \* SHIFT_MATCH_WINDOW_MS, SESSION_MATCH_WINDOW_MS
  DayLength,    \* minutes in a calendar day of the model
  MaxTime       \* bound on the clock

Workers == Requests \cup Jobs

SessionStatuses == {"none", "active", "on_break", "completed"}
ShiftStatuses == {"none", "scheduled", "in_progress", "completed", "missed",
                  "cancelled", "deleted"}
GeofenceStatuses == {"inside", "outside", "unavailable", "not_enforced"}

ASSUME IdsAssumption ==
  /\ Null \notin Employees \cup Sessions \cup Breaks \cup Shifts \cup Nat
  /\ Requests \cap Jobs = {}
  /\ \A T \in {Employees, Sessions, Breaks, Shifts, Requests, Jobs} : IsFiniteSet(T)
ASSUME InputsAssumption ==
  /\ Billable \subseteq Employees
  /\ Projects \subseteq BOOLEAN
  /\ BreakTypes \subseteq {"paid", "unpaid"}
  /\ GeoInputs \subseteq {"no_coords", "inside", "outside", "not_enforced"}
  /\ ShiftStarts \subseteq Nat
  /\ ShiftStatusInputs \subseteq ShiftStatuses \ {"none", "deleted"}
  /\ Serial \in BOOLEAN
  /\ {Settings.daily_threshold, Settings.weekly_threshold} \subseteq Nat
ASSUME ClockAssumption ==
  /\ Window \in Nat
  /\ MaxTime \in Nat
  /\ DayLength \in Nat \ {0}

VARIABLES
  now,        \* the wall clock
  sessions,   \* table clock_session (status "none": no such row)
  minutes,    \* its columns total_worked_minutes and regular_minutes
  breaks,     \* table break_entry
  shifts,     \* table work_shift ("none": never created, "deleted": gone)
  hourLogs,   \* table crew_hour_log, by clockin_event_id
  alerts,     \* the admins notified that a session's labour cost failed
  reminders,  \* shift reminders delivered, by shift
  pc,         \* where each slot is
  loc,        \* the local variables of each slot
  calc,       \* the minutes each slot has computed
  unheard     \* history: sessions whose failed posting may not be notified, since
              \* notifying failed too, there was no admin, or a restart cut it off

vars == <<now, sessions, minutes, breaks, shifts, hourLogs, alerts, reminders,
          pc, loc, calc, unheard>>

NoSession == [status |-> "none", emp |-> Null, clock_in_at |-> Null, clock_out_at |-> Null,
              shift |-> Null, project |-> FALSE, geofence |-> "not_enforced",
              posted |-> FALSE]
NoMinutes == [total |-> 0, regular |-> 0]
NoBreak   == [session |-> Null, type |-> "unpaid", started_at |-> 0, ended_at |-> Null]
NoShift   == [status |-> "none", emp |-> Null, start |-> 0, reminded |-> FALSE]
NoLocals  == [emp |-> Null, sid |-> Null, bid |-> Null, shift |-> Null, list |-> {},
              at |-> 0, project |-> FALSE, geofence |-> "not_enforced"]
NoCalc    == [unpaid |-> 0, mins |-> NoMinutes]

Init ==
  /\ now = 0
  /\ sessions = [s \in Sessions |-> NoSession]
  /\ minutes = [s \in Sessions |-> NoMinutes]
  /\ breaks = [b \in Breaks |-> NoBreak]
  /\ shifts = [h \in Shifts |-> NoShift]
  /\ hourLogs = [s \in Sessions |-> <<>>]
  /\ alerts = [s \in Sessions |-> {}]
  /\ reminders = [h \in Shifts |-> 0]
  /\ pc = [w \in Workers |-> "idle"]
  /\ loc = [w \in Workers |-> NoLocals]
  /\ calc = [w \in Workers |-> NoCalc]
  /\ unheard = {}

-----------------------------------------------------------------------------
(* Rows *)

IsOpen(s) == sessions[s].status \in {"active", "on_break"}
OpenSessions(e) == {s \in Sessions : IsOpen(s) /\ sessions[s].emp = e}
BreaksOf(s) == {b \in Breaks : breaks[b].session = s}
OpenBreaks(s) == {b \in BreaksOf(s) : breaks[b].ended_at = Null}
ShiftExists(h) == h \in Shifts /\ shifts[h].status \notin {"none", "deleted"}
Near(t, u) == t - Window <= u /\ u <= t + Window

Duration(b) == Max({0, breaks[b].ended_at - breaks[b].started_at})
UnpaidBreaks(s) == {b \in BreaksOf(s) \ OpenBreaks(s) : breaks[b].type = "unpaid"}
UnpaidMinutes(s) == SumFunction([b \in UnpaidBreaks(s) |-> Duration(b)])

(* Slots *)

Begin(w, op) ==
  /\ op \in Ops
  /\ pc[w] = "idle"
  /\ Serial => \A v \in Workers : pc[v] = "idle"

Goto(w, label, locals) ==
  /\ pc' = [pc EXCEPT ![w] = label]
  /\ loc' = [loc EXCEPT ![w] = locals]
  /\ UNCHANGED <<calc, unheard>>

End(w) ==
  /\ pc' = [pc EXCEPT ![w] = "idle"]
  /\ loc' = [loc EXCEPT ![w] = NoLocals]
  /\ calc' = [calc EXCEPT ![w] = NoCalc]

Finish(w) == End(w) /\ UNCHANGED unheard

Database == <<sessions, minutes, breaks, shifts, hourLogs, alerts, reminders>>
Slots == <<pc, loc, calc, unheard>>

-----------------------------------------------------------------------------
(* Clocking in *)

GpsGate(geo) ==
  CASE ~Settings.gps_required                 -> "not_enforced"
    [] geo = "no_coords"                      -> "unavailable"
    [] Settings.clock_in_mode = "anywhere"    -> "not_enforced"
    [] OTHER                                  -> geo

Blocked(status) ==
  \/ status = "unavailable" /\ Settings.gps_unavailable_action = "block"
  \/ status = "outside" /\ Settings.geofence_violation_action = "block"

(* Bound: a clock-in is accepted only while an unused row is left for it.  *)
SessionRowLeft ==
  Cardinality({s \in Sessions : sessions[s].status = "none"})
    > Cardinality({v \in Workers : pc[v] \in {"ci_match", "ci_claim", "ci_create"}})

MutClockInCheckBreaks(w, e, geo, project, task) ==
  /\ Begin(w, "clock_in")
  /\ SessionRowLeft
  /\ ~ \E s \in OpenSessions(e) : sessions[s].status = "active"
  /\ Goto(w, "ci_match", [NoLocals EXCEPT !.emp = e, !.project = project, !.geofence = GpsGate(geo)])
  /\ UNCHANGED <<now, Database>>

(* clockIn, steps 1 to 7: the employee has no open session and passes the  *)
(* tag and location rules.                                                 *)
ClockInCheck(w, e, geo, project, task) ==
  /\ Begin(w, "clock_in")
  /\ SessionRowLeft
  /\ OpenSessions(e) = {}
  /\ Settings.require_job_tag => project
  /\ Settings.require_task_tag => task
  /\ ~Blocked(GpsGate(geo))
  /\ Goto(w, "ci_match", [NoLocals EXCEPT !.emp = e, !.project = project, !.geofence = GpsGate(geo)])
  /\ UNCHANGED <<now, Database>>

Candidates(e) == {h \in Shifts : /\ shifts[h].status = "scheduled"
                                 /\ shifts[h].emp = e
                                 /\ Near(now, shifts[h].start)}
Distance(h) == Max({now - shifts[h].start, shifts[h].start - now})

(* The nearest candidate; of two as near, the one that starts first.       *)
Closest(h, C) ==
  \A k \in C : \/ Distance(h) < Distance(k)
               \/ Distance(h) = Distance(k) /\ shifts[h].start <= shifts[k].start

ClockInMatch(w) ==
  /\ pc[w] = "ci_match"
  /\ LET C == Candidates(loc[w].emp) IN
       \/ C = {} /\ Goto(w, "ci_create", [loc[w] EXCEPT !.at = now])
       \/ \E h \in C : /\ Closest(h, C)
                       /\ Goto(w, "ci_claim", [loc[w] EXCEPT !.at = now, !.shift = h])
  /\ UNCHANGED <<now, Database>>

MutClockInClaimNothing(w) ==
  /\ pc[w] = "ci_claim"
  /\ Goto(w, "ci_create", loc[w])
  /\ UNCHANGED <<now, Database>>

ClockInClaim(w) ==
  /\ pc[w] = "ci_claim"
  /\ \/ /\ ShiftExists(loc[w].shift)
        /\ shifts' = [shifts EXCEPT ![loc[w].shift].status = "in_progress"]
        /\ Goto(w, "ci_create", loc[w])
     \/ /\ ~ShiftExists(loc[w].shift)
        /\ Finish(w)
        /\ UNCHANGED shifts
  /\ UNCHANGED <<now, sessions, minutes, breaks, hourLogs, alerts, reminders>>

ClockInCreate(w) ==
  /\ pc[w] = "ci_create"
  /\ \/ /\ loc[w].shift = Null \/ ShiftExists(loc[w].shift)
        /\ \E s \in Sessions :
             /\ sessions[s].status = "none"
             /\ sessions' = [sessions EXCEPT ![s] =
                  [NoSession EXCEPT !.status = "active", !.emp = loc[w].emp,
                     !.clock_in_at = loc[w].at, !.shift = loc[w].shift,
                     !.project = loc[w].project, !.geofence = loc[w].geofence]]
     \/ /\ loc[w].shift # Null /\ ~ShiftExists(loc[w].shift)   \* foreign key error
        /\ UNCHANGED sessions
  /\ Finish(w)
  /\ UNCHANGED <<now, minutes, breaks, shifts, hourLogs, alerts, reminders>>

-----------------------------------------------------------------------------
(* Clocking out *)

ClockOutRead(w, e) ==
  /\ Begin(w, "clock_out")
  /\ \E s \in OpenSessions(e) :
       Goto(w, IF sessions[s].status = "on_break" THEN "co_find" ELSE "co_sum",
            [NoLocals EXCEPT !.emp = e, !.sid = s, !.shift = sessions[s].shift, !.at = now])
  /\ UNCHANGED <<now, Database>>

(* The open break that started last, if there is one.                      *)
ClockOutFindBreak(w) ==
  /\ pc[w] = "co_find"
  /\ LET open == OpenBreaks(loc[w].sid) IN
       \/ open = {} /\ Goto(w, "co_sum", loc[w])
       \/ \E b \in open : /\ \A c \in open : breaks[c].started_at <= breaks[b].started_at
                          /\ Goto(w, "co_end", [loc[w] EXCEPT !.bid = b])
  /\ UNCHANGED <<now, Database>>

MutClockOutKeepBreak(w) ==
  /\ pc[w] = "co_end"
  /\ Goto(w, "co_sum", loc[w])
  /\ UNCHANGED <<now, Database>>

ClockOutEndBreak(w) ==
  /\ pc[w] = "co_end"
  /\ breaks' = [breaks EXCEPT ![loc[w].bid].ended_at = loc[w].at]
  /\ Goto(w, "co_sum", loc[w])
  /\ UNCHANGED <<now, sessions, minutes, shifts, hourLogs, alerts, reminders>>

MutClockOutSumPaidToo(w) ==
  /\ pc[w] = "co_sum"
  /\ pc' = [pc EXCEPT ![w] = "co_overtime"]
  /\ calc' = [calc EXCEPT ![w].unpaid =
                SumFunction([b \in BreaksOf(loc[w].sid) \ OpenBreaks(loc[w].sid) |-> Duration(b)])]
  /\ UNCHANGED <<now, Database, loc, unheard>>

ClockOutSumBreaks(w) ==
  /\ pc[w] = "co_sum"
  /\ pc' = [pc EXCEPT ![w] = "co_overtime"]
  /\ calc' = [calc EXCEPT ![w].unpaid = UnpaidMinutes(loc[w].sid)]
  /\ UNCHANGED <<now, Database, loc, unheard>>

(* computeBoundaries: day 0 is a Sunday, a week starts on the pay period's day. *)
DayOf(t) == t \div DayLength
WeekOf(t) ==
  LET daysBack == ((DayOf(t) % 7) - (Settings.pay_period_start_day % 7) + 7) % 7
  IN  DayOf(t) - daysBack

Regular(s) == minutes[s].regular
RegularOf(S) == SumFunctionOnSet([s \in Sessions |-> Regular(s)], S)
PriorCompleted(s) == {r \in Sessions \ {s} : /\ sessions[r].status = "completed"
                                            /\ sessions[r].emp = sessions[s].emp}
PriorToday(s) == RegularOf({r \in PriorCompleted(s) :
                   DayOf(sessions[r].clock_in_at) = DayOf(sessions[s].clock_in_at)})
PriorThisWeek(s) == RegularOf({r \in PriorCompleted(s) :
                   WeekOf(sessions[r].clock_in_at) = WeekOf(sessions[s].clock_in_at)})

MutRegularNoPrior(s, total) ==
  IF Settings.overtime_enabled
  THEN Min({total, Settings.daily_threshold, Settings.weekly_threshold})
  ELSE total

(* calculateOvertime: the regular part of a session's worked minutes.      *)
RegularMinutes(s, total) ==
  IF Settings.overtime_enabled
  THEN Min({total, Max({0, Settings.daily_threshold - PriorToday(s)}),
                   Max({0, Settings.weekly_threshold - PriorThisWeek(s)})})
  ELSE total

ClockOutOvertime(w) ==
  /\ pc[w] = "co_overtime"
  /\ pc' = [pc EXCEPT ![w] = IF loc[w].shift # Null THEN "co_shift" ELSE "co_complete"]
  /\ LET s == loc[w].sid
         total == Max({0, (loc[w].at - sessions[s].clock_in_at) - calc[w].unpaid})
     IN  calc' = [calc EXCEPT ![w].mins = [total |-> total, regular |-> RegularMinutes(s, total)]]
  /\ UNCHANGED <<now, Database, loc, unheard>>

(* A shift that is gone, or whose update fails, does not stop the clock-out. *)
ClockOutShift(w) ==
  /\ pc[w] = "co_shift"
  /\ shifts' = IF ShiftExists(loc[w].shift)
               THEN [shifts EXCEPT ![loc[w].shift].status = "completed"] ELSE shifts
  /\ Goto(w, "co_complete", loc[w])
  /\ UNCHANGED <<now, sessions, minutes, breaks, hourLogs, alerts, reminders>>

NeedsLabor(s) == /\ sessions[s].project
                 /\ sessions[s].emp \in Billable
                 /\ ~sessions[s].posted

ClockOutComplete(w) ==
  /\ pc[w] = "co_complete"
  /\ LET s == loc[w].sid IN
       /\ sessions' = [sessions EXCEPT ![s] =
            [@ EXCEPT !.status = "completed", !.clock_out_at = loc[w].at]]
       /\ minutes' = [minutes EXCEPT ![s] = calc[w].mins]
       /\ IF NeedsLabor(s) THEN Goto(w, "lc_create", loc[w]) ELSE Finish(w)
  /\ UNCHANGED <<now, breaks, shifts, hourLogs, alerts, reminders>>

(* postLaborCost *)

(* Hours are stored as DECIMAL(5,2): minutes / 60, to the nearest hundredth. *)
Hundredths(mins) == (5 * mins + 1) \div 3
HoursOf(m) == [regular |-> Hundredths(m.regular), overtime |-> Hundredths(m.total - m.regular)]

LaborCreate(w) ==
  /\ pc[w] = "lc_create"
  /\ hourLogs' = [hourLogs EXCEPT ![loc[w].sid] = Append(@, HoursOf(calc[w].mins))]
  /\ Goto(w, "lc_mark", loc[w])
  /\ UNCHANGED <<now, sessions, minutes, breaks, shifts, alerts, reminders>>

LaborMark(w) ==
  /\ pc[w] = "lc_mark"
  /\ sessions' = [sessions EXCEPT ![loc[w].sid].posted = TRUE]
  /\ Finish(w)
  /\ UNCHANGED <<now, minutes, breaks, shifts, hourLogs, alerts, reminders>>

(* notifyTenantAdmins: the admins are looked up; without any it only logs. *)
LaborAdmins(w) ==
  /\ pc[w] = "lc_admins"
  /\ \/ Admins # {} /\ Goto(w, "lc_notify", loc[w])
     \/ Admins = {} /\ End(w) /\ unheard' = unheard \cup {loc[w].sid}
  /\ UNCHANGED <<now, Database>>

LaborNotify(w) ==
  /\ pc[w] = "lc_notify"
  /\ alerts' = [alerts EXCEPT ![loc[w].sid] = Admins]
  /\ Finish(w)
  /\ UNCHANGED <<now, sessions, minutes, breaks, shifts, hourLogs, reminders>>

-----------------------------------------------------------------------------
(* Breaks *)

(* The conditional update of the session row is the gate: it holds the row *)
(* lock until the break entry is created and the transaction commits.      *)
StartBreak(s, b, type) ==
  /\ "start_break" \in Ops
  /\ Serial => \A v \in Workers : pc[v] = "idle"
  /\ sessions[s].status = "active"
  /\ breaks[b].session = Null
  /\ sessions' = [sessions EXCEPT ![s].status = "on_break"]
  /\ breaks' = [breaks EXCEPT ![b] = [session |-> s, type |-> type, started_at |-> now, ended_at |-> Null]]
  /\ UNCHANGED <<now, minutes, shifts, hourLogs, alerts, reminders, Slots>>

(* The transaction's snapshot: the session's open break.                   *)
EndBreakRead(w, s) ==
  /\ Begin(w, "end_break")
  /\ \E b \in OpenBreaks(s) :
       Goto(w, "eb_commit", [NoLocals EXCEPT !.sid = s, !.bid = b, !.at = now])
  /\ UNCHANGED <<now, Database>>

MutEndBreakUnchecked(w) ==
  /\ pc[w] = "eb_commit"
  /\ breaks' = [breaks EXCEPT ![loc[w].bid].ended_at = loc[w].at]
  /\ sessions' = [sessions EXCEPT ![loc[w].sid].status = "active"]
  /\ Finish(w)
  /\ UNCHANGED <<now, minutes, shifts, hourLogs, alerts, reminders>>

(* Its conditional update of the break entry and the restored status.      *)
EndBreakCommit(w) ==
  /\ pc[w] = "eb_commit"
  /\ \/ /\ breaks[loc[w].bid].ended_at = Null
        /\ breaks' = [breaks EXCEPT ![loc[w].bid].ended_at = loc[w].at]
        /\ sessions' = [sessions EXCEPT ![loc[w].sid].status = "active"]
     \/ /\ breaks[loc[w].bid].ended_at # Null
        /\ UNCHANGED <<breaks, sessions>>
  /\ Finish(w)
  /\ UNCHANGED <<now, minutes, shifts, hourLogs, alerts, reminders>>

-----------------------------------------------------------------------------
(* Work shifts *)

(* create and bulkCreate: the rows of one request are created together.    *)
CreateShifts(new) ==
  /\ "create_shift" \in Ops
  /\ Serial => \A v \in Workers : pc[v] = "idle"
  /\ \A h \in DOMAIN new : shifts[h].status = "none"
  /\ shifts' = [h \in Shifts |-> IF h \in DOMAIN new
       THEN [NoShift EXCEPT !.status = "scheduled", !.emp = new[h].emp, !.start = new[h].start]
       ELSE shifts[h]]
  /\ UNCHANGED <<now, sessions, minutes, breaks, hourLogs, alerts, reminders, Slots>>

(* update: any field of the row, whatever its status; one that the request *)
(* does not give keeps its value.                                          *)
UpdateShift(h, e, start, status) ==
  /\ "update_shift" \in Ops
  /\ Serial => \A v \in Workers : pc[v] = "idle"
  /\ ShiftExists(h)
  /\ status \in ShiftStatusInputs \cup {shifts[h].status}
  /\ shifts' = [shifts EXCEPT ![h] = [@ EXCEPT !.emp = e, !.start = start, !.status = status]]
  /\ UNCHANGED <<now, sessions, minutes, breaks, hourLogs, alerts, reminders, Slots>>

RemoveShiftRead(w, h) ==
  /\ Begin(w, "remove_shift")
  /\ shifts[h].status \in {"scheduled", "cancelled"}
  /\ Goto(w, "rs_delete", [NoLocals EXCEPT !.shift = h])
  /\ UNCHANGED <<now, Database>>

(* The foreign key of the sessions is set to NULL with the delete.         *)
RemoveShiftDelete(w) ==
  /\ pc[w] = "rs_delete"
  /\ LET h == loc[w].shift IN
       \/ /\ ShiftExists(h)
          /\ shifts' = [shifts EXCEPT ![h].status = "deleted"]
          /\ sessions' = [s \in Sessions |-> IF sessions[s].shift = h
                           THEN [sessions[s] EXCEPT !.shift = Null] ELSE sessions[s]]
       \/ ~ShiftExists(h) /\ UNCHANGED <<shifts, sessions>>
  /\ Finish(w)
  /\ UNCHANGED <<now, minutes, breaks, hourLogs, alerts, reminders>>

-----------------------------------------------------------------------------
(* The jobs of the time-clock queue.  A job walks through the list it read *)
(* first; the loop body is done with one shift when it leaves the list.    *)

NextShift(w, label, rest) ==
  IF rest = {} THEN Finish(w) ELSE Goto(w, label, [NoLocals EXCEPT !.list = rest])

Overdue(h) == /\ shifts[h].status = "scheduled"
              /\ shifts[h].start < now - Settings.missed_threshold

(* A shift as the job's list holds it. *)
Item(h) == [id |-> h, emp |-> shifts[h].emp, start |-> shifts[h].start]

HasSession(item) ==
  \E s \in Sessions : /\ sessions[s].status # "none"
                      /\ sessions[s].emp = item.emp
                      /\ \/ sessions[s].shift = item.id
                         \/ Near(item.start, sessions[s].clock_in_at)

MissedList(w) ==
  /\ Begin(w, "missed_job")
  /\ Settings.missed_threshold # 0
  /\ \E h \in Shifts : Overdue(h)
  /\ Goto(w, "ms_check", [NoLocals EXCEPT !.list = {Item(h) : h \in {k \in Shifts : Overdue(k)}}])
  /\ UNCHANGED <<now, Database>>

MutMissedUnchecked(w) ==
  /\ pc[w] = "ms_check"
  /\ \E item \in loc[w].list :
       Goto(w, "ms_mark", [loc[w] EXCEPT !.shift = item.id, !.list = @ \ {item}])
  /\ UNCHANGED <<now, Database>>

MutMissedOncePerEmployee(w) ==
  /\ pc[w] = "ms_check"
  /\ \E item \in loc[w].list :
       IF HasSession(item) \/ \E h \in Shifts : shifts[h].status = "missed" /\ shifts[h].emp = item.emp
       THEN NextShift(w, "ms_check", loc[w].list \ {item})
       ELSE Goto(w, "ms_mark", [loc[w] EXCEPT !.shift = item.id, !.list = @ \ {item}])
  /\ UNCHANGED <<now, Database>>

MissedCheck(w) ==
  /\ pc[w] = "ms_check"
  /\ \E item \in loc[w].list :
       IF HasSession(item)
       THEN NextShift(w, "ms_check", loc[w].list \ {item})
       ELSE Goto(w, "ms_mark", [loc[w] EXCEPT !.shift = item.id, !.list = @ \ {item}])
  /\ UNCHANGED <<now, Database>>

(* The update of a row that is gone throws, and ends the tenant's pass.    *)
MissedMark(w) ==
  /\ pc[w] = "ms_mark"
  /\ \/ /\ ShiftExists(loc[w].shift)
        /\ shifts' = [shifts EXCEPT ![loc[w].shift].status = "missed"]
        /\ NextShift(w, "ms_check", loc[w].list)
     \/ /\ ~ShiftExists(loc[w].shift)
        /\ Finish(w)
        /\ UNCHANGED shifts
  /\ UNCHANGED <<now, sessions, minutes, breaks, hourLogs, alerts, reminders>>

Upcoming(h) == /\ shifts[h].status = "scheduled"
               /\ now <= shifts[h].start
               /\ shifts[h].start <= now + Settings.reminder
               /\ ~shifts[h].reminded

RemindList(w) ==
  /\ Begin(w, "remind_job")
  /\ Settings.reminder # 0
  /\ \E h \in Shifts : Upcoming(h)
  /\ Goto(w, "rm_stamp", [NoLocals EXCEPT !.list = {Item(h) : h \in {k \in Shifts : Upcoming(k)}}])
  /\ UNCHANGED <<now, Database>>

MutRemindStampBlind(w) ==
  /\ pc[w] = "rm_stamp"
  /\ \E item \in loc[w].list :
       IF ShiftExists(item.id)
       THEN /\ shifts' = [shifts EXCEPT ![item.id].reminded = TRUE]
            /\ Goto(w, "rm_send", [loc[w] EXCEPT !.shift = item.id, !.list = @ \ {item}])
       ELSE /\ NextShift(w, "rm_stamp", loc[w].list \ {item})
            /\ UNCHANGED shifts
  /\ UNCHANGED <<now, sessions, minutes, breaks, hourLogs, alerts, reminders>>

(* The conditional stamp: only the job that sets reminder_sent_at sends.   *)
RemindStamp(w) ==
  /\ pc[w] = "rm_stamp"
  /\ \E item \in loc[w].list :
       IF ShiftExists(item.id) /\ ~shifts[item.id].reminded
       THEN /\ shifts' = [shifts EXCEPT ![item.id].reminded = TRUE]
            /\ Goto(w, "rm_send", [loc[w] EXCEPT !.shift = item.id, !.list = @ \ {item}])
       ELSE /\ NextShift(w, "rm_stamp", loc[w].list \ {item})
            /\ UNCHANGED shifts
  /\ UNCHANGED <<now, sessions, minutes, breaks, hourLogs, alerts, reminders>>

RemindSend(w) ==
  /\ pc[w] = "rm_send"
  /\ reminders' = [reminders EXCEPT ![loc[w].shift] = @ + 1]
  /\ NextShift(w, "rm_stamp", loc[w].list)
  /\ UNCHANGED <<now, sessions, minutes, breaks, shifts, hourLogs, alerts>>

-----------------------------------------------------------------------------
(* Failures and the environment *)

Posting == {"lc_create", "lc_mark"}
Telling == {"lc_admins", "lc_notify"}

MutDbErrorSilent(w) ==
  /\ "error" \in Faults
  /\ pc[w] # "idle"
  /\ Finish(w)
  /\ UNCHANGED <<now, Database>>

(* The database call a slot awaits fails.  clockOut logs a failed shift    *)
(* update and goes on; a reminder that cannot be sent is skipped; a failed *)
(* posting is notified, and of the notifications that failed together some *)
(* may be there; everywhere else the handler ends.                         *)
DbError(w) ==
  /\ "error" \in Faults
  /\ pc[w] # "idle"
  /\ CASE pc[w] = "co_shift" -> Goto(w, "co_complete", loc[w])
       [] pc[w] = "rm_send"  -> NextShift(w, "rm_stamp", loc[w].list)
       [] pc[w] \in Posting  -> Goto(w, "lc_admins", loc[w])
       [] pc[w] \in Telling  -> End(w) /\ unheard' = unheard \cup {loc[w].sid}
       [] OTHER              -> Finish(w)
  /\ \E told \in SUBSET Admins :
       alerts' = IF pc[w] = "lc_notify" THEN [alerts EXCEPT ![loc[w].sid] = @ \cup told] ELSE alerts
  /\ UNCHANGED <<now, sessions, minutes, breaks, shifts, hourLogs, reminders>>

(* The process is restarted: every handler in flight is gone.              *)
Crash ==
  /\ "crash" \in Faults
  /\ \E w \in Workers : pc[w] # "idle"
  /\ pc' = [w \in Workers |-> "idle"]
  /\ loc' = [w \in Workers |-> NoLocals]
  /\ calc' = [w \in Workers |-> NoCalc]
  /\ unheard' = unheard \cup {loc[w].sid : w \in {v \in Workers : pc[v] \in Posting \cup Telling}}
  /\ UNCHANGED <<now, Database>>

Tick ==
  /\ now < MaxTime
  /\ now' = now + 1
  /\ UNCHANGED <<Database, Slots>>

(* Nothing is in flight: the process waits for requests.                   *)
Wait ==
  /\ \A w \in Workers : pc[w] = "idle"
  /\ UNCHANGED vars

HandlerStep(w) ==
  \/ ClockInMatch(w) \/ ClockInClaim(w) \/ ClockInCreate(w)
  \/ ClockOutFindBreak(w) \/ ClockOutEndBreak(w) \/ ClockOutSumBreaks(w)
  \/ ClockOutOvertime(w) \/ ClockOutShift(w) \/ ClockOutComplete(w)
  \/ LaborCreate(w) \/ LaborMark(w) \/ LaborAdmins(w) \/ LaborNotify(w)
  \/ EndBreakCommit(w)
  \/ RemoveShiftDelete(w)
  \/ MissedCheck(w) \/ MissedMark(w)
  \/ RemindStamp(w) \/ RemindSend(w)

NewShifts == UNION {[ids -> [emp : Employees, start : ShiftStarts]] : ids \in SUBSET Shifts \ {{}}}

Arrive ==
  \/ \E w \in Requests, e \in Employees :
       \/ \E geo \in GeoInputs, project \in Projects, task \in BOOLEAN :
            ClockInCheck(w, e, geo, project, task)
       \/ ClockOutRead(w, e)
  \/ \E w \in Requests, s \in Sessions : EndBreakRead(w, s)
  \/ \E s \in Sessions, b \in Breaks, type \in BreakTypes : StartBreak(s, b, type)
  \/ \E new \in NewShifts : CreateShifts(new)
  \/ \E h \in Shifts, e \in Employees, t \in ShiftStarts, status \in ShiftStatuses :
       UpdateShift(h, e, t, status)
  \/ \E w \in Requests, h \in Shifts : RemoveShiftRead(w, h)
  \/ \E w \in Jobs : MissedList(w) \/ RemindList(w)

Next ==
  \/ Arrive
  \/ \E w \in Workers : HandlerStep(w) \/ DbError(w)
  \/ Crash
  \/ Tick
  \/ Wait

Spec == Init /\ [][Next]_vars

(* The database answers every call, and the cron keeps adding the job that *)
(* looks for missed shifts.                                                *)
Fairness ==
  /\ \A w \in Workers : WF_vars(HandlerStep(w))
  /\ \A w \in Jobs : WF_vars(MissedList(w))

FairSpec == Spec /\ Fairness

-----------------------------------------------------------------------------
(* Type correctness.  Control leaves out minutes, hour logs and unheard.   *)

SessionRows == [status : SessionStatuses, emp : Employees \cup {Null},
                clock_in_at : Nat \cup {Null}, clock_out_at : Nat \cup {Null},
                shift : Shifts \cup {Null}, project : BOOLEAN, geofence : GeofenceStatuses,
                posted : BOOLEAN]
BreakRows == [session : Sessions \cup {Null}, type : {"paid", "unpaid"},
              started_at : Nat, ended_at : Nat \cup {Null}]
ShiftRows == [status : ShiftStatuses, emp : Employees \cup {Null}, start : Nat, reminded : BOOLEAN]

HasEmployee == {"ci_match", "ci_claim", "ci_create"}
HasSid == {"co_find", "co_end", "co_sum", "co_overtime", "co_shift", "co_complete",
           "lc_create", "lc_mark", "lc_admins", "lc_notify", "eb_commit"}
HasBid == {"co_end", "eb_commit"}
HasShift == {"ci_claim", "co_shift", "rs_delete", "ms_mark", "rm_send"}
HasList == {"ms_check", "rm_stamp"}
Labels == {"idle"} \cup HasEmployee \cup HasSid \cup HasShift \cup HasList

Locals == [emp : Employees \cup {Null}, sid : Sessions \cup {Null}, bid : Breaks \cup {Null},
           shift : Shifts \cup {Null},
           list : SUBSET [id : Shifts, emp : Employees \cup {Null}, start : Nat],
           at : Nat, project : BOOLEAN, geofence : GeofenceStatuses]

(* The slot holds the locals that its next step reads.                     *)
LocalsSet(w) ==
  /\ pc[w] \in HasEmployee => loc[w].emp # Null
  /\ pc[w] \in HasSid => loc[w].sid # Null
  /\ pc[w] \in HasBid => loc[w].bid # Null
  /\ pc[w] \in HasShift => loc[w].shift # Null
  /\ pc[w] \in HasList => loc[w].list # {}

ControlTypeOK ==
  /\ now \in Nat
  /\ sessions \in [Sessions -> SessionRows]
  /\ breaks \in [Breaks -> BreakRows]
  /\ shifts \in [Shifts -> ShiftRows]
  /\ alerts \in [Sessions -> SUBSET Admins]
  /\ reminders \in [Shifts -> Nat]
  /\ pc \in [Workers -> Labels]
  /\ loc \in [Workers -> Locals]
  /\ \A w \in Workers : LocalsSet(w)

-----------------------------------------------------------------------------
(* What holds however handlers interleave, fail or are cut off *)

(* The session row is the lock of its breaks (break-entry.service.ts): a   *)
(* session never has two open breaks, and a session that is active has     *)
(* none, however startBreak, endBreak and clockOut interleave.             *)
BreakGate ==
  \A s \in Sessions :
    /\ \A b, c \in OpenBreaks(s) : b = c
    /\ sessions[s].status = "active" => OpenBreaks(s) = {}

(* shift-reminder.service.ts stamps before it sends: no employee is        *)
(* reminded twice of a shift, even if two runs of the job overlap or one   *)
(* is cut off and run again.                                               *)
ReminderAtMostOnce == \A h \in Shifts : reminders[h] <= 1

InLabor(s) == \E w \in Workers : pc[w] \in Posting \cup Telling /\ loc[w].sid = s

(* One failing call never loses labour cost silently (BR-005): a completed *)
(* session with a project and a rate is posted, or being posted or         *)
(* reported, or every admin knows, unless telling them went wrong as well  *)
(* (unheard).  And one that is marked as posted has its crew hour log,     *)
(* because the mark is written last.                                       *)
LaborNotLost ==
  \A s \in Sessions :
    /\ (sessions[s].status = "completed" /\ sessions[s].project /\ sessions[s].emp \in Billable)
         => \/ sessions[s].posted \/ InLabor(s)
            \/ Admins # {} /\ alerts[s] = Admins
            \/ s \in unheard
    /\ sessions[s].posted => hourLogs[s] # <<>>

(* A shift that somebody has clocked in for is off the list: no second     *)
(* clock-in can be matched with it, and neither job takes it up, although  *)
(* the claim and the session are written apart, either may fail, and rows  *)
(* are edited and deleted meanwhile.                                       *)
TakenShiftOffList ==
  \A s \in Sessions : sessions[s].shift # Null => shifts[sessions[s].shift].status # "scheduled"

-----------------------------------------------------------------------------
(* What holds when handlers do not overlap *)

(* BR-001: an employee has at most one open session.                       *)
OneActiveSession == \A e \in Employees : Cardinality(OpenSessions(e)) <= 1

(* Completed is final and complete: an open session has not been clocked   *)
(* out, and no break is left open behind a session that is not on break.   *)
CompletedIsFinal ==
  \A s \in Sessions :
    /\ IsOpen(s) => sessions[s].clock_out_at = Null
    /\ OpenBreaks(s) # {} => sessions[s].status = "on_break"

(* A completed session accounts for every minute between its clock-in and  *)
(* its clock-out: worked, or on an unpaid break (clockOut, step 4); the    *)
(* hours posted are those of the session, regular and overtime, and come   *)
(* to its worked time but for the rounding of each to a hundredth.         *)
MinutesAccounted ==
  \A s \in Sessions :
    /\ sessions[s].status = "completed" =>
         minutes[s].total + UnpaidMinutes(s) = sessions[s].clock_out_at - sessions[s].clock_in_at
    /\ sessions[s].posted =>
         /\ hourLogs[s] = <<HoursOf(minutes[s])>>
         /\ LET posted == hourLogs[s][1].regular + hourLogs[s][1].overtime
            IN  3 * posted - 5 * minutes[s].total \in -2..2

(* calculateOvertime: the regular minutes of an employee's completed       *)
(* sessions never exceed the daily or the weekly threshold.                *)
OvertimeCaps ==
  Settings.overtime_enabled =>
    \A s \in Sessions : sessions[s].status = "completed" =>
      /\ Regular(s) + PriorToday(s) <= Settings.daily_threshold
      /\ Regular(s) + PriorThisWeek(s) <= Settings.weekly_threshold

(* BR-010: a shift is marked missed only while the employee has no session *)
(* for it, linked or within two hours of its start.                        *)
MissedOnlyIfAbsent ==
  [][\A h \in Shifts : (shifts[h].status # "missed" /\ shifts'[h].status = "missed")
        => ~HasSession(Item(h))]_vars

-----------------------------------------------------------------------------
(* The abstract clock *)

PresenceOf(e) ==
  CASE OpenSessions(e) = {}                                          -> "out"
    [] \E s \in OpenSessions(e) : sessions[s].status = "on_break" -> "resting"
    [] OTHER                                                        -> "working"

Owed(e) == Cardinality({s \in Sessions : /\ sessions[s].emp = e /\ e \in Billable
                                         /\ sessions[s].status = "completed"
                                         /\ sessions[s].project
                                         /\ hourLogs[s] = <<>>})
Entries(e) == SumFunctionOnSet([s \in Sessions |-> Len(hourLogs[s])],
                               {s \in Sessions : sessions[s].emp = e})

Abstract == INSTANCE Attendance WITH
  presence <- [e \in Employees |-> PresenceOf(e)],
  owed     <- [e \in Employees |-> Owed(e)],
  entries  <- [e \in Employees |-> Entries(e)]

(* When handlers do not overlap, clockIn, clockOut, startBreak, endBreak   *)
(* and postLaborCost implement the abstract clock, failures included.      *)
ImplementsAttendance == Abstract!Spec

-----------------------------------------------------------------------------
(* What must happen *)

(* A shift that is overdue and for which nobody clocked in does not stay   *)
(* scheduled: the job marks it, even when rows vanish under its loop.      *)
MissedEventually ==
  \A h \in Shifts : (Overdue(h) /\ ~HasSession(Item(h)))
                      ~> ~(Overdue(h) /\ ~HasSession(Item(h)))
=============================================================================
