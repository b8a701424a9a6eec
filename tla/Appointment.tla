------------------------------ MODULE Appointment ------------------------------
(***************************************************************************)
(* Appointments: booking, confirming, cancelling, rescheduling, completing *)
(* and no-shows, and the queue that carries them to the Google calendar.   *)
(*                                                                         *)
(* A request reads the appointment and checks its status, writes the row   *)
(* by id, and only then updates the service request and queues the         *)
(* calendar job, each in a step of its own; a failure to queue it is       *)
(* swallowed.  A rescheduled appointment is a new row that inherits the    *)
(* calendar event as it was read.  The calendar is taken to be connected   *)
(* (CalendarSync has the connection).  Refused requests are no steps;      *)
(* notes, audit, notifications and reminders are left out.                 *)
(***************************************************************************)
EXTENDS Integers, Sequences, FiniteSets

CONSTANTS
  MaxAppts,    \* bound: rows of appointment, numbered in the order of their creation
  MaxEvents,   \* bound: events made at Google, numbered likewise
  ServiceRequests,
  Requests,    \* slots for requests in flight
  Starts,      \* start times a booking can choose
  MaxFaults    \* bound: failing calls, restarts, and requests that find another at
               \* work on the same booking

ASSUME AppointmentAssumption ==
  /\ {MaxAppts, MaxEvents, MaxFaults} \subseteq Nat
  /\ Starts \subseteq Nat \ {0}
  /\ IsFiniteSet(Requests)

VARIABLES
  appts,    \* table appointment
  visit,    \* the service requests whose status is scheduled_visit, not new
  event,    \* Google: the time of each event, 0 if it does not exist
  made,     \* Google: the number of events ever made
  queue,    \* the waiting jobs of calendar-sync
  worker,   \* the calendar job being processed
  pc, loc,  \* where each request is, and its local variables
  faults,
  overlapped, \* history: bookings two requests worked on at the same time
  excused     \* history: bookings with a failed step, or cancelled or moved
              \* before their event was known

vars == <<appts, visit, event, made, queue, worker, pc, loc, faults, overlapped, excused>>

Appts == 1 .. MaxAppts

NoAppt   == [status |-> "none", start |-> 0, sr |-> "none", event |-> 0, root |-> 0]
NoJob    == [kind |-> "none", appt |-> 0, event |-> 0, stalled |-> FALSE]
NoWork   == [pc |-> "idle", job |-> NoJob, event |-> 0]
NoLocals == [op |-> "none", appt |-> 0, event |-> 0, start |-> 0]

TerminalStates == {"completed", "cancelled", "no_show", "rescheduled"}
LiveStates     == {"scheduled", "confirmed"}
IsLive(a) == appts[a].status \in LiveStates
Booked    == {a \in Appts : appts[a].status # "none"}
NewRow    == Cardinality(Booked) + 1
Root(r)   == appts[loc[r].appt].root

\* The status an operation gives the appointment it works on.
Target(op) ==
  CASE op = "confirm"    -> "confirmed"
    [] op = "cancel"     -> "cancelled"
    [] op = "reschedule" -> "rescheduled"
    [] op = "complete"   -> "completed"
    [] op = "no_show"    -> "no_show"

MutAllowedTransitions(status) ==
  CASE status = "scheduled" -> {"confirmed"} \cup TerminalStates
    [] status = "confirmed" -> TerminalStates
    [] status = "completed" -> {"cancelled"}
    [] OTHER -> {}

\* validateTransition: a terminal state admits none, and a confirmed appointment
\* is not confirmed again.
AllowedTransitions(status) ==
  CASE status = "scheduled" -> {"confirmed"} \cup TerminalStates
    [] status = "confirmed" -> TerminalStates
    [] OTHER -> {}

Init ==
  /\ appts = [a \in Appts |-> NoAppt]
  /\ visit = {}
  /\ event = [g \in 1 .. MaxEvents |-> 0]
  /\ made = 0
  /\ queue = << >>
  /\ worker = NoWork
  /\ pc = [r \in Requests |-> "idle"]
  /\ loc = [r \in Requests |-> NoLocals]
  /\ faults = 0
  /\ overlapped = {}
  /\ excused = {}

outbound == <<event, made, worker>>

(***************************************************************************)
(* Requests.                                                               *)
(***************************************************************************)
\* The request goes on with a step, or is over.
Goto(r, next, l) ==
  /\ pc' = [pc EXCEPT ![r] = next]
  /\ loc' = [loc EXCEPT ![r] = IF next = "idle" THEN NoLocals ELSE l]

\* Bound: every row that requests in flight may still insert has a number.
Room == NewRow + Cardinality({r \in Requests : pc[r] = "write" /\ loc[r].op = "reschedule"})
          \in Appts

Busy(root) == \E r \in Requests : pc[r] # "idle" /\ Root(r) = root

\* The lifecycle requests read the row and check the transition.
Begin(r, op, a, t) ==
  /\ pc[r] = "idle"
  /\ a \in Booked
  /\ Target(op) \in AllowedTransitions(appts[a].status)
  /\ IF op = "reschedule" THEN Room /\ t \in Starts ELSE t = 0
  /\ Goto(r, "write", [op |-> op, appt |-> a, event |-> appts[a].event, start |-> t])
  /\ \/ ~Busy(appts[a].root) /\ UNCHANGED <<overlapped, faults>>
     \/ /\ Busy(appts[a].root)
        /\ faults < MaxFaults
        /\ faults' = faults + 1
        /\ overlapped' = overlapped \cup {appts[a].root}
  /\ UNCHANGED <<appts, visit, outbound, queue, excused>>

\* appointments.service create: the row.
Create(r, sr, t) ==
  /\ pc[r] = "idle"
  /\ Room
  /\ appts' = [appts EXCEPT ![NewRow] = [status |-> "scheduled", start |-> t, sr |-> sr,
                                         event |-> 0, root |-> NewRow]]
  /\ Goto(r, "request", [NoLocals EXCEPT !.op = "create", !.appt = NewRow])
  /\ UNCHANGED <<visit, outbound, queue, faults, overlapped, excused>>

MutAfterWriteAlways(l) ==
  CASE l.op \in {"cancel", "no_show"} -> "request"
    [] l.op = "reschedule" -> "calendar"
    [] OTHER -> "idle"

MutAfterWrite(l) ==
  CASE l.op = "cancel" -> "request"
    [] l.op = "reschedule" /\ l.event # 0 -> "calendar"
    [] OTHER -> "idle"

\* What follows the write: the service request for a cancellation or a no-show,
\* then the calendar for what has an event; a confirmation and a completion are
\* over.
AfterWrite(l) ==
  CASE l.op \in {"cancel", "no_show"} -> "request"
    [] l.op = "reschedule" /\ l.event # 0 -> "calendar"
    [] OTHER -> "idle"

MutAfterRequest(l) == IF l.op = "create" THEN "calendar" ELSE "idle"

AfterRequest(l) ==
  IF l.op = "create" \/ (l.op = "cancel" /\ l.event # 0) THEN "calendar" ELSE "idle"

MutWriteRow(r) ==
  /\ pc[r] = "write"
  /\ LET l == loc[r] IN
     \/ /\ l.op # "reschedule"
        /\ appts' = [appts EXCEPT ![l.appt].status = Target(l.op)]
        /\ Goto(r, AfterWrite(l), l)
     \/ /\ l.op = "reschedule"
        /\ appts' = [appts EXCEPT ![NewRow] = [appts[l.appt] EXCEPT !.status = "scheduled",
                                                  !.start = l.start, !.event = l.event]]
        /\ Goto(r, AfterWrite(l), [l EXCEPT !.appt = NewRow])
  /\ excused' = IF loc[r].op \in {"cancel", "reschedule"} /\ loc[r].event = 0
                  THEN excused \cup {Root(r)} ELSE excused
  /\ UNCHANGED <<visit, outbound, queue, faults, overlapped>>

\* The write by id.  A reschedule also inserts the new row, in one transaction,
\* and goes on with it.
WriteRow(r) ==
  /\ pc[r] = "write"
  /\ LET l == loc[r] IN
     \/ /\ l.op # "reschedule"
        /\ appts' = [appts EXCEPT ![l.appt].status = Target(l.op)]
        /\ Goto(r, AfterWrite(l), l)
     \/ /\ l.op = "reschedule"
        /\ appts' = [appts EXCEPT
                       ![l.appt].status = "rescheduled",
                       ![NewRow] = [appts[l.appt] EXCEPT !.status = "scheduled",
                                      !.start = l.start, !.event = l.event]]
        /\ Goto(r, AfterWrite(l), [l EXCEPT !.appt = NewRow])
  /\ excused' = IF loc[r].op \in {"cancel", "reschedule"} /\ loc[r].event = 0
                  THEN excused \cup {Root(r)} ELSE excused
  /\ UNCHANGED <<visit, outbound, queue, faults, overlapped>>

\* The service request: a booking makes it a scheduled visit, a cancellation or
\* a no-show new again, whatever other appointments it has.
UpdateServiceRequest(r) ==
  /\ pc[r] = "request"
  /\ LET sr == appts[loc[r].appt].sr
     IN visit' = IF loc[r].op = "create" THEN visit \cup {sr} ELSE visit \ {sr}
  /\ Goto(r, AfterRequest(loc[r]), loc[r])
  /\ UNCHANGED <<appts, outbound, queue, faults, overlapped, excused>>

\* The calendar job.  A cancellation deletes the event the row had when it was
\* read, a reschedule updates the one its new row inherited.
CalendarJob(l) ==
  CASE l.op = "create"     -> [NoJob EXCEPT !.kind = "create", !.appt = l.appt]
    [] l.op = "cancel"     -> [NoJob EXCEPT !.kind = "delete", !.appt = l.appt, !.event = l.event]
    [] l.op = "reschedule" -> [NoJob EXCEPT !.kind = "update", !.appt = l.appt]

QueueCalendarJob(r) ==
  /\ pc[r] = "calendar"
  /\ queue' = Append(queue, CalendarJob(loc[r]))
  /\ Goto(r, "idle", NoLocals)
  /\ UNCHANGED <<appts, visit, outbound, faults, overlapped, excused>>

\* A call fails: the request ends here, what it did so far stays.  The failure
\* to queue a job is swallowed, with nothing left to do.
RequestFails(r) ==
  /\ pc[r] # "idle"
  /\ faults < MaxFaults
  /\ faults' = faults + 1
  /\ excused' = excused \cup {Root(r)}
  /\ Goto(r, "idle", NoLocals)
  /\ UNCHANGED <<appts, visit, outbound, queue, overlapped>>

(***************************************************************************)
(* The calendar worker: one job at a time, in order.  It looks neither at  *)
(* the status of the appointment nor at whether it has an event already.   *)
(***************************************************************************)
Work(next, e) == worker' = [worker EXCEPT !.pc = next, !.event = e]

requestSide == <<visit, pc, loc, overlapped>>

TakeJob ==
  /\ worker.pc = "idle"
  /\ queue # << >>
  /\ worker' = [NoWork EXCEPT !.pc = Head(queue).kind, !.job = Head(queue)]
  /\ queue' = Tail(queue)
  /\ UNCHANGED <<appts, event, made, faults, excused, requestSide>>

CreateEvent ==
  /\ worker.pc = "create"
  /\ made < MaxEvents
  /\ made' = made + 1
  /\ event' = [event EXCEPT ![made + 1] = appts[worker.job.appt].start]
  /\ Work("store", made + 1)
  /\ UNCHANGED <<appts, queue, faults, excused, requestSide>>

StoreEventId ==
  /\ worker.pc = "store"
  /\ appts' = [appts EXCEPT ![worker.job.appt].event = worker.event]
  /\ Work("ack", 0)
  /\ UNCHANGED <<event, made, queue, faults, excused, requestSide>>

\* Google refuses to update an event that was deleted.
UpdateEvent ==
  /\ worker.pc = "update"
  /\ LET row == appts[worker.job.appt] IN
     event' = [event EXCEPT ![row.event] = IF @ = 0 THEN 0 ELSE row.start]
  /\ Work("ack", 0)
  /\ UNCHANGED <<appts, made, queue, faults, excused, requestSide>>

DeleteEvent ==
  /\ worker.pc = "delete"
  /\ event' = [event EXCEPT ![worker.job.event] = 0]
  /\ Work("ack", 0)
  /\ UNCHANGED <<appts, made, queue, faults, excused, requestSide>>

\* The queue learns that the job is done.
AckJob ==
  /\ worker.pc = "ack"
  /\ worker' = NoWork
  /\ UNCHANGED <<appts, event, made, queue, faults, excused, requestSide>>

\* A failure is logged and the job counts as done.
JobFails ==
  /\ worker.pc \in {"create", "store", "update", "delete"}
  /\ \/ faults < MaxFaults /\ faults' = faults + 1
     \/ worker.pc = "create" /\ made = MaxEvents /\ UNCHANGED faults     \* bound
  /\ Work("ack", 0)
  /\ excused' = excused \cup {appts[worker.job.appt].root}
  /\ UNCHANGED <<appts, event, made, queue, requestSide>>

WorkerStep == \/ TakeJob \/ CreateEvent \/ StoreEventId \/ UpdateEvent \/ DeleteEvent
              \/ AckJob \/ JobFails

\* A restart drops the requests; the queue hands an interrupted job out again,
\* once.
Restart ==
  /\ faults < MaxFaults
  /\ faults' = faults + 1
  /\ excused' = excused \cup {Root(r) : r \in {q \in Requests : pc[q] # "idle"}}
                        \cup (IF worker.pc = "idle" THEN {} ELSE {appts[worker.job.appt].root})
  /\ pc' = [r \in Requests |-> "idle"]
  /\ loc' = [r \in Requests |-> NoLocals]
  /\ queue' = IF worker.pc = "idle" \/ worker.job.stalled THEN queue
              ELSE <<[worker.job EXCEPT !.stalled = TRUE]>> \o queue
  /\ worker' = NoWork
  /\ UNCHANGED <<appts, visit, event, made, overlapped>>

LifecycleOps == {"confirm", "cancel", "reschedule", "complete", "no_show"}

Proceed(r) == \/ WriteRow(r) \/ UpdateServiceRequest(r) \/ QueueCalendarJob(r)
              \/ RequestFails(r)

Next ==
  \/ \E r \in Requests : Proceed(r)
  \/ \E r \in Requests, sr \in ServiceRequests, t \in Starts : Create(r, sr, t)
  \/ \E r \in Requests, op \in LifecycleOps, a \in Appts, t \in Starts \cup {0} : Begin(r, op, a, t)
  \/ WorkerStep
  \/ Restart

Spec == Init /\ [][Next]_vars

(***************************************************************************)
(* Properties                                                              *)
(***************************************************************************)
Statuses == {"none"} \cup LiveStates \cup TerminalStates
Rows     == [status : Statuses, start : Starts \cup {0},
             sr : ServiceRequests \cup {"none"}, event : 0 .. MaxEvents, root : 0 .. MaxAppts]
Jobs     == [kind : {"none", "create", "update", "delete"}, appt : 0 .. MaxAppts,
             event : 0 .. MaxEvents, stalled : BOOLEAN]

\* A job that updates or deletes an event has one.
HasEvent(job) ==
  /\ job.kind = "update" => appts[job.appt].event # 0
  /\ job.kind = "delete" => job.event # 0

\* Types, and that no job reaches the worker without the event it is about.
TypeOK ==
  /\ appts \in [Appts -> Rows]
  /\ visit \subseteq ServiceRequests
  /\ event \in [1 .. MaxEvents -> Starts \cup {0}]
  /\ made \in 0 .. MaxEvents
  /\ queue \in Seq(Jobs)
  /\ worker \in [pc : {"idle", "create", "store", "update", "delete", "ack"}, job : Jobs,
                 event : 0 .. MaxEvents]
  /\ pc \in [Requests -> {"idle", "write", "request", "calendar"}]
  /\ loc \in [Requests -> [op : LifecycleOps \cup {"none", "create"}, appt : 0 .. MaxAppts,
                           event : 0 .. MaxEvents, start : Starts \cup {0}]]
  /\ faults \in 0 .. MaxFaults
  /\ overlapped \cup excused \subseteq Appts
  /\ HasEvent(worker.job) /\ \A i \in DOMAIN queue : HasEvent(queue[i])

\* The rows of one booking: the first and the ones it was rescheduled to.
RowsOf(root) == {a \in Booked : appts[a].root = root}
LastRow(root) == CHOOSE a \in RowsOf(root) : \A b \in RowsOf(root) : b <= a
Roots == {appts[a].root : a \in Booked}

\* Nothing is under way for the booking.
Settled(root) ==
  /\ ~Busy(root)
  /\ \A i \in DOMAIN queue : appts[queue[i].appt].root # root
  /\ worker.pc = "idle" \/ appts[worker.job.appt].root # root

\* Rescheduling moves a booking and never doubles it: whatever fails and wherever
\* the process stops, at most one of its rows is live, unless two requests
\* worked on it at the same time.
OneLivePerBooking ==
  \A root \in Roots \ overlapped : Cardinality({a \in RowsOf(root) : IsLive(a)}) <= 1

\* Once an appointment is completed, cancelled, missed or moved it stays so, under
\* the same proviso.
TerminalFinal ==
  [][\A a \in Appts : appts[a].status \in TerminalStates /\ appts[a].root \notin overlapped
       => appts'[a].status = appts[a].status]_vars

\* When everything queued is done, the calendar shows the booking where it now
\* is: the one event at the time of its last row, and no event once cancelled.
\* Provisos: no step failed, requests did not overlap, and nobody cancelled or
\* moved it before its event's id was stored.
EventFollows ==
  \A root \in Roots \ (overlapped \cup excused) :
    Settled(root) =>
      LET last == appts[LastRow(root)] IN
        /\ last.event # 0
        /\ event[last.event] = IF last.status = "cancelled" THEN 0 ELSE last.start

\* The service request follows its appointments: new again when all of them were
\* cancelled or missed, a scheduled visit while its only booking is live.
VisitFollows ==
  \A sr \in ServiceRequests :
    LET mine == {root \in Roots : appts[root].sr = sr} IN
      /\ mine # {}
      /\ mine \cap (overlapped \cup excused) = {}
      /\ \A root \in mine : Settled(root)
      => /\ (\A root \in mine : appts[LastRow(root)].status \in {"cancelled", "no_show"})
              => sr \notin visit
         /\ Cardinality(mine) = 1 /\ (\E root \in mine : IsLive(LastRow(root)))
              => sr \in visit
=============================================================================
