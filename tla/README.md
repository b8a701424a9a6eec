# A TLA+ verification of Lead360

Lead360 is a multi-tenant CRM and operations platform for service contractors:
a NestJS API over MySQL (Prisma) with BullMQ queues on Redis
(`src/api/src`), and a Next.js client (`src/app`). One Node process serves the
API and runs the queue workers. The API keeps all state in MySQL; almost no
handler runs in a serializable transaction, so what a handler reads before an
`await` may be stale when it writes after it. That is what this project models.

## 1. The system's parts

| Part (under `src/api/src/modules`) | State | Operations | What is hard |
|---|---|---|---|
| `time-clock`: sessions, breaks, labour cost | `clock_session`, `break_entry`, `crew_hour_log` | clock in, clock out, start and end a break, overtime split, posting labour cost | check-then-act over several awaits, breaks against clock-outs, cost posted once and never lost |
| `time-clock`: shifts and jobs | `work_shift` | create, edit, delete, match at clock-in, missed-shift job, reminder job | jobs delivered at least once, rows edited under a job's loop |
| `time-clock`: edits, disputes, kiosk | `time_dispute`, `clock_session_edit_log`, PIN counters | edit a session, submit, approve, reject, cancel | decisions on a status read earlier |
| `financial`: project invoices | `project_invoice`, `project_invoice_payment`, `project_draw_milestone`, numbering counter | create, send, void, record and delete payments, generate from a milestone | money columns recomputed from stale reads |
| `financial`: recurring expenses | `recurring_expense_rule`, generated entries, queue | nightly scheduler, processor with retries, pause, resume, cancel, skip, trigger | duplicates, an edit overwritten by a job |
| `financial`: entries, receipts, suppliers | `financial_entry`, `receipt` | submit, approve, reject, OCR job | job results that arrive late |
| `quotes` | `quote`, `quote_approval`, versions, public links, mails | submit, approve, reject, bypass, reset, status by hand, restore, send, provider webhooks | two approvers, an old workflow decided under a new one, the mail's request and its job each writing the status |
| `projects` | `project`, `project_task`, dependencies | status, dependency graph, completion checklist | cycles created by two requests |
| `calendar-integration` | `calendar_provider_connection`, `calendar_external_block`, sync token, webhook | connect, disconnect, webhook, periodic sync, token refresh, renewal, sync job | lost and late webhooks, a connection replaced or gone under a sync, a page that fails half way |
| `calendar` | `appointment`, `service_request`, queued calendar jobs | create, confirm, cancel, reschedule, complete, no-show; create, update, delete the Google event | two requests on one booking, a job late or lost between row and event |
| `communication` | events, webhooks, calls, transcriptions | send, receive, retry | duplicated and reordered webhooks |
| `voice-ai` | usage, quota, call logs | start and complete a call | a quota checked before a call and used after it |
| `leads`, `files`, `portal`, `auth`, `users`, `rbac`, `tenant`, `audit`, `admin`, `jobs` | their tables | CRUD, access control, log writing | little state of their own |

Parts call each other inside the process: the time clock writes `crew_hour_log`
(financial) when a session ends, and notifications through `communication`; the
schedulers of `time-clock` and `financial` add jobs to BullMQ queues whose
processors call back into the services.

## 2. Conventions of the models

- **Handlers.** Every HTTP request and every queue job runs in a *slot*. `pc`
  says before which database call a slot stands, `loc` and `calc` hold the local
  variables it carries across the `await`. A step is one awaited database call
  together with the code that runs before the next `await`; Node runs that code
  without interruption. Interleaving slots is therefore exactly the concurrency
  the process has.
- **Transactions.** A `$transaction` whose first write is a conditional update
  (`updateMany` with the expected old value in `where`) holds the row's lock
  until it commits, so it is one step from that write on. What the transaction
  *read* before it under MySQL's REPEATABLE READ is a step of its own.
  `updateMany` is taken to be one conditional `UPDATE`.
- **Refusals.** A request that is refused changes nothing; the guard of the
  first step is the conjunction of the code's checks and there is no step for a
  refusal.
- **Faults.** `DbError`: the database call a slot awaits fails, and the
  handler's `catch` decides what happens. `Crash`: the process restarts and all
  slots are lost. `Serial` restricts a run to handlers that do not overlap.
- **Idle system.** `Wait` is a stuttering step of a system with nothing in
  flight. It keeps TLC's deadlock check meaningful: a deadlock would be a slot
  that waits for something that never comes.
- **Time.** Minutes, bounded by `MaxTime`; days have `DayLength` minutes so that
  several days fit into a run.
- **Mutants.** A definition `Mut...` stands before the definition it mutates,
  and is a plausible mistake in the same code. No specification uses it.

## 3. Modules

### TimeClock (and MCTimeClock, TimeClockProofs)

| Model | Code |
|---|---|
| `sessions`, `minutes` | `clock_session`; its minute columns are apart so that the control state can be proved about without sums |
| `breaks`, `shifts`, `hourLogs` | `break_entry`, `work_shift`, `crew_hour_log` |
| `alerts` | the admins notified of a failed labour posting; `unheard` keeps the sessions whose notification failed as well, found nobody or was cut off |
| `reminders` | reminders delivered, per shift |
| `ClockInCheck`, `ClockInMatch`, `ClockInClaim`, `ClockInCreate` | `ClockSessionService.clockIn` |
| `ClockOutRead` ... `ClockOutComplete` | `clockOut`: read the open session, find and end its open break, sum unpaid breaks, overtime, shift, session row |
| `RegularMinutes`, `WeekOf`, `DayOf` | `OvertimeService.calculateOvertime`, `computeBoundaries` |
| `LaborCreate`, `LaborMark`, `LaborAdmins`, `LaborNotify` | `postLaborCost`, awaited by clockOut after its own update; `HoursOf` rounds minutes to hundredths of an hour. Where it fails, `notifyTenantAdmins` looks the admins up and notifies them all at once; it logs only if there are none or if that fails too |
| `StartBreak`, `EndBreakRead`, `EndBreakCommit` | `BreakEntryService` |
| `CreateShifts`, `UpdateShift`, `RemoveShiftRead`, `RemoveShiftDelete` | `WorkShiftService` |
| `MissedList`, `MissedCheck`, `MissedMark` | `MissedShiftService.processTenantMissedShifts` |
| `RemindList`, `RemindStamp`, `RemindSend` | `ShiftReminderService.processTenantReminders` |

Abstracted: coordinates (what the geofence finds is an input), names, photos,
cost rates, audit records and the wording of notifications. An employee's
deactivation, which does not look at open sessions, is not modelled.

### Attendance

What the time clock promises, without rows or requests: an employee is out,
working or resting; a billable period that ended is owed one labour entry and
yields at most one. `TimeClock` maps its tables to it (`Abstract`).

### ProjectInvoice (and MCProjectInvoice, ProjectInvoiceProofs)

| Model | Code |
|---|---|
| `invoices`, `money` | `project_invoice`; its money columns are apart so that numbering can be proved about without sums |
| `payments`, `milestones`, `nextNumber` | `project_invoice_payment`, `project_draw_milestone`, `tenant.next_invoice_number` |
| `CreateRead`, `CreateCommit`, `GenerateRead` ... `GenerateCommit` | `ProjectInvoiceService.create`, `DrawMilestoneService.generateInvoice`, `InvoiceNumberGeneratorService` |
| `Update...`, `Send...`, `Void...`, `DeleteInvoice...` | `update`, `send`, `voidInvoice`, `deleteInvoice` |
| `PayRead`, `PayCommit`, `DeletePaymentRead` ... `DeletePaymentCommit` | `recordPayment`, `deletePayment` |
| `CreateMilestones`, `UpdateMilestone...`, `DeleteMilestone...` | `DrawMilestoneService` |

Each handler reads its row in one step and writes in a later one. Where the row or the
milestone it writes was deleted meanwhile, the transaction throws and nothing changes
(`LinkAlive`, `Rollback`). The prefix of invoice numbers is taken not to change, so that
numbers differ where the counters do (`NumberTaken`). Amounts are
cents; descriptions, due dates and the PDF are left out.

### RecurringExpense (and MCRecurringExpense, RecurringExpenseProofs)

| Model | Code |
|---|---|
| `rules`, `entries` | `recurring_expense_rule`; `financial_entry` rows with a `recurring_rule_id` |
| `jobs` | the BullMQ queue `recurring-expense-generation`: waiting or active, attempts that failed, whether it has stalled before |
| `todo`, `night` | the rules `RecurringExpenseScheduler` still has to enqueue; whether tonight's cron is still to come |
| `CreateCount` ... `TriggerAdd` | `RecurringExpenseService.create`, `update`, `cancel`, `pause`, `resume`, `skipNext`, `triggerNow` |
| `ScheduleList`, `ScheduleAdd`, `ScheduleError` | `processRecurringExpenses` |
| `JobRead`, `JobLookup`, `JobCommit`, `JobAck`, `JobError` | `processRule`, and `RecurringExpenseProcessor.process` around it |
| `Crash` | a restart: requests and the scheduler's list are lost, the active job is delivered once more |
| `skips`, `since` | history variables for the properties |

There is one worker: `ecosystem.config.js` starts one process, and a
`@Processor` has concurrency 1. The order in which waiting jobs are taken
(priority, backoff) is left open. An update may give a limit or an end date, clear
it (`clear`) or leave it alone. A rule's schedule is "every `interval` days";
the other frequencies are the subject of `DueDates`.

### DueDates (and MCDueDates, DueDatesProofs)

`calculateNextDueDate`, `resolveDay` and `advanceToWeekday` over a real
calendar. An instant is a number of quarter days: `next_due_date` is a DATE
column, read as midnight UTC and written as the UTC day of an instant, while the
date functions work on the host's clock, `West` quarter days behind. The
reference definition `Expected` says what the n-th due date is without going
through the ones before it. `CalendarLasts` asks that the calendar go on beyond the
last date that is looked at.

### CalendarSync (and MCCalendarSync, CalendarSyncProofs)

One tenant's Google calendar, the connection to it and the busy blocks the
scheduler keeps of the owner's own events.

| Model | Code |
|---|---|
| `cal` | the calendar at Google (external): per event its time, or none, and the revision of its last change; a sync token is a revision |
| `conn`, `blocks`, `appts` | `calendar_provider_connection`, `calendar_external_block`, the appointments with their event ids |
| `queue`, `worker` | the `calendar-sync` queue and its one worker |
| `now`, `Tick`, `Year`, `Ahead` | the time, and the window of a full listing (`timeMin`, `timeMax`) |
| `OwnerChanges`, `OwnerRevokes` | what the calendar's owner does (external); the webhook may be lost |
| `HandleWebhook`, `HandlePeriodicSync` | `GoogleCalendarWebhookController`, `PeriodicSyncScheduler` |
| `TokenRefreshFails`, `RenewWebhookFails`, `TestConnectionFails` | the failing branches of `TokenRefreshScheduler`, `WebhookRenewalScheduler` and the connection test; their success changes nothing modelled |
| `TakeJob`, `ListEvents`, `ApplyEvent`, `StoreToken`, `DetectConflicts`, `CreateEvent`, `StoreEventId` | `GoogleCalendarSyncProcessor` and `GoogleCalendarSyncService`: list (incremental, or full after a 410), apply one event at a time, store the new token, look for conflicts, create an appointment's event |
| `Connect` ... `ConnectInsert`, `Disconnect` ... `PurgeBlocks` | `CalendarProviderConnectionService` and the disconnect endpoint |

`ours`, `orphans`, `unlisted` and `stale` are history, for the properties: the events
Lead360 made, those whose id was lost, those a full listing passed over, and an
interrupted purge. Merged into one step each: the lookup and the write of a block
(`ApplyEvent`; only the worker writes single blocks) and the lookup and the update
of the connection by tenant (`Deactivate`). Left out: the watch channel's id and
expiry, renewals that succeed, event titles, all-day events.

### Appointment (and MCAppointment, AppointmentProofs)

Bookings, their service requests, and their events in Google as the queue's
jobs leave them. A reschedule ends one row and creates the next; `root` names the
booking the rows belong to.

| Model | Code |
|---|---|
| `Begin`, `Create` | the reads and checks of `AppointmentsService` and `AppointmentLifecycleService`, with `AllowedTransitions` |
| `WriteRow` | the update of the row by id, and the new row of a reschedule |
| `UpdateServiceRequest`, `QueueCalendarJob` | the steps after it, each of which may be the last one |
| `TakeJob` ... `AckJob`, `JobFails` | the create, update and delete jobs of `GoogleCalendarSyncProcessor`; create stores the event's id in a step of its own |
| `RequestFails`, `Restart` | failing calls, and a restart: a job is handed out again |

`CalendarSync` and `Appointment` share the queue but not the question: one is
about what the calendar tells the scheduler, the other about what the scheduler
tells the calendar.

### Quote (and MCQuote, QuoteProofs)

| Model | Code |
|---|---|
| `status`, `flows`, `customer`, `mail` | `quote.status` (statuses that no rule here tells apart are one), `quote_approval` by workflow and level, `lead.status`, the last `communication_event` |
| `Begin`, `Allowed` | what each request reads and checks first |
| `Submit`, `Approve`, `Reject`, `BypassApproval`, `ResetApprovals` | `ApprovalWorkflowService` |
| `UpdateStatus`, `UpdateLead`, `RestoreVersion` | `QuoteService.updateStatus`, `QuoteVersionComparisonService.restoreVersion` |
| `GeneratePublicUrl`, `LogView` | `QuotePublicAccessService`, view tracking |
| `QueueEmail`, `MarkSent`, `SendMail` ... `MarkQuote`, `JobFails`, `EmailEvent` | `QuoteEmailService.sendQuoteEmail`, the e-mail processor, the provider's webhooks |

The remaining variables are history: they carry the provisos of the properties.
Wider than the code: a quote that was downloaded is `out` like one that was sent, and
may be mailed again, which `sendQuoteEmail` refuses; the attempts of the e-mail job are
not counted. `QueueEmail` merges the link, the event row and `queue.add`: what is
written before the queue is read by nobody here, and a failure in between is a
`RequestFails`. Where the job fails it marks the mail as failed, or that fails too and
the mail stays pending.

## 4. Runs

| Run | Config | Properties | What it shows |
|---|---|---|---|
| `clock_concurrent` (pass) | `TimeClockConcurrent.cfg` | `BreakGate`, `LaborNotLost`, `TakenShiftOffList` | Overlapping clock-ins, clock-outs and breaks of one employee, with shifts created, edited and deleted meanwhile, failing database calls and restarts: the break gate holds, labour cost is lost silently only where notifying the admins went wrong as well, and a shift that has a session is not taken up again. |
| `clock_jobs` (pass) | `TimeClockJobs.cfg` | `ReminderAtMostOnce`, `MissedEventually` | Overlapping and repeated reminder and missed-shift jobs, with shifts edited and deleted under them, remind at most once per shift, and an overdue shift nobody clocked in for is eventually marked missed. |
| `clock_serial` (pass) | `TimeClockSerial.cfg` | `MinutesAccounted`, `OvertimeCaps`, `MissedOnlyIfAbsent` | Without overlap, over several days: every minute is accounted for, regular minutes respect both overtime thresholds, the posted log carries the session's hours, rounded to hundredths, and a shift is marked missed only when nobody came. |
| `clock_faults` (pass) | `TimeClockFaults.cfg` | `OneActiveSession`, `CompletedIsFinal`, `ImplementsAttendance` | Handlers that do not overlap implement the abstract attendance clock, whatever database call fails and wherever the process restarts. |
| `invoice_serial` (pass) | `InvoiceSerial.cfg` | `PaidIsSumOfPayments`, `StatusFollowsMoney`, `MilestoneFollowsInvoice` | Whatever operations run one after the other, with failures and restarts, amount_paid is the sum of the payments and the status follows the money; until something is deleted, a milestone has one live invoice and follows it through payment, voiding and a new invoice. |
| `invoice_concurrent` (pass) | `InvoiceConcurrent.cfg` | `BalanceKept`, `PaidWithinTotal`, `SequentialNumbers` | Overlapping payments, deletions of payments, new invoices and milestones, failing anywhere, keep amount_due consistent with amount_paid, never show more paid than asked for, and hand out invoice numbers in sequence. |
| `recurring_terms` (pass) | `RecurringTerms.cfg` | `TypeOK`, `OccurrencesCounted`, `WithinTerms` | Requests and jobs one after the other, with a failing call or a restart: occurrences are counted exactly, and rules that are neither edited nor resumed never generate more than their count or past their end date. |
| `recurring_live` (pass) | `RecurringLive.cfg` | `ScheduledOnce`, `FinalStaysFinal`, `NoBackfill`, `DueServed` | Rules paused, resumed, edited and cancelled between the nights, with up to two faults and due dates set back: no date gets two scheduled entries, an ended rule stays ended, resuming never generates the dates of the pause, and a due rule gets its entry or moves on, although a night was missed, the last attempt failed or the process restarted. |
| `due_dates_utc` (pass) | `DueDatesUtc.cfg` | `OnSchedule` | On a host whose clock is UTC, every frequency stays on its preferred day through short months and leap years. |
| `calendar_sync` (pass) | `CalendarSync.cfg` | `TypeOK`, `Covered`, `OwnNotBlocked`, `NoBlocksAfterDisconnect`, `BlocksFollow`, `ConflictReported` | Syncs, bookings, connects and disconnects interleaved with lost webhooks, failing calls, revoked access, a restart and the time that passes: the stored sync token claims no more than the blocks show, but for what a full listing passed over; Lead360's own event is taken for a foreign one only when its id was lost; a healthy connection catches up even without webhooks. |
| `appointments` (pass) | `Appointment.cfg` | `TypeOK`, `OneLivePerBooking`, `EventFollows`, `VisitFollows`, `TerminalFinal` | Two requests and the calendar worker interleaved, with a failing call, a restart or two requests on one booking: a reschedule never doubles a booking, an ended appointment stays ended, calendar and service request end where the booking is. |
| `quotes` (pass) | `Quote.cfg` | `LevelsInOrder`, `StatusFollowsApproval`, `MailedNotReady`, `WonIsCustomer` | Two requests on one quote and its e-mail job, with one overlap, failing call or restart: approvals come level by level, what goes out was approved, a waiting quote can be decided, a mailed quote is not left ready, and a won one has a customer. |

Bounds, and why they are enough:

- Two request slots are the smallest number that overlaps; the conditional
  updates involve one row each, so a third slot adds only repetitions.
- Two sessions suffice for a second clock-in, three over several days for the
  overtime split (`TimeClockSerial`: days of 2 minutes, thresholds of 2 a
  day and 3 a week, so that a session can cross either or both).
- Two jobs and two shifts show an overlapping or repeated run of a job, and a
  row that goes away under its loop. `TimeClockJobs` has no sessions: a session
  only takes a shift off the jobs' lists, which `TimeClockSerial` covers.
- One admin (`TimeClockConcurrent`, `TimeClockSerial`) or none (`TimeClockFaults`):
  whether a failed posting finds somebody to tell. The proof is for any number.
- `SessionRowLeft` accepts a clock-in only while a row is left for it, so that
  the bound on rows never stops a handler half way.
- Symmetry is used over row and slot identities only, in runs without liveness.
- Invoices: two rows, two payments and two requests are what a lost update of
  `amount_paid`, a milestone invoiced again after a void, or two creations that
  read the same counter need. Amounts 1 and 2 with tax 0 or 1 give partial, exact
  and excessive payments. `InvoiceConcurrent` leaves out `update` (it rewrites
  the amounts of a draft from a stale read, so that an amount paid meanwhile is
  not in the balance) and `delete_invoice` (see section 5), and needs no
  restarts: one is the failure of every request in flight.
- Recurring expenses: one rule suffices where rules do not touch each other (only
  the limit on active rules relates two, `RecurringTerms`); two or three days and
  entries let a rule be overdue, generated, skipped and generated again. An
  entry, rule or job is begun only while a row is left for it. `Attempts` is 2, and
  with two faults (`RecurringLive`) a job's last attempt fails
  too, or a job is lost to a second restart. After `MaxDay` the nights go on
  and the date stays. `RecurringLive` leaves out `skip` and `trigger`, which
  `RecurringTerms` has. Both runs are of requests that do not overlap a job;
  what holds with overlap is proved (section 6).
- Due dates: every start from February to April 2027 and around 29 February 2028,
  six occurrences, so that every frequency crosses short months, and annual
  rules leap years.
- Calendar: two events (one the owner's, one that may become an appointment's), one
  appointment, one event a page so that a sync can fail between two, two
  connections so that a job of the first meets the second, a queue of one, one
  fault. Events and visits are at time 1, the time is 0 or 1 and the window of a full
  listing is of the present only: at 0 an event lies beyond it, at 1 inside. That an
  event or a visit is over needs `MaxNow = 2`, which passes too and takes twice the
  time. Which identity a new event gets makes no difference, so it is the next one
  (`NextId`).
- Appointments: two rows (a booking and its reschedule, or two bookings of one
  service request), two events, two requests, one fault; that two requests are
  on the same booking at once counts as the fault.
- Quotes: two requests, two levels, two workflows, one mail at a time, and one
  fault, where a request that overlaps another counts as one.

Fairness (`TimeClockJobs`): weak fairness of each slot's next step (the
database answers every call, and nothing in a handler blocks on another slot)
and of the missed-shift job (`TimeClockScheduler` adds it on a cron). No fairness
is assumed of requests.

Fairness (`RecurringLive`): weak fairness of midnight, the cron, the scheduler's
loop and each request's next step, for the same reasons. The worker has strong
fairness: in runs with `Serial` a request may stand in its way again and again,
which is a restriction of the run and not of the code. The number of faults is
bounded: with infinitely many nothing can be promised.

Fairness (`CalendarSync`): weak fairness of the worker (it runs while there is a
job) and of the periodic sync (a cron every six hours). No webhook is promised:
`BlocksFollow` holds with every one of them lost.


## 5. What the runs found

Every run passes. The conditions under which the properties hold are needed: each
of these changes to a configuration lets TLC violate the property, and the code
then breaks a rule its documentation states or its reader would expect:

| Change | Property violated | What happens |
|---|---|---|
| `TimeClockFaults`: `Serial = FALSE`, two requests | `OneActiveSession` | two overlapping clock-ins both find no open session and both create one (`time-clock_REST_API.md:2226`) |
| same | `ImplementsAttendance` | two overlapping clock-outs each read `labor_cost_posted = false` from their own update and each post the cost (`BUSINESS_CLOCKIN.md:206`) |
| same | `CompletedIsFinal` | a break started under a clock-out stays open; ending it makes the completed session active again |
| `TimeClockSerial`: `Serial = FALSE` | `MissedOnlyIfAbsent` | a clock-in between the job's lookup and its update by id: the shift is missed and has a session (`BUSINESS_CLOCKIN.md:276`) |
| `TimeClockConcurrent`: `ShiftStatusInputs = {"scheduled"}` | `TakenShiftOffList` | `update` puts a shift that has a session back on the list |
| `InvoiceSerial`: `Serial = FALSE`, two requests, or without `NothingDeleted` | `MilestoneFollowsInvoice` | two overlapping `generateInvoice` calls; or generate, void, generate, delete the voided one, and the milestone is pending again (`sprint-f08.md:557`) |
| `InvoiceSerial`: `Serial = FALSE`, two requests | `PaidIsSumOfPayments` | two overlapping `recordPayment` calls each add to the `amount_paid` they read (`project-invoice.service.ts:481`), and one payment is missing from the invoice (`sprint-f08.md:560`) |
| `InvoiceConcurrent`: `"delete_invoice"` in `Ops`, three invoices | `SequentialNumbers` | a creation that read the counter early reuses the number of an invoice deleted meanwhile and moves the counter back (`sprint-f08.md:562`) |
| `RecurringTerms`: `"resume"` in `Ops`, `MaxDay = 2` | `WithinTerms` | `resume` moves the due date past `end_date` without the check the other operations make (`sprint-f06.md:87`) |
| `RecurringLive`: `Serial = FALSE` | `FinalStaysFinal` | `processRule` writes the status it computed from its first read (`recurring-expense.service.ts:942`): a cancellation in between is undone (`sprint-f06.md:513`) |
| `RecurringLive`: `DueServed` without its proviso | `DueServed` | an entry of that date exists already (entered by `triggerNow`, or the due date was set back to a served date): every job takes it for a duplicate and leaves the rule where it is |
| `DueDatesUtc`: `West = 1` | `OnSchedule` | west of UTC a monthly rule on day 1 is given the date it already has; nothing in the repository sets the host's time zone |

The provisos in the properties of the newer modules say the same of the calendar
and of quotes:

- `Healthy` (`BlocksFollow`) needs an active connection. A failed renewal sets
  `error` although the scheduler's comment says that the sync continues
  periodically (`webhook-renewal.scheduler.ts:36`): the periodic sync takes active
  connections only (`periodic-sync.scheduler.ts:59`) and nothing restores the
  status. Every error of a token refresh disconnects, where the comment says a
  network error is retried (`token-refresh.scheduler.ts:53`).
- After the owner has revoked access in Google, the tenant can neither disconnect
  (the call to Google fails first, `google-integration.controller.ts:436`) nor
  connect again (the row is there, `:283`).
- `Covered` and `BlocksFollow` except what a full listing passes over
  (`unlisted`). It asks for the events of the next 365 days
  (`google-calendar.service.ts:541`), without deleted ones: an event beyond the year
  lies under the stored token without a block, and when its time comes near the
  incremental listings do not show it, unless it changes. A token that expires has
  the same effect on deletions and on events moved beyond the year: their blocks stay.
  Without the proviso TLC violates `Covered` in eight steps. Pages after the first are
  never read; such a listing yields no token.
- `OwnNotBlocked` excepts an event whose id was lost (`orphans`): created in Google,
  but the restart or the failing write came before its id was stored, or the retried
  job stored the id of a second event. The next listing takes it for somebody else's
  and blocks the visit's own slot. Without the proviso TLC violates it in twelve steps
  (`Book`, `Connect`, `CreateEvent`, `Restart`, `TakeJob`, `ListEvents`, `ApplyEvent`
  and what is between them).
- `Covered`, `BlocksFollow` and `NoBlocksAfterDisconnect` except an interrupted purge
  and one that runs while a sync does, or after a new connection (`stale`).
- `EventFollows` excepts a restart after the event was created (its retry creates
  a second event), and a cancellation or reschedule that comes before the event's
  id is stored: the create job does not look at the appointment's status.
- `VisitFollows` excepts a service request with two appointments: cancelling one
  makes it `new` though the other is live.
- `StatusFollowsApproval` excepts a status set by hand (`draft` may
  be set to `ready` without approval), a submission over an undecided workflow
  (the last approval of the *old* one then makes the quote ready, although
  `approval-workflow.service.ts:299` says that only the current one is checked),
  and a request that wrote over a status written after its read.
- `LevelsInOrder` excepts a workflow in which a decision was written over another:
  `approve` and `reject` check that the level is pending and write by id later.
- `MailedNotReady` excepts a restart and two faults, an overlapping request counting
  as one: a failure marks the mail as failed, unless that update fails too, and the
  further attempts of the job skip a mail that is not pending, where the
  processor says that BullMQ will retry.

A proviso takes a hazard out of a property's reach, and `PROJECT.json` says so at
the hazard: the property then shows that *nothing else* goes wrong, and the change
that drops the proviso shows the hazard itself. The table and this list are those
changes; they are not runs of their own.

More differences are plain in the guards of the models:
`deletePayment` does not look at the invoice's status, so that a voided invoice
becomes sent, partial or paid again, although `financial_f08_REST_API.md:759`
calls voided terminal (`DeletePaymentCommit`; the reason for `NothingDeleted`);
`submitForApproval` accepts a quote in almost any status, a started one included
(`MaySubmit`), and edits after the approval do not reset it; `validateReadyStatus`
looks at a column that does not exist and never refuses; a lead who is a customer
becomes a prospect again when another quote goes out (`UpdateLead`);
`remove` deletes cancelled shifts, although `time-clock_REST_API.md:2178` allows
only scheduled ones (`RemoveShiftRead`); and `triggerNow` accepts a paused rule,
whose job `processRule` then drops (`TriggerRead`, `JobRead`); and only `create`
counts the active rules, so that `resume` may exceed the limit
(`ResumeWrite`).

## 6. Proofs

`SumLemmas` and the seven `...Proofs` modules are checked by TLAPS. Their theorems
hold for any number of rows, requests and jobs, any inputs, and with every fault
enabled unless a hypothesis says otherwise; they use only the named assumptions of
the modules they are about (identities are sets without `Null`, finite in `TimeClock`
and `ProjectInvoice`, as are the requests of `Appointment`; inputs are of their type,
and the tenant's thresholds are naturals, as the settings' validation demands). 
Every safety property that a run checks is proved but for `MissedOnlyIfAbsent`,
with the hypotheses of the table. `OneActiveSession`, `FinalStaysFinal` and
`TerminalFinal` are lemmas: where nothing overlaps they say little more than that
the checks are made, and it is with overlap that the code breaks them.

| Hypothesis | Theorems | Why it is needed |
|---|---|---|
| none | `BreakGate`, `LaborNotLost`, `ReminderAtMostOnce`, `ScheduledOnce`; all of `CalendarSync`, `Appointment` and `Quote` | their provisos are in the properties |
| `Serial` (handlers do not overlap) | the other properties of `TimeClock` but `TakenShiftOffList`, of `ProjectInvoice` those of `InvoiceSerial`, those of `RecurringExpense` but `ScheduledOnce` | section 5: each is violated without it |
| `"scheduled" \notin ShiftStatusInputs` | `TakenShiftOffList` | `update` sets any status: section 5 |
| no `delete_invoice` | `SequentialNumbers` | section 5 |
| no `update`, or `Serial` | `BalanceKept` | `update` writes the amounts from a stale read |
| no `update` | `PaidWithinTotal` | an edit may lower the total below what is paid |
| no `update`, no `resume` | `WithinTerms` | `update` may lower the limit below the count, `resume` passes the end date |
| `West = 0` (the host's clock is UTC) | `OnSchedule` | section 5 |

`SumLemmas` states what the community modules' `SumFunctionOnSet` computes: 0 for the
empty set, and one value more for one element more, whichever order the fold takes
the elements in. The fold is a recursive function over subsets, and no prover here
can instantiate an induction rule; instead each lemma looks at a *smallest
counterexample*: if there were a set for which the claim fails, the well-founded
order of finite subsets would give one all whose parts satisfy it, and taking one
element out contradicts that. `DueDatesProofs` treats the recursion over the months
in the same way, over the naturals.

`TimeClockProofs`, from `IdsAssumption`, `InputsAssumption` and `ClockAssumption`:

- `TypeCorrect`: the tables and slots are well typed, and a slot that stands
  before a step holds the locals that step reads (`ControlTypeOK`: all
  columns but minutes). There is one lemma per group of handlers.
- `BreakGateHolds`: `Spec => []BreakGate`. `BreakGate` alone is not inductive.
  `BreakInv` adds that a break belongs to an existing session (else a clock-in
  could create a session that already has an open break) and that an endBreak in
  flight holds a break *of the session it will set to active* (else ending the
  one break could activate a session that has another one open). With these,
  each step either leaves sessions' statuses, breaks and the endBreaks in flight
  alone (`GateFrame`), or is one of the seven steps that write them
  (`GateBreaks`, `GateSessions`).
- `LaborIsNotLost`: `LaborInv` adds that a slot about to mark a posting has made
  it, and that a session has at most one entry, so that overlapping clock-outs of one
  session cannot each leave it to the other. What it promises is what the code does:
  one failure is heard of; a second one, a tenant without admins or a restart may lose
  the cost silently, and `unheard` holds exactly the sessions of those cases.
- `TakenShiftsOff`: `TakenInv` adds that a clock-in about to create a session has
  claimed its shift. What handlers write to a shift, be it stale, is never
  `scheduled` (`OffStays`), so that only the administrators' `update` is in the way.
- `RemindedOnce`: the stamp is a conditional update, so at most one slot can be
  `Sending` a reminder, and only before the reminder was delivered; a stamp is never
  taken back, also when the row's other columns are edited (`RemindInv`).
- `ClockedOutForGood`: `SerialInv` says that at most one slot is
  busy (`Alone`), that an employee about to be clocked in has no open session, and
  that a clock-out past its break has none left open.
- `MinutesAddUp`: `HoursInv` carries the account through a clock-out, local by local:
  the breaks summed are the session's, the hours computed are its time less those.
- `OvertimeIsPaid`: the sum over a day's or week's completed sessions grows by
  `RegularMinutes`, which is at most what is left of the threshold (`CapsInv`).
- `ClockImplementsAttendance`: `Spec => ImplementsAttendance`. `RefineInit` maps
  initial states, `RefineNext` each step to a step of `Attendance` or a stutter:
  clock-ins, breaks and clock-outs change the presence of one employee, `LaborCreate`
  turns one owed period into an entry (a cardinality and a sum that move by one), and
  all else is invisible. It needs `SerialInv`, `HoursInv` and `PayInv`: a post in
  flight is about a session that owes it.

`ProjectInvoiceProofs`, from `RowsAssumption` and `MoneyAssumption`:

- `InvoiceTypeCorrect`: `ControlTypeOK`, all columns but money.
- `NumbersAreSequential`: as long as no invoice is deleted (`"delete_invoice"
  \notin Ops`), a new invoice gets the number one above the largest so far,
  however many requests read the same counter. `NumbersInv` says that every
  number below the counter is taken, none at or above it is, and that a number a
  request has read is at most the counter; the unique index then refuses a stale
  one. Section 5 shows that the condition is needed.
- `InvoiceTablesCorrect`: `TablesOK`, the money columns as well.
- `NeverOverpaid`, `BalanceHolds`: with overlapping requests. `InHand` says that the
  row a handler has read had its balance, asked for the total the invoice still asks
  for, and that a payment in flight is at most what was due on it. What it writes is
  consistent in itself, though it may overwrite another payment.
- `PaidIsTheSum`, `StatusTellsPaid`, `MilestonesFollow`: with requests that do not
  overlap. One invariant, `Books`, says for every invoice that its balance, the sum of
  its payments and its status fit, for every payment and invoice that what they point
  to exists, and, until something is deleted, that each milestone fits its one live
  invoice; `Fresh` says that what the handler in flight has read still is so.

The first form of `PaidWithinTotal` was without the proviso about deleted payments. It
passed its run and could not be proved: with three payments, two that overlap (one of
them is lost from `amount_paid`) and the deletion of the third, `deletePayment` sums up
*both* and the invoice shows more paid than it asks for. Two payment rows were too few
for that. The property now says what holds.

`RecurringExpenseProofs`, from `RowsAssumption` (one worker) and
`InputsAssumption`:

- `RecurringTypeCorrect`: the whole `TypeOK`. The date that `resume` and `update`
  look for is the minimum of a set of naturals; that it exists is
  `AdvanceToReaches`, from the well-foundedness of `<`.
- `ScheduledEntriesOnce`: `Spec => []ScheduledOnce`. Inductive with `LookupHolds`:
  while the worker stands between its lookup and its commit, the rule has no
  entry on the date the worker read. Requests may move the rule's date under the
  worker, but only the worker creates entries, and the entry it creates carries
  the date it looked up.
- `CountIsRight`, `NothingBackfilled`, `TermsAreKept`: with
  requests and jobs that do not overlap. `SerialInv` says that one slot is busy at
  most, that what it has read is what the rule holds (`Fresh`), and of each rule
  (`RuleGood`) that its count is the number of its entries and skips, and that its
  due date is not before `since`; `InTerms`, while nobody updates or resumes, that a
  rule which can still generate is within its count and end date.

`DueDatesProofs`, from `CalendarAssumption` and `CalendarLasts` (the calendar reaches as
far as the bounded number of steps can go, so that `LastMonth` bounds nothing):

- `RulesDoNotDrift`: where `West = 0`, `Spec => []OnSchedule`. Months follow each other
  without gap or overlap (`MonthStarts`, `MonthsInOrder`, `MonthFound`), a snapped day
  lies in its month (`SnappedLies`), and so the next date is found from any date of the
  month (`MonthSchedule`). A weekly rule is on its weekday after its first step, and the
  weekday is kept by whole weeks (`WeekdayKept`). `DatesInv` adds only what `create`
  leaves in a rule.

`CalendarSyncProofs`, from `SyncAssumption`:

- `TypeCorrect`: `TypeOK`, with `JobsOK` (a job that creates an event names its
  appointment).
- `OwnEventIsFree`: `OwnInv` adds that an event which has a time or a block was changed
  once (an event about to be made is new), that an own event is named by an
  appointment, is about to be stored or is one of the `orphans`, and that an own event
  the worker is about to apply is one of these.
- `DisconnectedIsFree`: `PurgeInv` adds that a listing in flight is for no connection
  that is still there.
- `NoChangeIsMissed`: `CoverInv` relates the stored token, the token of the listing in
  flight, what was found and what remains to be applied: once all of it is applied, the
  blocks cover the new token, because every event changed since the old one was in the
  list, is Lead360's own, or was passed over (`unlisted`) and then listed by nobody.

`AppointmentProofs`, from `AppointmentAssumption`:

- `TypeCorrect`: `BaseInv` counts the rows: they are numbered without gap, and there
  is room for every reschedule in flight.
- `NeverDoubled`: `LiveInv` says of a booking without overlap that all its rows but
  the last are rescheduled and that the request in flight finds its row live.
- `VisitIsRight`: `VisitInv` says that a service request is what its bookings make it,
  or that a request is about to make it so.
- `CalendarIsRight`: `EventInv`. `ClaimsInv`: an event belongs to one booking.
  For a booking no step of which failed, either its event is not known yet and its
  creation is in exactly one place (a request, the queue, the worker: `Unknown`), or
  all its rows and jobs name it (`Known`) and the last job on its way brings it to where
  the last row says (`Followed`).

`QuoteProofs`, from `QuoteAssumption`:

- `TypeCorrect`: tables and requests in flight are well typed.
- `LevelsHold`: `Spec => []LevelsInOrder`, for any number of requests, levels and
  workflows and any faults. `LevelsInOrder` alone is not inductive. `LevelsInv`
  adds that nothing is pending above a rejection (else a bypass would approve
  it), that an approval in flight is about a workflow that exists (so that a
  submission cannot take its place) and that what it read of the level below
  still holds unless the workflow was redecided or reset. `OrderKept` reduces
  every step to what it does to one workflow: it stays in order, and what was
  approved stays approved.
- `LeadFollows`: `WonIsCustomer` is inductive with the types: of the steps that write a
  status only those of `updateStatus` make a quote won, and such a request goes on to
  the lead.
- `MailedQuotesMoveOn`: `MailInv` counts: a mailed quote that is still ready while
  nobody is about to move it on has cost one fault for the request and one for the
  job.
- `StatusFollows`: `ApprovalInv` says that a decided workflow has one verdict, that only
  the last workflow is open unless a submission left an older one so, and that what a
  request has read still holds unless it is marked as stale.

Only model-checked: the four liveness properties, `MissedEventually`, `DueServed`,
`BlocksFollow` and `ConflictReported`. They rest on fairness and so on `ENABLED`,
which the installed provers do not treat. `MissedOnlyIfAbsent` is model-checked too:
without overlap its proof says no more than the job's lookup does. All properties are checked by TLC as well,
on instances where their hypotheses hold.

## 7. Not modelled

`PROJECT.json` lists every part with its reason. The modules cover about one
percent of the repository's lines, and the rest is mostly of other kinds: the
client's pages and types (more than half of all lines), seeds and templates,
DTOs and controllers without state, single-row CRUD and read-only aggregation
(settings, leads, reports, dashboards), access control, calls to outside services
(Twilio, speech and language models), file storage and PDF rendering. Parts with
a protocol of their own that are still missing are in the plan.

## 8. Plan

Done: `TimeClock` with `Attendance`, `ProjectInvoice`, `RecurringExpense`,
`DueDates`, `CalendarSync`, `Appointment`, `Quote`, and the proofs of section 6.
Next, in this order:

1. Proofs: weaker hypotheses where a theorem asks for `Serial` and only some pairs
   of operations are in its way; daily rules of `DueDates` on any host.
2. `Timesheet`: session edits and disputes (`clock-session-edit.service.ts`,
   `time-dispute.service.ts`) over session rows like `TimeClock`'s: a dispute
   approved while another edit is in flight, minutes recomputed from stale breaks,
   a restart between the edit and the decision.
3. `TaskGraph`: task dependencies; two requests that together close a cycle.
4. `CallQuota`: the voice minutes quota checked at the start of a call and
   charged at its end; webhooks delivered twice or out of order.
5. Receipts and their OCR job.
