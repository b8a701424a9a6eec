--------------------------- MODULE RecurringExpense ---------------------------
(***************************************************************************)
(* Recurring expense rules: the requests that edit a rule, the nightly     *)
(* scheduler, the queue recurring-expense-generation and the worker that   *)
(* generates a financial entry for a rule that is due.                     *)
(*                                                                         *)
(* A handler or a job reads the rule, decides on what it read and writes   *)
(* in a later step, by id and without looking at the row again.  Dates are *)
(* day numbers.  The schedule of a rule is "every interval days"; module   *)
(* DueDates has the other frequencies.  Refused requests are no steps.     *)
(***************************************************************************)
EXTENDS Integers, FiniteSetsExt, TLC

CONSTANTS
  Rules,       \* identities of recurring_expense_rule rows
  Entries,     \* identities of financial_entry rows generated from rules
  Jobs,        \* identities of queue jobs, used again once a job is done
  Requests,    \* slots for HTTP requests in flight
  Workers,     \* the queue's workers: one, of concurrency 1, in the one process
  Null,        \* the database NULL; a field that a request does not give
  Ops,         \* the operations a run may start
  Faults,      \* subset of {"error", "crash"}
  Serial,      \* TRUE: a handler or job starts only when no other is in flight
  Intervals, Limits, Ends,   \* inputs: interval, recurrence_count, end_date
  Edits,       \* bodies of update requests; clear names the fields given as null
  MaxActive,   \* active rules per tenant (100 in the code)
  Attempts,    \* attempts of a job (3 in the code)
  MaxDay,      \* bound: the last day
  MaxDue,      \* bound: operations that move a due date begin up to this one
  MaxFaults    \* bound: failing calls and restarts

Slots == Requests \cup Workers

ASSUME RowsAssumption ==
  /\ Null \notin Rules \cup Entries \cup Jobs \cup Int
  /\ Requests \cap Workers = {}
  /\ \A v, w \in Workers : v = w
ASSUME InputsAssumption ==
  /\ Intervals \subseteq Nat \ {0}
  /\ Limits \subseteq (Nat \ {0}) \cup {Null}
  /\ Ends \subseteq Nat \cup {Null}
  /\ Edits \subseteq [interval : (Nat \ {0}) \cup {Null}, amount : BOOLEAN, due : Nat \cup {Null},
                      limit : (Nat \ {0}) \cup {Null}, end : Nat \cup {Null},
                      clear : SUBSET {"limit", "end"}]
  /\ Serial \in BOOLEAN
  /\ {MaxActive, Attempts, MaxDay, MaxDue, MaxFaults} \subseteq Nat

VARIABLES
  rules,    \* table recurring_expense_rule
  entries,  \* the rows of financial_entry with a recurring_rule_id
  jobs,     \* the queue
  todo,     \* rules the running scheduler still has to enqueue
  night,    \* the cron of 02:00 has not fired yet today
  today,
  pc,       \* where each slot is
  loc,      \* the local variables of each slot
  faults,   \* failures so far
  skips,    \* history: occurrences skipped, per rule
  since     \* history: the day a rule was created or last resumed, or the due date set

vars == <<rules, entries, jobs, todo, night, today, pc, loc, faults, skips, since>>

NoRule   == [status |-> "none", due |-> 0, count |-> 0, limit |-> Null, end |-> Null,
             interval |-> 1, start |-> 0]
NoEntry  == [rule |-> Null, date |-> 0, due |-> 0, manual |-> FALSE]
NoJob    == [state |-> "none", rule |-> Null, manual |-> FALSE, failures |-> 0, stalled |-> FALSE]
NoEdit   == [interval |-> Null, amount |-> FALSE, due |-> Null, limit |-> Null, end |-> Null,
             clear |-> {}]
NoLocals == [rule |-> Null, row |-> NoRule, day |-> 0, dto |-> NoEdit, job |-> Null]

Init ==
  /\ rules = [r \in Rules |-> NoRule]
  /\ entries = [e \in Entries |-> NoEntry]
  /\ jobs = [j \in Jobs |-> NoJob]
  /\ todo = {}
  /\ night = TRUE
  /\ today = 0
  /\ pc = [w \in Slots |-> "idle"]
  /\ loc = [w \in Slots |-> NoLocals]
  /\ faults = 0
  /\ skips = [r \in Rules |-> 0]
  /\ since = [r \in Rules |-> 0]

-----------------------------------------------------------------------------
(* Rows, dates and slots *)

Final == {"cancelled", "completed"}
RuleExists(r) == rules[r].status # "none"
ActiveRules == {r \in Rules : rules[r].status = "active"}
IsEntry(e) == entries[e].rule # Null
EntriesOf(r) == {e \in Entries : entries[e].rule = r}

NextDue(interval, due) == due + interval

(* The first date on the schedule that is not before the given day.        *)
AdvanceTo(interval, due, day) ==
  Min({d \in {due + k * interval : k \in 0..day} : d >= day})

(* BR-7, after a generation and after a skip.                              *)
Terminated(row, due, count) ==
  \/ row.end # Null /\ due > row.end
  \/ row.limit # Null /\ count >= row.limit

Free(w) ==
  /\ pc[w] = "idle"
  /\ Serial => \A v \in Slots : pc[v] = "idle"

Begin(w, op) == w \in Requests /\ op \in Ops /\ Free(w)

Goto(w, label, locals) ==
  /\ pc' = [pc EXCEPT ![w] = label]
  /\ loc' = [loc EXCEPT ![w] = locals]

Finish(w) == Goto(w, "idle", NoLocals)

Clock == <<todo, night, today, faults>>
History == <<skips, since>>
Tables == <<rules, entries, jobs>>

(* A request reads rule r and the clock, and goes on with what it read.    *)
ReadRule(w, r, label, dto) ==
  /\ Goto(w, label, [NoLocals EXCEPT !.rule = r, !.row = rules[r], !.day = today, !.dto = dto])
  /\ UNCHANGED <<Tables, Clock, History>>

(* The last step of a request: new columns of its rule.                    *)
WriteRule(w, row) ==
  /\ rules' = [rules EXCEPT ![loc[w].rule] = row]
  /\ Finish(w)
  /\ UNCHANGED <<entries, jobs, Clock>>

-----------------------------------------------------------------------------
(* Requests *)

(* create counts the active rules first; other lookups come in between.    *)
CreateCount(w) ==
  /\ Begin(w, "create")
  /\ Cardinality(ActiveRules) < MaxActive
  /\ Goto(w, "create_write", NoLocals)
  /\ UNCHANGED <<Tables, Clock, History>>

CreateWrite(w, r, start, end, limit, interval) ==
  /\ pc[w] = "create_write"
  /\ ~RuleExists(r)
  /\ start >= today
  /\ end # Null => end > start
  /\ rules' = [rules EXCEPT ![r] = [status |-> "active", due |-> start, count |-> 0,
       limit |-> limit, end |-> end, interval |-> interval, start |-> start]]
  /\ since' = [since EXCEPT ![r] = today]
  /\ Finish(w)
  /\ UNCHANGED <<entries, jobs, Clock, skips>>

(* Bound: a rule is begun only while an unused row is left for it.         *)
RuleRowLeft ==
  Cardinality({r \in Rules : ~RuleExists(r)}) > Cardinality({w \in Requests : pc[w] = "create_write"})

UpdateRead(w, r, dto) ==
  /\ Begin(w, "update")
  /\ rules[r].status \in {"active", "paused"}
  /\ dto.end # Null => dto.end > rules[r].start
  /\ rules[r].due <= MaxDue /\ rules[r].count <= MaxDue
  /\ ReadRule(w, r, "update_write", dto)

(* An explicit due date comes first; an amount counts as a schedule change.*)
NewDue(l) ==
  LET interval == IF l.dto.interval # Null THEN l.dto.interval ELSE l.row.interval
  IN AdvanceTo(interval, NextDue(interval, l.row.due), l.day)

UpdateWrite(w) ==
  /\ pc[w] = "update_write"
  /\ LET l == loc[w]
         Given(value, old) == IF value # Null THEN value ELSE old
     IN WriteRule(w, [rules[l.rule] EXCEPT
          !.interval = Given(l.dto.interval, @),
          !.limit = IF "limit" \in l.dto.clear THEN Null ELSE Given(l.dto.limit, @),
          !.end = IF "end" \in l.dto.clear THEN Null ELSE Given(l.dto.end, @),
          !.due = IF l.dto.due # Null THEN l.dto.due
                  ELSE IF l.dto.interval # Null \/ l.dto.amount THEN NewDue(l) ELSE @])
  /\ since' = [since EXCEPT ![loc[w].rule] = IF loc[w].dto.due # Null THEN loc[w].dto.due ELSE @]
  /\ UNCHANGED skips

MutCancelRead(w, r) ==
  /\ Begin(w, "cancel")
  /\ rules[r].status \notin {"none", "cancelled"}
  /\ ReadRule(w, r, "cancel_write", NoEdit)

CancelRead(w, r) ==
  /\ Begin(w, "cancel")
  /\ rules[r].status \in {"active", "paused"}
  /\ ReadRule(w, r, "cancel_write", NoEdit)

CancelWrite(w) ==
  /\ pc[w] = "cancel_write"
  /\ WriteRule(w, [rules[loc[w].rule] EXCEPT !.status = "cancelled"])
  /\ UNCHANGED History

PauseRead(w, r) ==
  /\ Begin(w, "pause")
  /\ rules[r].status = "active"
  /\ ReadRule(w, r, "pause_write", NoEdit)

PauseWrite(w) ==
  /\ pc[w] = "pause_write"
  /\ WriteRule(w, [rules[loc[w].rule] EXCEPT !.status = "paused"])
  /\ UNCHANGED History

ResumeRead(w, r) ==
  /\ Begin(w, "resume")
  /\ rules[r].status = "paused"
  /\ ReadRule(w, r, "resume_write", NoEdit)

MutResumeWrite(w) ==
  /\ pc[w] = "resume_write"
  /\ LET l == loc[w] IN
       /\ WriteRule(w, [rules[l.rule] EXCEPT !.status = "active", !.due = l.row.due])
       /\ since' = [since EXCEPT ![l.rule] = l.day]
  /\ UNCHANGED skips

ResumeWrite(w) ==
  /\ pc[w] = "resume_write"
  /\ LET l == loc[w] IN
       /\ WriteRule(w, [rules[l.rule] EXCEPT !.status = "active",
            !.due = IF l.row.due < l.day THEN AdvanceTo(l.row.interval, l.row.due, l.day)
                    ELSE l.row.due])
       /\ since' = [since EXCEPT ![l.rule] = l.day]
  /\ UNCHANGED skips

SkipRead(w, r) ==
  /\ Begin(w, "skip")
  /\ rules[r].status = "active"
  /\ rules[r].due <= MaxDue
  /\ ReadRule(w, r, "skip_write", NoEdit)

(* The columns that processRule and skipNext write, all from the row read. *)
Moved(l, now) ==
  LET due == NextDue(l.row.interval, l.row.due)
      count == l.row.count + 1
  IN [now EXCEPT !.due = due, !.count = count,
        !.status = IF Terminated(l.row, due, count) THEN "completed" ELSE l.row.status]

MutSkipWrite(w) ==
  /\ pc[w] = "skip_write"
  /\ LET l == loc[w] IN
       /\ WriteRule(w, [rules[l.rule] EXCEPT !.due = NextDue(l.row.interval, l.row.due)])
       /\ skips' = [skips EXCEPT ![l.rule] = @ + 1]
  /\ UNCHANGED since

SkipWrite(w) ==
  /\ pc[w] = "skip_write"
  /\ LET l == loc[w] IN
       /\ WriteRule(w, Moved(l, rules[l.rule]))
       /\ skips' = [skips EXCEPT ![l.rule] = @ + 1]
  /\ UNCHANGED since

(* Bound: a job is added only while an identity is left for it.            *)
JobIdLeft ==
  Cardinality({j \in Jobs : jobs[j].state = "none"}) > Cardinality({w \in Requests : pc[w] = "trigger_add"})

TriggerRead(w, r) ==
  /\ Begin(w, "trigger")
  /\ JobIdLeft
  /\ rules[r].status \in {"active", "paused"}
  /\ rules[r].due <= MaxDue
  /\ ReadRule(w, r, "trigger_add", NoEdit)

(* queue.add: a waiting job.                                               *)
Add(r, manual) ==
  \E j \in Jobs :
    /\ jobs[j].state = "none"
    /\ jobs' = [jobs EXCEPT ![j] = [NoJob EXCEPT !.state = "waiting", !.rule = r, !.manual = manual]]

TriggerAdd(w) ==
  /\ pc[w] = "trigger_add"
  /\ Add(loc[w].rule, TRUE)
  /\ Finish(w)
  /\ UNCHANGED <<rules, entries, Clock, History>>

-----------------------------------------------------------------------------
(* The scheduler *)

MutDueRules == {r \in ActiveRules : rules[r].due = today}

DueRules == {r \in ActiveRules : rules[r].due <= today}

(* 02:00: the list of due rules; a run still going on makes this one skip. *)
ScheduleList ==
  /\ night
  /\ night' = FALSE
  /\ todo' = IF todo = {} THEN DueRules ELSE todo
  /\ UNCHANGED <<Tables, today, faults, pc, loc, History>>

ScheduleAdd ==
  /\ JobIdLeft
  /\ \E r \in todo : Add(r, FALSE) /\ todo' = todo \ {r}
  /\ UNCHANGED <<rules, entries, night, today, faults, pc, loc, History>>

-----------------------------------------------------------------------------
(* The worker *)

Drop(j) == jobs' = [jobs EXCEPT ![j] = NoJob]

MutJobRead(w, j) ==
  /\ w \in Workers /\ Free(w)
  /\ jobs[j].state = "waiting"
  /\ \E e \in Entries : ~IsEntry(e)
  /\ rules[jobs[j].rule].status = "active"
  /\ Goto(w, "job_lookup", [NoLocals EXCEPT !.rule = jobs[j].rule, !.row = rules[jobs[j].rule], !.job = j])
  /\ UNCHANGED <<Tables, Clock, History>>

(* processRule reads the rule; one that is not active, or not due and not  *)
(* triggered by hand, ends the job.  Bound: a row is left for the entry.   *)
JobRead(w, j) ==
  /\ w \in Workers /\ Free(w)
  /\ jobs[j].state = "waiting"
  /\ \E e \in Entries : ~IsEntry(e)
  /\ LET row == rules[jobs[j].rule] IN
       \/ /\ row.status = "active" /\ (row.due <= today \/ jobs[j].manual)
          /\ jobs' = [jobs EXCEPT ![j].state = "active"]
          /\ Goto(w, "job_lookup", [NoLocals EXCEPT !.rule = jobs[j].rule, !.row = row, !.day = today, !.job = j])
       \/ /\ row.status # "active" \/ (row.due > today /\ ~jobs[j].manual)
          /\ Drop(j)
          /\ UNCHANGED <<pc, loc>>
  /\ UNCHANGED <<rules, entries, Clock, History>>

MutJobLookup(w) ==
  /\ pc[w] = "job_lookup"
  /\ Goto(w, "job_commit", loc[w])
  /\ UNCHANGED <<jobs, rules, entries, Clock, History>>

(* BR-11: an entry of the rule on its due date makes this one a duplicate. *)
JobLookup(w) ==
  /\ pc[w] = "job_lookup"
  /\ LET found == \E e \in EntriesOf(loc[w].rule) : entries[e].date = loc[w].row.due IN
       \/ found /\ Drop(loc[w].job) /\ Finish(w)
       \/ ~found /\ Goto(w, "job_commit", loc[w]) /\ UNCHANGED jobs
  /\ UNCHANGED <<rules, entries, Clock, History>>

MutJobCommit(w) ==
  /\ pc[w] = "job_commit"
  /\ LET l == loc[w]
         manual == jobs[l.job].manual
     IN /\ \E e \in Entries :
             /\ ~IsEntry(e)
             /\ entries' = [entries EXCEPT ![e] = [rule |-> l.rule, due |-> l.row.due,
                  date |-> IF manual THEN today ELSE l.row.due, manual |-> manual]]
        /\ rules' = [rules EXCEPT ![l.rule] = [Moved(l, @) EXCEPT !.status = l.row.status]]
  /\ Goto(w, "job_ack", loc[w])
  /\ UNCHANGED <<jobs, Clock, History>>

(* The transaction: the entry, dated today when triggered by hand, and the *)
(* rule, from the row as it was read.                                      *)
JobCommit(w) ==
  /\ pc[w] = "job_commit"
  /\ LET l == loc[w]
         manual == jobs[l.job].manual
     IN /\ \E e \in Entries :
             /\ ~IsEntry(e)
             /\ entries' = [entries EXCEPT ![e] = [rule |-> l.rule, due |-> l.row.due,
                  date |-> IF manual THEN today ELSE l.row.due, manual |-> manual]]
        /\ rules' = [rules EXCEPT ![l.rule] = Moved(l, @)]
  /\ Goto(w, "job_ack", loc[w])
  /\ UNCHANGED <<jobs, Clock, History>>

(* The processor returns and the queue is told: a restart before that has  *)
(* the job run again.                                                      *)
JobAck(w) ==
  /\ pc[w] = "job_ack"
  /\ Drop(loc[w].job)
  /\ Finish(w)
  /\ UNCHANGED <<rules, entries, Clock, History>>

-----------------------------------------------------------------------------
(* Failures and time *)

Fault(kind) == kind \in Faults /\ faults < MaxFaults /\ faults' = faults + 1

(* A call of a request fails: the request ends and has written nothing.    *)
RequestError(w) ==
  /\ Fault("error")
  /\ w \in Requests /\ pc[w] # "idle"
  /\ Finish(w)
  /\ UNCHANGED <<Tables, todo, night, today, History>>

Retried(job) == [job EXCEPT !.state = "waiting", !.failures = job.failures + 1]

(* A call of a job fails: the queue tries again, but on the last attempt   *)
(* the processor swallows the error and the job is done.                   *)
JobError(w) ==
  /\ Fault("error")
  /\ w \in Workers /\ pc[w] \in {"job_lookup", "job_commit"}
  /\ LET j == loc[w].job IN
       jobs' = IF jobs[j].failures >= Attempts - 1 THEN [jobs EXCEPT ![j] = NoJob]
               ELSE [jobs EXCEPT ![j] = Retried(jobs[j])]
  /\ Finish(w)
  /\ UNCHANGED <<rules, entries, todo, night, today, History>>

(* The scheduler's query fails, or one of its adds: the error is logged.   *)
ScheduleError ==
  /\ Fault("error")
  /\ \/ night /\ todo = {} /\ night' = FALSE /\ UNCHANGED todo
     \/ \E r \in todo : todo' = todo \ {r} /\ UNCHANGED night
  /\ UNCHANGED <<Tables, today, pc, loc, History>>

(* The process restarts, perhaps too late for the cron.  The queue finds   *)
(* the active job stalled: it waits again, but only once.                  *)
Crash ==
  /\ Fault("crash")
  /\ pc' = [w \in Slots |-> "idle"]
  /\ loc' = [w \in Slots |-> NoLocals]
  /\ todo' = {}
  /\ night' \in {night, FALSE}
  /\ jobs' = [j \in Jobs |->
       IF jobs[j].state # "active" THEN jobs[j]
       ELSE IF jobs[j].stalled THEN NoJob
       ELSE [jobs[j] EXCEPT !.state = "waiting", !.stalled = TRUE]]
  /\ UNCHANGED <<rules, entries, today, History>>

(* Midnight.  Bound: after the last day the nights go on, the date stays.  *)
Tick ==
  /\ ~night
  /\ night' = TRUE
  /\ today' = IF today < MaxDay THEN today + 1 ELSE today
  /\ UNCHANGED <<Tables, todo, faults, pc, loc, History>>

-----------------------------------------------------------------------------
(* The system *)

Arrive(w) ==
  \/ RuleRowLeft /\ CreateCount(w)
  \/ \E r \in Rules :
       \/ \E dto \in Edits : UpdateRead(w, r, dto)
       \/ CancelRead(w, r) \/ PauseRead(w, r) \/ ResumeRead(w, r)
       \/ SkipRead(w, r) \/ TriggerRead(w, r)

RequestStep(w) ==
  \/ \E r \in Rules, start \in today..MaxDay, end \in Ends, limit \in Limits, interval \in Intervals :
       CreateWrite(w, r, start, end, limit, interval)
  \/ UpdateWrite(w) \/ CancelWrite(w) \/ PauseWrite(w) \/ ResumeWrite(w)
  \/ SkipWrite(w) \/ TriggerAdd(w)

WorkerStep(w) == (\E j \in Jobs : JobRead(w, j)) \/ JobLookup(w) \/ JobCommit(w) \/ JobAck(w)

Next ==
  \/ \E w \in Requests : Arrive(w) \/ RequestStep(w) \/ RequestError(w)
  \/ \E w \in Workers : WorkerStep(w) \/ JobError(w)
  \/ ScheduleList \/ ScheduleAdd \/ ScheduleError
  \/ Crash
  \/ Tick

Spec == Init /\ [][Next]_vars

(* The nights come, the cron fires, the scheduler and the requests go on,  *)
(* and the worker gets its turn.                                           *)
Fairness ==
  /\ WF_vars(Tick) /\ WF_vars(ScheduleList) /\ WF_vars(ScheduleAdd)
  /\ \A w \in Requests : WF_vars(RequestStep(w))
  /\ \A w \in Workers : SF_vars(WorkerStep(w))

FairSpec == Spec /\ Fairness

-----------------------------------------------------------------------------
(* Type correctness *)

Statuses == {"none", "active", "paused", "cancelled", "completed"}
RuleRows == [status : Statuses, due : Nat, count : Nat, limit : Nat \cup {Null},
             end : Nat \cup {Null}, interval : Nat \ {0}, start : Nat]
EntryRows == [rule : Rules \cup {Null}, date : Nat, due : Nat, manual : BOOLEAN]
JobRows == [state : {"none", "waiting", "active"}, rule : Rules \cup {Null}, manual : BOOLEAN,
            failures : Nat, stalled : BOOLEAN]
Locals == [rule : Rules \cup {Null}, row : RuleRows, day : Nat, dto : Edits \cup {NoEdit},
           job : Jobs \cup {Null}]
JobLabels == {"job_lookup", "job_commit", "job_ack"}
RuleLabels == {"update_write", "cancel_write", "pause_write", "resume_write", "skip_write", "trigger_add"}

Labels == {"idle", "create_write"} \cup RuleLabels \cup JobLabels

(* A slot holds the rule that its next step writes, and a worker at work   *)
(* the job that the queue has as active.                                   *)
SlotOK(w) ==
  /\ pc[w] \in RuleLabels \cup JobLabels => loc[w].rule # Null /\ loc[w].row.status # "none"
  /\ pc[w] \in JobLabels => /\ w \in Workers
                            /\ loc[w].job # Null
                            /\ jobs[loc[w].job].state = "active"
                            /\ jobs[loc[w].job].rule = loc[w].rule

(* Every table has rows of its type, a job in the queue has a rule, and    *)
(* every slot holds what its next step reads.                              *)
TypeOK ==
  /\ rules \in [Rules -> RuleRows]
  /\ entries \in [Entries -> EntryRows]
  /\ jobs \in [Jobs -> JobRows]
  /\ \A j \in Jobs : jobs[j].state # "none" => jobs[j].rule # Null
  /\ todo \subseteq Rules /\ night \in BOOLEAN /\ today \in Nat /\ faults \in Nat
  /\ pc \in [Slots -> Labels]
  /\ loc \in [Slots -> Locals]
  /\ \A w \in Slots : SlotOK(w)
  /\ skips \in [Rules -> Nat]
  /\ since \in [Rules -> Nat]

-----------------------------------------------------------------------------
(* What holds however requests and the job overlap *)

(* BR-11 for scheduled entries: no rule ever gets two of them for the same *)
(* date, whatever due date a stale request writes back under the job.      *)
ScheduledOnce ==
  \A e, f \in Entries :
    /\ IsEntry(e) /\ IsEntry(f) /\ entries[e].rule = entries[f].rule
    /\ ~entries[e].manual /\ ~entries[f].manual
    /\ entries[e].date = entries[f].date
    => e = f

-----------------------------------------------------------------------------
(* What holds when they do not *)

(* BR-6, BR-9: occurrences_generated counts the entries and the skips.     *)
OccurrencesCounted ==
  \A r \in Rules : rules[r].count = Cardinality(EntriesOf(r)) + skips[r]

(* Sprint F-06, rule 4: a cancelled or completed rule is not reactivated.  *)
FinalStaysFinal ==
  [][\A r \in Rules : rules[r].status \in Final => rules'[r].status = rules[r].status]_vars

(* BR-3: no entry is generated for a date from before the rule was created *)
(* or resumed, or before the due date somebody set it to.                  *)
NoBackfill ==
  [][\A e \in Entries : ~IsEntry(e) /\ IsEntry(e)'
       => entries'[e].due >= since[entries'[e].rule]]_vars

(* BR-7: a rule generates no entry beyond its recurrence_count, skipped    *)
(* occurrences included, and none for a date after its end_date.           *)
WithinTerms ==
  [][\A e \in Entries : ~IsEntry(e) /\ IsEntry(e)' =>
       LET r == entries'[e].rule IN
         /\ rules[r].limit # Null => Cardinality(EntriesOf(r)) + skips[r] < rules[r].limit
         /\ rules[r].end # Null => entries'[e].due <= rules[r].end]_vars

(* An active rule that is due gets an entry of that date or moves on: the  *)
(* scheduler comes back every night until then.  (A date that has an entry *)
(* already, made by hand or before the due date was set back, stops it.)   *)
DueServed ==
  \A r \in Rules, d \in 0..MaxDay :
    (rules[r].status = "active" /\ rules[r].due = d /\ d <= today)
      ~> \/ rules[r].status # "active"
         \/ rules[r].due # d
         \/ \E e \in EntriesOf(r) : entries[e].date = d
=============================================================================
