------------------------ MODULE RecurringExpenseProofs ------------------------
(***************************************************************************)
(* Recurring rules for any number of rules, requests, jobs and failures.   *)
(* With due dates that requests write under the worker: no rule gets two   *)
(* scheduled entries for one date.  With requests and jobs that do not     *)
(* overlap: occurrences are counted, a final status stays, nothing is      *)
(* backfilled, and a rule keeps to its terms.                              *)
(***************************************************************************)
EXTENDS RecurringExpense, WellFoundedInduction, FiniteSetTheorems, TLAPS

-----------------------------------------------------------------------------
(* Dates *)

(* A non-empty set of naturals has a minimum, and Min finds it.            *)
LEMMA MinOfNaturals ==
  ASSUME NEW S, S \subseteq Nat, S # {}
  PROVE  Min(S) \in S
<1>1. \E x \in S : \A y \in S : ~(<<y, x>> \in OpToRel(<, Nat))
  BY NatLessThanWellFounded, WFMin
<1>2. PICK x \in S : \A y \in S : ~(<<y, x>> \in OpToRel(<, Nat))
  BY <1>1
<1>3. ASSUME NEW y \in S PROVE x <= y
  <2>1. x \in Nat /\ y \in Nat
    OBVIOUS
  <2>2. ~(y < x)
    BY <1>2, <2>1 DEF OpToRel
  <2>3. QED
    BY <2>1, <2>2
<1>4. QED
  BY <1>3 DEF Min

(* resume and update always find a date: advancing a rule day by day       *)
(* reaches the given one, and it never goes back.                          *)
LEMMA AdvanceToReaches ==
  ASSUME NEW interval \in Nat \ {0}, NEW due \in Nat, NEW day \in Nat
  PROVE  /\ AdvanceTo(interval, due, day) \in Nat
         /\ AdvanceTo(interval, due, day) >= day
         /\ AdvanceTo(interval, due, day) >= due
<1> DEFINE S == {d \in {due + k * interval : k \in 0..day} : d >= day}
<1>1. ASSUME NEW k \in Nat PROVE k * interval \in Nat /\ k * interval >= k
  OBVIOUS
<1>2. S \subseteq Nat
  BY <1>1
<1>3. due + day * interval \in S
  BY <1>1
<1>4. Min(S) \in S
  BY <1>2, <1>3, MinOfNaturals
<1>5. \A d \in S : d >= due /\ d >= day
  BY <1>1
<1>6. QED
  BY <1>2, <1>4, <1>5 DEF AdvanceTo

-----------------------------------------------------------------------------
(* Type correctness *)

(* The initial tables and slots are well typed.                            *)
LEMMA TypeInit == Init => TypeOK
<1> SUFFICES ASSUME Init PROVE TypeOK
  OBVIOUS
<1>1. NoRule \in RuleRows /\ NoEntry \in EntryRows /\ NoJob \in JobRows
  BY DEF NoRule, NoEntry, NoJob, RuleRows, EntryRows, JobRows, Statuses
<1>2. NoLocals \in Locals
  BY <1>1 DEF NoLocals, Locals
<1>3. NoJob.state = "none" /\ "idle" \in Labels /\ "idle" \notin RuleLabels \cup JobLabels
  BY DEF NoJob, Labels, RuleLabels, JobLabels
<1>4. QED
  BY <1>1, <1>2, <1>3 DEF Init, TypeOK, SlotOK

(* A slot that moves keeps the slots well typed when its new locals fit    *)
(* its new label and no other worker loses its job.                        *)
LEMMA GotoType ==
  ASSUME TypeOK, NEW w \in Slots, NEW label \in Labels, NEW locals \in Locals, Goto(w, label, locals),
         label \in RuleLabels \cup JobLabels => locals.rule # Null /\ locals.row.status # "none",
         label \in JobLabels => /\ w \in Workers
                                /\ locals.job # Null
                                /\ jobs'[locals.job].state = "active"
                                /\ jobs'[locals.job].rule = locals.rule,
         \A v \in Workers \ {w} : pc[v] \in JobLabels => jobs'[loc[v].job] = jobs[loc[v].job]
  PROVE  pc' \in [Slots -> Labels] /\ loc' \in [Slots -> Locals] /\ \A v \in Slots : SlotOK(v)'
<1>1. pc' = [pc EXCEPT ![w] = label] /\ loc' = [loc EXCEPT ![w] = locals]
  BY DEF Goto
<1>2. pc' \in [Slots -> Labels] /\ loc' \in [Slots -> Locals]
  BY <1>1 DEF TypeOK
<1>3. ASSUME NEW v \in Slots PROVE SlotOK(v)'
  <2>1. CASE v = w
    BY <1>1, <2>1 DEF TypeOK, SlotOK
  <2>2. CASE v # w
    <3>1. pc'[v] = pc[v] /\ loc'[v] = loc[v] /\ SlotOK(v)
      BY <1>1, <2>2 DEF TypeOK
    <3>2. QED
      BY <2>2, <3>1 DEF SlotOK
  <2>3. QED
    BY <2>1, <2>2
<1>4. QED
  BY <1>2, <1>3

(* A handler that ends leaves the slots well typed.                        *)
LEMMA FinishType ==
  ASSUME TypeOK, NEW w \in Slots, Finish(w),
         \A v \in Workers \ {w} : pc[v] \in JobLabels => jobs'[loc[v].job] = jobs[loc[v].job]
  PROVE  pc' \in [Slots -> Labels] /\ loc' \in [Slots -> Locals] /\ \A v \in Slots : SlotOK(v)'
<1>1. NoLocals \in Locals
  BY DEF NoLocals, NoRule, Locals, RuleRows, Statuses
<1>2. "idle" \in Labels /\ "idle" \notin RuleLabels \cup JobLabels
  BY DEF Labels, RuleLabels, JobLabels
<1>3. QED
  BY <1>1, <1>2, GotoType DEF Finish

(* Requests that arrive.                                                   *)
LEMMA ArriveType ==
  ASSUME TypeOK, NEW w \in Requests, Arrive(w)
  PROVE  TypeOK'
<1>1. w \in Slots
  BY DEF Slots
<1>2. ASSUME NEW locals \in Locals, NEW label \in {"create_write"} \cup RuleLabels,
             Goto(w, label, locals), UNCHANGED <<Tables, Clock, History>>,
             label \in RuleLabels => locals.rule # Null /\ locals.row.status # "none"
      PROVE  TypeOK'
  <2>1. label \in Labels /\ label \notin JobLabels /\ (label \in RuleLabels \/ label = "create_write")
    BY DEF Labels, RuleLabels, JobLabels
  <2>2. "create_write" \notin RuleLabels \cup JobLabels
    BY DEF RuleLabels, JobLabels
  <2>3. jobs' = jobs
    BY <1>2 DEF Tables
  <2>4. pc' \in [Slots -> Labels] /\ loc' \in [Slots -> Locals] /\ \A v \in Slots : SlotOK(v)'
    BY <1>1, <1>2, <2>1, <2>2, <2>3, GotoType
  <2>5. QED
    BY <1>2, <2>4 DEF TypeOK, Tables, Clock, History
<1>3. ASSUME NEW r \in Rules, NEW dto \in Edits \cup {NoEdit}, NEW label \in RuleLabels,
             rules[r].status # "none", ReadRule(w, r, label, dto)
      PROVE  TypeOK'
  <2> DEFINE locals == [NoLocals EXCEPT !.rule = r, !.row = rules[r], !.day = today, !.dto = dto]
  <2>1. locals \in Locals
    BY DEF NoLocals, Locals, TypeOK
  <2>2. locals.rule # Null /\ locals.row.status # "none"
    BY <1>3, RowsAssumption DEF NoLocals
  <2>3. Goto(w, label, locals) /\ UNCHANGED <<Tables, Clock, History>>
    BY <1>3 DEF ReadRule
  <2> HIDE DEF locals
  <2>4. QED
    BY <1>2, <2>1, <2>2, <2>3
<1>4. ASSUME CreateCount(w) PROVE TypeOK'
  <2>1. NoLocals \in Locals /\ "create_write" \notin RuleLabels
    BY DEF NoLocals, NoRule, Locals, RuleRows, Statuses, RuleLabels
  <2>2. QED
    BY <1>2, <1>4, <2>1 DEF CreateCount
<1>5. ASSUME NEW r \in Rules, NEW dto \in Edits, UpdateRead(w, r, dto) PROVE TypeOK'
  BY <1>3, <1>5 DEF UpdateRead, RuleLabels
<1>6. ASSUME NEW r \in Rules,
             CancelRead(w, r) \/ PauseRead(w, r) \/ ResumeRead(w, r) \/ SkipRead(w, r) \/ TriggerRead(w, r)
      PROVE  TypeOK'
  <2>1. rules[r].status # "none" /\ \E label \in RuleLabels : ReadRule(w, r, label, NoEdit)
    BY <1>6 DEF CancelRead, PauseRead, ResumeRead, SkipRead, TriggerRead, RuleLabels
  <2>2. QED
    BY <1>3, <2>1
<1>7. QED
  BY <1>4, <1>5, <1>6 DEF Arrive

(* The columns that a skip or a generation writes are well typed.          *)
LEMMA MovedType ==
  ASSUME NEW l \in Locals, NEW now \in RuleRows
  PROVE  Moved(l, now) \in RuleRows
<1> DEFINE due == NextDue(l.row.interval, l.row.due)
           count == l.row.count + 1
           status == IF Terminated(l.row, due, count) THEN "completed" ELSE l.row.status
<1>1. due \in Nat /\ count \in Nat /\ l.row.status \in Statuses
  BY DEF NextDue, Locals, RuleRows
<1>2. status \in Statuses
  BY <1>1 DEF Statuses
<1>3. Moved(l, now) = [now EXCEPT !.due = due, !.count = count, !.status = status]
  BY DEF Moved
<1> HIDE DEF due, count, status
<1>4. QED
  BY <1>1, <1>2, <1>3 DEF RuleRows

(* Steps of requests in flight.                                            *)
LEMMA RequestType ==
  ASSUME TypeOK, NEW w \in Requests, RequestStep(w) \/ RequestError(w)
  PROVE  TypeOK'
<1> DEFINE l == loc[w]
<1>1. w \in Slots /\ l \in Locals /\ w \notin Workers
  BY RowsAssumption DEF Slots, TypeOK
<1>2. ASSUME Finish(w), jobs' = jobs, entries' = entries, rules' \in [Rules -> RuleRows],
             UNCHANGED <<todo, night, today>>, faults' \in Nat, skips' \in [Rules -> Nat], since' \in [Rules -> Nat]
      PROVE  TypeOK'
  <2>1. pc' \in [Slots -> Labels] /\ loc' \in [Slots -> Locals] /\ \A v \in Slots : SlotOK(v)'
    BY <1>1, <1>2, FinishType
  <2>2. QED
    BY <1>2, <2>1 DEF TypeOK
<1>3. ASSUME pc[w] \in RuleLabels
      PROVE  l.rule \in Rules /\ rules[l.rule] \in RuleRows /\ l.row \in RuleRows /\ l.day \in Nat
             /\ l.dto \in Edits \cup {NoEdit}
  BY <1>1, <1>3 DEF TypeOK, SlotOK, Locals
<1>4. ASSUME pc[w] \in RuleLabels, NEW row \in RuleRows, WriteRule(w, row),
             skips' \in [Rules -> Nat], since' \in [Rules -> Nat]
      PROVE  TypeOK'
  <2>1. rules' \in [Rules -> RuleRows]
    BY <1>4 DEF WriteRule, TypeOK
  <2>2. QED
    BY <1>2, <1>4, <2>1 DEF WriteRule, Clock, TypeOK
<1>5. skips \in [Rules -> Nat] /\ since \in [Rules -> Nat]
  BY DEF TypeOK
<1>6. ASSUME NEW r \in Rules, NEW start \in today..MaxDay, NEW end \in Ends, NEW limit \in Limits,
             NEW interval \in Intervals, CreateWrite(w, r, start, end, limit, interval)
      PROVE  TypeOK'
  <2> DEFINE row == [status |-> "active", due |-> start, count |-> 0, limit |-> limit, end |-> end,
                     interval |-> interval, start |-> start]
  <2>1. start \in Nat /\ end \in Nat \cup {Null} /\ limit \in Nat \cup {Null} /\ interval \in Nat \ {0}
    BY InputsAssumption DEF TypeOK
  <2>2. row \in RuleRows
    BY <2>1 DEF RuleRows, Statuses
  <2>3. rules' = [rules EXCEPT ![r] = row] /\ since' = [since EXCEPT ![r] = today]
    BY <1>6 DEF CreateWrite
  <2> HIDE DEF row
  <2>4. rules' \in [Rules -> RuleRows] /\ since' \in [Rules -> Nat]
    BY <2>2, <2>3 DEF TypeOK
  <2>5. QED
    BY <1>2, <1>5, <1>6, <2>4 DEF CreateWrite, Clock, TypeOK
<1>7. ASSUME UpdateWrite(w) PROVE TypeOK'
  <2>0. pc[w] \in RuleLabels
    BY <1>7 DEF UpdateWrite, RuleLabels
  <2>1. l.rule \in Rules /\ rules[l.rule] \in RuleRows /\ l.row \in RuleRows /\ l.day \in Nat
    BY <1>3, <2>0
  <2>2. /\ l.dto.interval \in (Nat \ {0}) \cup {Null} /\ l.dto.limit \in Nat \cup {Null}
        /\ l.dto.end \in Nat \cup {Null} /\ l.dto.due \in Nat \cup {Null}
    BY <1>3, <2>0, InputsAssumption DEF NoEdit
  <2>3. /\ rules[l.rule].interval \in Nat \ {0} /\ rules[l.rule].limit \in Nat \cup {Null}
        /\ rules[l.rule].end \in Nat \cup {Null} /\ rules[l.rule].due \in Nat
    BY <2>1 DEF RuleRows
  <2>4. NewDue(l) \in Nat
    <3> DEFINE interval == IF l.dto.interval # Null THEN l.dto.interval ELSE l.row.interval
    <3>1. interval \in Nat \ {0} /\ l.row.due \in Nat
      BY <2>1, <2>2 DEF RuleRows
    <3>2. NextDue(interval, l.row.due) \in Nat
      BY <3>1 DEF NextDue
    <3>3. NewDue(l) = AdvanceTo(interval, NextDue(interval, l.row.due), l.day)
      BY DEF NewDue
    <3> HIDE DEF interval
    <3>4. QED
      BY <2>1, <3>1, <3>2, <3>3, AdvanceToReaches
  <2> DEFINE interval == IF l.dto.interval # Null THEN l.dto.interval ELSE rules[l.rule].interval
             limit == IF "limit" \in l.dto.clear THEN Null
                      ELSE IF l.dto.limit # Null THEN l.dto.limit ELSE rules[l.rule].limit
             end == IF "end" \in l.dto.clear THEN Null
                    ELSE IF l.dto.end # Null THEN l.dto.end ELSE rules[l.rule].end
             due == IF l.dto.due # Null THEN l.dto.due
                    ELSE IF l.dto.interval # Null \/ l.dto.amount THEN NewDue(l) ELSE rules[l.rule].due
             row == [rules[l.rule] EXCEPT !.interval = interval, !.limit = limit, !.end = end, !.due = due]
  <2>5. interval \in Nat \ {0} /\ limit \in Nat \cup {Null} /\ end \in Nat \cup {Null} /\ due \in Nat
    BY <2>2, <2>3, <2>4
  <2>6. WriteRule(w, row)
    BY <1>7 DEF UpdateWrite
  <2> HIDE DEF interval, limit, end, due
  <2>7. row \in RuleRows
    BY <2>1, <2>5 DEF RuleRows
  <2> HIDE DEF row
  <2>8. since' \in [Rules -> Nat]
    BY <1>7, <2>1, <2>2 DEF UpdateWrite, TypeOK
  <2>9. QED
    BY <1>4, <1>5, <1>7, <2>0, <2>6, <2>7, <2>8 DEF UpdateWrite
<1>8. ASSUME CancelWrite(w) \/ PauseWrite(w) PROVE TypeOK'
  <2>1. pc[w] \in RuleLabels
    BY <1>8 DEF CancelWrite, PauseWrite, RuleLabels
  <2>2. PICK status \in {"cancelled", "paused"} : WriteRule(w, [rules[l.rule] EXCEPT !.status = status])
    BY <1>8 DEF CancelWrite, PauseWrite
  <2>3. [rules[l.rule] EXCEPT !.status = status] \in RuleRows
    BY <1>3, <2>1 DEF RuleRows, Statuses
  <2>4. QED
    BY <1>4, <1>5, <1>8, <2>1, <2>2, <2>3 DEF CancelWrite, PauseWrite, History
<1>9. ASSUME ResumeWrite(w) PROVE TypeOK'
  <2>1. pc[w] \in RuleLabels
    BY <1>9 DEF ResumeWrite, RuleLabels
  <2>2. l.row.interval \in Nat \ {0} /\ l.row.due \in Nat /\ l.day \in Nat
    BY <1>3, <2>1 DEF RuleRows
  <2>3. AdvanceTo(l.row.interval, l.row.due, l.day) \in Nat
    BY <2>2, AdvanceToReaches
  <2>4. PICK due \in Nat : WriteRule(w, [rules[l.rule] EXCEPT !.status = "active", !.due = due])
    BY <1>9, <2>2, <2>3 DEF ResumeWrite
  <2>5. [rules[l.rule] EXCEPT !.status = "active", !.due = due] \in RuleRows
    BY <1>3, <2>1 DEF RuleRows, Statuses
  <2>6. since' \in [Rules -> Nat] /\ skips' = skips
    BY <1>3, <1>5, <1>9, <2>1 DEF ResumeWrite
  <2>7. QED
    BY <1>4, <1>5, <2>1, <2>4, <2>5, <2>6
<1>10. ASSUME SkipWrite(w) PROVE TypeOK'
  <2>1. pc[w] \in RuleLabels
    BY <1>10 DEF SkipWrite, RuleLabels
  <2>2. Moved(l, rules[l.rule]) \in RuleRows
    BY <1>1, <1>3, <2>1, MovedType
  <2>3. skips' \in [Rules -> Nat] /\ since' = since
    BY <1>3, <1>5, <1>10, <2>1 DEF SkipWrite
  <2>4. WriteRule(w, Moved(l, rules[l.rule]))
    BY <1>10 DEF SkipWrite
  <2>5. QED
    BY <1>4, <1>5, <2>1, <2>2, <2>3, <2>4
<1>11. ASSUME TriggerAdd(w) PROVE TypeOK'
  <2>1. l.rule \in Rules
    BY <1>3, <1>11 DEF TriggerAdd, RuleLabels
  <2>2. PICK j \in Jobs : /\ jobs[j].state = "none"
                          /\ jobs' = [jobs EXCEPT ![j] = [NoJob EXCEPT !.state = "waiting", !.rule = l.rule, !.manual = TRUE]]
    BY <1>11 DEF TriggerAdd, Add
  <2>3. jobs' \in [Jobs -> JobRows] /\ \A i \in Jobs : jobs'[i].state # "none" => jobs'[i].rule # Null
    BY <2>1, <2>2, RowsAssumption DEF TypeOK, NoJob, JobRows
  <2>4. ASSUME NEW v \in Workers, pc[v] \in JobLabels PROVE jobs'[loc[v].job] = jobs[loc[v].job]
    BY <2>2, <2>4 DEF TypeOK, SlotOK, Slots, Locals
  <2>5. pc' \in [Slots -> Labels] /\ loc' \in [Slots -> Locals] /\ \A v \in Slots : SlotOK(v)'
    BY <1>1, <1>11, <2>4, FinishType DEF TriggerAdd
  <2>6. QED
    BY <1>11, <2>3, <2>5 DEF TypeOK, TriggerAdd, Clock, History
<1>12. ASSUME RequestError(w) PROVE TypeOK'
  BY <1>2, <1>12 DEF RequestError, Fault, Tables, History, TypeOK
<1>13. QED
  BY <1>6, <1>7, <1>8, <1>9, <1>10, <1>11, <1>12 DEF RequestStep

(* Steps of the worker.                                                    *)
LEMMA WorkerType ==
  ASSUME TypeOK, NEW w \in Workers, WorkerStep(w) \/ JobError(w)
  PROVE  TypeOK'
<1> DEFINE l == loc[w]
<1>1. w \in Slots /\ l \in Locals /\ Workers \ {w} = {}
  BY RowsAssumption DEF Slots, TypeOK
<1>2. NoJob \in JobRows /\ NoJob.state = "none"
  BY DEF NoJob, JobRows
<1>3. ASSUME pc[w] \in JobLabels
      PROVE  /\ l.rule \in Rules /\ rules[l.rule] \in RuleRows /\ l.row \in RuleRows
             /\ l.row.status # "none" /\ l.job \in Jobs
             /\ jobs[l.job].state = "active" /\ jobs[l.job].rule = l.rule
  BY <1>1, <1>3 DEF TypeOK, SlotOK, Locals
<1>4. ASSUME NEW label \in {"idle"} \cup JobLabels, NEW locals \in Locals, Goto(w, label, locals),
             rules' \in [Rules -> RuleRows], entries' \in [Entries -> EntryRows], jobs' \in [Jobs -> JobRows],
             \A j \in Jobs : jobs'[j].state # "none" => jobs'[j].rule # Null,
             label \in JobLabels => /\ locals.rule # Null /\ locals.row.status # "none" /\ locals.job # Null
                                    /\ jobs'[locals.job].state = "active"
                                    /\ jobs'[locals.job].rule = locals.rule,
             UNCHANGED <<todo, night, today, History>>, faults' \in Nat
      PROVE  TypeOK'
  <2>1. label \in Labels /\ label \notin RuleLabels
    BY DEF Labels, RuleLabels, JobLabels
  <2>2. pc' \in [Slots -> Labels] /\ loc' \in [Slots -> Locals] /\ \A v \in Slots : SlotOK(v)'
    BY <1>1, <1>4, <2>1, GotoType
  <2>3. QED
    BY <1>4, <2>2 DEF TypeOK, History
<1>5. NoLocals \in Locals /\ "idle" \notin JobLabels
  BY DEF NoLocals, NoRule, Locals, RuleRows, Statuses, JobLabels
<1>6. ASSUME NEW j \in Jobs, JobRead(w, j) PROVE TypeOK'
  <2> DEFINE row == rules[jobs[j].rule]
             locals == [NoLocals EXCEPT !.rule = jobs[j].rule, !.row = row, !.day = today, !.job = j]
  <2>1. jobs[j].rule \in Rules /\ row \in RuleRows /\ j # Null /\ jobs[j].rule # Null
    BY <1>6, RowsAssumption DEF TypeOK, JobRead, JobRows
  <2>2. CASE row.status = "active" /\ jobs' = [jobs EXCEPT ![j].state = "active"] /\ Goto(w, "job_lookup", locals)
    <3>1. locals \in Locals
      BY <2>1 DEF NoLocals, Locals, TypeOK
    <3>2. locals.rule = jobs[j].rule /\ locals.row = row /\ locals.job = j
      BY DEF NoLocals
    <3>3. /\ jobs' \in [Jobs -> JobRows]
          /\ \A i \in Jobs : jobs'[i].state # "none" => jobs'[i].rule # Null
          /\ jobs'[j].state = "active" /\ jobs'[j].rule = jobs[j].rule
      BY <2>1, <2>2 DEF TypeOK, JobRows
    <3>4. "job_lookup" \in JobLabels
      BY DEF JobLabels
    <3>5. UNCHANGED <<rules, entries, Clock, History>>
      BY <1>6 DEF JobRead
    <3>6. row.status # "none"
      BY <2>2
    <3>7. Goto(w, "job_lookup", locals)
      BY <2>2
    <3> HIDE DEF locals, row
    <3>8. QED
      BY <1>4, <2>1, <3>1, <3>2, <3>3, <3>4, <3>5, <3>6, <3>7 DEF TypeOK, Clock
  <2>3. CASE Drop(j) /\ UNCHANGED <<pc, loc>> /\ jobs[j].state = "waiting"
    <3>1. jobs' \in [Jobs -> JobRows] /\ \A i \in Jobs : jobs'[i].state # "none" => jobs'[i].rule # Null
      BY <1>2, <2>3 DEF TypeOK, Drop
    <3>2. ASSUME NEW v \in Slots PROVE SlotOK(v)'
      <4>1. pc[v] \in JobLabels => loc[v].job \in Jobs /\ loc[v].job # j
        BY <2>3 DEF TypeOK, SlotOK, Locals
      <4>2. pc[v] \in JobLabels => jobs'[loc[v].job] = jobs[loc[v].job]
        BY <2>3, <4>1 DEF Drop, TypeOK
      <4>3. QED
        BY <2>3, <4>2 DEF TypeOK, SlotOK
    <3>3. QED
      BY <1>6, <2>3, <3>1, <3>2 DEF JobRead, TypeOK, Clock, History
  <2>4. QED
    BY <1>6, <2>2, <2>3 DEF JobRead
<1>7. ASSUME pc[w] \in JobLabels, Drop(l.job), Finish(w), UNCHANGED <<rules, entries, Clock, History>>
      PROVE  TypeOK'
  <2>1. jobs' \in [Jobs -> JobRows] /\ \A i \in Jobs : jobs'[i].state # "none" => jobs'[i].rule # Null
    BY <1>2, <1>7 DEF TypeOK, Drop
  <2>2. QED
    BY <1>4, <1>5, <1>7, <2>1 DEF Finish, TypeOK, Clock
<1>8. ASSUME JobLookup(w) PROVE TypeOK'
  <2>1. pc[w] \in JobLabels /\ "job_commit" \in JobLabels
    BY <1>8 DEF JobLookup, JobLabels
  <2>2. UNCHANGED <<rules, entries, Clock, History>>
    BY <1>8 DEF JobLookup
  <2>3. CASE Drop(l.job) /\ Finish(w)
    BY <1>7, <2>1, <2>2, <2>3
  <2>4. CASE Goto(w, "job_commit", l) /\ UNCHANGED jobs
    BY <1>1, <1>3, <1>4, <2>1, <2>2, <2>4, RowsAssumption DEF TypeOK, Clock
  <2>5. QED
    BY <1>8, <2>3, <2>4 DEF JobLookup
<1>9. ASSUME JobCommit(w) PROVE TypeOK'
  <2>1. pc[w] \in JobLabels /\ "job_ack" \in JobLabels
    BY <1>9 DEF JobCommit, JobLabels
  <2>2. rules' \in [Rules -> RuleRows]
    <3>1. Moved(l, rules[l.rule]) \in RuleRows
      BY <1>1, <1>3, <2>1, MovedType
    <3>2. rules' = [rules EXCEPT ![l.rule] = Moved(l, rules[l.rule])]
      BY <1>9 DEF JobCommit
    <3>3. QED
      BY <3>1, <3>2 DEF TypeOK
  <2>3. entries' \in [Entries -> EntryRows]
    <3> DEFINE new == [rule |-> l.rule, due |-> l.row.due,
                       date |-> IF jobs[l.job].manual THEN today ELSE l.row.due, manual |-> jobs[l.job].manual]
    <3>1. l.row.due \in Nat /\ today \in Nat /\ jobs[l.job].manual \in BOOLEAN
      BY <1>3, <2>1 DEF TypeOK, RuleRows, JobRows
    <3>2. new \in EntryRows
      BY <1>3, <2>1, <3>1 DEF EntryRows
    <3>3. \E e \in Entries : entries' = [entries EXCEPT ![e] = new]
      BY <1>9 DEF JobCommit
    <3> HIDE DEF new
    <3>4. QED
      BY <3>2, <3>3 DEF TypeOK
  <2>4. jobs' = jobs /\ UNCHANGED <<Clock, History>> /\ Goto(w, "job_ack", l)
    BY <1>9 DEF JobCommit
  <2>5. QED
    BY <1>1, <1>3, <1>4, <2>1, <2>2, <2>3, <2>4, RowsAssumption DEF TypeOK, Clock
<1>10. ASSUME JobAck(w) PROVE TypeOK'
  BY <1>7, <1>10 DEF JobAck, JobLabels
<1>11. ASSUME JobError(w) PROVE TypeOK'
  <2>1. pc[w] \in JobLabels
    BY <1>11 DEF JobError, JobLabels
  <2>2. l.job \in Jobs /\ jobs[l.job] \in JobRows
    BY <1>3, <2>1 DEF TypeOK
  <2>3. jobs' \in [Jobs -> JobRows] /\ \A i \in Jobs : jobs'[i].state # "none" => jobs'[i].rule # Null
    <3>1. CASE jobs' = [jobs EXCEPT ![l.job] = NoJob]
      BY <1>2, <3>1 DEF TypeOK
    <3>2. CASE jobs' = [jobs EXCEPT ![l.job] = Retried(jobs[l.job])]
      <4>1. jobs[l.job].failures + 1 \in Nat
        BY <2>2 DEF JobRows
      <4>2. Retried(jobs[l.job]) \in JobRows /\ Retried(jobs[l.job]).rule = jobs[l.job].rule
        BY <2>2, <4>1 DEF Retried, JobRows
      <4>3. jobs[l.job].rule # Null
        BY <1>3, <2>1, RowsAssumption
      <4>4. QED
        BY <2>2, <3>2, <4>2, <4>3 DEF TypeOK
    <3>3. QED
      BY <1>11, <3>1, <3>2 DEF JobError
  <2>4. faults' \in Nat /\ Goto(w, "idle", NoLocals) /\ UNCHANGED <<rules, entries, todo, night, today, History>>
    BY <1>11 DEF JobError, Fault, Finish, TypeOK
  <2>5. QED
    BY <1>4, <1>5, <2>3, <2>4 DEF TypeOK
<1>12. QED
  BY <1>6, <1>8, <1>9, <1>10, <1>11 DEF WorkerStep

(* The scheduler, restarts and the clock.                                  *)
LEMMA NightType ==
  ASSUME TypeOK, ScheduleList \/ ScheduleAdd \/ ScheduleError \/ Crash \/ Tick
  PROVE  TypeOK'
<1>1. ASSUME UNCHANGED <<Tables, pc, loc, History>>, todo' \subseteq Rules, night' \in BOOLEAN,
             today' \in Nat, faults' \in Nat
      PROVE  TypeOK'
  <2>1. \A v \in Slots : SlotOK(v)'
    BY <1>1 DEF TypeOK, SlotOK, Tables
  <2>2. QED
    BY <1>1, <2>1 DEF TypeOK, Tables, History
<1>2. CASE ScheduleList
  BY <1>1, <1>2 DEF ScheduleList, DueRules, ActiveRules, TypeOK
<1>3. CASE ScheduleError
  <2>1. UNCHANGED <<Tables, today, pc, loc, History>> /\ todo' \subseteq Rules /\ night' \in BOOLEAN
    BY <1>3 DEF ScheduleError, TypeOK
  <2>2. faults' \in Nat
    BY <1>3 DEF ScheduleError, Fault, TypeOK
  <2>3. QED
    BY <1>1, <2>1, <2>2 DEF TypeOK
<1>4. CASE Tick
  BY <1>1, <1>4 DEF Tick, TypeOK
<1>5. CASE ScheduleAdd
  <2>1. PICK r \in Rules, j \in Jobs :
          /\ jobs[j].state = "none"
          /\ jobs' = [jobs EXCEPT ![j] = [NoJob EXCEPT !.state = "waiting", !.rule = r, !.manual = FALSE]]
          /\ todo' = todo \ {r}
    BY <1>5 DEF ScheduleAdd, Add, TypeOK
  <2>2. jobs' \in [Jobs -> JobRows] /\ \A i \in Jobs : jobs'[i].state # "none" => jobs'[i].rule # Null
    BY <2>1, RowsAssumption DEF TypeOK, NoJob, JobRows
  <2>3. ASSUME NEW v \in Slots PROVE SlotOK(v)'
    <3>1. pc[v] \in JobLabels => jobs'[loc[v].job] = jobs[loc[v].job]
      BY <2>1 DEF TypeOK, SlotOK, Locals
    <3>2. QED
      BY <1>5, <3>1 DEF TypeOK, SlotOK, ScheduleAdd
  <2>4. QED
    BY <1>5, <2>1, <2>2, <2>3 DEF TypeOK, ScheduleAdd, History
<1>6. CASE Crash
  <2>1. NoLocals \in Locals /\ NoJob \in JobRows /\ NoJob.state = "none"
    BY DEF NoLocals, NoRule, NoJob, Locals, RuleRows, JobRows, Statuses
  <2>2. "idle" \in Labels /\ "idle" \notin RuleLabels \cup JobLabels
    BY DEF Labels, RuleLabels, JobLabels
  <2>3. pc' \in [Slots -> Labels] /\ loc' \in [Slots -> Locals] /\ \A v \in Slots : SlotOK(v)'
    BY <1>6, <2>1, <2>2 DEF Crash, SlotOK
  <2>4. ASSUME NEW i \in Jobs
        PROVE  jobs'[i] \in JobRows /\ (jobs'[i].state # "none" => jobs'[i].rule # Null)
    <3>1. jobs[i] \in JobRows /\ (jobs[i].state # "none" => jobs[i].rule # Null)
      BY DEF TypeOK
    <3>2. CASE jobs[i].state # "active"
      BY <1>6, <3>1, <3>2 DEF Crash
    <3>3. CASE jobs[i].state = "active" /\ jobs[i].stalled
      BY <1>6, <2>1, <3>3 DEF Crash
    <3>4. CASE jobs[i].state = "active" /\ ~jobs[i].stalled
      BY <1>6, <3>1, <3>4 DEF Crash, JobRows
    <3>5. QED
      BY <3>2, <3>3, <3>4
  <2>5. jobs' \in [Jobs -> JobRows]
    BY <1>6, <2>4 DEF Crash
  <2>6. night' \in BOOLEAN
    BY <1>6 DEF TypeOK, Crash
  <2>7. faults' = faults + 1 /\ todo' = {}
    BY <1>6 DEF Crash, Fault
  <2>8. UNCHANGED <<rules, entries, today, skips, since>>
    BY <1>6 DEF Crash, History
  <2>9. QED
    BY <2>3, <2>4, <2>5, <2>6, <2>7, <2>8 DEF TypeOK
<1>7. QED
  BY <1>2, <1>3, <1>4, <1>5, <1>6

(* The tables and slots of the recurring expenses are well typed in every  *)
(* reachable state; in particular a job never goes on without its rule and *)
(* the worker never without its job.                                       *)
THEOREM RecurringTypeCorrect == Spec => []TypeOK
<1>1. TypeOK /\ [Next]_vars => TypeOK'
  <2> SUFFICES ASSUME TypeOK, [Next]_vars PROVE TypeOK'
    OBVIOUS
  <2>1. CASE UNCHANGED vars
    BY <2>1 DEF TypeOK, SlotOK, vars
  <2>2. CASE Next
    BY <2>2, ArriveType, RequestType, WorkerType, NightType DEF Next
  <2>3. QED
    BY <2>1, <2>2
<1>2. QED
  BY <1>1, TypeInit, PTL DEF Spec

-----------------------------------------------------------------------------
(* One scheduled entry per date *)

(* A worker between its lookup and its commit: the rule has no entry on    *)
(* the due date that the worker read.                                      *)
LookupHolds ==
  \A w \in Workers : pc[w] = "job_commit" =>
    \A e \in EntriesOf(loc[w].rule) : entries[e].date # loc[w].row.due

OnceInv == ScheduledOnce /\ LookupHolds

(* Steps that generate no entry and bring no worker to its commit.         *)
LEMMA OnceFrame ==
  ASSUME OnceInv, entries' = entries,
         \A w \in Workers : pc'[w] = "job_commit" => pc[w] = "job_commit" /\ loc'[w] = loc[w]
  PROVE  OnceInv'
<1>1. ScheduledOnce'
  BY DEF OnceInv, ScheduledOnce, IsEntry
<1>2. LookupHolds'
  BY DEF OnceInv, LookupHolds, EntriesOf
<1>3. QED
  BY <1>1, <1>2 DEF OnceInv

(* A slot that moves to another label than the commit leaves the commits   *)
(* of the workers alone.                                                   *)
LEMMA OnceGoto ==
  ASSUME TypeOK, OnceInv, entries' = entries, NEW w \in Slots, NEW label, NEW locals,
         Goto(w, label, locals), label # "job_commit"
  PROVE  OnceInv'
<1>1. pc' = [pc EXCEPT ![w] = label] /\ loc' = [loc EXCEPT ![w] = locals]
  BY DEF Goto
<1>2. ASSUME NEW v \in Workers, pc'[v] = "job_commit" PROVE pc[v] = "job_commit" /\ loc'[v] = loc[v]
  BY <1>1, <1>2 DEF TypeOK, Slots
<1>3. QED
  BY <1>2, OnceFrame

(* The lookup finds no entry of the rule on its due date.                  *)
LEMMA OnceLookup ==
  ASSUME TypeOK, OnceInv, NEW w \in Workers, JobLookup(w)
  PROVE  OnceInv'
<1>1. w \in Slots /\ entries' = entries
  BY DEF JobLookup, Slots
<1>2. CASE Finish(w)
  BY <1>1, <1>2, OnceGoto DEF Finish
<1>3. CASE /\ \A e \in EntriesOf(loc[w].rule) : entries[e].date # loc[w].row.due
           /\ Goto(w, "job_commit", loc[w])
  <2>1. ScheduledOnce'
    BY <1>1 DEF OnceInv, ScheduledOnce, IsEntry
  <2>2. loc' = loc /\ EntriesOf(loc[w].rule)' = EntriesOf(loc[w].rule)
    BY <1>1, <1>3 DEF Goto, TypeOK, EntriesOf
  <2>3. ASSUME NEW v \in Workers PROVE v = w
    BY RowsAssumption
  <2>4. LookupHolds'
    BY <1>1, <1>3, <2>2, <2>3 DEF LookupHolds, EntriesOf
  <2>5. QED
    BY <2>1, <2>4 DEF OnceInv
<1>4. QED
  BY <1>2, <1>3 DEF JobLookup

(* The commit adds the one entry of the rule on that date.                 *)
LEMMA OnceCommit ==
  ASSUME TypeOK, OnceInv, NEW w \in Workers, JobCommit(w)
  PROVE  OnceInv'
<1> DEFINE l == loc[w]
           new == [rule |-> l.rule, due |-> l.row.due,
                   date |-> IF jobs[l.job].manual THEN today ELSE l.row.due, manual |-> jobs[l.job].manual]
<1>1. PICK n \in Entries : ~IsEntry(n) /\ entries' = [entries EXCEPT ![n] = new]
  BY DEF JobCommit
<1>2. new.rule = l.rule /\ new.manual = jobs[l.job].manual /\ (~new.manual => new.date = l.row.due)
  OBVIOUS
<1>3. \A e \in Entries : entries[e].rule = l.rule => entries[e].date # l.row.due
  BY DEF JobCommit, OnceInv, LookupHolds, EntriesOf
<1> HIDE DEF new
<1>4. entries'[n] = new /\ \A e \in Entries \ {n} : entries'[e] = entries[e]
  BY <1>1 DEF TypeOK
<1>5. ScheduledOnce'
  <2> SUFFICES ASSUME NEW e \in Entries, NEW f \in Entries, e # f,
                      entries'[e].rule # Null, entries'[e].rule = entries'[f].rule,
                      ~entries'[e].manual, ~entries'[f].manual
               PROVE  entries'[e].date # entries'[f].date
    BY DEF ScheduledOnce, IsEntry
  <2>1. CASE e = n
    <3>1. entries'[f] = entries[f] /\ entries[f].rule = l.rule /\ entries'[e].date = l.row.due
      BY <1>2, <1>4, <2>1
    <3>2. QED
      BY <1>3, <3>1
  <2>2. CASE f = n
    <3>1. entries'[e] = entries[e] /\ entries[e].rule = l.rule /\ entries'[f].date = l.row.due
      BY <1>2, <1>4, <2>2
    <3>2. QED
      BY <1>3, <3>1
  <2>3. CASE e # n /\ f # n
    <3>1. entries'[e] = entries[e] /\ entries'[f] = entries[f]
      BY <1>4, <2>3
    <3>2. QED
      BY <3>1 DEF OnceInv, ScheduledOnce, IsEntry
  <2>4. QED
    BY <2>1, <2>2, <2>3
<1>6. LookupHolds'
  <2>1. ASSUME NEW v \in Workers PROVE pc'[v] = "job_ack"
    BY RowsAssumption DEF JobCommit, Goto, TypeOK, Slots
  <2>2. QED
    BY <2>1 DEF LookupHolds
<1>7. QED
  BY <1>5, <1>6 DEF OnceInv

(* No rule ever gets two scheduled entries for one date (processRule's     *)
(* duplicate check), whatever due dates requests write under the job,      *)
(* however often the queue delivers it, and wherever it fails or the       *)
(* process restarts.                                                       *)
THEOREM ScheduledEntriesOnce == Spec => []ScheduledOnce
<1>1. Init => OnceInv
  BY DEF Init, OnceInv, ScheduledOnce, LookupHolds, IsEntry, NoEntry, Slots
<1>2. TypeOK /\ OnceInv /\ [Next]_vars => OnceInv'
  <2> SUFFICES ASSUME TypeOK, OnceInv, [Next]_vars PROVE OnceInv'
    OBVIOUS
  <2>1. Requests \subseteq Slots /\ Workers \subseteq Slots
    BY DEF Slots
  <2>2. ASSUME UNCHANGED <<entries, pc, loc>> PROVE OnceInv'
    BY <2>2, OnceFrame
  <2>3. CASE UNCHANGED vars
    BY <2>2, <2>3 DEF vars
  <2>4. ASSUME NEW w \in Requests, Arrive(w) PROVE OnceInv'
    <3>1. /\ entries' = entries
          /\ \E label \in {"create_write"} \cup RuleLabels : \E locals : Goto(w, label, locals)
      BY <2>4 DEF Arrive, CreateCount, UpdateRead, CancelRead, PauseRead, ResumeRead, SkipRead,
         TriggerRead, ReadRule, Tables, RuleLabels
    <3>2. "job_commit" \notin {"create_write"} \cup RuleLabels
      BY DEF RuleLabels
    <3>3. QED
      BY <2>1, <3>1, <3>2, OnceGoto
  <2>5. ASSUME NEW w \in Requests, RequestStep(w) \/ RequestError(w) PROVE OnceInv'
    <3>1. entries' = entries /\ Goto(w, "idle", NoLocals)
      BY <2>5 DEF RequestStep, RequestError, CreateWrite, UpdateWrite, CancelWrite, PauseWrite,
         ResumeWrite, SkipWrite, TriggerAdd, WriteRule, Finish, Tables
    <3>2. QED
      BY <2>1, <3>1, OnceGoto
  <2>6. ASSUME NEW w \in Workers, WorkerStep(w) \/ JobError(w) PROVE OnceInv'
    <3>1. ASSUME NEW j \in Jobs, JobRead(w, j) PROVE OnceInv'
      <4>1. entries' = entries
        BY <3>1 DEF JobRead
      <4>2. CASE \E locals : Goto(w, "job_lookup", locals)
        BY <2>1, <4>1, <4>2, OnceGoto
      <4>3. CASE UNCHANGED <<pc, loc>>
        BY <2>2, <4>1, <4>3
      <4>4. QED
        BY <3>1, <4>2, <4>3 DEF JobRead
    <3>2. CASE JobAck(w) \/ JobError(w)
      BY <2>1, <3>2, OnceGoto DEF JobAck, JobError, Finish
    <3>3. QED
      BY <2>6, <3>1, <3>2, OnceLookup, OnceCommit DEF WorkerStep
  <2>7. CASE ScheduleList \/ ScheduleAdd \/ ScheduleError \/ Tick
    BY <2>2, <2>7 DEF ScheduleList, ScheduleAdd, ScheduleError, Tick, Tables
  <2>8. CASE Crash
    <3>1. entries' = entries /\ \A w \in Workers : pc'[w] = "idle"
      BY <2>1, <2>8 DEF Crash
    <3>2. QED
      BY <3>1, OnceFrame
  <2>9. QED
    BY <2>3, <2>4, <2>5, <2>6, <2>7, <2>8 DEF Next
<1>3. OnceInv => ScheduledOnce
  BY DEF OnceInv
<1>4. QED
  BY <1>1, <1>2, <1>3, RecurringTypeCorrect, PTL DEF Spec

-----------------------------------------------------------------------------
(* Requests and jobs one at a time *)

(* One request or job is in flight, and the rule it read is still so.      *)
Alone == \A v \in Slots, w \in Slots : pc[v] # "idle" /\ pc[w] # "idle" => v = w

Fresh(w) ==
  /\ pc[w] \in RuleLabels \cup {"job_lookup", "job_commit"} =>
       loc[w].row = rules[loc[w].rule] /\ loc[w].row.status \in {"active", "paused"}
  /\ pc[w] \in {"skip_write", "job_lookup", "job_commit"} => loc[w].row.status = "active"
  /\ pc[w] = "update_write" => "update" \in Ops
  /\ pc[w] = "resume_write" => "resume" \in Ops

(* A rule counts its entries and skips, and is due from the day on that it *)
(* was created, resumed or set to.                                         *)
RuleGood(r) ==
  /\ IsFiniteSet(EntriesOf(r))
  /\ rules[r].count = Cardinality(EntriesOf(r)) + skips[r]
  /\ ~RuleExists(r) => rules[r].count = 0
  /\ RuleExists(r) => rules[r].due >= since[r]

(* A rule that can still generate is within its terms.  (update can lower  *)
(* the limit to what was reached, resume can advance a rule past its end.) *)
InTerms(row) ==
  row.status \in {"active", "paused"} =>
    /\ row.limit # Null => row.count < row.limit
    /\ row.end # Null => row.due <= row.end

TermsHold == {"update", "resume"} \cap Ops = {}

RulesGood == \A r \in Rules : RuleGood(r) /\ (TermsHold => InTerms(rules[r]))

SerialInv == Alone /\ (\A w \in Slots : Fresh(w)) /\ RulesGood

(* A slot that moves while the others are idle is still the only one in    *)
(* flight, and only its own reading is to be checked.                      *)
LEMMA GotoAlone ==
  ASSUME TypeOK, NEW w \in Slots, NEW label, NEW locals, Goto(w, label, locals),
         \A v \in Slots : v # w => pc[v] = "idle"
  PROVE  /\ Alone'
         /\ pc'[w] = label /\ loc'[w] = locals
         /\ \A v \in Slots : v # w => Fresh(v)'
<1>1. pc'[w] = label /\ loc'[w] = locals /\ \A v \in Slots : v # w => pc'[v] = "idle"
  BY DEF Goto, TypeOK
<1>2. Alone'
  BY <1>1 DEF Alone
<1>3. "idle" \notin RuleLabels \cup {"job_lookup", "job_commit"}
  BY DEF RuleLabels
<1>4. ASSUME NEW v \in Slots, v # w PROVE Fresh(v)'
  BY <1>1, <1>3, <1>4 DEF Fresh
<1>5. QED
  BY <1>1, <1>2, <1>4

(* A handler or a job that ends leaves nobody in flight.                   *)
LEMMA FinishAlone ==
  ASSUME TypeOK, NEW w \in Slots, Finish(w), \A v \in Slots : v # w => pc[v] = "idle"
  PROVE  Alone' /\ \A v \in Slots : Fresh(v)'
<1>1. /\ Alone'
      /\ pc'[w] = "idle" /\ loc'[w] = NoLocals
      /\ \A v \in Slots : v # w => Fresh(v)'
  BY GotoAlone DEF Finish
<1>2. "idle" \notin RuleLabels \cup {"job_lookup", "job_commit"}
  BY DEF RuleLabels
<1>3. Fresh(w)'
  BY <1>1, <1>2 DEF Fresh
<1>4. QED
  BY <1>1, <1>3

(* Whoever is in flight is alone, and the rule it read is still so.        *)
LEMMA InFlight ==
  ASSUME TypeOK, SerialInv, NEW w \in Slots, pc[w] # "idle"
  PROVE  /\ \A v \in Slots : v # w => pc[v] = "idle"
         /\ pc[w] \in RuleLabels \cup {"job_lookup", "job_commit"} =>
              /\ loc[w].rule \in Rules
              /\ loc[w].row = rules[loc[w].rule] /\ loc[w].row \in RuleRows
              /\ loc[w].row.status \in {"active", "paused"}
<1>1. \A v \in Slots : v # w => pc[v] = "idle"
  BY DEF SerialInv, Alone
<1>2. ASSUME pc[w] \in RuleLabels \cup {"job_lookup", "job_commit"}
      PROVE  /\ loc[w].rule \in Rules
             /\ loc[w].row = rules[loc[w].rule] /\ loc[w].row \in RuleRows
             /\ loc[w].row.status \in {"active", "paused"}
  <2>1. loc[w] \in Locals /\ SlotOK(w) /\ Fresh(w)
    BY DEF TypeOK, SerialInv
  <2>2. loc[w].rule # Null
    BY <1>2, <2>1 DEF SlotOK, JobLabels
  <2>3. loc[w].rule \in Rules /\ loc[w].row \in RuleRows
    BY <2>1, <2>2 DEF Locals
  <2>4. QED
    BY <1>2, <2>1, <2>3 DEF Fresh
<1>3. QED
  BY <1>1, <1>2

(* Steps that leave rules and entries alone keep the rules as they are.    *)
LEMMA RulesStill ==
  ASSUME RulesGood, UNCHANGED <<rules, entries, skips, since>>
  PROVE  RulesGood'
<1> SUFFICES ASSUME NEW r \in Rules PROVE RuleGood(r)' /\ (TermsHold => InTerms(rules'[r]))
  BY DEF RulesGood, TermsHold
<1>1. RuleGood(r) /\ (TermsHold => InTerms(rules[r]))
  BY DEF RulesGood
<1>2. QED
  BY <1>1 DEF RuleGood, EntriesOf, RuleExists

(* One rule gets new columns, and whatever entries and skips it counts.    *)
LEMMA RuleWritten ==
  ASSUME TypeOK, RulesGood, NEW r \in Rules, NEW row, rules' = [rules EXCEPT ![r] = row],
         \A q \in Rules : q # r => /\ EntriesOf(q)' = EntriesOf(q)
                                   /\ skips'[q] = skips[q] /\ since'[q] = since[q],
         IsFiniteSet(EntriesOf(r)'),
         row.count = Cardinality(EntriesOf(r)') + skips'[r],
         row.status # "none", row.due >= since'[r],
         TermsHold => InTerms(row)
  PROVE  RulesGood'
<1> SUFFICES ASSUME NEW q \in Rules PROVE RuleGood(q)' /\ (TermsHold => InTerms(rules'[q]))
  BY DEF RulesGood, TermsHold
<1>1. RuleGood(q) /\ (TermsHold => InTerms(rules[q]))
  BY DEF RulesGood
<1>2. CASE q = r
  <2>1. rules'[q] = row
    BY <1>2 DEF TypeOK
  <2>2. QED
    BY <1>2, <2>1 DEF RuleGood, RuleExists
<1>3. CASE q # r
  <2>1. /\ rules'[q] = rules[q] /\ EntriesOf(q)' = EntriesOf(q)
        /\ skips'[q] = skips[q] /\ since'[q] = since[q]
    BY <1>3 DEF TypeOK
  <2>2. QED
    BY <1>1, <2>1 DEF RuleGood, RuleExists
<1>4. QED
  BY <1>2, <1>3

(* What a step may never do to a rule that is cancelled or completed.      *)
FinalKept == \A r \in Rules : rules[r].status \in Final => rules'[r].status = rules[r].status

(* The first states: nobody is in flight and there are no rules.           *)
LEMMA SerialInit == Init => SerialInv
<1> SUFFICES ASSUME Init PROVE SerialInv
  OBVIOUS
<1>1. Alone /\ \A w \in Slots : Fresh(w)
  BY DEF Init, Alone, Fresh, RuleLabels
<1>2. ASSUME NEW r \in Rules PROVE RuleGood(r) /\ InTerms(rules[r])
  <2>1. EntriesOf(r) = {}
    BY RowsAssumption DEF Init, EntriesOf, NoEntry
  <2>2. rules[r] = NoRule /\ skips[r] = 0
    BY DEF Init
  <2>3. IsFiniteSet(EntriesOf(r)) /\ Cardinality(EntriesOf(r)) = 0
    BY <2>1, FS_EmptySet
  <2>4. QED
    BY <2>2, <2>3 DEF RuleGood, InTerms, RuleExists, NoRule
<1>3. QED
  BY <1>1, <1>2 DEF SerialInv, RulesGood

(* A request that arrives reads a rule that is active or paused.           *)
LEMMA SerialArrive ==
  ASSUME Serial, TypeOK, SerialInv, NEW w \in Requests, Arrive(w)
  PROVE  SerialInv' /\ FinalKept
<1>1. w \in Slots /\ \A v \in Slots : v # w => pc[v] = "idle"
  BY DEF Arrive, CreateCount, UpdateRead, CancelRead, PauseRead, ResumeRead, SkipRead, TriggerRead,
     Begin, Free, Slots
<1>2. UNCHANGED <<rules, entries, skips, since>>
  BY DEF Arrive, CreateCount, UpdateRead, CancelRead, PauseRead, ResumeRead, SkipRead, TriggerRead,
     ReadRule, Tables, History
<1>3. RulesGood' /\ FinalKept
  BY <1>2, RulesStill DEF SerialInv, FinalKept
<1>4. CASE CreateCount(w)
  <2>1. /\ Alone' /\ pc'[w] = "create_write"
        /\ \A v \in Slots : v # w => Fresh(v)'
    BY <1>1, <1>4, GotoAlone DEF CreateCount
  <2>2. "create_write" \notin RuleLabels
    BY DEF RuleLabels
  <2>3. Fresh(w)'
    BY <2>1, <2>2 DEF Fresh
  <2>4. QED
    BY <1>3, <2>1, <2>3 DEF SerialInv
<1>5. ASSUME NEW r \in Rules, NEW dto, NEW label \in RuleLabels, ReadRule(w, r, label, dto),
             rules[r].status \in {"active", "paused"},
             label = "skip_write" => rules[r].status = "active",
             label = "update_write" => "update" \in Ops,
             label = "resume_write" => "resume" \in Ops
      PROVE  SerialInv' /\ FinalKept
  <2> DEFINE locals == [NoLocals EXCEPT !.rule = r, !.row = rules[r], !.day = today, !.dto = dto]
  <2>1. Goto(w, label, locals)
    BY <1>5 DEF ReadRule
  <2>2. locals.rule = r /\ locals.row = rules[r]
    BY DEF NoLocals
  <2> HIDE DEF locals
  <2>3. /\ Alone' /\ pc'[w] = label /\ loc'[w] = locals
        /\ \A v \in Slots : v # w => Fresh(v)'
    BY <1>1, <2>1, GotoAlone
  <2>4. rules' = rules /\ label \notin {"job_lookup", "job_commit"}
    BY <1>2 DEF RuleLabels
  <2>5. Fresh(w)'
    BY <1>5, <2>2, <2>3, <2>4 DEF Fresh
  <2>6. QED
    BY <1>3, <2>3, <2>5 DEF SerialInv
<1>6. ASSUME NEW r \in Rules, NEW dto \in Edits, UpdateRead(w, r, dto) PROVE SerialInv' /\ FinalKept
  BY <1>5, <1>6 DEF UpdateRead, Begin, RuleLabels
<1>7. ASSUME NEW r \in Rules, CancelRead(w, r) \/ PauseRead(w, r) \/ TriggerRead(w, r)
      PROVE SerialInv' /\ FinalKept
  BY <1>5, <1>7 DEF CancelRead, PauseRead, TriggerRead, RuleLabels
<1>8. ASSUME NEW r \in Rules, ResumeRead(w, r) \/ SkipRead(w, r) PROVE SerialInv' /\ FinalKept
  BY <1>5, <1>8 DEF ResumeRead, SkipRead, Begin, RuleLabels
<1>9. QED
  BY <1>4, <1>6, <1>7, <1>8 DEF Arrive

(* A request writes its rule and ends.                                     *)
LEMMA WriteKeeps ==
  ASSUME TypeOK, SerialInv, NEW w \in Slots, pc[w] # "idle", NEW r \in Rules, NEW row,
         rules' = [rules EXCEPT ![r] = row], Finish(w), entries' = entries,
         rules[r].status \in Final => row.status = rules[r].status,
         \A q \in Rules : q # r => skips'[q] = skips[q] /\ since'[q] = since[q],
         row.count = Cardinality(EntriesOf(r)) + skips'[r],
         row.status # "none", row.due >= since'[r],
         TermsHold => InTerms(row)
  PROVE  SerialInv' /\ FinalKept
<1>1. Alone' /\ \A v \in Slots : Fresh(v)'
  BY FinishAlone, InFlight
<1>2. \A q \in Rules : EntriesOf(q)' = EntriesOf(q)
  BY DEF EntriesOf
<1>3. IsFiniteSet(EntriesOf(r)) /\ RulesGood
  BY DEF SerialInv, RulesGood, RuleGood
<1>4. RulesGood'
  BY <1>2, <1>3, RuleWritten
<1>5. FinalKept
  BY DEF FinalKept, TypeOK
<1>6. QED
  BY <1>1, <1>4, <1>5 DEF SerialInv

(* What the row of a skip or a generation says.                            *)
LEMMA MovedIs ==
  ASSUME NEW l \in Locals, l.row.status \in {"active", "paused"}
  PROVE  LET row == Moved(l, l.row)
         IN /\ row.due \in Nat /\ row.due >= l.row.due
            /\ row.count = l.row.count + 1
            /\ row.status # "none"
            /\ InTerms(row)
<1> DEFINE due == NextDue(l.row.interval, l.row.due)
           count == l.row.count + 1
           status == IF Terminated(l.row, due, count) THEN "completed" ELSE l.row.status
<1>0. l.row \in RuleRows
  BY DEF Locals
<1>1. /\ l.row.due \in Nat /\ l.row.count \in Nat /\ l.row.interval \in Nat \ {0}
      /\ l.row.limit \in Nat \cup {Null} /\ l.row.end \in Nat \cup {Null}
  BY <1>0 DEF RuleRows
<1>2. due \in Nat /\ due >= l.row.due /\ count \in Nat
  BY <1>1 DEF NextDue
<1>3. status # "none" /\ (status # "completed" => ~Terminated(l.row, due, count))
  OBVIOUS
<1>4. Moved(l, l.row) = [l.row EXCEPT !.due = due, !.count = count, !.status = status]
  BY DEF Moved
<1>5. /\ Moved(l, l.row).due = due /\ Moved(l, l.row).count = count /\ Moved(l, l.row).status = status
      /\ Moved(l, l.row).limit = l.row.limit /\ Moved(l, l.row).end = l.row.end
  BY <1>0, <1>4 DEF RuleRows
<1>6. count = l.row.count + 1
  OBVIOUS
<1> HIDE DEF due, count, status
<1>7. ASSUME status # "completed"
      PROVE  /\ l.row.limit # Null => count < l.row.limit
             /\ l.row.end # Null => due <= l.row.end
  BY <1>1, <1>2, <1>3, <1>7 DEF Terminated
<1>8. InTerms(Moved(l, l.row))
  BY <1>5, <1>7 DEF InTerms
<1>9. QED
  BY <1>2, <1>3, <1>5, <1>6, <1>8

(* Steps of requests in flight.                                            *)
LEMMA SerialRequest ==
  ASSUME Serial, TypeOK, SerialInv, NEW w \in Requests, RequestStep(w) \/ RequestError(w)
  PROVE  SerialInv' /\ FinalKept
<1> DEFINE l == loc[w]
           r == loc[w].rule
<1>1. w \in Slots /\ l \in Locals /\ \A q \in Rules : RuleGood(q) /\ (TermsHold => InTerms(rules[q]))
  BY DEF Slots, TypeOK, SerialInv, RulesGood
<1>2. pc[w] # "idle"
  BY DEF RequestStep, RequestError, CreateWrite, UpdateWrite, CancelWrite, PauseWrite, ResumeWrite,
     SkipWrite, TriggerAdd
<1>3. ASSUME pc[w] \in RuleLabels
      PROVE  /\ r \in Rules /\ l.row = rules[r] /\ rules[r] \in RuleRows
             /\ rules[r].status \in {"active", "paused"} /\ rules[r].status \notin Final
             /\ RuleGood(r) /\ rules[r].due >= since[r]
             /\ rules[r].count = Cardinality(EntriesOf(r)) + skips[r]
             /\ skips[r] \in Nat /\ since[r] \in Nat
             /\ (TermsHold => InTerms(rules[r]))
  <2>1. r \in Rules /\ l.row = rules[r] /\ rules[r] \in RuleRows /\ rules[r].status \in {"active", "paused"}
    BY <1>1, <1>2, <1>3, InFlight
  <2>2. rules[r].status \notin Final /\ RuleExists(r)
    BY <2>1 DEF Final, RuleExists
  <2>3. QED
    BY <1>1, <2>1, <2>2 DEF RuleGood, TypeOK
<1>4. ASSUME Finish(w), UNCHANGED <<rules, entries, skips, since>> PROVE SerialInv' /\ FinalKept
  <2>1. Alone' /\ \A v \in Slots : Fresh(v)'
    BY <1>1, <1>2, <1>4, FinishAlone, InFlight
  <2>2. RulesGood'
    BY <1>4, RulesStill DEF SerialInv
  <2>3. QED
    BY <1>4, <2>1, <2>2 DEF SerialInv, FinalKept
<1>5. ASSUME NEW q \in Rules, NEW start \in today..MaxDay, NEW end \in Ends, NEW limit \in Limits,
             NEW interval \in Intervals, CreateWrite(w, q, start, end, limit, interval)
      PROVE  SerialInv' /\ FinalKept
  <2> DEFINE row == [status |-> "active", due |-> start, count |-> 0, limit |-> limit, end |-> end,
                     interval |-> interval, start |-> start]
  <2>1. /\ rules' = [rules EXCEPT ![q] = row] /\ since' = [since EXCEPT ![q] = today]
        /\ Finish(w) /\ entries' = entries /\ skips' = skips
        /\ ~RuleExists(q) /\ (end # Null => end > start)
    BY <1>5 DEF CreateWrite
  <2>2. start \in Nat /\ start >= today /\ limit \in (Nat \ {0}) \cup {Null} /\ end \in Nat \cup {Null}
    BY InputsAssumption DEF TypeOK
  <2>3. rules[q].status \notin Final /\ row.status # "none"
    BY <2>1 DEF Final, RuleExists
  <2>4. row.count = 0 /\ rules[q].count = 0 /\ rules[q].count = Cardinality(EntriesOf(q)) + skips[q]
    BY <1>1, <2>1 DEF RuleGood
  <2>5. row.due >= since'[q] /\ \A p \in Rules : p # q => skips'[p] = skips[p] /\ since'[p] = since[p]
    BY <2>1, <2>2 DEF TypeOK
  <2>6. InTerms(row)
    BY <2>1, <2>2 DEF InTerms
  <2> HIDE DEF row
  <2>7. row.count = Cardinality(EntriesOf(q)) + skips'[q]
    BY <2>1, <2>4
  <2>8. QED
    BY <1>1, <1>2, <2>1, <2>3, <2>5, <2>6, <2>7, WriteKeeps
<1>6. ASSUME UpdateWrite(w) PROVE SerialInv' /\ FinalKept
  <2>0. pc[w] = "update_write" /\ pc[w] \in RuleLabels
    BY <1>6 DEF UpdateWrite, RuleLabels
  <2>1. ~TermsHold
    BY <1>1, <2>0 DEF SerialInv, Fresh, TermsHold
  <2>2. /\ r \in Rules /\ l.row = rules[r] /\ rules[r] \in RuleRows
        /\ rules[r].status \in {"active", "paused"} /\ rules[r].status \notin Final
        /\ rules[r].due >= since[r]
        /\ rules[r].count = Cardinality(EntriesOf(r)) + skips[r] /\ since[r] \in Nat
    BY <1>3, <2>0
  <2>3. l.dto.interval \in (Nat \ {0}) \cup {Null} /\ l.dto.due \in Nat \cup {Null} /\ l.day \in Nat
    <3>1. l.dto \in Edits \cup {NoEdit} /\ l.day \in Nat
      BY <1>1 DEF Locals
    <3>2. QED
      BY <3>1, InputsAssumption DEF NoEdit
  <2>4. NewDue(l) \in Nat /\ NewDue(l) >= rules[r].due
    <3> DEFINE interval == IF l.dto.interval # Null THEN l.dto.interval ELSE l.row.interval
    <3>1. interval \in Nat \ {0} /\ l.row.due \in Nat
      BY <2>2, <2>3 DEF RuleRows
    <3>2. NextDue(interval, l.row.due) \in Nat /\ NextDue(interval, l.row.due) >= l.row.due
      BY <3>1 DEF NextDue
    <3>3. NewDue(l) = AdvanceTo(interval, NextDue(interval, l.row.due), l.day)
      BY DEF NewDue
    <3> HIDE DEF interval
    <3>4. AdvanceTo(interval, NextDue(interval, l.row.due), l.day) >= NextDue(interval, l.row.due)
      BY <2>3, <3>1, <3>2, AdvanceToReaches
    <3>5. AdvanceTo(interval, NextDue(interval, l.row.due), l.day) \in Nat
      BY <2>3, <3>1, <3>2, AdvanceToReaches
    <3>6. QED
      BY <2>2, <3>1, <3>2, <3>3, <3>4, <3>5
  <2> DEFINE interval == IF l.dto.interval # Null THEN l.dto.interval ELSE rules[r].interval
             limit == IF "limit" \in l.dto.clear THEN Null
                      ELSE IF l.dto.limit # Null THEN l.dto.limit ELSE rules[r].limit
             end == IF "end" \in l.dto.clear THEN Null
                    ELSE IF l.dto.end # Null THEN l.dto.end ELSE rules[r].end
             due == IF l.dto.due # Null THEN l.dto.due
                    ELSE IF l.dto.interval # Null \/ l.dto.amount THEN NewDue(l) ELSE rules[r].due
             row == [rules[r] EXCEPT !.interval = interval, !.limit = limit, !.end = end, !.due = due]
  <2>5. WriteRule(w, row)
    BY <1>6 DEF UpdateWrite
  <2>6. rules' = [rules EXCEPT ![r] = row] /\ Finish(w) /\ entries' = entries /\ skips' = skips
    BY <1>6, <2>5 DEF WriteRule, UpdateWrite
  <2>7. since' = [since EXCEPT ![r] = IF l.dto.due # Null THEN l.dto.due ELSE since[r]]
    BY <1>6 DEF UpdateWrite
  <2>8. due >= since'[r] /\ \A p \in Rules : p # r => since'[p] = since[p]
    <3>1. rules[r].due \in Nat
      BY <2>2 DEF RuleRows
    <3>2. CASE l.dto.due # Null
      BY <2>2, <2>3, <2>7, <3>2 DEF TypeOK
    <3>3. CASE l.dto.due = Null
      <4>1. since'[r] = since[r] /\ due \in Nat /\ due >= rules[r].due
        BY <2>2, <2>4, <2>7, <3>1, <3>3 DEF TypeOK
      <4>2. QED
        BY <2>2, <2>7, <3>1, <4>1 DEF TypeOK
    <3>4. QED
      BY <3>2, <3>3
  <2> HIDE DEF interval, limit, end, due
  <2>9. row.status = rules[r].status /\ row.count = rules[r].count /\ row.due = due
    BY <2>2 DEF RuleRows
  <2> HIDE DEF row
  <2>10. /\ row.count = Cardinality(EntriesOf(r)) + skips'[r]
         /\ row.status # "none" /\ row.due >= since'[r]
         /\ \A p \in Rules : p # r => skips'[p] = skips[p] /\ since'[p] = since[p]
    BY <2>2, <2>6, <2>8, <2>9
  <2>11. QED
    BY <1>1, <1>2, <2>1, <2>2, <2>6, <2>10, WriteKeeps
<1>7. ASSUME CancelWrite(w) \/ PauseWrite(w) PROVE SerialInv' /\ FinalKept
  <2>0. pc[w] \in RuleLabels
    BY <1>7 DEF CancelWrite, PauseWrite, RuleLabels
  <2>1. PICK status \in {"cancelled", "paused"} : WriteRule(w, [rules[r] EXCEPT !.status = status])
    BY <1>7 DEF CancelWrite, PauseWrite
  <2>2. PICK row : row = [rules[r] EXCEPT !.status = status]
    OBVIOUS
  <2>3. /\ row.status = status /\ row.count = rules[r].count /\ row.due = rules[r].due
        /\ row.limit = rules[r].limit /\ row.end = rules[r].end
    BY <1>3, <2>0, <2>2 DEF RuleRows
  <2>4. UNCHANGED <<entries, skips, since>> /\ rules' = [rules EXCEPT ![r] = row] /\ Finish(w)
    BY <1>7, <2>1, <2>2 DEF CancelWrite, PauseWrite, WriteRule, History
  <2>5. /\ r \in Rules /\ rules[r].status \in {"active", "paused"} /\ rules[r].status \notin Final
        /\ rules[r].due >= since[r] /\ rules[r].count = Cardinality(EntriesOf(r)) + skips[r]
        /\ (TermsHold => InTerms(rules[r]))
    BY <1>3, <2>0
  <2>6. TermsHold => InTerms(row)
    BY <2>3, <2>5 DEF InTerms
  <2>7. /\ row.count = Cardinality(EntriesOf(r)) + skips'[r]
        /\ row.status # "none" /\ row.due >= since'[r]
        /\ \A p \in Rules : p # r => skips'[p] = skips[p] /\ since'[p] = since[p]
    BY <2>3, <2>4, <2>5
  <2>8. QED
    BY <1>1, <1>2, <2>4, <2>5, <2>6, <2>7, WriteKeeps
<1>8. ASSUME ResumeWrite(w) PROVE SerialInv' /\ FinalKept
  <2>0. pc[w] = "resume_write" /\ pc[w] \in RuleLabels
    BY <1>8 DEF ResumeWrite, RuleLabels
  <2>1. ~TermsHold
    BY <1>1, <2>0 DEF SerialInv, Fresh, TermsHold
  <2>2. /\ r \in Rules /\ l.row = rules[r] /\ rules[r] \in RuleRows /\ rules[r].status \notin Final
        /\ rules[r].count = Cardinality(EntriesOf(r)) + skips[r]
    BY <1>3, <2>0
  <2>3. l.row.interval \in Nat \ {0} /\ l.row.due \in Nat /\ l.day \in Nat
    BY <1>1, <2>2 DEF RuleRows, Locals
  <2>4. AdvanceTo(l.row.interval, l.row.due, l.day) >= l.day
    BY <2>3, AdvanceToReaches
  <2>5. PICK due : due = IF l.row.due < l.day THEN AdvanceTo(l.row.interval, l.row.due, l.day) ELSE l.row.due
    OBVIOUS
  <2>6. due >= l.day
    BY <2>3, <2>4, <2>5
  <2>7. PICK row : row = [rules[r] EXCEPT !.status = "active", !.due = due]
    OBVIOUS
  <2>8. row.status = "active" /\ row.count = rules[r].count /\ row.due = due
    BY <2>2, <2>7 DEF RuleRows
  <2>9. /\ WriteRule(w, row)
        /\ since' = [since EXCEPT ![r] = l.day] /\ skips' = skips
    BY <1>8, <2>5, <2>7 DEF ResumeWrite
  <2>10. /\ rules' = [rules EXCEPT ![r] = row] /\ Finish(w) /\ entries' = entries
    BY <2>9 DEF WriteRule
  <2>11. /\ row.count = Cardinality(EntriesOf(r)) + skips'[r]
         /\ row.status # "none" /\ row.due >= since'[r]
         /\ \A p \in Rules : p # r => skips'[p] = skips[p] /\ since'[p] = since[p]
    BY <2>2, <2>6, <2>8, <2>9 DEF TypeOK
  <2>12. QED
    BY <1>1, <1>2, <2>1, <2>2, <2>10, <2>11, WriteKeeps
<1>9. ASSUME SkipWrite(w) PROVE SerialInv' /\ FinalKept
  <2>0. pc[w] \in RuleLabels
    BY <1>9 DEF SkipWrite, RuleLabels
  <2>2. /\ r \in Rules /\ l.row = rules[r] /\ rules[r] \in RuleRows
        /\ rules[r].status \in {"active", "paused"} /\ rules[r].status \notin Final
        /\ rules[r].due >= since[r] /\ since[r] \in Nat /\ skips[r] \in Nat
        /\ rules[r].count = Cardinality(EntriesOf(r)) + skips[r] /\ IsFiniteSet(EntriesOf(r))
    BY <1>3, <2>0 DEF RuleGood
  <2>3. PICK row : row = Moved(l, rules[r])
    OBVIOUS
  <2>4. /\ row.due \in Nat /\ row.due >= rules[r].due /\ row.count = rules[r].count + 1
        /\ row.status # "none" /\ InTerms(row)
    BY <1>1, <2>2, <2>3, MovedIs
  <2>5. /\ WriteRule(w, row) /\ skips' = [skips EXCEPT ![r] = skips[r] + 1] /\ since' = since
    BY <1>9, <2>3 DEF SkipWrite
  <2>6. rules' = [rules EXCEPT ![r] = row] /\ Finish(w) /\ entries' = entries
    BY <2>5 DEF WriteRule
  <2>7. Cardinality(EntriesOf(r)) \in Nat /\ rules[r].due \in Nat
    BY <2>2, FS_CardinalityType DEF RuleRows
  <2>8. /\ row.count = Cardinality(EntriesOf(r)) + skips'[r] /\ row.due >= since'[r]
        /\ \A p \in Rules : p # r => skips'[p] = skips[p] /\ since'[p] = since[p]
    BY <2>2, <2>4, <2>5, <2>7 DEF TypeOK
  <2>9. QED
    BY <1>1, <1>2, <2>2, <2>4, <2>6, <2>8, WriteKeeps
<1>10. CASE TriggerAdd(w)
  BY <1>4, <1>10 DEF TriggerAdd, History
<1>11. CASE RequestError(w)
  BY <1>4, <1>11 DEF RequestError, Tables, History
<1>12. QED
  BY <1>5, <1>6, <1>7, <1>8, <1>9, <1>10, <1>11 DEF RequestStep

(* The commit of a job: one entry more, and one occurrence more.           *)
LEMMA SerialCommit ==
  ASSUME Serial, TypeOK, SerialInv, NEW w \in Workers, JobCommit(w)
  PROVE  SerialInv' /\ FinalKept
<1> DEFINE l == loc[w]
<1>0. PICK r : r = l.rule
  OBVIOUS
<1>1. w \in Slots /\ l \in Locals /\ pc[w] = "job_commit"
  BY DEF Slots, TypeOK, JobCommit
<1>2. /\ r \in Rules /\ l.row = rules[r] /\ rules[r] \in RuleRows
      /\ rules[r].status \in {"active", "paused"} /\ RuleGood(r)
  BY <1>0, <1>1, InFlight DEF SerialInv, RulesGood
<1>3. /\ rules[r].status \notin Final /\ rules[r].due >= since[r]
      /\ IsFiniteSet(EntriesOf(r)) /\ rules[r].count = Cardinality(EntriesOf(r)) + skips[r]
      /\ since[r] \in Nat /\ skips[r] \in Nat /\ rules[r].due \in Nat
  BY <1>2 DEF RuleGood, RuleExists, Final, TypeOK, RuleRows
<1>4. PICK row : row = Moved(l, rules[r])
  OBVIOUS
<1>5. /\ row.due \in Nat /\ row.due >= rules[r].due /\ row.count = rules[r].count + 1
      /\ row.status # "none" /\ InTerms(row)
  BY <1>1, <1>2, <1>4, MovedIs
<1>6. rules' = [rules EXCEPT ![r] = row] /\ UNCHANGED <<skips, since>> /\ Goto(w, "job_ack", l)
  BY <1>0, <1>4 DEF JobCommit, History
<1>7. PICK n \in Entries : \E new :
        ~IsEntry(n) /\ entries' = [entries EXCEPT ![n] = new] /\ new.rule = r
  BY <1>0 DEF JobCommit
<1>8. n \notin EntriesOf(r) /\ EntriesOf(r)' = EntriesOf(r) \cup {n}
  BY <1>2, <1>7, RowsAssumption DEF EntriesOf, IsEntry, TypeOK
<1>9. \A q \in Rules : q # r => EntriesOf(q)' = EntriesOf(q)
  BY <1>2, <1>7, RowsAssumption DEF EntriesOf, IsEntry, TypeOK
<1>10. /\ IsFiniteSet(EntriesOf(r)')
       /\ Cardinality(EntriesOf(r)') = Cardinality(EntriesOf(r)) + 1
       /\ Cardinality(EntriesOf(r)) \in Nat
  BY <1>3, <1>8, FS_AddElement, FS_CardinalityType
<1>11. row.count = Cardinality(EntriesOf(r)') + skips'[r] /\ row.due >= since'[r]
  BY <1>3, <1>5, <1>6, <1>10
<1>12. RulesGood'
  BY <1>2, <1>5, <1>6, <1>9, <1>10, <1>11, RuleWritten DEF SerialInv
<1>13. /\ Alone' /\ pc'[w] = "job_ack"
       /\ \A v \in Slots : v # w => Fresh(v)'
  BY <1>1, <1>6, InFlight, GotoAlone
<1>14. "job_ack" \notin RuleLabels
  BY DEF RuleLabels
<1>15. Fresh(w)'
  BY <1>13, <1>14 DEF Fresh
<1>16. FinalKept
  BY <1>3, <1>6 DEF FinalKept, TypeOK
<1>17. QED
  BY <1>12, <1>13, <1>15, <1>16 DEF SerialInv

(* The other steps of the worker write no rule.                            *)
LEMMA SerialWorker ==
  ASSUME Serial, TypeOK, SerialInv, NEW w \in Workers, WorkerStep(w) \/ JobError(w)
  PROVE  SerialInv' /\ FinalKept
<1> DEFINE l == loc[w]
<1>1. w \in Slots
  BY DEF Slots
<1>2. ASSUME UNCHANGED <<rules, entries, History>> PROVE RulesGood' /\ FinalKept
  BY <1>2, RulesStill DEF SerialInv, FinalKept, History
<1>3. ASSUME NEW j \in Jobs, JobRead(w, j) PROVE SerialInv' /\ FinalKept
  <2>1. RulesGood' /\ FinalKept
    BY <1>2, <1>3 DEF JobRead
  <2>2. CASE UNCHANGED <<pc, loc>>
    <3>1. Alone' /\ \A v \in Slots : Fresh(v)'
      BY <1>3, <2>2 DEF SerialInv, Alone, Fresh, JobRead
    <3>2. QED
      BY <2>1, <3>1 DEF SerialInv
  <2>3. CASE ~UNCHANGED <<pc, loc>>
    <3> DEFINE locals == [NoLocals EXCEPT !.rule = jobs[j].rule, !.row = rules[jobs[j].rule],
                                          !.day = today, !.job = j]
    <3>1. Goto(w, "job_lookup", locals) /\ rules[jobs[j].rule].status = "active" /\ rules' = rules
      BY <1>3, <2>3 DEF JobRead
    <3>2. locals.rule = jobs[j].rule /\ locals.row = rules[jobs[j].rule]
      BY DEF NoLocals
    <3> HIDE DEF locals
    <3>3. \A v \in Slots : v # w => pc[v] = "idle"
      BY <1>3 DEF JobRead, Free
    <3>4. /\ Alone' /\ pc'[w] = "job_lookup" /\ loc'[w] = locals
          /\ \A v \in Slots : v # w => Fresh(v)'
      BY <1>1, <3>1, <3>3, GotoAlone
    <3>5. Fresh(w)'
      BY <3>1, <3>2, <3>4 DEF Fresh
    <3>6. QED
      BY <2>1, <3>4, <3>5 DEF SerialInv
  <2>4. QED
    BY <2>2, <2>3
<1>4. ASSUME pc[w] # "idle", Finish(w), UNCHANGED <<rules, entries, History>>
      PROVE  SerialInv' /\ FinalKept
  <2>1. Alone' /\ \A v \in Slots : Fresh(v)'
    BY <1>1, <1>4, FinishAlone, InFlight
  <2>2. QED
    BY <1>2, <1>4, <2>1 DEF SerialInv
<1>5. ASSUME JobLookup(w) PROVE SerialInv' /\ FinalKept
  <2>1. pc[w] = "job_lookup" /\ UNCHANGED <<rules, entries, History>>
    BY <1>5 DEF JobLookup
  <2>2. CASE Finish(w)
    BY <1>4, <2>1, <2>2
  <2>3. CASE Goto(w, "job_commit", l)
    <3>1. /\ Alone' /\ pc'[w] = "job_commit" /\ loc'[w] = l
          /\ \A v \in Slots : v # w => Fresh(v)'
      BY <1>1, <2>1, <2>3, InFlight, GotoAlone
    <3>2. Fresh(w)'
      BY <1>1, <2>1, <3>1 DEF Fresh, SerialInv
    <3>3. QED
      BY <1>2, <2>1, <3>1, <3>2 DEF SerialInv
  <2>4. QED
    BY <1>5, <2>2, <2>3 DEF JobLookup
<1>6. CASE JobAck(w)
  BY <1>4, <1>6 DEF JobAck
<1>7. CASE JobError(w)
  BY <1>4, <1>7 DEF JobError
<1>8. QED
  BY <1>3, <1>5, <1>6, <1>7, SerialCommit DEF WorkerStep

(* The scheduler, restarts and the clock.                                  *)
LEMMA SerialNight ==
  ASSUME TypeOK, SerialInv, ScheduleList \/ ScheduleAdd \/ ScheduleError \/ Crash \/ Tick
  PROVE  SerialInv' /\ FinalKept
<1>1. UNCHANGED <<rules, entries, skips, since>>
  BY DEF ScheduleList, ScheduleAdd, ScheduleError, Crash, Tick, Tables, History
<1>2. RulesGood' /\ FinalKept
  BY <1>1, RulesStill DEF SerialInv, FinalKept
<1>3. CASE Crash
  <2>1. \A v \in Slots : pc'[v] = "idle"
    BY <1>3 DEF Crash
  <2>2. "idle" \notin RuleLabels \cup {"job_lookup", "job_commit"}
    BY DEF RuleLabels
  <2>3. Alone' /\ \A v \in Slots : Fresh(v)'
    BY <2>1, <2>2 DEF Alone, Fresh
  <2>4. QED
    BY <1>2, <2>3 DEF SerialInv
<1>4. CASE UNCHANGED <<pc, loc>>
  <2>1. Alone' /\ \A v \in Slots : Fresh(v)'
    BY <1>1, <1>4 DEF SerialInv, Alone, Fresh
  <2>2. QED
    BY <1>2, <2>1 DEF SerialInv
<1>5. QED
  BY <1>3, <1>4 DEF ScheduleList, ScheduleAdd, ScheduleError, Tick

(* With requests and jobs one at a time, every step keeps the invariant    *)
(* and the final status of a rule.                                         *)
LEMMA SerialNext ==
  ASSUME Serial, TypeOK, SerialInv, [Next]_vars
  PROVE  SerialInv' /\ FinalKept
<1>1. CASE UNCHANGED vars
  <2>1. UNCHANGED <<rules, entries, skips, since, pc, loc>>
    BY <1>1 DEF vars
  <2>2. Alone' /\ (\A v \in Slots : Fresh(v)') /\ FinalKept
    BY <2>1 DEF SerialInv, Alone, Fresh, FinalKept
  <2>3. QED
    BY <2>1, <2>2, RulesStill DEF SerialInv
<1>2. CASE Next
  BY <1>2, SerialArrive, SerialRequest, SerialWorker, SerialNight DEF Next
<1>3. QED
  BY <1>1, <1>2

(* Requests and jobs that run one at a time keep SerialInv.                *)
LEMMA SerialAlways ==
  ASSUME Serial
  PROVE  Spec => []SerialInv
<1>1. TypeOK /\ SerialInv /\ [Next]_vars => SerialInv'
  BY SerialNext
<1>2. QED
  BY <1>1, SerialInit, RecurringTypeCorrect, PTL DEF Spec

(* occurrences_generated of a rule counts its entries and its skips,       *)
(* whatever fails and restarts, when requests and jobs do not overlap.     *)
THEOREM CountIsRight ==
  ASSUME Serial
  PROVE  Spec => []OccurrencesCounted
<1>1. SerialInv => OccurrencesCounted
  BY DEF SerialInv, RulesGood, RuleGood, OccurrencesCounted
<1>2. QED
  BY <1>1, SerialAlways, PTL

(* A rule that was cancelled or completed is never made active or paused   *)
(* again, when requests and jobs do not overlap.                           *)
LEMMA RuleStaysFinal ==
  ASSUME Serial
  PROVE  Spec => FinalStaysFinal
<1>1. TypeOK /\ SerialInv /\ [Next]_vars
        => [\A r \in Rules : rules[r].status \in Final => rules'[r].status = rules[r].status]_vars
  BY SerialNext DEF FinalKept
<1>2. QED
  BY <1>1, SerialAlways, RecurringTypeCorrect, PTL DEF Spec, FinalStaysFinal

(* A new entry is of the rule and the due date that the rule has before.   *)
LEMMA Generates ==
  ASSUME TypeOK, SerialInv, Next, NEW e \in Entries, ~IsEntry(e), IsEntry(e)'
  PROVE  \E r \in Rules : /\ entries'[e].rule = r
                          /\ entries'[e].due = rules[r].due
                          /\ rules[r].status = "active"
<1>1. entries' # entries
  BY DEF IsEntry
<1>2. PICK w \in Workers : JobCommit(w)
  <2>1. ASSUME NEW w \in Requests PROVE ~(Arrive(w) \/ RequestStep(w) \/ RequestError(w))
    BY <1>1 DEF Arrive, CreateCount, UpdateRead, CancelRead, PauseRead, ResumeRead, SkipRead, TriggerRead,
       ReadRule, RequestStep, RequestError, CreateWrite, UpdateWrite, CancelWrite, PauseWrite,
       ResumeWrite, SkipWrite, TriggerAdd, WriteRule, Tables
  <2>2. ~(ScheduleList \/ ScheduleAdd \/ ScheduleError \/ Crash \/ Tick)
    BY <1>1 DEF ScheduleList, ScheduleAdd, ScheduleError, Crash, Tick, Tables
  <2>3. ASSUME NEW w \in Workers PROVE ~JobError(w) /\ (WorkerStep(w) => JobCommit(w))
    BY <1>1 DEF JobError, WorkerStep, JobRead, JobLookup, JobAck
  <2>4. QED
    BY <2>1, <2>2, <2>3 DEF Next
<1> DEFINE l == loc[w]
<1>3. w \in Slots /\ pc[w] = "job_commit"
  BY <1>2 DEF Slots, JobCommit
<1>4. l.rule \in Rules /\ l.row = rules[l.rule] /\ rules[l.rule].status = "active"
  BY <1>3, InFlight DEF SerialInv, Fresh
<1>5. PICK n \in Entries : \E new :
        entries' = [entries EXCEPT ![n] = new] /\ new.rule = l.rule /\ new.due = l.row.due
  BY <1>2 DEF JobCommit
<1>6. e = n
  BY <1>5 DEF IsEntry, TypeOK
<1>7. entries'[e].rule = l.rule /\ entries'[e].due = l.row.due
  BY <1>5, <1>6 DEF TypeOK
<1>8. QED
  BY <1>4, <1>7

(* No entry is generated for a date from before the rule was created,      *)
(* resumed or set to a due date, when requests and jobs do not overlap.    *)
THEOREM NothingBackfilled ==
  ASSUME Serial
  PROVE  Spec => NoBackfill
<1> DEFINE A == \A e \in Entries : ~IsEntry(e) /\ IsEntry(e)' => entries'[e].due >= since[entries'[e].rule]
<1>1. ASSUME TypeOK, SerialInv, Next, NEW e \in Entries, ~IsEntry(e), IsEntry(e)'
      PROVE  entries'[e].due >= since[entries'[e].rule]
  <2>1. PICK r \in Rules : /\ entries'[e].rule = r
                           /\ entries'[e].due = rules[r].due
                           /\ rules[r].status = "active"
    BY <1>1, Generates
  <2>2. rules[r].due >= since[r]
    BY <1>1, <2>1 DEF SerialInv, RulesGood, RuleGood, RuleExists
  <2>3. QED
    BY <2>1, <2>2
<1>2. TypeOK /\ SerialInv /\ [Next]_vars => [A]_vars
  BY <1>1
<1>3. Spec => [][A]_vars
  <2> HIDE DEF A
  <2>1. QED
    BY <1>2, SerialAlways, RecurringTypeCorrect, PTL DEF Spec
<1>4. QED
  BY <1>3 DEF NoBackfill

(* A rule generates no entry beyond its recurrence_count or its end_date,  *)
(* when requests and jobs do not overlap and nobody updates or resumes a   *)
(* rule: an update may lower the limit to what was reached already, and    *)
(* resume advances a rule past its end date and leaves it active.          *)
THEOREM TermsAreKept ==
  ASSUME Serial, {"update", "resume"} \cap Ops = {}
  PROVE  Spec => WithinTerms
<1> DEFINE A == \A e \in Entries : ~IsEntry(e) /\ IsEntry(e)' =>
                  LET r == entries'[e].rule IN
                    /\ rules[r].limit # Null => Cardinality(EntriesOf(r)) + skips[r] < rules[r].limit
                    /\ rules[r].end # Null => entries'[e].due <= rules[r].end
<1>1. ASSUME TypeOK, SerialInv, Next, NEW e \in Entries, ~IsEntry(e), IsEntry(e)'
      PROVE  LET r == entries'[e].rule IN
               /\ rules[r].limit # Null => Cardinality(EntriesOf(r)) + skips[r] < rules[r].limit
               /\ rules[r].end # Null => entries'[e].due <= rules[r].end
  <2>1. PICK r \in Rules : /\ entries'[e].rule = r
                           /\ entries'[e].due = rules[r].due
                           /\ rules[r].status = "active"
    BY <1>1, Generates
  <2>2. rules[r].count = Cardinality(EntriesOf(r)) + skips[r] /\ InTerms(rules[r])
    BY <1>1 DEF SerialInv, RulesGood, RuleGood, TermsHold
  <2>3. /\ rules[r].limit # Null => rules[r].count < rules[r].limit
        /\ rules[r].end # Null => rules[r].due <= rules[r].end
    BY <2>1, <2>2 DEF InTerms
  <2>4. QED
    BY <2>1, <2>2, <2>3
<1>2. TypeOK /\ SerialInv /\ [Next]_vars => [A]_vars
  BY <1>1
<1>3. Spec => [][A]_vars
  <2> HIDE DEF A
  <2>1. QED
    BY <1>2, SerialAlways, RecurringTypeCorrect, PTL DEF Spec
<1>4. QED
  BY <1>3 DEF WithinTerms
=============================================================================
