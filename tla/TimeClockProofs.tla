--------------------------- MODULE TimeClockProofs ---------------------------
(***************************************************************************)
(* Proofs about TimeClock for every set of employees, rows and slots and   *)
(* every choice of operations.  With handlers that overlap: the types, the *)
(* break gate, labour that is not lost, shifts that were taken, one        *)
(* reminder per shift.  With handlers that do not: completed for good,     *)
(* minutes that add up, overtime beyond the thresholds, and the refinement *)
(* of Attendance.                                                          *)
(***************************************************************************)
EXTENDS TimeClock, SumLemmas, FiniteSetTheorems, TLAPS

(* The location rule yields one of the statuses a session row can hold.    *)
LEMMA GpsGateType ==
  ASSUME NEW geo \in GeoInputs
  PROVE  GpsGate(geo) \in GeofenceStatuses
BY InputsAssumption DEF GpsGate, GeofenceStatuses

(* The initial tables and slots are well typed.                            *)
LEMMA TypeInit == Init => ControlTypeOK
BY IdsAssumption
   DEF Init, ControlTypeOK, NoSession, NoBreak, NoShift, NoLocals, SessionRows, BreakRows,
       ShiftRows, Locals, LocalsSet, Labels, SessionStatuses, ShiftStatuses, GeofenceStatuses,
       HasEmployee, HasSid, HasBid, HasShift, HasList

(* A slot that moves to a label with well-typed locals that hold what the  *)
(* label needs keeps the slots well typed.                                 *)
LEMMA GotoType ==
  ASSUME NEW w \in Workers, NEW label \in Labels, NEW locals \in Locals,
         pc \in [Workers -> Labels], loc \in [Workers -> Locals],
         \A v \in Workers : LocalsSet(v),
         pc' = [pc EXCEPT ![w] = label],
         loc' = [loc EXCEPT ![w] = locals],
         label \in HasEmployee => locals.emp # Null,
         label \in HasSid => locals.sid # Null,
         label \in HasBid => locals.bid # Null,
         label \in HasShift => locals.shift # Null,
         label \in HasList => locals.list # {}
  PROVE  /\ pc' \in [Workers -> Labels]
         /\ loc' \in [Workers -> Locals]
         /\ \A v \in Workers : LocalsSet(v)'
BY DEF LocalsSet

(* A slot whose handler ends stays well typed.                             *)
LEMMA EndType ==
  ASSUME NEW w \in Workers,
         pc \in [Workers -> Labels], loc \in [Workers -> Locals],
         \A v \in Workers : LocalsSet(v),
         End(w)
  PROVE  /\ pc' \in [Workers -> Labels]
         /\ loc' \in [Workers -> Locals]
         /\ \A v \in Workers : LocalsSet(v)'
<1>1. NoLocals \in Locals
  BY DEF NoLocals, Locals, GeofenceStatuses
<1>2. "idle" \in Labels /\ "idle" \notin HasEmployee \cup HasSid \cup HasBid \cup HasShift \cup HasList
  BY DEF Labels, HasEmployee, HasSid, HasBid, HasShift, HasList
<1>3. QED
  BY <1>1, <1>2, GotoType DEF End

(* So does one that finishes.                                              *)
LEMMA FinishType ==
  ASSUME NEW w \in Workers,
         pc \in [Workers -> Labels], loc \in [Workers -> Locals],
         \A v \in Workers : LocalsSet(v),
         Finish(w)
  PROVE  /\ pc' \in [Workers -> Labels]
         /\ loc' \in [Workers -> Locals]
         /\ \A v \in Workers : LocalsSet(v)'
BY EndType DEF Finish

(* Taking the next shift of a job's list keeps the slots well typed.       *)
LEMMA NextShiftType ==
  ASSUME NEW w \in Workers, NEW label \in HasList, NEW rest,
         rest \subseteq [id : Shifts, emp : Employees \cup {Null}, start : Nat],
         pc \in [Workers -> Labels], loc \in [Workers -> Locals],
         \A v \in Workers : LocalsSet(v),
         NextShift(w, label, rest)
  PROVE  /\ pc' \in [Workers -> Labels]
         /\ loc' \in [Workers -> Locals]
         /\ \A v \in Workers : LocalsSet(v)'
<1>1. CASE rest = {}
  BY <1>1, FinishType DEF NextShift
<1>2. CASE rest # {}
  <2> DEFINE l == [NoLocals EXCEPT !.list = rest]
  <2>1. l \in Locals /\ l.list # {}
    BY <1>2 DEF NoLocals, Locals, GeofenceStatuses
  <2>2. label \in Labels /\ label \notin HasEmployee \cup HasSid \cup HasBid \cup HasShift
    BY DEF Labels, HasEmployee, HasSid, HasBid, HasShift, HasList
  <2>3. pc' = [pc EXCEPT ![w] = label] /\ loc' = [loc EXCEPT ![w] = l]
    BY <1>2 DEF NextShift, Goto
  <2>4. QED
    BY <2>1, <2>2, <2>3, GotoType
<1>3. QED
  BY <1>1, <1>2

-----------------------------------------------------------------------------
(* Every step keeps tables and slots well typed *)

(* The tables a type invariant speaks of, when a step leaves them alone.   *)
Tables == <<now, sessions, breaks, shifts, alerts, reminders>>

(* The steps of clockIn are well typed.                                    *)
LEMMA ClockInType ==
  ASSUME ControlTypeOK, NEW w \in Workers,
         \/ \E e \in Employees, geo \in GeoInputs, project \in Projects, task \in BOOLEAN :
              ClockInCheck(w, e, geo, project, task)
         \/ ClockInMatch(w) \/ ClockInClaim(w) \/ ClockInCreate(w)
  PROVE  ControlTypeOK'
<1> USE DEF ControlTypeOK
<1>1. ASSUME NEW e \in Employees, NEW geo \in GeoInputs, NEW project \in Projects, NEW task \in BOOLEAN,
             ClockInCheck(w, e, geo, project, task)
      PROVE  ControlTypeOK'
  <2> DEFINE l == [NoLocals EXCEPT !.emp = e, !.project = project, !.geofence = GpsGate(geo)]
  <2>1. l \in Locals /\ l.emp # Null
    BY GpsGateType, IdsAssumption, InputsAssumption DEF NoLocals, Locals
  <2>2. "ci_match" \in Labels /\ "ci_match" \notin HasSid \cup HasBid \cup HasShift \cup HasList
    BY DEF Labels, HasEmployee, HasSid, HasBid, HasShift, HasList
  <2>3. pc' = [pc EXCEPT ![w] = "ci_match"] /\ loc' = [loc EXCEPT ![w] = l]
    BY <1>1 DEF ClockInCheck, Goto
  <2>4. UNCHANGED Tables
    BY <1>1 DEF ClockInCheck, Tables, Database
  <2>5. QED
    BY <2>1, <2>2, <2>3, <2>4, GotoType DEF Tables
<1>2. ASSUME ClockInMatch(w) PROVE ControlTypeOK'
  <2>1. loc[w].emp # Null
    BY <1>2 DEF ClockInMatch, LocalsSet, HasEmployee
  <2>2. UNCHANGED Tables
    BY <1>2 DEF ClockInMatch, Tables, Database
  <2>3. CASE Goto(w, "ci_create", [loc[w] EXCEPT !.at = now])
    <3> DEFINE l == [loc[w] EXCEPT !.at = now]
    <3>1. l \in Locals /\ l.emp # Null
      BY <2>1 DEF Locals
    <3>2. "ci_create" \in Labels /\ "ci_create" \notin HasSid \cup HasBid \cup HasShift \cup HasList
      BY DEF Labels, HasEmployee, HasSid, HasBid, HasShift, HasList
    <3>3. QED
      BY <3>1, <3>2, <2>3, <2>2, GotoType DEF Goto, Tables
  <2>4. CASE \E h \in Shifts : Goto(w, "ci_claim", [loc[w] EXCEPT !.at = now, !.shift = h])
    <3>1. PICK h \in Shifts : Goto(w, "ci_claim", [loc[w] EXCEPT !.at = now, !.shift = h])
      BY <2>4
    <3> DEFINE l == [loc[w] EXCEPT !.at = now, !.shift = h]
    <3>2. l \in Locals /\ l.emp # Null /\ l.shift # Null
      BY <2>1, IdsAssumption DEF Locals
    <3>3. "ci_claim" \in Labels /\ "ci_claim" \notin HasSid \cup HasBid \cup HasList
      BY DEF Labels, HasEmployee, HasSid, HasBid, HasShift, HasList
    <3>4. QED
      BY <3>1, <3>2, <3>3, <2>2, GotoType DEF Goto, Tables
  <2>5. QED
    BY <1>2, <2>3, <2>4 DEF ClockInMatch, Candidates
<1>3. ASSUME ClockInClaim(w) PROVE ControlTypeOK'
  <2>1. now' \in Nat /\ sessions' = sessions /\ breaks' = breaks /\ alerts' = alerts /\ reminders' = reminders
    BY <1>3 DEF ClockInClaim
  <2>2. shifts' \in [Shifts -> ShiftRows]
    BY <1>3 DEF ClockInClaim, ShiftRows, ShiftStatuses
  <2>3. CASE Finish(w)
    BY <2>1, <2>2, <2>3, FinishType
  <2>4. CASE Goto(w, "ci_create", loc[w])
    <3>1. loc[w] \in Locals /\ loc[w].emp # Null
      BY <1>3 DEF ClockInClaim, LocalsSet, HasEmployee
    <3>2. "ci_create" \in Labels /\ "ci_create" \notin HasSid \cup HasBid \cup HasShift \cup HasList
      BY DEF Labels, HasEmployee, HasSid, HasBid, HasShift, HasList
    <3>3. QED
      BY <3>1, <3>2, <2>1, <2>2, <2>4, GotoType DEF Goto
  <2>5. QED
    BY <1>3, <2>3, <2>4 DEF ClockInClaim
<1>4. ASSUME ClockInCreate(w) PROVE ControlTypeOK'
  <2>1. /\ Finish(w)
        /\ UNCHANGED <<now, breaks, shifts, alerts, reminders>>
    BY <1>4 DEF ClockInCreate
  <2>2. sessions' \in [Sessions -> SessionRows]
    <3>1. CASE UNCHANGED sessions
      BY <3>1
    <3>2. ASSUME NEW s \in Sessions,
                 sessions' = [sessions EXCEPT ![s] =
                  [NoSession EXCEPT !.status = "active", !.emp = loc[w].emp,
                     !.clock_in_at = loc[w].at, !.shift = loc[w].shift,
                     !.project = loc[w].project, !.geofence = loc[w].geofence]]
          PROVE  sessions' \in [Sessions -> SessionRows]
      BY <3>2 DEF SessionRows, NoSession, Locals, SessionStatuses
    <3>3. QED
      BY <1>4, <3>1, <3>2 DEF ClockInCreate
  <2>3. QED
    BY <2>1, <2>2, FinishType
<1>5. QED
  BY <1>1, <1>2, <1>3, <1>4

(* The update of clockOut yields a session row.                            *)
LEMMA CompletedRowType ==
  ASSUME NEW r \in SessionRows, NEW t \in Nat
  PROVE  [r EXCEPT !.status = "completed", !.clock_out_at = t] \in SessionRows
BY DEF SessionRows, SessionStatuses

(* The steps of clockOut, postLaborCost included, are well typed.          *)
LEMMA ClockOutType ==
  ASSUME ControlTypeOK, NEW w \in Workers,
         \/ \E e \in Employees : ClockOutRead(w, e)
         \/ ClockOutFindBreak(w) \/ ClockOutEndBreak(w) \/ ClockOutSumBreaks(w)
         \/ ClockOutOvertime(w) \/ ClockOutShift(w) \/ ClockOutComplete(w)
         \/ LaborCreate(w) \/ LaborMark(w) \/ LaborAdmins(w) \/ LaborNotify(w)
  PROVE  ControlTypeOK'
<1> USE DEF ControlTypeOK
<1>l. /\ {"co_sum", "co_complete", "lc_create", "lc_mark", "lc_admins",
         "lc_notify", "co_find", "co_overtime"} \subseteq HasSid \ (HasEmployee \cup HasBid \cup HasShift \cup HasList)
      /\ "co_end" \in HasSid \cap HasBid /\ "co_end" \notin HasEmployee \cup HasShift \cup HasList
      /\ "co_shift" \in HasSid \cap HasShift /\ "co_shift" \notin HasEmployee \cup HasBid \cup HasList
      /\ HasSid \subseteq Labels
  BY DEF Labels, HasEmployee, HasSid, HasBid, HasShift, HasList
<1>s. pc[w] \in HasSid => loc[w].sid \in Sessions
  BY DEF LocalsSet, Locals
<1>1. ASSUME NEW e \in Employees, ClockOutRead(w, e) PROVE ControlTypeOK'
  <2>1. PICK s \in Sessions : Goto(w, IF sessions[s].status = "on_break" THEN "co_find" ELSE "co_sum",
            [NoLocals EXCEPT !.emp = e, !.sid = s, !.shift = sessions[s].shift, !.at = now])
    BY <1>1 DEF ClockOutRead, OpenSessions
  <2> DEFINE l == [NoLocals EXCEPT !.emp = e, !.sid = s, !.shift = sessions[s].shift, !.at = now]
             lab == IF sessions[s].status = "on_break" THEN "co_find" ELSE "co_sum"
  <2>2. l \in Locals /\ l.sid # Null
    BY IdsAssumption DEF NoLocals, Locals, SessionRows, GeofenceStatuses
  <2>3. lab \in HasSid \ (HasEmployee \cup HasBid \cup HasShift \cup HasList)
    BY <1>l
  <2>4. UNCHANGED Tables
    BY <1>1 DEF ClockOutRead, Tables, Database
  <2>5. pc' = [pc EXCEPT ![w] = lab] /\ loc' = [loc EXCEPT ![w] = l]
    BY <2>1 DEF Goto
  <2> HIDE DEF l, lab
  <2>6. QED
    BY <2>2, <2>3, <2>4, <2>5, <1>l, GotoType DEF Tables
<1>2. ASSUME ClockOutFindBreak(w) PROVE ControlTypeOK'
  <2>1. pc[w] \in HasSid /\ loc[w] \in Locals /\ loc[w].sid # Null
    BY <1>2, <1>l DEF ClockOutFindBreak, LocalsSet
  <2>2. UNCHANGED Tables
    BY <1>2 DEF ClockOutFindBreak, Tables, Database
  <2>3. CASE Goto(w, "co_sum", loc[w])
    BY <2>1, <2>2, <2>3, <1>l, GotoType DEF Goto, Tables
  <2>4. CASE \E b \in Breaks : Goto(w, "co_end", [loc[w] EXCEPT !.bid = b])
    <3>1. PICK b \in Breaks : Goto(w, "co_end", [loc[w] EXCEPT !.bid = b])
      BY <2>4
    <3> DEFINE l == [loc[w] EXCEPT !.bid = b]
    <3>2. l \in Locals /\ l.sid # Null /\ l.bid # Null
      BY <2>1, IdsAssumption DEF Locals
    <3>3. QED
      BY <3>1, <3>2, <2>2, <1>l, GotoType DEF Goto, Tables
  <2>5. QED
    BY <1>2, <2>3, <2>4 DEF ClockOutFindBreak, OpenBreaks, BreaksOf
<1>3. ASSUME ClockOutEndBreak(w) PROVE ControlTypeOK'
  <2>1. pc[w] \in HasSid /\ loc[w] \in Locals /\ loc[w].sid # Null
    BY <1>3, <1>l DEF ClockOutEndBreak, LocalsSet
  <2>2. breaks' \in [Breaks -> BreakRows]
    BY <1>3 DEF ClockOutEndBreak, BreakRows, Locals
  <2>3. UNCHANGED <<now, sessions, shifts, alerts, reminders>> /\ Goto(w, "co_sum", loc[w])
    BY <1>3 DEF ClockOutEndBreak
  <2>4. QED
    BY <2>1, <2>2, <2>3, <1>l, GotoType DEF Goto
<1>4. ASSUME ClockOutSumBreaks(w) \/ ClockOutOvertime(w) PROVE ControlTypeOK'
  <2>1. pc[w] \in HasSid /\ loc[w] \in Locals /\ loc[w].sid # Null
    BY <1>4, <1>l DEF ClockOutSumBreaks, ClockOutOvertime, LocalsSet
  <2>2. UNCHANGED Tables
    BY <1>4 DEF ClockOutSumBreaks, ClockOutOvertime, Tables, Database
  <2>3. PICK lab \in {"co_overtime", "co_complete", "co_shift"} :
          /\ pc' = [pc EXCEPT ![w] = lab]
          /\ lab = "co_shift" => loc[w].shift # Null
    BY <1>4 DEF ClockOutSumBreaks, ClockOutOvertime
  <2>4. loc' = [loc EXCEPT ![w] = loc[w]]
    BY <1>4 DEF ClockOutSumBreaks, ClockOutOvertime
  <2>5. QED
    BY <2>1, <2>2, <2>3, <2>4, <1>l, GotoType DEF Tables
<1>5. ASSUME ClockOutShift(w) PROVE ControlTypeOK'
  <2>1. pc[w] \in HasSid /\ loc[w] \in Locals /\ loc[w].sid # Null
    BY <1>5, <1>l DEF ClockOutShift, LocalsSet
  <2>2. shifts' \in [Shifts -> ShiftRows]
    BY <1>5 DEF ClockOutShift, ShiftRows, ShiftStatuses
  <2>3. UNCHANGED <<now, sessions, breaks, alerts, reminders>> /\ Goto(w, "co_complete", loc[w])
    BY <1>5 DEF ClockOutShift
  <2>4. QED
    BY <2>1, <2>2, <2>3, <1>l, GotoType DEF Goto
<1>6. ASSUME ClockOutComplete(w) PROVE ControlTypeOK'
  <2>1. pc[w] \in HasSid /\ loc[w] \in Locals /\ loc[w].sid # Null
    BY <1>6, <1>l DEF ClockOutComplete, LocalsSet
  <2>2. sessions' \in [Sessions -> SessionRows]
    <3> DEFINE row == [sessions[loc[w].sid] EXCEPT !.status = "completed", !.clock_out_at = loc[w].at]
    <3>1. loc[w].sid \in Sessions /\ loc[w].at \in Nat
      BY <1>s, <2>1 DEF Locals
    <3>2. row \in SessionRows
      BY <3>1, CompletedRowType
    <3>3. sessions' = [sessions EXCEPT ![loc[w].sid] = row]
      BY <1>6 DEF ClockOutComplete
    <3> HIDE DEF row
    <3>4. QED
      BY <3>2, <3>3
  <2>3. UNCHANGED <<now, shifts, breaks, alerts, reminders>> /\ (Goto(w, "lc_create", loc[w]) \/ Finish(w))
    BY <1>6 DEF ClockOutComplete
  <2>4. QED
    BY <2>1, <2>2, <2>3, <1>l, GotoType, FinishType DEF Goto
<1>7. ASSUME LaborCreate(w) PROVE ControlTypeOK'
  <2>1. pc[w] \in HasSid /\ loc[w] \in Locals /\ loc[w].sid # Null
    BY <1>7, <1>l DEF LaborCreate, LocalsSet
  <2>2. UNCHANGED Tables /\ Goto(w, "lc_mark", loc[w])
    BY <1>7 DEF LaborCreate, Tables
  <2>3. QED
    BY <2>1, <2>2, <1>l, GotoType DEF Goto, Tables
<1>8. ASSUME LaborMark(w) PROVE ControlTypeOK'
  <2>1. sessions' \in [Sessions -> SessionRows]
    BY <1>8 DEF LaborMark, SessionRows
  <2>2. UNCHANGED <<now, shifts, breaks, alerts, reminders>> /\ Finish(w)
    BY <1>8 DEF LaborMark
  <2>3. QED
    BY <2>1, <2>2, FinishType
<1>9. ASSUME LaborAdmins(w) PROVE ControlTypeOK'
  <2>1. pc[w] \in HasSid /\ loc[w] \in Locals /\ loc[w].sid # Null
    BY <1>9, <1>l DEF LaborAdmins, LocalsSet
  <2>2. UNCHANGED Tables /\ (Goto(w, "lc_notify", loc[w]) \/ End(w))
    BY <1>9 DEF LaborAdmins, Tables, Database
  <2>3. QED
    BY <2>1, <2>2, <1>l, GotoType, EndType DEF Goto, Tables
<1>10. ASSUME LaborNotify(w) PROVE ControlTypeOK'
  <2>1. alerts' \in [Sessions -> SUBSET Admins]
    BY <1>10 DEF LaborNotify
  <2>2. UNCHANGED <<now, sessions, shifts, breaks, reminders>> /\ Finish(w)
    BY <1>10 DEF LaborNotify
  <2>3. QED
    BY <2>1, <2>2, FinishType
<1>11. QED
  BY <1>1, <1>2, <1>3, <1>4, <1>5, <1>6, <1>7, <1>8, <1>9, <1>10

(* The steps of startBreak and endBreak are well typed.                    *)
LEMMA BreakType ==
  ASSUME ControlTypeOK,
         \/ \E s \in Sessions, b \in Breaks, type \in BreakTypes : StartBreak(s, b, type)
         \/ \E w \in Workers, s \in Sessions : EndBreakRead(w, s)
         \/ \E w \in Workers : EndBreakCommit(w)
  PROVE  ControlTypeOK'
<1> USE DEF ControlTypeOK
<1>1. ASSUME NEW s \in Sessions, NEW b \in Breaks, NEW type \in BreakTypes, StartBreak(s, b, type)
      PROVE  ControlTypeOK'
  <2>1. sessions' \in [Sessions -> SessionRows]
    BY <1>1 DEF StartBreak, SessionRows, SessionStatuses
  <2>2. breaks' \in [Breaks -> BreakRows]
    BY <1>1, InputsAssumption DEF StartBreak, BreakRows
  <2>3. UNCHANGED <<now, shifts, alerts, reminders, pc, loc>>
    BY <1>1 DEF StartBreak, Slots
  <2>4. \A v \in Workers : LocalsSet(v)'
    BY <2>3 DEF LocalsSet
  <2>5. QED
    BY <2>1, <2>2, <2>3, <2>4
<1>2. ASSUME NEW w \in Workers, NEW s \in Sessions, EndBreakRead(w, s) PROVE ControlTypeOK'
  <2>1. PICK b \in Breaks : Goto(w, "eb_commit", [NoLocals EXCEPT !.sid = s, !.bid = b, !.at = now])
    BY <1>2 DEF EndBreakRead, OpenBreaks, BreaksOf
  <2> DEFINE l == [NoLocals EXCEPT !.sid = s, !.bid = b, !.at = now]
  <2>2. l \in Locals /\ l.sid # Null /\ l.bid # Null
    BY IdsAssumption DEF NoLocals, Locals, GeofenceStatuses
  <2>3. "eb_commit" \in Labels /\ "eb_commit" \notin HasEmployee \cup HasShift \cup HasList
    BY DEF Labels, HasEmployee, HasSid, HasBid, HasShift, HasList
  <2>4. UNCHANGED Tables
    BY <1>2 DEF EndBreakRead, Tables, Database
  <2>5. QED
    BY <2>1, <2>2, <2>3, <2>4, GotoType DEF Goto, Tables
<1>3. ASSUME NEW w \in Workers, EndBreakCommit(w) PROVE ControlTypeOK'
  <2>1. Finish(w) /\ UNCHANGED <<now, shifts, alerts, reminders>>
    BY <1>3 DEF EndBreakCommit
  <2>2. sessions' \in [Sessions -> SessionRows]
    <3>1. sessions' = sessions \/ sessions' = [sessions EXCEPT ![loc[w].sid].status = "active"]
      BY <1>3 DEF EndBreakCommit
    <3>2. QED
      BY <3>1 DEF SessionRows, SessionStatuses
  <2>3. breaks' \in [Breaks -> BreakRows]
    <3>1. loc[w].bid \in Breaks /\ loc[w].at \in Nat
      BY <1>3 DEF EndBreakCommit, LocalsSet, HasBid, Locals
    <3>2. breaks' = breaks \/ breaks' = [breaks EXCEPT ![loc[w].bid].ended_at = loc[w].at]
      BY <1>3 DEF EndBreakCommit
    <3>3. QED
      BY <3>1, <3>2 DEF BreakRows
  <2>4. QED
    BY <2>1, <2>2, <2>3, FinishType
<1>4. QED
  BY <1>1, <1>2, <1>3

(* Creating, updating and removing shifts is well typed.                   *)
LEMMA ShiftType ==
  ASSUME ControlTypeOK,
         \/ \E new \in NewShifts : CreateShifts(new)
         \/ \E h \in Shifts, e \in Employees, t \in ShiftStarts, status \in ShiftStatuses :
              UpdateShift(h, e, t, status)
         \/ \E w \in Workers, h \in Shifts : RemoveShiftRead(w, h)
         \/ \E w \in Workers : RemoveShiftDelete(w)
  PROVE  ControlTypeOK'
<1> USE DEF ControlTypeOK
<1>1. ASSUME NEW new \in NewShifts, CreateShifts(new) PROVE ControlTypeOK'
  <2>1. UNCHANGED <<now, sessions, breaks, alerts, reminders, pc, loc>>
    BY <1>1 DEF CreateShifts, Slots
  <2>2. PICK ids \in SUBSET Shifts : new \in [ids -> [emp : Employees, start : ShiftStarts]]
    BY DEF NewShifts
  <2>3. ASSUME NEW h \in ids
        PROVE  [NoShift EXCEPT !.status = "scheduled", !.emp = new[h].emp, !.start = new[h].start] \in ShiftRows
    BY <2>2, InputsAssumption DEF NoShift, ShiftRows, ShiftStatuses
  <2>4. shifts' \in [Shifts -> ShiftRows]
    BY <1>1, <2>2, <2>3 DEF CreateShifts
  <2>5. \A v \in Workers : LocalsSet(v)'
    BY <2>1 DEF LocalsSet
  <2>6. QED
    BY <2>1, <2>4, <2>5
<1>2. ASSUME NEW h \in Shifts, NEW e \in Employees, NEW t \in ShiftStarts,
             NEW status \in ShiftStatuses, UpdateShift(h, e, t, status)
      PROVE  ControlTypeOK'
  <2>1. UNCHANGED <<now, sessions, breaks, alerts, reminders, pc, loc>>
    BY <1>2 DEF UpdateShift, Slots
  <2>2. shifts' \in [Shifts -> ShiftRows]
    <3> DEFINE row == [shifts[h] EXCEPT !.emp = e, !.start = t, !.status = status]
    <3>1. row \in ShiftRows
      <4>1. shifts[h] \in ShiftRows /\ t \in Nat /\ status \in ShiftStatuses
        BY InputsAssumption
      <4>2. QED
        BY <4>1 DEF ShiftRows
    <3>2. shifts' = [shifts EXCEPT ![h] = row]
      BY <1>2 DEF UpdateShift
    <3> HIDE DEF row
    <3>3. QED
      BY <3>1, <3>2
  <2>3. \A v \in Workers : LocalsSet(v)'
    BY <2>1 DEF LocalsSet
  <2>4. QED
    BY <2>1, <2>2, <2>3
<1>3. ASSUME NEW w \in Workers, NEW h \in Shifts, RemoveShiftRead(w, h) PROVE ControlTypeOK'
  <2> DEFINE l == [NoLocals EXCEPT !.shift = h]
  <2>1. l \in Locals /\ l.shift # Null
    BY IdsAssumption DEF NoLocals, Locals, GeofenceStatuses
  <2>2. "rs_delete" \in Labels /\ "rs_delete" \notin HasEmployee \cup HasSid \cup HasBid \cup HasList
    BY DEF Labels, HasEmployee, HasSid, HasBid, HasShift, HasList
  <2>3. UNCHANGED Tables /\ Goto(w, "rs_delete", l)
    BY <1>3 DEF RemoveShiftRead, Tables, Database
  <2> HIDE DEF l
  <2>4. QED
    BY <2>1, <2>2, <2>3, GotoType DEF Goto, Tables
<1>4. ASSUME NEW w \in Workers, RemoveShiftDelete(w) PROVE ControlTypeOK'
  <2>1. Finish(w) /\ UNCHANGED <<now, breaks, alerts, reminders>>
    BY <1>4 DEF RemoveShiftDelete
  <2>2. shifts' \in [Shifts -> ShiftRows]
    BY <1>4 DEF RemoveShiftDelete, ShiftRows, ShiftStatuses
  <2>3. sessions' \in [Sessions -> SessionRows]
    <3>1. ASSUME NEW s \in Sessions PROVE [sessions[s] EXCEPT !.shift = Null] \in SessionRows
      BY DEF SessionRows
    <3>2. QED
      BY <1>4, <3>1 DEF RemoveShiftDelete
  <2>4. QED
    BY <2>1, <2>2, <2>3, FinishType
<1>5. QED
  BY <1>1, <1>2, <1>3, <1>4

(* The steps of the two jobs are well typed.                               *)
LEMMA JobType ==
  ASSUME ControlTypeOK, NEW w \in Workers,
         \/ MissedList(w) \/ MissedCheck(w) \/ MissedMark(w)
         \/ RemindList(w) \/ RemindStamp(w) \/ RemindSend(w)
  PROVE  ControlTypeOK'
<1> USE DEF ControlTypeOK
<1> DEFINE Items == [id : Shifts, emp : Employees \cup {Null}, start : Nat]
<1>l. /\ HasList \subseteq Labels /\ HasList = {"ms_check", "rm_stamp"}
      /\ HasList \cap (HasEmployee \cup HasSid \cup HasBid \cup HasShift) = {}
      /\ {"ms_mark", "rm_send"} \subseteq HasShift \cap Labels
      /\ {"ms_mark", "rm_send"} \cap (HasEmployee \cup HasSid \cup HasBid \cup HasList) = {}
  BY DEF Labels, HasEmployee, HasSid, HasBid, HasShift, HasList
<1>i. loc[w].list \subseteq Items
  BY DEF Locals
<1>n. ASSUME NEW lab \in HasList, NEW list, list \subseteq Items, list # {},
             Goto(w, lab, [NoLocals EXCEPT !.list = list]), UNCHANGED Tables
      PROVE  ControlTypeOK'
  <2> DEFINE l == [NoLocals EXCEPT !.list = list]
  <2>1. l \in Locals /\ l.list # {}
    BY <1>n DEF NoLocals, Locals, GeofenceStatuses
  <2>2. pc' = [pc EXCEPT ![w] = lab] /\ loc' = [loc EXCEPT ![w] = l]
    BY <1>n DEF Goto
  <2> HIDE DEF l
  <2>3. QED
    BY <2>1, <2>2, <1>l, <1>n, GotoType DEF Tables
<1>p. ASSUME NEW lab \in {"ms_mark", "rm_send"}, NEW item \in loc[w].list,
             Goto(w, lab, [loc[w] EXCEPT !.shift = item.id, !.list = @ \ {item}])
      PROVE  /\ pc' \in [Workers -> Labels]
             /\ loc' \in [Workers -> Locals]
             /\ \A v \in Workers : LocalsSet(v)'
  <2> DEFINE l == [loc[w] EXCEPT !.shift = item.id, !.list = @ \ {item}]
  <2>1. l \in Locals /\ l.shift # Null
    BY <1>i, IdsAssumption DEF Locals
  <2>2. pc' = [pc EXCEPT ![w] = lab] /\ loc' = [loc EXCEPT ![w] = l]
    BY <1>p DEF Goto
  <2> HIDE DEF l
  <2>3. QED
    BY <2>1, <2>2, <1>l, GotoType
<1>t. \A h \in Shifts : Item(h) \in Items
  BY DEF Item, ShiftRows
<1>1. ASSUME MissedList(w) PROVE ControlTypeOK'
  <2> DEFINE list == {Item(h) : h \in {k \in Shifts : Overdue(k)}}
  <2>1. list \subseteq Items /\ list # {}
    BY <1>1, <1>t DEF MissedList
  <2>2. Goto(w, "ms_check", [NoLocals EXCEPT !.list = list]) /\ UNCHANGED Tables
    BY <1>1 DEF MissedList, Tables, Database
  <2> HIDE DEF list
  <2>3. QED
    BY <2>1, <2>2, <1>n, <1>l
<1>2. ASSUME RemindList(w) PROVE ControlTypeOK'
  <2> DEFINE list == {Item(h) : h \in {k \in Shifts : Upcoming(k)}}
  <2>1. list \subseteq Items /\ list # {}
    BY <1>2, <1>t DEF RemindList
  <2>2. Goto(w, "rm_stamp", [NoLocals EXCEPT !.list = list]) /\ UNCHANGED Tables
    BY <1>2 DEF RemindList, Tables, Database
  <2> HIDE DEF list
  <2>3. QED
    BY <2>1, <2>2, <1>n, <1>l
<1>3. ASSUME MissedCheck(w) PROVE ControlTypeOK'
  <2>1. PICK item \in loc[w].list :
          \/ NextShift(w, "ms_check", loc[w].list \ {item})
          \/ Goto(w, "ms_mark", [loc[w] EXCEPT !.shift = item.id, !.list = @ \ {item}])
    BY <1>3 DEF MissedCheck
  <2>2. UNCHANGED Tables
    BY <1>3 DEF MissedCheck, Tables, Database
  <2>3. QED
    BY <2>1, <2>2, <1>i, <1>l, <1>p, NextShiftType DEF Tables
<1>4. ASSUME MissedMark(w) PROVE ControlTypeOK'
  <2>1. UNCHANGED <<now, sessions, breaks, alerts, reminders>>
    BY <1>4 DEF MissedMark
  <2>2. shifts' \in [Shifts -> ShiftRows]
    BY <1>4 DEF MissedMark, ShiftRows, ShiftStatuses
  <2>3. NextShift(w, "ms_check", loc[w].list) \/ Finish(w)
    BY <1>4 DEF MissedMark
  <2>4. QED
    BY <2>1, <2>2, <2>3, <1>i, <1>l, NextShiftType, FinishType
<1>5. ASSUME RemindStamp(w) PROVE ControlTypeOK'
  <2>1. UNCHANGED <<now, sessions, breaks, alerts, reminders>>
    BY <1>5 DEF RemindStamp
  <2>2. shifts' \in [Shifts -> ShiftRows]
    <3>1. PICK item \in loc[w].list :
            shifts' = shifts \/ shifts' = [shifts EXCEPT ![item.id].reminded = TRUE]
      BY <1>5 DEF RemindStamp
    <3>2. item.id \in Shifts
      BY <1>i
    <3>3. QED
      BY <3>1, <3>2 DEF ShiftRows
  <2>3. PICK item \in loc[w].list :
          \/ NextShift(w, "rm_stamp", loc[w].list \ {item})
          \/ Goto(w, "rm_send", [loc[w] EXCEPT !.shift = item.id, !.list = @ \ {item}])
    BY <1>5 DEF RemindStamp
  <2>4. QED
    BY <2>1, <2>2, <2>3, <1>i, <1>l, <1>p, NextShiftType
<1>6. ASSUME RemindSend(w) PROVE ControlTypeOK'
  <2>1. UNCHANGED <<now, sessions, breaks, shifts, alerts>>
    BY <1>6 DEF RemindSend
  <2>2. reminders' \in [Shifts -> Nat]
    <3>1. loc[w].shift \in Shifts
      BY <1>6 DEF RemindSend, LocalsSet, HasShift, Locals
    <3>2. reminders' = [reminders EXCEPT ![loc[w].shift] = reminders[loc[w].shift] + 1]
      BY <1>6 DEF RemindSend
    <3>3. QED
      BY <3>1, <3>2
  <2>3. NextShift(w, "rm_stamp", loc[w].list)
    BY <1>6 DEF RemindSend
  <2>4. QED
    BY <2>1, <2>2, <2>3, <1>i, <1>l, NextShiftType
<1>7. QED
  BY <1>1, <1>2, <1>3, <1>4, <1>5, <1>6

(* Where a failing call leads its handler.                                 *)
LEMMA DbErrorGoes ==
  ASSUME NEW w, DbError(w)
  PROVE  /\ pc[w] # "idle"
         /\ \/ pc[w] = "co_shift" /\ Goto(w, "co_complete", loc[w])
            \/ pc[w] = "rm_send" /\ NextShift(w, "rm_stamp", loc[w].list)
            \/ pc[w] \in Posting /\ Goto(w, "lc_admins", loc[w])
            \/ pc[w] \in Telling /\ End(w) /\ unheard' = unheard \cup {loc[w].sid}
            \/ pc[w] \notin {"co_shift", "rm_send"} \cup Posting \cup Telling /\ Finish(w)
BY DEF DbError, Posting, Telling

(* Failing calls, restarts, the clock and waiting are well typed.          *)
LEMMA FaultType ==
  ASSUME ControlTypeOK, (\E w \in Workers : DbError(w)) \/ Crash \/ Tick \/ Wait
  PROVE  ControlTypeOK'
<1> USE DEF ControlTypeOK
<1>1. ASSUME NEW w \in Workers, DbError(w) PROVE ControlTypeOK'
  <2>1. UNCHANGED <<now, sessions, breaks, shifts, reminders>>
    BY <1>1 DEF DbError
  <2>2. alerts' \in [Sessions -> SUBSET Admins]
    BY <1>1 DEF DbError
  <2>e. pc[w] \in Posting \/ pc[w] \in Telling => loc[w] \in Locals /\ loc[w].sid # Null
    BY DEF Posting, Telling, LocalsSet, HasSid
  <2>3. CASE pc[w] = "co_shift"
    <3>1. Goto(w, "co_complete", loc[w])
      BY <1>1, <2>3, DbErrorGoes DEF Posting, Telling
    <3>2. "co_complete" \in Labels /\ "co_complete" \notin HasEmployee \cup HasBid \cup HasShift \cup HasList
      BY DEF Labels, HasEmployee, HasSid, HasBid, HasShift, HasList
    <3>3. loc[w] \in Locals /\ loc[w].sid # Null
      BY <2>3 DEF LocalsSet, HasSid
    <3>4. QED
      BY <3>1, <3>2, <3>3, <2>1, <2>2, GotoType DEF Goto
  <2>4. CASE pc[w] = "rm_send"
    <3>1. NextShift(w, "rm_stamp", loc[w].list)
      BY <1>1, <2>4, DbErrorGoes DEF Posting, Telling
    <3>2. "rm_stamp" \in HasList
          /\ loc[w].list \subseteq [id : Shifts, emp : Employees \cup {Null}, start : Nat]
      BY DEF HasList, Locals
    <3>3. QED
      BY <3>1, <3>2, <2>1, <2>2, NextShiftType
  <2>5. CASE pc[w] \in Posting
    <3>1. Goto(w, "lc_admins", loc[w])
      BY <1>1, <2>5, DbErrorGoes DEF Posting, Telling
    <3>2. "lc_admins" \in Labels /\ "lc_admins" \notin HasEmployee \cup HasBid \cup HasShift \cup HasList
      BY DEF Labels, HasEmployee, HasSid, HasBid, HasShift, HasList
    <3>3. QED
      BY <3>1, <3>2, <2>e, <2>5, <2>1, <2>2, GotoType DEF Goto
  <2>6. CASE pc[w] \notin {"co_shift", "rm_send"} \cup Posting
    <3>1. End(w)
      BY <1>1, <2>6, DbErrorGoes DEF Finish
    <3>2. QED
      BY <3>1, <2>1, <2>2, EndType
  <2>7. QED
    BY <2>3, <2>4, <2>5, <2>6
<1>2. ASSUME Crash PROVE ControlTypeOK'
  <2>1. UNCHANGED Tables
    BY <1>2 DEF Crash, Tables, Database
  <2>2. pc' \in [Workers -> Labels] /\ loc' \in [Workers -> Locals]
    BY <1>2 DEF Crash, Labels, NoLocals, Locals, GeofenceStatuses
  <2>3. \A v \in Workers : LocalsSet(v)'
    BY <1>2 DEF Crash, LocalsSet, HasEmployee, HasSid, HasBid, HasShift, HasList
  <2>4. QED
    BY <2>1, <2>2, <2>3 DEF Tables
<1>3. ASSUME Tick \/ Wait PROVE ControlTypeOK'
  <2>1. UNCHANGED <<sessions, breaks, shifts, alerts, reminders, pc, loc>> /\ now' \in Nat
    BY <1>3, ClockAssumption DEF Tick, Wait, vars, Database, Slots
  <2>2. \A v \in Workers : LocalsSet(v)'
    BY <2>1 DEF LocalsSet
  <2>3. QED
    BY <2>1, <2>2
<1>4. QED
  BY <1>1, <1>2, <1>3

(* Every step of the time clock keeps its tables and slots well typed.     *)
LEMMA TypeNext == ControlTypeOK /\ [Next]_vars => ControlTypeOK'
<1> SUFFICES ASSUME ControlTypeOK, [Next]_vars PROVE ControlTypeOK'
  OBVIOUS
<1>1. CASE UNCHANGED vars
  BY <1>1, FaultType DEF Wait, vars, ControlTypeOK, LocalsSet
<1>2. ASSUME Arrive PROVE ControlTypeOK'
  BY <1>2, ClockInType, ClockOutType, BreakType, ShiftType, JobType DEF Arrive, Workers
<1>3. ASSUME NEW w \in Workers, HandlerStep(w) PROVE ControlTypeOK'
  BY <1>3, ClockInType, ClockOutType, BreakType, ShiftType, JobType DEF HandlerStep
<1>4. QED
  BY <1>1, <1>2, <1>3, FaultType DEF Next

(* The tables and the slots of the time clock are always well typed: no    *)
(* handler ever dereferences a local it has not set.                       *)
THEOREM TypeCorrect == Spec => []ControlTypeOK
BY TypeInit, TypeNext, PTL DEF Spec

-----------------------------------------------------------------------------
(* The break gate *)

(* BreakGate alone is not inductive: endBreak must close a break of the    *)
(* session it sets back to active, and a session that is created must not  *)
(* find breaks waiting for it.                                             *)
BreakInv ==
  /\ BreakGate
  /\ \A b \in Breaks : breaks[b].session # Null => sessions[breaks[b].session].status # "none"
  /\ \A w \in Workers : pc[w] = "eb_commit" => breaks[loc[w].bid].session = loc[w].sid

(* No slot enters the second half of endBreak or changes its locals there. *)
EndBreaksKept == \A v \in Workers : pc'[v] = "eb_commit" => pc[v] = "eb_commit" /\ loc'[v] = loc[v]

(* A slot that moves anywhere else leaves the endBreaks in flight alone.   *)
LEMMA SlotFrame ==
  ASSUME ControlTypeOK, NEW w \in Workers, NEW label, NEW locals, label # "eb_commit",
         pc' = [pc EXCEPT ![w] = label],
         loc' = [loc EXCEPT ![w] = locals]
  PROVE  EndBreaksKept
BY DEF EndBreaksKept, ControlTypeOK

(* Steps that change no session status, no break and no endBreak in flight *)
(* preserve the invariant.                                                 *)
LEMMA GateFrame ==
  ASSUME ControlTypeOK, BreakInv, EndBreaksKept,
         \A s \in Sessions : sessions'[s].status = sessions[s].status,
         breaks' = breaks
  PROVE  BreakInv'
<1>1. BreakGate'
  BY DEF BreakInv, BreakGate, OpenBreaks, BreaksOf
<1>2. \A b \in Breaks : breaks'[b].session # Null => sessions'[breaks'[b].session].status # "none"
  BY DEF BreakInv, ControlTypeOK, BreakRows
<1>3. \A w \in Workers : pc'[w] = "eb_commit" => breaks'[loc'[w].bid].session = loc'[w].sid
  BY DEF BreakInv, EndBreaksKept
<1>4. QED
  BY <1>1, <1>2, <1>3 DEF BreakInv

(* The steps of endBreak, startBreak and clockOut's automatic end.         *)
LEMMA GateBreaks ==
  ASSUME ControlTypeOK, BreakInv,
         \/ \E s \in Sessions, b \in Breaks, type \in BreakTypes : StartBreak(s, b, type)
         \/ \E w \in Workers, s \in Sessions : EndBreakRead(w, s)
         \/ \E w \in Workers : EndBreakCommit(w)
         \/ \E w \in Workers : ClockOutEndBreak(w)
  PROVE  BreakInv'
<1>n. \A s \in Sessions : s # Null
  BY IdsAssumption
<1>1. ASSUME NEW s \in Sessions, NEW b \in Breaks, NEW type \in BreakTypes, StartBreak(s, b, type)
      PROVE  BreakInv'
  <2>1. /\ OpenBreaks(s) = {}
        /\ sessions[s].status = "active"
        /\ sessions' = [sessions EXCEPT ![s].status = "on_break"]
        /\ breaks[b].session = Null
        /\ breaks' = [breaks EXCEPT ![b] = [session |-> s, type |-> type, started_at |-> now, ended_at |-> Null]]
        /\ UNCHANGED <<pc, loc>>
    BY <1>1 DEF StartBreak, BreakInv, BreakGate, Slots
  <2>2. \A r \in Sessions \ {s} : OpenBreaks(r)' = OpenBreaks(r) /\ sessions'[r] = sessions[r]
    BY <2>1, <1>n DEF OpenBreaks, BreaksOf, ControlTypeOK
  <2>3. OpenBreaks(s)' = {b} /\ sessions'[s].status = "on_break"
    BY <2>1 DEF OpenBreaks, BreaksOf, ControlTypeOK, SessionRows
  <2>4. BreakGate'
    BY <2>2, <2>3 DEF BreakGate, BreakInv
  <2>5. \A c \in Breaks : breaks'[c].session # Null => sessions'[breaks'[c].session].status # "none"
    BY <2>1 DEF BreakInv, ControlTypeOK, BreakRows, SessionRows
  <2>6. ASSUME NEW w \in Workers, pc'[w] = "eb_commit"
        PROVE  breaks'[loc'[w].bid].session = loc'[w].sid
    <3>1. loc[w].sid # Null /\ breaks[loc[w].bid].session = loc[w].sid
      BY <2>1, <2>6 DEF BreakInv, ControlTypeOK, LocalsSet, HasSid
    <3>2. loc[w].bid # b
      BY <3>1, <2>1
    <3>3. QED
      BY <3>1, <3>2, <2>1 DEF ControlTypeOK
  <2>7. QED
    BY <2>4, <2>5, <2>6 DEF BreakInv
<1>2. ASSUME NEW w \in Workers, NEW s \in Sessions, EndBreakRead(w, s) PROVE BreakInv'
  <2>1. UNCHANGED <<sessions, breaks>>
    BY <1>2 DEF EndBreakRead, Database
  <2>2. PICK b \in OpenBreaks(s) : Goto(w, "eb_commit", [NoLocals EXCEPT !.sid = s, !.bid = b, !.at = now])
    BY <1>2 DEF EndBreakRead
  <2>3. BreakGate'
    BY <2>1 DEF BreakGate, BreakInv, OpenBreaks, BreaksOf
  <2>4. ASSUME NEW v \in Workers, pc'[v] = "eb_commit"
        PROVE  breaks'[loc'[v].bid].session = loc'[v].sid
    <3>1. CASE v = w
      <4>1. loc'[w].sid = s /\ loc'[w].bid = b
        BY <2>2 DEF Goto, ControlTypeOK, NoLocals
      <4>2. breaks[b].session = s
        BY DEF OpenBreaks, BreaksOf
      <4>3. QED
        BY <3>1, <4>1, <4>2, <2>1
    <3>2. CASE v # w
      BY <3>2, <2>1, <2>2, <2>4 DEF Goto, ControlTypeOK, BreakInv
    <3>3. QED
      BY <3>1, <3>2
  <2>5. QED
    BY <2>1, <2>3, <2>4 DEF BreakInv
<1>3. ASSUME NEW w \in Workers, EndBreakCommit(w) PROVE BreakInv'
  <2>1. EndBreaksKept
    BY <1>3, SlotFrame DEF EndBreakCommit, Finish, End
  <2>2. CASE UNCHANGED <<breaks, sessions>>
    BY <2>1, <2>2, GateFrame
  <2>3. CASE breaks[loc[w].bid].ended_at = Null
    <3>0. loc[w].sid \in Sessions /\ loc[w].bid \in Breaks /\ loc[w].at \in Nat /\ loc[w].at # Null
      BY <1>3, IdsAssumption DEF EndBreakCommit, ControlTypeOK, LocalsSet, HasSid, HasBid, Locals
    <3>1. PICK s \in Sessions, b \in Breaks, at \in Nat :
            s = loc[w].sid /\ b = loc[w].bid /\ at = loc[w].at /\ at # Null
      BY <3>0
    <3>2. breaks[b].session = s
      BY <1>3, <3>1 DEF EndBreakCommit, BreakInv
    <3>3. breaks' = [breaks EXCEPT ![b].ended_at = at] /\ sessions' = [sessions EXCEPT ![s].status = "active"]
      BY <1>3, <2>3, <3>1 DEF EndBreakCommit
    <3>4. OpenBreaks(s) = {b}
      BY <2>3, <3>1, <3>2 DEF BreakInv, BreakGate, OpenBreaks, BreaksOf
    <3>5. /\ \A c \in Breaks : breaks'[c].session = breaks[c].session
          /\ \A c \in Breaks \ {b} : breaks'[c].ended_at = breaks[c].ended_at
      BY <3>1, <3>3 DEF ControlTypeOK, BreakRows
    <3>6. breaks'[b].ended_at # Null
      BY <3>1, <3>3 DEF ControlTypeOK, BreakRows
    <3>7. OpenBreaks(s)' = {}
      BY <3>4, <3>5, <3>6 DEF OpenBreaks, BreaksOf
    <3>8. \A r \in Sessions \ {s} : OpenBreaks(r)' = OpenBreaks(r) /\ sessions'[r] = sessions[r]
      BY <3>1, <3>2, <3>3, <3>5 DEF OpenBreaks, BreaksOf, ControlTypeOK
    <3>9. BreakGate'
      BY <3>7, <3>8 DEF BreakGate, BreakInv
    <3>10. \A c \in Breaks : breaks'[c].session # Null => sessions'[breaks'[c].session].status # "none"
      BY <3>1, <3>3, <3>5 DEF BreakInv, ControlTypeOK, BreakRows, SessionRows
    <3>11. ASSUME NEW v \in Workers, pc'[v] = "eb_commit"
             PROVE  breaks'[loc'[v].bid].session = loc'[v].sid
      <4>1. pc[v] = "eb_commit" /\ loc'[v] = loc[v]
        BY <3>11, <2>1 DEF EndBreaksKept
      <4>2. loc[v].bid \in Breaks /\ breaks[loc[v].bid].session = loc[v].sid
        BY <4>1 DEF BreakInv, ControlTypeOK, Locals, LocalsSet, HasBid
      <4>3. QED
        BY <4>1, <4>2, <3>5
    <3>12. QED
      BY <3>9, <3>10, <3>11 DEF BreakInv
  <2>4. QED
    BY <1>3, <2>2, <2>3 DEF EndBreakCommit
<1>4. ASSUME NEW w \in Workers, ClockOutEndBreak(w) PROVE BreakInv'
  <2>1. EndBreaksKept
    BY <1>4, SlotFrame DEF ClockOutEndBreak, Goto
  <2>0. loc[w].bid \in Breaks /\ loc[w].at \in Nat /\ loc[w].at # Null
    BY <1>4, IdsAssumption DEF ClockOutEndBreak, ControlTypeOK, LocalsSet, HasBid, Locals
  <2>2. PICK b \in Breaks, at \in Nat : b = loc[w].bid /\ at = loc[w].at /\ at # Null
    BY <2>0
  <2>3. breaks' = [breaks EXCEPT ![b].ended_at = at] /\ sessions' = sessions
    BY <1>4, <2>2 DEF ClockOutEndBreak
  <2>4. /\ \A c \in Breaks : breaks'[c].session = breaks[c].session
        /\ \A c \in Breaks \ {b} : breaks'[c].ended_at = breaks[c].ended_at
    BY <2>2, <2>3 DEF ControlTypeOK, BreakRows
  <2>5. breaks'[b].ended_at # Null
    BY <2>2, <2>3 DEF ControlTypeOK, BreakRows
  <2>6. \A r \in Sessions : OpenBreaks(r)' \subseteq OpenBreaks(r)
    BY <2>4, <2>5 DEF OpenBreaks, BreaksOf
  <2>7. BreakGate'
    BY <2>3, <2>6 DEF BreakGate, BreakInv
  <2>8. ASSUME NEW v \in Workers, pc'[v] = "eb_commit"
           PROVE  breaks'[loc'[v].bid].session = loc'[v].sid
    <3>1. pc[v] = "eb_commit" /\ loc'[v] = loc[v]
      BY <2>8, <2>1 DEF EndBreaksKept
    <3>2. loc[v].bid \in Breaks /\ breaks[loc[v].bid].session = loc[v].sid
      BY <3>1 DEF BreakInv, ControlTypeOK, Locals, LocalsSet, HasBid
    <3>3. QED
      BY <3>1, <3>2, <2>4
  <2>9. QED
    BY <2>3, <2>4, <2>7, <2>8 DEF BreakInv
<1>5. QED
  BY <1>1, <1>2, <1>3, <1>4

(* The steps of clockIn and clockOut that write a session row.             *)
LEMMA GateSessions ==
  ASSUME ControlTypeOK, BreakInv, NEW w \in Workers,
         ClockInCreate(w) \/ ClockOutComplete(w) \/ LaborMark(w) \/ RemoveShiftDelete(w)
  PROVE  BreakInv'
<1>1. ASSUME ClockInCreate(w) PROVE BreakInv'
  <2>1. EndBreaksKept
    BY <1>1, SlotFrame DEF ClockInCreate, Finish, End
  <2>2. breaks' = breaks
    BY <1>1 DEF ClockInCreate
  <2>3. CASE UNCHANGED sessions
    BY <2>1, <2>2, <2>3, GateFrame
  <2>4. ASSUME NEW s \in Sessions, sessions[s].status = "none", NEW row,
               row.status = "active", sessions' = [sessions EXCEPT ![s] = row]
        PROVE  BreakInv'
    <3>1. OpenBreaks(s) = {}
      BY <2>4, IdsAssumption DEF BreakInv, OpenBreaks, BreaksOf
    <3>2. \A r \in Sessions : OpenBreaks(r)' = OpenBreaks(r) /\ (r # s => sessions'[r] = sessions[r])
      BY <2>2, <2>4 DEF OpenBreaks, BreaksOf, ControlTypeOK
    <3>3. BreakGate'
      BY <3>1, <3>2 DEF BreakGate, BreakInv
    <3>4. \A b \in Breaks : breaks'[b].session # Null => sessions'[breaks'[b].session].status # "none"
      BY <2>2, <2>4 DEF BreakInv, ControlTypeOK, BreakRows
    <3>5. \A v \in Workers : pc'[v] = "eb_commit" => breaks'[loc'[v].bid].session = loc'[v].sid
      BY <2>1, <2>2 DEF EndBreaksKept, BreakInv
    <3>6. QED
      BY <3>3, <3>4, <3>5 DEF BreakInv
  <2>5. ASSUME NEW s \in Sessions, sessions[s].status = "none",
               sessions' = [sessions EXCEPT ![s] =
                  [NoSession EXCEPT !.status = "active", !.emp = loc[w].emp,
                     !.clock_in_at = loc[w].at, !.shift = loc[w].shift,
                     !.project = loc[w].project, !.geofence = loc[w].geofence]]
        PROVE  BreakInv'
    <3> DEFINE row == [NoSession EXCEPT !.status = "active", !.emp = loc[w].emp,
                     !.clock_in_at = loc[w].at, !.shift = loc[w].shift,
                     !.project = loc[w].project, !.geofence = loc[w].geofence]
    <3>1. row.status = "active"
      BY DEF NoSession
    <3> HIDE DEF row
    <3>2. QED
      BY <2>4, <2>5, <3>1 DEF row
  <2>6. QED
    BY <1>1, <2>3, <2>5 DEF ClockInCreate
<1>2. ASSUME ClockOutComplete(w) PROVE BreakInv'
  <2>1. EndBreaksKept
    BY <1>2, SlotFrame DEF ClockOutComplete, Finish, End, Goto
  <2>2. breaks' = breaks
    BY <1>2 DEF ClockOutComplete
  <2>3. \A r \in Sessions : sessions'[r].status \in {sessions[r].status, "completed"}
    BY <1>2 DEF ClockOutComplete, ControlTypeOK, SessionRows
  <2>4. BreakGate'
    BY <2>2, <2>3 DEF BreakGate, BreakInv, OpenBreaks, BreaksOf
  <2>5. \A b \in Breaks : breaks'[b].session # Null => sessions'[breaks'[b].session].status # "none"
    BY <2>2, <2>3 DEF BreakInv, ControlTypeOK, BreakRows
  <2>6. \A v \in Workers : pc'[v] = "eb_commit" => breaks'[loc'[v].bid].session = loc'[v].sid
    BY <2>1, <2>2 DEF EndBreaksKept, BreakInv
  <2>7. QED
    BY <2>4, <2>5, <2>6 DEF BreakInv
<1>3. ASSUME LaborMark(w) PROVE BreakInv'
  <2>1. EndBreaksKept
    BY <1>3, SlotFrame DEF LaborMark, Finish, End
  <2>2. breaks' = breaks /\ \A r \in Sessions : sessions'[r].status = sessions[r].status
    BY <1>3 DEF LaborMark, ControlTypeOK, SessionRows
  <2>3. QED
    BY <2>1, <2>2, GateFrame
<1>4. ASSUME RemoveShiftDelete(w) PROVE BreakInv'
  <2>1. EndBreaksKept
    BY <1>4, SlotFrame DEF RemoveShiftDelete, Finish, End
  <2>2. breaks' = breaks /\ \A r \in Sessions : sessions'[r].status = sessions[r].status
    BY <1>4 DEF RemoveShiftDelete, ControlTypeOK, SessionRows
  <2>3. QED
    BY <2>1, <2>2, GateFrame
<1>5. QED
  BY <1>1, <1>2, <1>3, <1>4

(* At the start there is no break and no handler in flight.                *)
LEMMA GateInit == Init => BreakInv
<1> SUFFICES ASSUME Init PROVE BreakInv
  OBVIOUS
<1>1. \A b \in Breaks : breaks[b].session = Null
  BY DEF Init, NoBreak
<1>2. \A s \in Sessions : OpenBreaks(s) = {}
  BY <1>1, IdsAssumption DEF OpenBreaks, BreaksOf
<1>3. \A w \in Workers : pc[w] # "eb_commit"
  BY DEF Init
<1>4. QED
  BY <1>1, <1>2, <1>3 DEF BreakInv, BreakGate

(* A slot of a queue job goes on with the next shift or ends.              *)
LEMMA NextShiftFrame ==
  ASSUME ControlTypeOK, NEW w \in Workers, NEW label, NEW rest, label # "eb_commit",
         NextShift(w, label, rest)
  PROVE  EndBreaksKept
<1>1. CASE rest = {}
  BY <1>1, SlotFrame DEF NextShift, Finish, End
<1>2. CASE rest # {}
  BY <1>2, SlotFrame DEF NextShift, Goto
<1>3. QED
  BY <1>1, <1>2

(* The steps that write neither a session row nor a break row.             *)
LEMMA GateOthers ==
  ASSUME ControlTypeOK, BreakInv, NEW w \in Workers,
         \/ ClockInMatch(w) \/ ClockInClaim(w)
         \/ ClockOutFindBreak(w) \/ ClockOutSumBreaks(w) \/ ClockOutOvertime(w) \/ ClockOutShift(w)
         \/ LaborCreate(w) \/ LaborAdmins(w) \/ LaborNotify(w)
         \/ MissedCheck(w) \/ MissedMark(w) \/ RemindStamp(w) \/ RemindSend(w)
         \/ DbError(w)
  PROVE  BreakInv'
<1> SUFFICES EndBreaksKept /\ sessions' = sessions /\ breaks' = breaks
  BY GateFrame
<1>1. sessions' = sessions /\ breaks' = breaks
  BY DEF ClockInMatch, ClockInClaim, ClockOutFindBreak, ClockOutSumBreaks, ClockOutOvertime,
         ClockOutShift, LaborCreate, LaborAdmins, LaborNotify, MissedCheck, MissedMark, RemindStamp,
         RemindSend, DbError, Database
<1>2. CASE ClockInMatch(w)
  BY <1>1, <1>2, SlotFrame DEF ClockInMatch, Goto
<1>3. CASE ClockInClaim(w)
  BY <1>1, <1>3, SlotFrame DEF ClockInClaim, Goto, Finish, End
<1>4. CASE ClockOutFindBreak(w)
  BY <1>1, <1>4, SlotFrame DEF ClockOutFindBreak, Goto
<1>5. CASE ClockOutSumBreaks(w)
  BY <1>1, <1>5 DEF ClockOutSumBreaks, EndBreaksKept, ControlTypeOK
<1>6. CASE ClockOutOvertime(w)
  BY <1>1, <1>6 DEF ClockOutOvertime, EndBreaksKept, ControlTypeOK
<1>7. CASE ClockOutShift(w)
  BY <1>1, <1>7, SlotFrame DEF ClockOutShift, Goto
<1>8. CASE LaborCreate(w)
  BY <1>1, <1>8, SlotFrame DEF LaborCreate, Goto
<1>9. CASE MissedCheck(w)
  BY <1>1, <1>9, SlotFrame, NextShiftFrame DEF MissedCheck, Goto
<1>10. CASE MissedMark(w)
  BY <1>1, <1>10, SlotFrame, NextShiftFrame DEF MissedMark, Finish, End
<1>11. CASE RemindStamp(w)
  BY <1>1, <1>11, SlotFrame, NextShiftFrame DEF RemindStamp, Goto
<1>12. CASE RemindSend(w)
  BY <1>1, <1>12, NextShiftFrame DEF RemindSend
<1>13. CASE DbError(w)
  <2>1. \/ Goto(w, "co_complete", loc[w])
        \/ NextShift(w, "rm_stamp", loc[w].list)
        \/ Goto(w, "lc_admins", loc[w])
        \/ End(w)
    BY <1>13, DbErrorGoes DEF Finish
  <2>2. QED
    BY <1>1, <2>1, SlotFrame, NextShiftFrame DEF Goto, Finish, End
<1>14. CASE LaborAdmins(w)
  BY <1>1, <1>14, SlotFrame DEF LaborAdmins, Goto, End
<1>15. CASE LaborNotify(w)
  BY <1>1, <1>15, SlotFrame DEF LaborNotify, Finish, End
<1>16. QED
  BY <1>2, <1>3, <1>4, <1>5, <1>6, <1>7, <1>8, <1>9, <1>10, <1>11, <1>12, <1>13, <1>14, <1>15

(* Requests that arrive, and the steps of no handler.                      *)
LEMMA GateArrive ==
  ASSUME ControlTypeOK, BreakInv, Arrive \/ Crash \/ Tick \/ UNCHANGED vars
  PROVE  BreakInv'
<1>1. ASSUME UNCHANGED <<sessions, breaks, pc, loc>> PROVE BreakInv'
  BY <1>1, GateFrame DEF EndBreaksKept
<1>2. ASSUME NEW w \in Workers, NEW label, NEW locals, label # "eb_commit",
             Goto(w, label, locals), UNCHANGED Database
      PROVE  BreakInv'
  <2>1. EndBreaksKept
    BY <1>2, SlotFrame DEF Goto
  <2>2. QED
    BY <1>2, <2>1, GateFrame DEF Database
<1>3. ASSUME NEW w \in Requests, NEW e \in Employees, NEW geo, NEW project, NEW task,
             ClockInCheck(w, e, geo, project, task)
      PROVE  BreakInv'
  <2>1. Goto(w, "ci_match", [NoLocals EXCEPT !.emp = e, !.project = project, !.geofence = GpsGate(geo)])
    BY <1>3 DEF ClockInCheck
  <2>2. UNCHANGED Database
    BY <1>3 DEF ClockInCheck
  <2>3. QED
    BY <1>2, <2>1, <2>2 DEF Workers
<1>4. ASSUME NEW w \in Requests, NEW e \in Employees, ClockOutRead(w, e) PROVE BreakInv'
  <2>1. \E label \in {"co_find", "co_sum"}, s \in Sessions :
          Goto(w, label, [NoLocals EXCEPT !.emp = e, !.sid = s, !.shift = sessions[s].shift, !.at = now])
    BY <1>4 DEF ClockOutRead, OpenSessions
  <2>2. UNCHANGED Database
    BY <1>4 DEF ClockOutRead
  <2>3. QED
    BY <1>2, <2>1, <2>2 DEF Workers
<1>5. ASSUME NEW w \in Requests, NEW h \in Shifts, RemoveShiftRead(w, h) PROVE BreakInv'
  BY <1>5, <1>2 DEF RemoveShiftRead, Workers
<1>6. ASSUME NEW w \in Jobs, MissedList(w) \/ RemindList(w) PROVE BreakInv'
  BY <1>6, <1>2 DEF MissedList, RemindList, Workers
<1>7. ASSUME NEW new, CreateShifts(new) PROVE BreakInv'
  BY <1>7, <1>1 DEF CreateShifts, Slots
<1>8. ASSUME NEW h, NEW e, NEW t, NEW status, UpdateShift(h, e, t, status) PROVE BreakInv'
  BY <1>8, <1>1 DEF UpdateShift, Slots
<1>9. CASE Crash
  <2>1. EndBreaksKept
    BY <1>9 DEF Crash, EndBreaksKept
  <2>2. QED
    BY <1>9, <2>1, GateFrame DEF Crash, Database
<1>10. CASE Tick \/ UNCHANGED vars
  BY <1>10, <1>1 DEF Tick, vars, Database, Slots
<1>11. CASE Arrive
  BY <1>11, <1>3, <1>4, <1>5, <1>6, <1>7, <1>8, GateBreaks DEF Arrive, Workers
<1>12. QED
  BY <1>9, <1>10, <1>11

(* Every step of the system preserves the break invariant.                 *)
LEMMA GateNext == ControlTypeOK /\ BreakInv /\ [Next]_vars => BreakInv'
<1> SUFFICES ASSUME ControlTypeOK, BreakInv, [Next]_vars PROVE BreakInv'
  OBVIOUS
<1>1. ASSUME NEW w \in Workers, HandlerStep(w) \/ DbError(w) PROVE BreakInv'
  BY <1>1, GateOthers, GateSessions, GateBreaks DEF HandlerStep
<1>2. CASE Wait
  BY <1>2, GateArrive DEF Wait
<1>3. QED
  BY <1>1, <1>2, GateArrive DEF Next

(* The row lock of break-entry.service.ts works however handlers           *)
(* interleave, fail or are cut off: no session has two open breaks, and an *)
(* active session has none.                                                *)
THEOREM BreakGateHolds == Spec => []BreakGate
<1>1. Init => BreakInv
  BY GateInit
<1>2. ControlTypeOK /\ BreakInv /\ [Next]_vars => BreakInv'
  BY GateNext
<1>3. BreakInv => BreakGate
  BY DEF BreakInv
<1>4. QED
  BY <1>1, <1>2, <1>3, TypeCorrect, PTL DEF Spec

-----------------------------------------------------------------------------
(* How slots move *)

(* Where a handler in flight goes next, failures included.                 *)
Edge(p, q) ==
  \/ q = "idle"
  \/ p = "ci_match" /\ q \in {"ci_claim", "ci_create"}
  \/ p = "ci_claim" /\ q = "ci_create"
  \/ p = "co_find" /\ q \in {"co_end", "co_sum"}
  \/ p = "co_end" /\ q = "co_sum"
  \/ p = "co_sum" /\ q = "co_overtime"
  \/ p = "co_overtime" /\ q \in {"co_shift", "co_complete"}
  \/ p = "co_shift" /\ q = "co_complete"
  \/ p = "co_complete" /\ q = "lc_create"
  \/ p = "lc_create" /\ q = "lc_mark"
  \/ p \in {"lc_create", "lc_mark"} /\ q = "lc_admins"
  \/ p = "lc_admins" /\ q = "lc_notify"
  \/ p \in {"ms_check", "ms_mark"} /\ q = "ms_check"
  \/ p = "ms_check" /\ q = "ms_mark"
  \/ p \in {"rm_stamp", "rm_send"} /\ q = "rm_stamp"
  \/ p = "rm_stamp" /\ q = "rm_send"

Starting == {"ci_match", "co_find", "co_sum", "eb_commit", "rs_delete", "ms_check", "rm_stamp"}

(* Only slot w moves.                                                      *)
OnlyMoves(w) == \A v \in Workers \ {w} : pc'[v] = pc[v] /\ loc'[v] = loc[v]

(* What a move to a label changes.                                         *)
LEMMA Went ==
  ASSUME ControlTypeOK, NEW w \in Workers, NEW label, NEW l, Goto(w, label, l)
  PROVE  OnlyMoves(w) /\ pc'[w] = label /\ loc'[w] = l
BY DEF Goto, ControlTypeOK, OnlyMoves

(* What the end of a handler changes.                                      *)
LEMMA Ended ==
  ASSUME ControlTypeOK, NEW w \in Workers, End(w)
  PROVE  OnlyMoves(w) /\ pc'[w] = "idle" /\ loc'[w] = NoLocals
BY DEF End, ControlTypeOK, OnlyMoves

LEMMA Finished ==
  ASSUME ControlTypeOK, NEW w \in Workers, Finish(w)
  PROVE  OnlyMoves(w) /\ pc'[w] = "idle" /\ loc'[w] = NoLocals
BY Ended DEF Finish

(* What going on to the next shift of a list changes.                      *)
LEMMA WentOn ==
  ASSUME ControlTypeOK, NEW w \in Workers, NEW label, NEW rest, NextShift(w, label, rest)
  PROVE  OnlyMoves(w) /\ pc'[w] \in {"idle", label}
BY Went, Finished DEF NextShift

(* A step of a handler moves its slot along an edge; the locals that name  *)
(* the employee and the session stay until it ends or takes another shift. *)
LEMMA HandlerMoves ==
  ASSUME ControlTypeOK, NEW w \in Workers, HandlerStep(w) \/ DbError(w)
  PROVE  /\ OnlyMoves(w)
         /\ pc[w] # "idle" /\ Edge(pc[w], pc'[w])
         /\ pc'[w] \in HasEmployee => loc'[w].emp = loc[w].emp
         /\ pc'[w] \in HasSid => loc'[w].sid = loc[w].sid
<1>l. loc[w] \in Locals
  BY DEF ControlTypeOK
<1>h. {"idle", "ms_check", "ms_mark", "rm_stamp", "rm_send"} \cap (HasEmployee \cup HasSid) = {}
  BY DEF HasEmployee, HasSid
<1>1. CASE ClockInMatch(w)
  <2>1. /\ pc[w] = "ci_match"
        /\ \E q \in {"ci_create", "ci_claim"}, l \in Locals : Goto(w, q, l) /\ l.emp = loc[w].emp
    <3>1. CASE Goto(w, "ci_create", [loc[w] EXCEPT !.at = now])
      <4>1. [loc[w] EXCEPT !.at = now] \in Locals /\ [loc[w] EXCEPT !.at = now].emp = loc[w].emp
        BY <1>l DEF Locals, ControlTypeOK
      <4>2. QED
        BY <1>1, <3>1, <4>1 DEF ClockInMatch
    <3>2. ASSUME NEW h \in Shifts, Goto(w, "ci_claim", [loc[w] EXCEPT !.at = now, !.shift = h])
          PROVE  \E q \in {"ci_create", "ci_claim"}, l \in Locals : Goto(w, q, l) /\ l.emp = loc[w].emp
      <4>1. /\ [loc[w] EXCEPT !.at = now, !.shift = h] \in Locals
            /\ [loc[w] EXCEPT !.at = now, !.shift = h].emp = loc[w].emp
        BY <1>l DEF Locals, ControlTypeOK
      <4>2. QED
        BY <3>2, <4>1
    <3>3. QED
      BY <1>1, <3>1, <3>2 DEF ClockInMatch, Candidates
  <2>2. QED
    BY <2>1, Went DEF Edge, HasSid
<1>2. CASE ClockInClaim(w)
  <2>1. pc[w] = "ci_claim" /\ (Goto(w, "ci_create", loc[w]) \/ Finish(w))
    BY <1>2 DEF ClockInClaim
  <2>2. QED
    BY <2>1, Went, Finished DEF Edge, HasSid, HasEmployee
<1>3. CASE ClockInCreate(w) \/ RemoveShiftDelete(w) \/ EndBreakCommit(w) \/ LaborMark(w) \/ LaborNotify(w)
  <2>1. pc[w] # "idle" /\ Finish(w)
    BY <1>3 DEF ClockInCreate, RemoveShiftDelete, EndBreakCommit, LaborMark, LaborNotify
  <2>2. QED
    BY <2>1, Finished DEF Edge, HasSid, HasEmployee
<1>4. CASE ClockOutFindBreak(w)
  <2>1. /\ pc[w] = "co_find"
        /\ \E q \in {"co_sum", "co_end"}, l \in Locals : Goto(w, q, l) /\ l.sid = loc[w].sid
    <3>1. ASSUME NEW b \in Breaks, Goto(w, "co_end", [loc[w] EXCEPT !.bid = b])
          PROVE  \E q \in {"co_sum", "co_end"}, l \in Locals : Goto(w, q, l) /\ l.sid = loc[w].sid
      <4>1. [loc[w] EXCEPT !.bid = b] \in Locals /\ [loc[w] EXCEPT !.bid = b].sid = loc[w].sid
        BY <1>l DEF Locals
      <4>2. QED
        BY <3>1, <4>1
    <3>2. QED
      BY <1>l, <1>4, <3>1 DEF ClockOutFindBreak, OpenBreaks, BreaksOf
  <2>2. QED
    BY <2>1, Went DEF Edge, HasEmployee
<1>5. CASE ClockOutEndBreak(w) \/ ClockOutShift(w) \/ LaborCreate(w)
  <2>1. \E p, q : /\ pc[w] = p /\ Goto(w, q, loc[w])
                  /\ <<p, q>> \in {<<"co_end", "co_sum">>, <<"co_shift", "co_complete">>, <<"lc_create", "lc_mark">>}
    BY <1>5 DEF ClockOutEndBreak, ClockOutShift, LaborCreate
  <2>2. QED
    BY <2>1, Went DEF Edge
<1>6. CASE ClockOutSumBreaks(w) \/ ClockOutOvertime(w)
  <2>1. \E q : /\ pc' = [pc EXCEPT ![w] = q] /\ loc' = loc
               /\ \/ pc[w] = "co_sum" /\ q = "co_overtime"
                  \/ pc[w] = "co_overtime" /\ q \in {"co_shift", "co_complete"}
    BY <1>6 DEF ClockOutSumBreaks, ClockOutOvertime
  <2>2. QED
    BY <2>1 DEF Edge, OnlyMoves, ControlTypeOK
<1>7. CASE ClockOutComplete(w)
  <2>1. pc[w] = "co_complete" /\ (Goto(w, "lc_create", loc[w]) \/ Finish(w))
    BY <1>7 DEF ClockOutComplete
  <2>2. QED
    BY <2>1, Went, Finished DEF Edge, HasSid, HasEmployee
<1>8. CASE MissedCheck(w)
  <2>1. /\ pc[w] = "ms_check"
        /\ (\E rest : NextShift(w, "ms_check", rest)) \/ (\E l : Goto(w, "ms_mark", l))
    BY <1>8 DEF MissedCheck
  <2>2. QED
    BY <1>h, <2>1, Went, WentOn DEF Edge
<1>9. CASE MissedMark(w)
  <2>1. pc[w] = "ms_mark" /\ (NextShift(w, "ms_check", loc[w].list) \/ Finish(w))
    BY <1>9 DEF MissedMark
  <2>2. QED
    BY <1>h, <2>1, WentOn, Finished DEF Edge
<1>10. CASE RemindStamp(w)
  <2>1. /\ pc[w] = "rm_stamp"
        /\ (\E rest : NextShift(w, "rm_stamp", rest)) \/ (\E l : Goto(w, "rm_send", l))
    BY <1>10 DEF RemindStamp
  <2>2. QED
    BY <1>h, <2>1, Went, WentOn DEF Edge
<1>11. CASE RemindSend(w)
  <2>1. pc[w] = "rm_send" /\ NextShift(w, "rm_stamp", loc[w].list)
    BY <1>11 DEF RemindSend
  <2>2. QED
    BY <1>h, <2>1, WentOn DEF Edge
<1>12. CASE DbError(w)
  <2>1. /\ pc[w] # "idle"
        /\ \/ pc[w] = "co_shift" /\ Goto(w, "co_complete", loc[w])
           \/ pc[w] = "rm_send" /\ NextShift(w, "rm_stamp", loc[w].list)
           \/ pc[w] \in {"lc_create", "lc_mark"} /\ Goto(w, "lc_admins", loc[w])
           \/ End(w)
    BY <1>12, DbErrorGoes DEF Posting, Finish
  <2>2. QED
    BY <1>h, <2>1, Went, WentOn, Ended DEF Edge
<1>13. CASE LaborAdmins(w)
  <2>1. pc[w] = "lc_admins" /\ (Goto(w, "lc_notify", loc[w]) \/ End(w))
    BY <1>13 DEF LaborAdmins
  <2>2. QED
    BY <1>h, <2>1, Went, Ended DEF Edge
<1>14. QED
  BY <1>1, <1>2, <1>3, <1>4, <1>5, <1>6, <1>7, <1>8, <1>9, <1>10, <1>11, <1>12, <1>13 DEF HandlerStep

(* A request or a job that arrives takes an idle slot, or is done at once. *)
LEMMA ArriveMoves ==
  ASSUME ControlTypeOK, Arrive
  PROVE  \/ UNCHANGED <<pc, loc>>
         \/ \E w \in Workers : OnlyMoves(w) /\ pc[w] = "idle" /\ pc'[w] \in Starting
<1>1. ASSUME NEW w \in Workers, NEW label \in Starting, NEW l, pc[w] = "idle", Goto(w, label, l)
      PROVE  OnlyMoves(w) /\ pc[w] = "idle" /\ pc'[w] \in Starting
  BY <1>1, Went
<1>2. ASSUME NEW w \in Requests, NEW e, NEW geo, NEW project, NEW task, ClockInCheck(w, e, geo, project, task)
      PROVE  OnlyMoves(w) /\ pc[w] = "idle" /\ pc'[w] \in Starting
  BY <1>2, <1>1 DEF ClockInCheck, Begin, Workers, Starting
<1>3. ASSUME NEW w \in Requests, NEW e, ClockOutRead(w, e)
      PROVE  OnlyMoves(w) /\ pc[w] = "idle" /\ pc'[w] \in Starting
  <2>1. pc[w] = "idle" /\ \E label \in {"co_find", "co_sum"} : \E l : Goto(w, label, l)
    BY <1>3 DEF ClockOutRead, Begin
  <2>2. QED
    BY <2>1, <1>1 DEF Workers, Starting
<1>4. ASSUME NEW w \in Requests, NEW s, EndBreakRead(w, s)
      PROVE  OnlyMoves(w) /\ pc[w] = "idle" /\ pc'[w] \in Starting
  BY <1>4, <1>1 DEF EndBreakRead, Begin, Workers, Starting
<1>5. ASSUME NEW w \in Requests, NEW h, RemoveShiftRead(w, h)
      PROVE  OnlyMoves(w) /\ pc[w] = "idle" /\ pc'[w] \in Starting
  BY <1>5, <1>1 DEF RemoveShiftRead, Begin, Workers, Starting
<1>6. ASSUME NEW w \in Jobs, MissedList(w) \/ RemindList(w)
      PROVE  OnlyMoves(w) /\ pc[w] = "idle" /\ pc'[w] \in Starting
  BY <1>6, <1>1 DEF MissedList, RemindList, Begin, Workers, Starting
<1>7. ASSUME NEW s, NEW b, NEW type, StartBreak(s, b, type) PROVE UNCHANGED <<pc, loc>>
  BY <1>7 DEF StartBreak, Slots
<1>8. ASSUME NEW new, CreateShifts(new) PROVE UNCHANGED <<pc, loc>>
  BY <1>8 DEF CreateShifts, Slots
<1>9. ASSUME NEW h, NEW e, NEW t, NEW status, UpdateShift(h, e, t, status) PROVE UNCHANGED <<pc, loc>>
  BY <1>9 DEF UpdateShift, Slots
<1>10. QED
  BY <1>2, <1>3, <1>4, <1>5, <1>6, <1>7, <1>8, <1>9 DEF Arrive, Workers

-----------------------------------------------------------------------------
(* What the steps do to the session rows *)

(* What creating the session changes in the sessions.                      *)
LEMMA Created ==
  ASSUME ControlTypeOK, NEW w \in Workers, ClockInCreate(w)
  PROVE  \/ sessions' = sessions
         \/ \E s \in Sessions :
              /\ sessions[s].status = "none"
              /\ sessions'[s].status = "active" /\ sessions'[s].emp = loc[w].emp
              /\ sessions'[s].shift = loc[w].shift /\ sessions'[s].clock_in_at = loc[w].at
              /\ sessions'[s].posted = FALSE /\ sessions'[s].clock_out_at = Null
              /\ \A r \in Sessions \ {s} : sessions'[r] = sessions[r]
<1>1. ASSUME NEW s \in Sessions, NEW row, sessions' = [sessions EXCEPT ![s] = row]
      PROVE  sessions'[s] = row /\ \A r \in Sessions \ {s} : sessions'[r] = sessions[r]
  BY <1>1 DEF ControlTypeOK
<1>2. ASSUME NEW s \in Sessions,
             sessions[s].status = "none",
             sessions' = [sessions EXCEPT ![s] =
                  [NoSession EXCEPT !.status = "active", !.emp = loc[w].emp,
                     !.clock_in_at = loc[w].at, !.shift = loc[w].shift,
                     !.project = loc[w].project, !.geofence = loc[w].geofence]]
      PROVE  /\ sessions'[s].status = "active" /\ sessions'[s].emp = loc[w].emp
             /\ sessions'[s].shift = loc[w].shift /\ sessions'[s].clock_in_at = loc[w].at
             /\ sessions'[s].posted = FALSE /\ sessions'[s].clock_out_at = Null
             /\ \A r \in Sessions \ {s} : sessions'[r] = sessions[r]
  <2> DEFINE row == [NoSession EXCEPT !.status = "active", !.emp = loc[w].emp,
                     !.clock_in_at = loc[w].at, !.shift = loc[w].shift,
                     !.project = loc[w].project, !.geofence = loc[w].geofence]
  <2>1. /\ row.status = "active" /\ row.emp = loc[w].emp /\ row.shift = loc[w].shift
        /\ row.clock_in_at = loc[w].at
        /\ row.posted = FALSE /\ row.clock_out_at = Null
    BY DEF NoSession
  <2> HIDE DEF row
  <2>2. sessions' = [sessions EXCEPT ![s] = row]
    BY <1>2 DEF row
  <2>3. QED
    BY <1>1, <2>1, <2>2
<1>3. QED
  BY <1>2 DEF ClockInCreate

(* What completing a session changes in them.                              *)
LEMMA Completed ==
  ASSUME ControlTypeOK, NEW w \in Workers, ClockOutComplete(w)
  PROVE  /\ loc[w].sid \in Sessions
         /\ LET s == loc[w].sid IN
            /\ sessions'[s].status = "completed" /\ sessions'[s].emp = sessions[s].emp
            /\ sessions'[s].shift = sessions[s].shift
            /\ sessions'[s].clock_in_at = sessions[s].clock_in_at /\ sessions'[s].clock_out_at = loc[w].at
            /\ sessions'[s].project = sessions[s].project /\ sessions'[s].posted = sessions[s].posted
            /\ \A r \in Sessions \ {s} : sessions'[r] = sessions[r]
            /\ IF NeedsLabor(s) THEN Goto(w, "lc_create", loc[w]) ELSE Finish(w)
<1>1. loc[w].sid \in Sessions /\ loc[w].at \in Nat
  BY DEF ClockOutComplete, ControlTypeOK, LocalsSet, HasSid, Locals
<1>2. PICK s \in Sessions, t \in Nat : s = loc[w].sid /\ t = loc[w].at
  BY <1>1
<1>3. sessions' = [sessions EXCEPT ![s] = [@ EXCEPT !.status = "completed", !.clock_out_at = t]]
  BY <1>2 DEF ClockOutComplete
<1>4. /\ sessions'[s] = [sessions[s] EXCEPT !.status = "completed", !.clock_out_at = t]
      /\ \A r \in Sessions \ {s} : sessions'[r] = sessions[r]
  BY <1>3 DEF ControlTypeOK
<1>5. /\ sessions'[s].status = "completed" /\ sessions'[s].emp = sessions[s].emp
      /\ sessions'[s].shift = sessions[s].shift
      /\ sessions'[s].clock_in_at = sessions[s].clock_in_at /\ sessions'[s].clock_out_at = t
      /\ sessions'[s].project = sessions[s].project /\ sessions'[s].posted = sessions[s].posted
  BY <1>4 DEF ControlTypeOK, SessionRows
<1>6. IF NeedsLabor(s) THEN Goto(w, "lc_create", loc[w]) ELSE Finish(w)
  BY <1>2 DEF ClockOutComplete
<1>7. QED
  BY <1>2, <1>4, <1>5, <1>6

(* What marking a session's labour as posted changes.                      *)
LEMMA Marked ==
  ASSUME ControlTypeOK, NEW w \in Workers, LaborMark(w)
  PROVE  /\ loc[w].sid \in Sessions /\ sessions'[loc[w].sid].posted = TRUE
         /\ \A r \in Sessions : /\ sessions'[r].status = sessions[r].status
                                /\ sessions'[r].emp = sessions[r].emp
                                /\ sessions'[r].shift = sessions[r].shift
                                /\ sessions'[r].project = sessions[r].project
                                /\ sessions'[r].clock_out_at = sessions[r].clock_out_at
                                /\ sessions'[r].clock_in_at = sessions[r].clock_in_at
         /\ \A r \in Sessions \ {loc[w].sid} : sessions'[r] = sessions[r]
<1>1. loc[w].sid \in Sessions
  BY DEF LaborMark, ControlTypeOK, LocalsSet, HasSid, Locals
<1>2. PICK s \in Sessions : s = loc[w].sid
  BY <1>1
<1>3. sessions' = [sessions EXCEPT ![s].posted = TRUE]
  BY <1>2 DEF LaborMark
<1>4. QED
  BY <1>2, <1>3 DEF ControlTypeOK, SessionRows

(* What starting a break changes.                                          *)
LEMMA Paused ==
  ASSUME ControlTypeOK, NEW s \in Sessions, NEW b \in Breaks, NEW type \in BreakTypes, StartBreak(s, b, type)
  PROVE  /\ sessions'[s].status = "on_break" /\ sessions[s].status = "active"
         /\ \A r \in Sessions : /\ r # s => sessions'[r].status = sessions[r].status
                                /\ sessions'[r].emp = sessions[r].emp
                                /\ sessions'[r].shift = sessions[r].shift
                                /\ sessions'[r].project = sessions[r].project
                                /\ sessions'[r].posted = sessions[r].posted
                                /\ sessions'[r].clock_out_at = sessions[r].clock_out_at
                                /\ sessions'[r].clock_in_at = sessions[r].clock_in_at
BY DEF StartBreak, ControlTypeOK, SessionRows

(* What ending one changes.                                                *)
LEMMA Resumed ==
  ASSUME ControlTypeOK, NEW w \in Workers, EndBreakCommit(w)
  PROVE  /\ \A r \in Sessions : /\ sessions'[r].emp = sessions[r].emp
                                /\ sessions'[r].shift = sessions[r].shift
                                /\ sessions'[r].project = sessions[r].project
                                /\ sessions'[r].posted = sessions[r].posted
                                /\ sessions'[r].clock_out_at = sessions[r].clock_out_at
                                /\ sessions'[r].clock_in_at = sessions[r].clock_in_at
                                /\ sessions'[r].status # sessions[r].status =>
                                     r = loc[w].sid /\ sessions'[r].status = "active"
         /\ \/ breaks' = breaks /\ sessions' = sessions
            \/ /\ loc[w].sid \in Sessions /\ sessions'[loc[w].sid].status = "active"
               /\ breaks[loc[w].bid].ended_at = Null /\ loc[w].bid \in Breaks
               /\ breaks' = [breaks EXCEPT ![loc[w].bid].ended_at = loc[w].at]
<1>1. loc[w].sid \in Sessions /\ loc[w].bid \in Breaks
  BY DEF EndBreakCommit, ControlTypeOK, LocalsSet, HasSid, HasBid, Locals
<1>2. PICK s \in Sessions : s = loc[w].sid
  BY <1>1
<1>3. CASE breaks' = breaks /\ sessions' = sessions
  BY <1>3
<1>4. CASE sessions' = [sessions EXCEPT ![s].status = "active"]
  <2>1. sessions'[s].status = "active"
    BY <1>4 DEF ControlTypeOK, SessionRows
  <2>2. \A r \in Sessions : /\ sessions'[r].emp = sessions[r].emp
                            /\ sessions'[r].shift = sessions[r].shift
                            /\ sessions'[r].project = sessions[r].project
                            /\ sessions'[r].posted = sessions[r].posted
                            /\ sessions'[r].clock_out_at = sessions[r].clock_out_at
                            /\ sessions'[r].clock_in_at = sessions[r].clock_in_at
                            /\ r # s => sessions'[r].status = sessions[r].status
    BY <1>4 DEF ControlTypeOK, SessionRows
  <2>3. QED
    BY <1>1, <1>2, <2>1, <2>2 DEF EndBreakCommit
<1>5. QED
  BY <1>2, <1>3, <1>4 DEF EndBreakCommit

(* What deleting a shift changes: its sessions lose their link.            *)
LEMMA Unlinked ==
  ASSUME ControlTypeOK, NEW w \in Workers, RemoveShiftDelete(w)
  PROVE  \A r \in Sessions : /\ sessions'[r].status = sessions[r].status
                             /\ sessions'[r].emp = sessions[r].emp
                             /\ sessions'[r].project = sessions[r].project
                             /\ sessions'[r].posted = sessions[r].posted
                             /\ sessions'[r].clock_out_at = sessions[r].clock_out_at
                             /\ sessions'[r].clock_in_at = sessions[r].clock_in_at
BY DEF RemoveShiftDelete, ControlTypeOK, SessionRows

(* No other step of a handler writes a session.                            *)
LEMMA SessionsLeft ==
  ASSUME NEW w \in Workers, HandlerStep(w) \/ DbError(w)
  PROVE  \/ ClockInCreate(w) \/ ClockOutComplete(w) \/ LaborMark(w) \/ EndBreakCommit(w)
         \/ RemoveShiftDelete(w)
         \/ sessions' = sessions
BY DEF HandlerStep, ClockInMatch, ClockInClaim, ClockOutFindBreak, ClockOutEndBreak,
       ClockOutSumBreaks, ClockOutOvertime, ClockOutShift, LaborCreate, LaborAdmins, LaborNotify,
       MissedCheck, MissedMark, RemindStamp, RemindSend, DbError, Database

-----------------------------------------------------------------------------
(* Labour cost *)

InLaborAt == {"lc_create", "lc_mark", "lc_admins", "lc_notify"}

(* All that can be known of a session's failed posting is known.           *)
Heard(s) == (Admins # {} /\ alerts[s] = Admins) \/ s \in unheard
HeardThen(s) == (Admins # {} /\ alerts'[s] = Admins) \/ s \in unheard'
LogsOK == \A s \in Sessions : hourLogs[s] \in Seq({hourLogs[s][i] : i \in DOMAIN hourLogs[s]})

(* The mark is written only after the entry.                               *)
LaborInv ==
  /\ LaborNotLost
  /\ \A w \in Workers : pc[w] = "lc_mark" => hourLogs[loc[w].sid] # <<>>
  /\ \A w \in Workers : pc[w] = "lc_notify" => Admins # {}
  /\ hourLogs = [s \in Sessions |-> hourLogs[s]] /\ LogsOK

(* Steps that complete no session and post nothing keep it, if those that  *)
(* were posting go on, or are notified as failed.                          *)
LEMMA LaborFrame ==
  ASSUME LaborInv, hourLogs' = hourLogs, \A s \in Sessions : Heard(s) => Heard(s)',
         \A s \in Sessions :
           /\ sessions'[s].status = "completed" =>
                /\ sessions[s].status = "completed" /\ sessions'[s].posted = sessions[s].posted
                /\ sessions'[s].project = sessions[s].project /\ sessions'[s].emp = sessions[s].emp
           /\ sessions'[s].posted => sessions[s].posted,
         \A v \in Workers : pc[v] \in InLaborAt =>
           \/ pc'[v] \in InLaborAt /\ loc'[v].sid = loc[v].sid
           \/ HeardThen(loc[v].sid),
         \A v \in Workers : pc'[v] = "lc_mark" => pc[v] = "lc_mark" /\ loc'[v].sid = loc[v].sid,
         \A v \in Workers : pc'[v] = "lc_notify" => pc[v] = "lc_notify" \/ Admins # {}
  PROVE  LaborInv'
<1>1. ASSUME NEW s \in Sessions, InLabor(s) PROVE InLabor(s)' \/ Heard(s)'
  <2>1. PICK v \in Workers : pc[v] \in InLaborAt /\ loc[v].sid = s
    BY <1>1 DEF InLabor, InLaborAt, Posting, Telling
  <2>2. CASE pc'[v] \in InLaborAt /\ loc'[v].sid = loc[v].sid
    BY <2>1, <2>2 DEF InLabor, InLaborAt, Posting, Telling
  <2>3. CASE HeardThen(loc[v].sid)
    BY <2>1, <2>3 DEF Heard, HeardThen
  <2>4. QED
    BY <2>1, <2>2, <2>3
<1>2. LaborNotLost'
  BY <1>1 DEF LaborInv, LaborNotLost, Heard
<1>3. QED
  BY <1>2 DEF LaborInv, LogsOK

(* A slot that is not posting leaves those that are alone.                 *)
LEMMA NotPosting ==
  ASSUME LaborInv, NEW w \in Workers, OnlyMoves(w), pc[w] \notin InLaborAt, pc'[w] \notin InLaborAt,
         hourLogs' = hourLogs, alerts' = alerts, unheard \subseteq unheard',
         \A s \in Sessions :
           /\ sessions'[s].status = "completed" =>
                /\ sessions[s].status = "completed" /\ sessions'[s].posted = sessions[s].posted
                /\ sessions'[s].project = sessions[s].project /\ sessions'[s].emp = sessions[s].emp
           /\ sessions'[s].posted => sessions[s].posted
  PROVE  LaborInv'
<1>1. \A v \in Workers : pc[v] \in InLaborAt => pc'[v] \in InLaborAt /\ loc'[v].sid = loc[v].sid
  BY DEF OnlyMoves
<1>2. \A v \in Workers : pc'[v] = "lc_mark" => pc[v] = "lc_mark" /\ loc'[v].sid = loc[v].sid
  BY DEF OnlyMoves, InLaborAt
<1>3. \A v \in Workers : pc'[v] = "lc_notify" => pc[v] = "lc_notify"
  BY DEF OnlyMoves, InLaborAt
<1>4. QED
  BY <1>1, <1>2, <1>3, LaborFrame DEF Heard

(* The steps of a clock out that post labour keep it from being lost.      *)
LEMMA LaborPosting ==
  ASSUME ControlTypeOK, LaborInv, NEW w \in Workers,
         ClockOutComplete(w) \/ LaborCreate(w) \/ LaborMark(w)
  PROVE  LaborInv'
<1>m. /\ OnlyMoves(w) /\ Edge(pc[w], pc'[w])
      /\ pc'[w] \in HasSid => loc'[w].sid = loc[w].sid
  BY HandlerMoves DEF HandlerStep
<1>k. \A v \in Workers \ {w} : pc'[v] = pc[v] /\ loc'[v] = loc[v]
  BY <1>m DEF OnlyMoves
<1>1. CASE ClockOutComplete(w)
  <2>0. PICK s \in Sessions : s = loc[w].sid
    BY <1>1, Completed
  <2>1. /\ s \in Sessions
        /\ sessions'[s].posted = sessions[s].posted
        /\ sessions'[s].project = sessions[s].project /\ sessions'[s].emp = sessions[s].emp
        /\ \A r \in Sessions \ {s} : sessions'[r] = sessions[r]
        /\ IF NeedsLabor(s) THEN Goto(w, "lc_create", loc[w]) ELSE Finish(w)
    BY <1>1, <2>0, Completed
  <2>2. pc[w] = "co_complete" /\ hourLogs' = hourLogs /\ alerts' = alerts /\ unheard' = unheard
    BY <1>1 DEF ClockOutComplete, Goto, Finish
  <2>3. /\ pc'[w] # "lc_mark"
        /\ NeedsLabor(s) => pc'[w] = "lc_create" /\ loc'[w].sid = s
    BY <2>0, <2>1, Went, Finished
  <2>4. \A r \in Sessions : InLabor(r) => InLabor(r)'
    BY <1>k, <2>2 DEF InLabor, Posting, Telling
  <2>5. NeedsLabor(s) => InLabor(s)'
    BY <2>3 DEF InLabor, Posting
  <2>6. LaborNotLost'
    <3>1. ASSUME NEW r \in Sessions PROVE sessions'[r].posted => hourLogs'[r] # <<>>
      BY <2>1, <2>2 DEF LaborInv, LaborNotLost
    <3>2. ASSUME NEW r \in Sessions, sessions'[r].status = "completed", sessions'[r].project,
                 sessions'[r].emp \in Billable
          PROVE  sessions'[r].posted \/ Heard(r)' \/ InLabor(r)'
      <4>1. CASE r = s
        BY <2>1, <2>5, <3>2, <4>1 DEF NeedsLabor
      <4>2. CASE r # s
        BY <2>1, <2>2, <2>4, <3>2, <4>2 DEF LaborInv, LaborNotLost, Heard
      <4>3. QED
        BY <4>1, <4>2
    <3>3. QED
      BY <3>1, <3>2 DEF LaborNotLost, Heard
  <2>7. \A v \in Workers : pc'[v] = "lc_mark" => hourLogs'[loc'[v].sid] # <<>>
    BY <1>k, <2>2, <2>3 DEF LaborInv
  <2>8. \A v \in Workers : pc'[v] = "lc_notify" => Admins # {}
    BY <1>k, <2>1, <2>2, Went, Finished DEF LaborInv
  <2>9. QED
    BY <2>2, <2>6, <2>7, <2>8 DEF LaborInv, LogsOK
<1>2. CASE LaborCreate(w)
  <2>1. /\ pc[w] = "lc_create" /\ loc[w].sid \in Sessions /\ sessions' = sessions /\ alerts' = alerts
        /\ hourLogs' = [hourLogs EXCEPT ![loc[w].sid] = Append(@, HoursOf(calc[w].mins))]
        /\ Goto(w, "lc_mark", loc[w]) /\ unheard' = unheard
    BY <1>2 DEF LaborCreate, ControlTypeOK, LocalsSet, HasSid, Locals, Goto
  <2>2. PICK s \in Sessions : s = loc[w].sid
    BY <2>1
  <2>m. PICK m : m = HoursOf(calc[w].mins)
    OBVIOUS
  <2>3. /\ hourLogs'[s] = Append(hourLogs[s], m)
        /\ \A r \in Sessions \ {s} : hourLogs'[r] = hourLogs[r]
        /\ hourLogs' = [r \in Sessions |-> hourLogs'[r]]
    BY <2>1, <2>2, <2>m DEF LaborInv
  <2>4. pc'[w] = "lc_mark" /\ loc'[w] = loc[w]
    BY <2>1, Went
  <2>5. hourLogs'[s] # <<>> /\ hourLogs'[s] \in Seq({hourLogs'[s][i] : i \in DOMAIN hourLogs'[s]})
    <3> DEFINE old == {hourLogs[s][i] : i \in DOMAIN hourLogs[s]}
               new == {hourLogs'[s][i] : i \in DOMAIN hourLogs'[s]}
    <3>1. hourLogs[s] \in Seq(old)
      BY DEF LaborInv, LogsOK
    <3> HIDE DEF old
    <3>2. hourLogs'[s] \in Seq(old \cup {m}) /\ hourLogs'[s] # <<>>
      BY <2>3, <3>1
    <3>3. hourLogs'[s] \in Seq(new)
      <4>1. Len(hourLogs'[s]) \in Nat /\ DOMAIN hourLogs'[s] = 1 .. Len(hourLogs'[s])
        BY <3>2
      <4>2. hourLogs'[s] \in [1 .. Len(hourLogs'[s]) -> new]
        BY <3>2, <4>1
      <4>3. QED
        BY <4>1, <4>2
    <3>4. QED
      BY <3>2, <3>3
  <2>6. LogsOK'
    <3>1. ASSUME NEW r \in Sessions, r # s
          PROVE  hourLogs'[r] \in Seq({hourLogs'[r][i] : i \in DOMAIN hourLogs'[r]})
      <4>1. PICK x : x = hourLogs[r] /\ x \in Seq({x[i] : i \in DOMAIN x})
        BY DEF LaborInv, LogsOK
      <4>2. hourLogs'[r] = x
        BY <2>3, <3>1, <4>1
      <4>3. QED
        BY <4>1, <4>2
    <3>2. QED
      BY <2>5, <3>1 DEF LogsOK
  <2>7. \A r \in Sessions : InLabor(r) => InLabor(r)'
    BY <1>k, <2>1, <2>4 DEF InLabor, Posting
  <2>8. LaborNotLost'
    BY <2>1, <2>3, <2>5, <2>7 DEF LaborInv, LaborNotLost
  <2>9. \A v \in Workers : pc'[v] = "lc_mark" => hourLogs'[loc'[v].sid] # <<>>
    <3>1. \A v \in Workers : pc[v] = "lc_mark" => loc[v].sid \in Sessions
      BY DEF ControlTypeOK, LocalsSet, HasSid, Locals
    <3>2. QED
      BY <1>k, <2>2, <2>3, <2>4, <2>5, <3>1 DEF LaborInv
  <2>10. \A v \in Workers : pc'[v] = "lc_notify" => Admins # {}
    BY <1>k, <2>4 DEF LaborInv
  <2>11. QED
    BY <2>3, <2>6, <2>8, <2>9, <2>10 DEF LaborInv
<1>3. CASE LaborMark(w)
  <2>1. /\ pc[w] = "lc_mark" /\ hourLogs' = hourLogs /\ alerts' = alerts /\ Finish(w) /\ unheard' = unheard
        /\ loc[w].sid \in Sessions /\ sessions'[loc[w].sid].posted = TRUE
        /\ \A r \in Sessions : /\ sessions'[r].status = sessions[r].status
                               /\ sessions'[r].emp = sessions[r].emp
                               /\ sessions'[r].project = sessions[r].project
        /\ \A r \in Sessions \ {loc[w].sid} : sessions'[r] = sessions[r]
    BY <1>3, Marked DEF LaborMark, Finish
  <2>2. \A r \in Sessions \ {loc[w].sid} : InLabor(r) => InLabor(r)'
    BY <1>k DEF InLabor
  <2>3. hourLogs[loc[w].sid] # <<>>
    BY <2>1 DEF LaborInv
  <2>4. LaborNotLost'
    BY <2>1, <2>2, <2>3 DEF LaborInv, LaborNotLost
  <2>5. \A v \in Workers : pc'[v] = "lc_mark" => hourLogs'[loc'[v].sid] # <<>>
    BY <1>k, <2>1, Finished DEF LaborInv
  <2>6. \A v \in Workers : pc'[v] = "lc_notify" => Admins # {}
    BY <1>k, <2>1, Finished DEF LaborInv
  <2>7. QED
    BY <2>1, <2>4, <2>5, <2>6 DEF LaborInv, LogsOK
<1>4. QED
  BY <1>1, <1>2, <1>3

(* So does every step of a handler.                                        *)
LEMMA LaborHandler ==
  ASSUME ControlTypeOK, LaborInv, NEW w \in Workers, HandlerStep(w) \/ DbError(w)
  PROVE  LaborInv'
<1>m. OnlyMoves(w) /\ Edge(pc[w], pc'[w])
  BY HandlerMoves
<1>1. CASE ClockOutComplete(w) \/ LaborCreate(w) \/ LaborMark(w)
  BY <1>1, LaborPosting
<1>2. CASE DbError(w)
  <2>1. sessions' = sessions /\ hourLogs' = hourLogs
    BY <1>2 DEF DbError
  <2>2. \A s \in Sessions : Heard(s) => Heard(s)'
    <3>1. ASSUME NEW s \in Sessions PROVE alerts[s] = Admins => alerts'[s] = Admins
      BY <1>2 DEF DbError, ControlTypeOK
    <3>2. unheard \subseteq unheard'
      BY <1>2, DbErrorGoes DEF Finish, NextShift, Goto
    <3>3. QED
      BY <3>1, <3>2 DEF Heard
  <2>3. pc[w] \in InLaborAt =>
          \/ pc'[w] \in InLaborAt /\ loc'[w].sid = loc[w].sid
          \/ HeardThen(loc[w].sid)
    <3>1. CASE pc[w] \in Posting
      <4>1. Goto(w, "lc_admins", loc[w])
        BY <1>2, <3>1, DbErrorGoes DEF Posting, Telling
      <4>2. QED
        BY <4>1, Went DEF InLaborAt
    <3>2. CASE pc[w] \in Telling
      <4>1. unheard' = unheard \cup {loc[w].sid}
        BY <1>2, <3>2, DbErrorGoes DEF Posting, Telling
      <4>2. QED
        BY <4>1 DEF HeardThen
    <3>3. QED
      BY <3>1, <3>2 DEF InLaborAt, Posting, Telling
  <2>4. pc'[w] # "lc_mark"
    <3>1. \/ Goto(w, "co_complete", loc[w]) \/ Goto(w, "lc_admins", loc[w])
          \/ NextShift(w, "rm_stamp", loc[w].list)
          \/ End(w)
      BY <1>2, DbErrorGoes DEF Finish
    <3>2. QED
      BY <3>1, Went, WentOn, Ended
  <2>5. pc'[w] # "lc_notify"
    BY <1>2, Went, WentOn, Ended, DbErrorGoes DEF Finish
  <2>6. QED
    BY <1>m, <2>1, <2>2, <2>3, <2>4, <2>5, LaborFrame DEF OnlyMoves
<1>3. CASE LaborAdmins(w) \/ LaborNotify(w)
  <2>1. sessions' = sessions /\ hourLogs' = hourLogs
    BY <1>3 DEF LaborAdmins, LaborNotify, Database
  <2>2. \A s \in Sessions : Heard(s) => Heard(s)'
    <3>1. CASE LaborAdmins(w)
      BY <3>1 DEF LaborAdmins, Database, Goto, Heard
    <3>2. CASE LaborNotify(w)
      <4>1. ASSUME NEW s \in Sessions PROVE alerts[s] = Admins => alerts'[s] = Admins
        BY <3>2 DEF LaborNotify, ControlTypeOK
      <4>2. unheard' = unheard
        BY <3>2 DEF LaborNotify, Finish
      <4>3. QED
        BY <4>1, <4>2 DEF Heard
    <3>3. QED
      BY <1>3, <3>1, <3>2
  <2>3. \/ pc'[w] \in InLaborAt /\ loc'[w].sid = loc[w].sid
        \/ HeardThen(loc[w].sid)
    <3>1. CASE LaborAdmins(w)
      <4>1. CASE Goto(w, "lc_notify", loc[w])
        BY <4>1, Went DEF InLaborAt
      <4>2. QED
        BY <3>1, <4>1 DEF LaborAdmins, HeardThen
    <3>2. CASE LaborNotify(w)
      <4>1. pc[w] = "lc_notify" /\ loc[w].sid \in Sessions
        BY <3>2 DEF LaborNotify, ControlTypeOK, LocalsSet, HasSid, Locals
      <4>2. alerts'[loc[w].sid] = Admins
        BY <3>2, <4>1 DEF LaborNotify, ControlTypeOK
      <4>3. Admins # {}
        BY <4>1 DEF LaborInv
      <4>4. QED
        BY <4>2, <4>3 DEF HeardThen
    <3>3. QED
      BY <1>3, <3>1, <3>2
  <2>4. pc'[w] # "lc_mark" /\ pc[w] \in InLaborAt
    BY <1>3, Went, Ended DEF LaborAdmins, LaborNotify, Finish, InLaborAt
  <2>5. pc'[w] = "lc_notify" => Admins # {}
    BY <1>3, Went, Ended DEF LaborAdmins, LaborNotify, Finish
  <2>6. QED
    BY <1>m, <2>1, <2>2, <2>3, <2>4, <2>5, LaborFrame DEF OnlyMoves
<1>4. CASE /\ HandlerStep(w)
           /\ ~(ClockOutComplete(w) \/ LaborCreate(w) \/ LaborMark(w) \/ LaborAdmins(w) \/ LaborNotify(w))
  <2>1. /\ hourLogs' = hourLogs /\ alerts' = alerts /\ unheard' = unheard
        /\ pc[w] \notin InLaborAt \cup {"co_complete"}
    BY <1>4 DEF HandlerStep, LaborAdmins, LaborNotify, ClockInMatch, ClockInClaim, ClockInCreate,
         ClockOutFindBreak, ClockOutEndBreak, ClockOutSumBreaks, ClockOutOvertime, ClockOutShift,
         EndBreakCommit, RemoveShiftDelete, MissedCheck, MissedMark, RemindStamp, RemindSend,
         Database, Goto, Finish, NextShift, InLaborAt
  <2>2. pc[w] \notin InLaborAt /\ pc'[w] \notin InLaborAt
    BY <1>m, <2>1 DEF Edge, InLaborAt
  <2>3. \A s \in Sessions :
          /\ sessions'[s].status = "completed" =>
               /\ sessions[s].status = "completed" /\ sessions'[s].posted = sessions[s].posted
               /\ sessions'[s].project = sessions[s].project /\ sessions'[s].emp = sessions[s].emp
          /\ sessions'[s].posted => sessions[s].posted
    <3>1. CASE ClockInCreate(w)
      BY <3>1, Created
    <3>2. CASE EndBreakCommit(w)
      BY <3>2, Resumed
    <3>3. CASE RemoveShiftDelete(w)
      BY <3>3, Unlinked
    <3>4. QED
      BY <1>4, <3>1, <3>2, <3>3, SessionsLeft
  <2>4. QED
    BY <1>m, <2>1, <2>2, <2>3, NotPosting
<1>5. QED
  BY <1>1, <1>2, <1>3, <1>4

(* So does every step.                                                     *)
LEMMA LaborNext ==
  ASSUME ControlTypeOK, LaborInv, [Next]_vars
  PROVE  LaborInv'
<1>1. CASE UNCHANGED vars \/ Tick \/ Wait
  <2>1. UNCHANGED <<sessions, hourLogs, alerts, pc, loc, unheard>>
    BY <1>1 DEF vars, Tick, Wait, Database, Slots
  <2>2. QED
    BY <2>1, LaborFrame DEF InLaborAt, Heard
<1>2. CASE Arrive
  <2>1. hourLogs' = hourLogs /\ alerts' = alerts /\ unheard' = unheard
    BY <1>2 DEF Arrive, ClockInCheck, ClockOutRead, EndBreakRead, StartBreak, CreateShifts,
         UpdateShift, RemoveShiftRead, MissedList, RemindList, Database, Slots, Goto
  <2>2. \A s \in Sessions :
          /\ sessions'[s].status = "completed" =>
               /\ sessions[s].status = "completed" /\ sessions'[s].posted = sessions[s].posted
               /\ sessions'[s].project = sessions[s].project /\ sessions'[s].emp = sessions[s].emp
          /\ sessions'[s].posted => sessions[s].posted
    <3>1. CASE \E s \in Sessions, b \in Breaks, type \in BreakTypes : StartBreak(s, b, type)
      BY <3>1, Paused
    <3>2. CASE ~\E s \in Sessions, b \in Breaks, type \in BreakTypes : StartBreak(s, b, type)
      <4>1. sessions' = sessions
        BY <1>2, <3>2 DEF Arrive, ClockInCheck, ClockOutRead, EndBreakRead, CreateShifts,
             UpdateShift, RemoveShiftRead, MissedList, RemindList, Database
      <4>2. QED
        BY <4>1
    <3>3. QED
      BY <3>1, <3>2
  <2>3. CASE UNCHANGED <<pc, loc>>
    BY <2>1, <2>2, <2>3, LaborFrame DEF InLaborAt, Heard
  <2>4. ASSUME NEW w \in Workers, OnlyMoves(w), pc[w] = "idle", pc'[w] \in Starting
        PROVE  LaborInv'
    BY <2>1, <2>2, <2>4, NotPosting DEF Starting, InLaborAt
  <2>5. QED
    BY <1>2, <2>3, <2>4, ArriveMoves
<1>3. CASE Crash
  <2>1. UNCHANGED <<sessions, hourLogs, alerts>> /\ \A v \in Workers : pc'[v] = "idle"
    BY <1>3 DEF Crash, Database
  <2>2. /\ unheard \subseteq unheard'
        /\ \A v \in Workers : pc[v] \in InLaborAt => loc[v].sid \in unheard'
    BY <1>3 DEF Crash, InLaborAt, Posting, Telling
  <2>3. QED
    BY <2>1, <2>2, LaborFrame DEF Heard, HeardThen
<1>4. QED
  BY <1>1, <1>2, <1>3, LaborHandler DEF Next

(* Whatever fails, wherever the process restarts and however two           *)
(* clock-outs interleave: the labour cost of a completed session is        *)
(* posted, being posted, or known to every admin, unless it is one whose   *)
(* posting failed and whose notification then failed too, found nobody to  *)
(* tell or was cut off; what is marked as posted has its entry.            *)
THEOREM LaborIsNotLost == Spec => []LaborNotLost
<1>1. Init => LaborInv
  <2> SUFFICES ASSUME Init PROVE LaborInv
    OBVIOUS
  <2>1. \A s \in Sessions : hourLogs[s] = <<>> /\ sessions[s].status = "none" /\ ~sessions[s].posted
    BY DEF Init, NoSession
  <2>2. \A w \in Workers : pc[w] = "idle"
    BY DEF Init
  <2>3. hourLogs = [s \in Sessions |-> hourLogs[s]]
    BY DEF Init
  <2>4. LaborNotLost
    BY <2>1 DEF LaborNotLost
  <2>5. LogsOK
    <3>1. \A T : <<>> \in Seq(T)
      OBVIOUS
    <3>2. QED
      BY <2>1, <3>1 DEF LogsOK
  <2>6. QED
    BY <2>1, <2>2, <2>3, <2>4, <2>5 DEF LaborInv
<1>2. ControlTypeOK /\ LaborInv /\ [Next]_vars => LaborInv'
  BY LaborNext
<1>3. LaborInv => LaborNotLost
  BY DEF LaborInv
<1>4. QED
  BY <1>1, <1>2, <1>3, TypeCorrect, PTL DEF Spec

-----------------------------------------------------------------------------
(* Shifts that were taken *)

Off(h) == shifts[h].status \notin {"none", "scheduled"}
OffThen(h) == shifts'[h].status \notin {"none", "scheduled"}

(* A session's shift was claimed first; between the two writes, the slot   *)
(* remembers it.                                                           *)
TakenInv ==
  /\ \A s \in Sessions : sessions[s].shift # Null => Off(sessions[s].shift)
  /\ \A w \in Workers : /\ pc[w] = "ci_match" => loc[w].shift = Null
                        /\ pc[w] = "ci_create" /\ loc[w].shift # Null => Off(loc[w].shift)

(* Nobody puts a shift back on the list, if the administrators do not.     *)
LEMMA OffStays ==
  ASSUME "scheduled" \notin ShiftStatusInputs,
         ControlTypeOK, [Next]_vars, NEW h \in Shifts, Off(h)
  PROVE  OffThen(h)
<1>1. ASSUME NEW w \in Workers, HandlerStep(w) \/ DbError(w)
      PROVE  OffThen(h)
  <2>1. CASE ClockInClaim(w) \/ ClockOutShift(w) \/ RemoveShiftDelete(w) \/ MissedMark(w)
    <3>1. PICK k : k = loc[w].shift
      OBVIOUS
    <3>2. \/ shifts' = shifts
          \/ shifts' = [shifts EXCEPT ![k].status = "in_progress"]
          \/ shifts' = [shifts EXCEPT ![k].status = "completed"]
          \/ shifts' = [shifts EXCEPT ![k].status = "deleted"]
          \/ shifts' = [shifts EXCEPT ![k].status = "missed"]
      BY <2>1, <3>1 DEF ClockInClaim, ClockOutShift, RemoveShiftDelete, MissedMark
    <3>3. QED
      BY <3>2 DEF ControlTypeOK, ShiftRows, Off, OffThen
  <2>2. CASE RemindStamp(w)
    <3>1. PICK item \in loc[w].list :
            shifts' = shifts \/ shifts' = [shifts EXCEPT ![item.id].reminded = TRUE]
      BY <2>2 DEF RemindStamp
    <3>2. QED
      BY <3>1 DEF ControlTypeOK, ShiftRows, Off, OffThen
  <2>3. CASE ~(ClockInClaim(w) \/ ClockOutShift(w) \/ RemoveShiftDelete(w) \/ MissedMark(w) \/ RemindStamp(w))
    <3>1. shifts' = shifts
      BY <1>1, <2>3 DEF HandlerStep, ClockInMatch, ClockInCreate, ClockOutFindBreak, ClockOutEndBreak,
           ClockOutSumBreaks, ClockOutOvertime, ClockOutComplete, LaborCreate, LaborMark, LaborAdmins,
           LaborNotify, EndBreakCommit, MissedCheck, RemindSend, DbError, Database
    <3>2. QED
      BY <3>1 DEF Off, OffThen
  <2>4. QED
    BY <2>1, <2>2, <2>3
<1>2. ASSUME NEW k \in Shifts, NEW e, NEW t, NEW status, UpdateShift(k, e, t, status) PROVE OffThen(h)
  <2>1. /\ shifts' = [shifts EXCEPT ![k] = [@ EXCEPT !.emp = e, !.start = t, !.status = status]]
        /\ status \in ShiftStatusInputs \cup {shifts[k].status}
    BY <1>2 DEF UpdateShift
  <2>2. "none" \notin ShiftStatusInputs
    BY InputsAssumption
  <2>3. CASE h = k
    <3>1. shifts'[k].status = status
      BY <2>1 DEF ControlTypeOK, ShiftRows
    <3>2. QED
      BY <2>1, <2>2, <2>3, <3>1 DEF Off, OffThen
  <2>4. CASE h # k
    BY <2>1, <2>4 DEF ControlTypeOK, Off, OffThen
  <2>5. QED
    BY <2>3, <2>4
<1>3. ASSUME NEW new, CreateShifts(new) PROVE OffThen(h)
  BY <1>3 DEF CreateShifts, Off, OffThen
<1>4. CASE Crash \/ Tick \/ Wait \/ UNCHANGED vars
  BY <1>4 DEF Crash, Tick, Wait, vars, Database, Off, OffThen
<1>5. CASE Arrive
  <2>1. CASE \/ \E k \in Shifts, e \in Employees, t \in ShiftStarts, status \in ShiftStatuses :
                  UpdateShift(k, e, t, status)
             \/ \E new \in NewShifts : CreateShifts(new)
    BY <2>1, <1>2, <1>3
  <2>2. QED
    BY <1>5, <2>1 DEF Arrive, ClockInCheck, ClockOutRead, EndBreakRead, StartBreak, RemoveShiftRead,
         MissedList, RemindList, Database, Off, OffThen
<1>6. QED
  BY <1>1, <1>4, <1>5 DEF Next

(* The link of a session comes from its clock-in, or is taken away.        *)
LEMMA LinkComes ==
  ASSUME ControlTypeOK, [Next]_vars, NEW s \in Sessions
  PROVE  \/ sessions'[s].shift \in {sessions[s].shift, Null}
         \/ \E w \in Workers : pc[w] = "ci_create" /\ sessions'[s].shift = loc[w].shift
<1>1. ASSUME NEW w \in Workers, HandlerStep(w) \/ DbError(w)
      PROVE  \/ sessions'[s].shift \in {sessions[s].shift, Null}
             \/ pc[w] = "ci_create" /\ sessions'[s].shift = loc[w].shift
  <2>1. CASE ClockInCreate(w)
    <3>1. pc[w] = "ci_create"
      BY <2>1 DEF ClockInCreate
    <3>2. QED
      BY <2>1, <3>1, Created
  <2>2. CASE ClockOutComplete(w)
    BY <2>2, Completed
  <2>3. CASE LaborMark(w)
    BY <2>3, Marked
  <2>4. CASE EndBreakCommit(w)
    BY <2>4, Resumed
  <2>5. CASE RemoveShiftDelete(w)
    BY <2>5 DEF RemoveShiftDelete, ControlTypeOK, SessionRows
  <2>6. QED
    BY <1>1, <2>1, <2>2, <2>3, <2>4, <2>5, SessionsLeft
<1>2. CASE Arrive
  <2>1. CASE \E r \in Sessions, b \in Breaks, type \in BreakTypes : StartBreak(r, b, type)
    BY <2>1, Paused
  <2>2. CASE ~\E r \in Sessions, b \in Breaks, type \in BreakTypes : StartBreak(r, b, type)
    BY <1>2, <2>2 DEF Arrive, ClockInCheck, ClockOutRead, EndBreakRead, CreateShifts,
         UpdateShift, RemoveShiftRead, MissedList, RemindList, Database
  <2>3. QED
    BY <2>1, <2>2
<1>3. CASE Crash \/ Tick \/ Wait \/ UNCHANGED vars
  BY <1>3 DEF Crash, Tick, Wait, vars, Database
<1>4. QED
  BY <1>1, <1>2, <1>3 DEF Next

(* A slot that is about to create the session has no shift, or claimed it. *)
LEMMA ClaimFirst ==
  ASSUME ControlTypeOK, TakenInv, [Next]_vars, NEW w \in Workers,
         \A h \in Shifts : Off(h) => OffThen(h)
  PROVE  /\ pc'[w] = "ci_match" => loc'[w].shift = Null
         /\ pc'[w] = "ci_create" /\ loc'[w].shift # Null => OffThen(loc'[w].shift)
<1> DEFINE Kept == pc'[w] = pc[w] /\ loc'[w] = loc[w]
           Elsewhere == pc'[w] \notin {"ci_match", "ci_create"}
<1>t. loc[w].shift \in Shifts \cup {Null}
  BY DEF ControlTypeOK, Locals
<1>1. CASE Kept
  BY <1>1, <1>t DEF TakenInv
<1>2. CASE Elsewhere
  BY <1>2
<1>3. ASSUME NEW v \in Workers, HandlerStep(v) \/ DbError(v)
      PROVE  \/ Kept \/ Elsewhere
             \/ pc'[w] = "ci_create" /\ (loc'[w].shift # Null => OffThen(loc'[w].shift))
  <2>1. OnlyMoves(v) /\ Edge(pc[v], pc'[v])
    BY <1>3, HandlerMoves
  <2>2. CASE v # w
    BY <2>1, <2>2 DEF OnlyMoves
  <2>3. CASE v = w /\ ClockInMatch(w)
    <3>1. CASE Goto(w, "ci_create", [loc[w] EXCEPT !.at = now])
      <4>1. [loc[w] EXCEPT !.at = now].shift = loc[w].shift
        BY DEF ControlTypeOK, Locals
      <4>2. loc[w].shift = Null
        BY <2>3 DEF ClockInMatch, TakenInv
      <4>3. pc'[w] = "ci_create" /\ loc'[w] = [loc[w] EXCEPT !.at = now]
        BY <3>1, Went
      <4>4. QED
        BY <4>1, <4>2, <4>3
    <3>2. ASSUME NEW l, Goto(w, "ci_claim", l) PROVE Elsewhere
      BY <3>2, Went
    <3>3. QED
      BY <2>3, <3>1, <3>2 DEF ClockInMatch
  <2>4. CASE v = w /\ ClockInClaim(w)
    <3>1. CASE Goto(w, "ci_create", loc[w])
      <4>1. loc[w].shift \in Shifts
        BY <2>4 DEF ClockInClaim, ControlTypeOK, LocalsSet, HasShift, Locals
      <4>2. shifts' = [shifts EXCEPT ![loc[w].shift].status = "in_progress"]
        <5>1. pc'[w] # "idle"
          BY <3>1, Went
        <5>2. QED
          BY <2>4, <5>1, Finished DEF ClockInClaim
      <4>3. shifts'[loc[w].shift].status = "in_progress"
        BY <4>1, <4>2 DEF ControlTypeOK, ShiftRows
      <4>4. pc'[w] = "ci_create" /\ loc'[w] = loc[w]
        BY <3>1, Went
      <4>5. QED
        BY <4>3, <4>4 DEF Off, OffThen
    <3>2. CASE Finish(w)
      BY <3>2, Finished
    <3>3. QED
      BY <2>4, <3>1, <3>2 DEF ClockInClaim
  <2>5. CASE v = w /\ ~ClockInMatch(w) /\ ~ClockInClaim(w)
    <3>1. CASE DbError(w)
      <4>1. \/ Goto(w, "co_complete", loc[w])
            \/ NextShift(w, "rm_stamp", loc[w].list)
            \/ Goto(w, "lc_admins", loc[w])
            \/ End(w)
        BY <3>1, DbErrorGoes DEF Finish
      <4>2. QED
        BY <4>1, Went, WentOn, Ended
    <3>2. CASE ~DbError(w)
      <4>1. pc[w] \notin {"ci_match", "ci_claim"}
        BY <1>3, <2>5, <3>2 DEF HandlerStep, ClockInCreate, ClockOutFindBreak, ClockOutEndBreak,
             ClockOutSumBreaks, ClockOutOvertime, ClockOutShift, ClockOutComplete, LaborCreate,
             LaborMark, LaborAdmins, LaborNotify, EndBreakCommit, RemoveShiftDelete, MissedCheck,
             MissedMark, RemindStamp, RemindSend
      <4>2. QED
        BY <2>1, <2>5, <4>1 DEF Edge
    <3>3. QED
      BY <3>1, <3>2
  <2>6. QED
    BY <2>2, <2>3, <2>4, <2>5
<1>4. CASE Arrive
  <2>1. ASSUME NEW v \in Requests, NEW e, NEW geo, NEW project, NEW task,
               ClockInCheck(v, e, geo, project, task)
        PROVE  Kept \/ loc'[w].shift = Null
    <3> DEFINE l == [NoLocals EXCEPT !.emp = e, !.project = project, !.geofence = GpsGate(geo)]
    <3>1. l.shift = Null
      BY DEF NoLocals
    <3> HIDE DEF l
    <3>2. Goto(v, "ci_match", l)
      BY <2>1 DEF ClockInCheck, l
    <3>3. QED
      BY <3>1, <3>2, Went DEF OnlyMoves, Workers
  <2>2. CASE ~\E v \in Requests, e \in Employees, geo \in GeoInputs, project \in Projects, task \in BOOLEAN :
               ClockInCheck(v, e, geo, project, task)
    <3>1. \/ UNCHANGED <<pc, loc>>
          \/ \E v \in Workers, label \in Starting \ {"ci_match"} : \E l : Goto(v, label, l)
      BY <1>4, <2>2 DEF Arrive, ClockOutRead, EndBreakRead, StartBreak, CreateShifts, UpdateShift,
           RemoveShiftRead, MissedList, RemindList, Slots, Starting, Workers
    <3>2. ASSUME NEW v \in Workers, NEW label \in Starting \ {"ci_match"}, NEW l, Goto(v, label, l)
          PROVE  Kept \/ Elsewhere
      BY <3>2, Went DEF OnlyMoves, Starting
    <3>3. QED
      BY <3>1, <3>2, <1>1, <1>2
  <2>3. QED
    BY <1>1, <2>1, <2>2
<1>5. CASE Crash
  BY <1>2, <1>5 DEF Crash
<1>6. CASE Tick \/ Wait \/ UNCHANGED vars
  BY <1>1, <1>6 DEF Tick, Wait, vars, Slots
<1>7. QED
  BY <1>1, <1>2, <1>3, <1>4, <1>5, <1>6 DEF Next

(* However handlers overlap, fail or are cut off, and whatever shifts are  *)
(* deleted meanwhile: if administrators do not set a shift back to         *)
(* scheduled by hand, a shift that has a session is off the list for every *)
(* later clock-in and for both jobs.                                       *)
THEOREM TakenShiftsOff ==
  ASSUME "scheduled" \notin ShiftStatusInputs
  PROVE  Spec => []TakenShiftOffList
<1>1. Init => TakenInv
  BY DEF Init, TakenInv, NoSession
<1>2. ControlTypeOK /\ TakenInv /\ [Next]_vars => TakenInv'
  <2> SUFFICES ASSUME ControlTypeOK, TakenInv, [Next]_vars PROVE TakenInv'
    OBVIOUS
  <2>1. \A h \in Shifts : Off(h) => OffThen(h)
    BY OffStays
  <2>2. ASSUME NEW s \in Sessions, sessions'[s].shift # Null PROVE OffThen(sessions'[s].shift)
    <3>1. CASE sessions'[s].shift = sessions[s].shift
      <4>1. sessions[s].shift \in Shifts /\ Off(sessions[s].shift)
        BY <2>2, <3>1 DEF ControlTypeOK, SessionRows, TakenInv
      <4>2. QED
        BY <2>1, <3>1, <4>1
    <3>2. ASSUME NEW w \in Workers, pc[w] = "ci_create", sessions'[s].shift = loc[w].shift
          PROVE  OffThen(sessions'[s].shift)
      <4>1. loc[w].shift \in Shifts /\ Off(loc[w].shift)
        BY <2>2, <3>2 DEF ControlTypeOK, Locals, TakenInv
      <4>2. QED
        BY <2>1, <3>2, <4>1
    <3>3. QED
      BY <2>2, <3>1, <3>2, LinkComes
  <2>3. \A w \in Workers : /\ pc'[w] = "ci_match" => loc'[w].shift = Null
                           /\ pc'[w] = "ci_create" /\ loc'[w].shift # Null => OffThen(loc'[w].shift)
    BY <2>1, ClaimFirst
  <2>4. QED
    BY <2>2, <2>3 DEF TakenInv, Off, OffThen
<1>3. TakenInv => TakenShiftOffList
  BY DEF TakenInv, TakenShiftOffList, Off, OffThen
<1>4. QED
  BY <1>1, <1>2, <1>3, TypeCorrect, PTL DEF Spec

-----------------------------------------------------------------------------
(* Reminders *)

Sending(w, h) == pc[w] = "rm_send" /\ loc[w].shift = h

(* One slot at most is sending the reminder of a shift, none after it was  *)
(* delivered, and the stamp that kept the others off stays: a row that was *)
(* deleted is never created again.                                         *)
RemindInv ==
  \A h \in Shifts :
    /\ reminders[h] <= 1
    /\ \A v \in Workers : Sending(v, h) => reminders[h] = 0 /\ \A w \in Workers : Sending(w, h) => w = v
    /\ reminders[h] # 0 \/ (\E w \in Workers : Sending(w, h))
         => shifts[h].reminded /\ shifts[h].status # "none"

(* Steps that take no stamp and send nothing keep it.                      *)
LEMMA RemindFrame ==
  ASSUME RemindInv, reminders' = reminders,
         \A v \in Workers : pc'[v] = "rm_send" => pc[v] = "rm_send" /\ loc'[v].shift = loc[v].shift,
         \A h \in Shifts : shifts[h].reminded /\ shifts[h].status # "none" =>
                             shifts'[h].reminded /\ shifts'[h].status # "none"
  PROVE  RemindInv'
<1>1. \A v \in Workers, h \in Shifts : Sending(v, h)' => Sending(v, h)
  BY DEF Sending
<1>2. QED
  BY <1>1 DEF RemindInv

(* No step takes a stamp back.                                             *)
LEMMA StampStays ==
  ASSUME ControlTypeOK, [Next]_vars, NEW h \in Shifts, shifts[h].reminded, shifts[h].status # "none"
  PROVE  shifts'[h].reminded /\ shifts'[h].status # "none"
<1>1. ASSUME NEW w \in Workers, HandlerStep(w) \/ DbError(w)
      PROVE  shifts'[h].reminded /\ shifts'[h].status # "none"
  <2>1. CASE ClockInClaim(w) \/ ClockOutShift(w) \/ RemoveShiftDelete(w) \/ MissedMark(w)
    <3>1. PICK k : k = loc[w].shift
      OBVIOUS
    <3>2. \/ shifts' = shifts
          \/ shifts' = [shifts EXCEPT ![k].status = "in_progress"]
          \/ shifts' = [shifts EXCEPT ![k].status = "completed"]
          \/ shifts' = [shifts EXCEPT ![k].status = "deleted"]
          \/ shifts' = [shifts EXCEPT ![k].status = "missed"]
      BY <2>1, <3>1 DEF ClockInClaim, ClockOutShift, RemoveShiftDelete, MissedMark
    <3>3. QED
      BY <3>2 DEF ControlTypeOK, ShiftRows
  <2>2. CASE RemindStamp(w)
    <3>1. shifts' = shifts \/ \E item \in loc[w].list : shifts' = [shifts EXCEPT ![item.id].reminded = TRUE]
      BY <2>2 DEF RemindStamp
    <3>2. CASE shifts' = shifts
      BY <3>2
    <3>3. CASE \E item \in loc[w].list : shifts' = [shifts EXCEPT ![item.id].reminded = TRUE]
      BY <3>3 DEF ControlTypeOK, ShiftRows
    <3>4. QED
      BY <3>1, <3>2, <3>3
  <2>3. CASE ~(ClockInClaim(w) \/ ClockOutShift(w) \/ RemoveShiftDelete(w) \/ MissedMark(w) \/ RemindStamp(w))
    <3>1. shifts' = shifts
      BY <1>1, <2>3 DEF HandlerStep, LaborAdmins, LaborNotify, ClockInMatch, ClockInCreate,
         ClockOutFindBreak, ClockOutEndBreak, ClockOutSumBreaks, ClockOutOvertime,
         ClockOutComplete, LaborCreate, LaborMark, EndBreakCommit, MissedCheck, RemindSend,
         DbError, Database
    <3>2. QED
      BY <3>1
  <2>4. QED
    BY <2>1, <2>2, <2>3
<1>2. ASSUME NEW new \in NewShifts, CreateShifts(new)
      PROVE  shifts'[h].reminded /\ shifts'[h].status # "none"
  BY <1>2 DEF CreateShifts
<1>3. ASSUME NEW k \in Shifts, NEW e \in Employees, NEW t \in ShiftStarts, NEW status \in ShiftStatuses,
             UpdateShift(k, e, t, status)
      PROVE  shifts'[h].reminded /\ shifts'[h].status # "none"
  <2>1. shifts' = [shifts EXCEPT ![k] = [@ EXCEPT !.emp = e, !.start = t, !.status = status]]
        /\ status # "none"
    BY <1>3, InputsAssumption DEF UpdateShift, ShiftExists
  <2>2. CASE k = h
    <3>1. shifts'[h] = [shifts[h] EXCEPT !.emp = e, !.start = t, !.status = status]
      BY <2>1, <2>2 DEF ControlTypeOK
    <3>2. QED
      BY <2>1, <3>1 DEF ControlTypeOK, ShiftRows
  <2>3. CASE k # h
    BY <2>1, <2>3 DEF ControlTypeOK
  <2>4. QED
    BY <2>2, <2>3
<1>4. CASE Arrive
  <2>1. CASE shifts' = shifts
    BY <2>1
  <2>2. CASE shifts' # shifts
    BY <1>2, <1>3, <1>4, <2>2 DEF Arrive, ClockInCheck, ClockOutRead, EndBreakRead, StartBreak,
       RemoveShiftRead, MissedList, RemindList, Database
  <2>3. QED
    BY <2>1, <2>2
<1>5. CASE Crash \/ Tick \/ Wait \/ UNCHANGED vars
  BY <1>5 DEF Crash, Tick, Wait, vars, Database
<1>6. QED
  BY <1>1, <1>4, <1>5 DEF Next

(* Every step keeps a reminder that was sent from being sent again.        *)
LEMMA RemindNext ==
  ASSUME ControlTypeOK, RemindInv, [Next]_vars
  PROVE  RemindInv'
<1>s. \A h \in Shifts : shifts[h].reminded /\ shifts[h].status # "none" =>
                          shifts'[h].reminded /\ shifts'[h].status # "none"
  BY StampStays
<1>1. ASSUME NEW w \in Workers, RemindStamp(w) PROVE RemindInv'
  <2>1. reminders' = reminders /\ pc[w] = "rm_stamp"
    BY <1>1 DEF RemindStamp
  <2>2. OnlyMoves(w)
    BY <1>1, HandlerMoves DEF HandlerStep
  <2>3. CASE \E rest : NextShift(w, "rm_stamp", rest)
    <3>1. pc'[w] # "rm_send"
      BY <2>3, WentOn
    <3>2. QED
      BY <1>s, <2>1, <2>2, <3>1, RemindFrame DEF OnlyMoves
  <2>4. ASSUME NEW h \in Shifts, ShiftExists(h), ~shifts[h].reminded,
               shifts' = [shifts EXCEPT ![h].reminded = TRUE],
               NEW l, Goto(w, "rm_send", l), l.shift = h
        PROVE  RemindInv'
    <3>1. pc'[w] = "rm_send" /\ loc'[w].shift = h
      BY <2>4, Went
    <3>2. reminders[h] = 0 /\ \A v \in Workers : ~Sending(v, h)
      BY <2>4 DEF RemindInv, ControlTypeOK
    <3>3. shifts'[h].reminded /\ shifts'[h].status # "none"
      BY <2>4 DEF ShiftExists, ControlTypeOK, ShiftRows
    <3>4. \A v \in Workers : Sending(v, h)' => v = w
      BY <2>2, <3>2 DEF OnlyMoves, Sending
    <3>5. \A v \in Workers, k \in Shifts \ {h} : Sending(v, k)' => Sending(v, k)
      BY <2>2, <3>1 DEF OnlyMoves, Sending
    <3>6. ASSUME NEW k \in Shifts
          PROVE  /\ reminders'[k] <= 1
                 /\ \A v \in Workers : Sending(v, k)' => reminders'[k] = 0 /\ \A u \in Workers : Sending(u, k)' => u = v
                 /\ reminders'[k] # 0 \/ (\E u \in Workers : Sending(u, k)')
                      => shifts'[k].reminded /\ shifts'[k].status # "none"
      <4>1. CASE k = h
        BY <2>1, <3>2, <3>3, <3>4, <4>1
      <4>2. CASE k # h
        BY <1>s, <2>1, <3>5, <4>2 DEF RemindInv
      <4>3. QED
        BY <4>1, <4>2
    <3>7. QED
      BY <3>6 DEF RemindInv
  <2>5. QED
    <3>1. PICK item \in loc[w].list :
            IF ShiftExists(item.id) /\ ~shifts[item.id].reminded
            THEN /\ shifts' = [shifts EXCEPT ![item.id].reminded = TRUE]
                 /\ Goto(w, "rm_send", [loc[w] EXCEPT !.shift = item.id, !.list = @ \ {item}])
            ELSE NextShift(w, "rm_stamp", loc[w].list \ {item})
      BY <1>1 DEF RemindStamp
    <3>2. CASE ShiftExists(item.id) /\ ~shifts[item.id].reminded
      <4>1. item.id \in Shifts
        BY <3>2 DEF ShiftExists
      <4>2. [loc[w] EXCEPT !.shift = item.id, !.list = @ \ {item}].shift = item.id
        BY DEF ControlTypeOK, Locals
      <4>3. QED
        BY <2>4, <3>1, <3>2, <4>1, <4>2
    <3>3. QED
      BY <2>3, <3>1, <3>2
<1>2. ASSUME NEW w \in Workers, RemindSend(w) PROVE RemindInv'
  <2>1. /\ pc[w] = "rm_send" /\ loc[w].shift \in Shifts /\ shifts' = shifts
        /\ reminders' = [reminders EXCEPT ![loc[w].shift] = @ + 1]
    BY <1>2 DEF RemindSend, ControlTypeOK, LocalsSet, HasShift, Locals
  <2>2. PICK h \in Shifts : h = loc[w].shift
    BY <2>1
  <2>3. OnlyMoves(w) /\ pc'[w] # "rm_send"
    <3>1. pc[w] = "rm_send" /\ NextShift(w, "rm_stamp", loc[w].list)
      BY <1>2 DEF RemindSend
    <3>2. QED
      BY <3>1, WentOn
  <2>4. Sending(w, h) /\ reminders[h] = 0
    BY <2>1, <2>2 DEF Sending, RemindInv
  <2>5. reminders'[h] = 1 /\ \A k \in Shifts \ {h} : reminders'[k] = reminders[k]
    BY <2>1, <2>2, <2>4 DEF ControlTypeOK
  <2>6. \A v \in Workers, k \in Shifts : Sending(v, k)' => Sending(v, k) /\ v # w
    BY <2>3 DEF OnlyMoves, Sending
  <2>7. \A v \in Workers : ~Sending(v, h)'
    BY <2>4, <2>6 DEF RemindInv
  <2>8. ASSUME NEW k \in Shifts
        PROVE  /\ reminders'[k] <= 1
               /\ \A v \in Workers : Sending(v, k)' => reminders'[k] = 0 /\ \A u \in Workers : Sending(u, k)' => u = v
               /\ reminders'[k] # 0 \/ (\E u \in Workers : Sending(u, k)')
                    => shifts'[k].reminded /\ shifts'[k].status # "none"
    <3>1. CASE k = h
      BY <2>1, <2>4, <2>5, <2>7, <3>1 DEF RemindInv
    <3>2. CASE k # h
      BY <2>1, <2>5, <2>6, <3>2 DEF RemindInv
    <3>3. QED
      BY <3>1, <3>2
  <2>9. QED
    BY <2>8 DEF RemindInv
<1>3. ASSUME NEW w \in Workers, HandlerStep(w) \/ DbError(w), ~RemindStamp(w), ~RemindSend(w)
      PROVE  RemindInv'
  <2>1. reminders' = reminders
    BY <1>3 DEF HandlerStep, LaborAdmins, LaborNotify, ClockInMatch, ClockInClaim, ClockInCreate,
         ClockOutFindBreak, ClockOutEndBreak, ClockOutSumBreaks, ClockOutOvertime, ClockOutShift,
         ClockOutComplete, LaborCreate, LaborMark, EndBreakCommit, RemoveShiftDelete, MissedCheck,
         MissedMark, DbError, Database
  <2>2. OnlyMoves(w) /\ pc'[w] # "rm_send"
    <3>1. CASE DbError(w)
      <4>1. \/ Goto(w, "co_complete", loc[w])
            \/ NextShift(w, "rm_stamp", loc[w].list)
            \/ Goto(w, "lc_admins", loc[w])
            \/ End(w)
        BY <3>1, DbErrorGoes DEF Finish
      <4>2. QED
        BY <4>1, Went, WentOn, Ended
    <3>2. CASE ~DbError(w)
      <4>1. pc[w] # "rm_stamp"
        BY <1>3, <3>2 DEF HandlerStep, LaborAdmins, LaborNotify, ClockInMatch, ClockInClaim,
             ClockInCreate, ClockOutFindBreak, ClockOutEndBreak, ClockOutSumBreaks,
             ClockOutOvertime, ClockOutShift, ClockOutComplete, LaborCreate, LaborMark,
             EndBreakCommit, RemoveShiftDelete, MissedCheck, MissedMark
      <4>2. QED
        BY <1>3, <4>1, HandlerMoves DEF Edge
    <3>3. QED
      BY <3>1, <3>2
  <2>3. QED
    BY <1>s, <2>1, <2>2, RemindFrame DEF OnlyMoves
<1>4. CASE Arrive
  <2>1. reminders' = reminders
    BY <1>4 DEF Arrive, ClockInCheck, ClockOutRead, EndBreakRead, StartBreak, CreateShifts,
         UpdateShift, RemoveShiftRead, MissedList, RemindList, Database
  <2>2. \A v \in Workers : pc'[v] = "rm_send" => pc[v] = "rm_send" /\ loc'[v].shift = loc[v].shift
    BY <1>4, ArriveMoves DEF OnlyMoves, Starting
  <2>3. QED
    BY <1>s, <2>1, <2>2, RemindFrame
<1>5. CASE Crash \/ Tick \/ Wait \/ UNCHANGED vars
  <2>1. /\ reminders' = reminders
        /\ \A v \in Workers : pc'[v] = "rm_send" => pc[v] = "rm_send" /\ loc'[v].shift = loc[v].shift
    BY <1>5 DEF Crash, Tick, Wait, vars, Database, Slots
  <2>2. QED
    BY <1>s, <2>1, RemindFrame
<1>6. QED
  BY <1>1, <1>2, <1>3, <1>4, <1>5 DEF Next

(* No employee is reminded twice of a shift: overlapping runs of the job,  *)
(* failures and restarts included.                                         *)
THEOREM RemindedOnce == Spec => []ReminderAtMostOnce
<1>1. Init => RemindInv
  BY DEF Init, RemindInv, Sending
<1>2. ControlTypeOK /\ RemindInv /\ [Next]_vars => RemindInv'
  BY RemindNext
<1>3. RemindInv => ReminderAtMostOnce
  BY DEF RemindInv, ReminderAtMostOnce
<1>4. QED
  BY <1>1, <1>2, <1>3, TypeCorrect, PTL DEF Spec

-----------------------------------------------------------------------------
(* Handlers that do not overlap *)

Alone == \A v, w \in Workers : pc[v] # "idle" /\ pc[w] # "idle" => v = w
OneOpen == \A s, t \in Sessions : IsOpen(s) /\ IsOpen(t) /\ sessions[s].emp = sessions[t].emp => s = t

Summing == {"co_sum", "co_overtime", "co_shift", "co_complete"}

(* One handler is in flight, and what it read of the employee's sessions   *)
(* and of the session's breaks is still so.                                *)
SerialInv ==
  /\ Alone
  /\ OneOpen
  /\ CompletedIsFinal
  /\ \A w \in Workers :
       /\ pc[w] \in HasEmployee => OpenSessions(loc[w].emp) = {}
       /\ pc[w] = "co_end" => OpenBreaks(loc[w].sid) \subseteq {loc[w].bid}
       /\ pc[w] \in Summing => OpenBreaks(loc[w].sid) = {}

(* A handler starts when nothing is in flight.                             *)
LEMMA ArriveAlone ==
  ASSUME Serial, Arrive
  PROVE  \A v \in Workers : pc[v] = "idle"
BY DEF Arrive, ClockInCheck, ClockOutRead, EndBreakRead, StartBreak, CreateShifts, UpdateShift,
       RemoveShiftRead, MissedList, RemindList, Begin

(* Where requests are serial, one handler runs at a time.                  *)
LEMMA AloneNext ==
  ASSUME Serial, ControlTypeOK, Alone, [Next]_vars
  PROVE  Alone'
<1>1. CASE Arrive
  BY <1>1, ArriveAlone, ArriveMoves DEF Alone, OnlyMoves
<1>2. ASSUME NEW w \in Workers, HandlerStep(w) \/ DbError(w) PROVE Alone'
  BY <1>2, HandlerMoves DEF Alone, OnlyMoves
<1>3. CASE Crash \/ Tick \/ Wait \/ UNCHANGED vars
  BY <1>3 DEF Crash, Tick, Wait, vars, Slots, Alone
<1>4. QED
  BY <1>1, <1>2, <1>3 DEF Next

(* Steps that open no session and no break keep the invariant, if the slot *)
(* they move holds what it needs.                                          *)
LEMMA SerialFrame ==
  ASSUME SerialInv, Alone',
         \A s \in Sessions :
           /\ IsOpen(s)' => /\ IsOpen(s) /\ sessions'[s].emp = sessions[s].emp
                            /\ sessions'[s].clock_out_at = sessions[s].clock_out_at
           /\ OpenBreaks(s)' \subseteq OpenBreaks(s)
           /\ OpenBreaks(s)' # {} => sessions'[s].status = "on_break",
         \A w \in Workers :
           /\ pc'[w] \in HasEmployee => pc[w] \in HasEmployee /\ loc'[w].emp = loc[w].emp
           /\ pc'[w] = "co_end" => OpenBreaks(loc[w].sid)' \subseteq {loc'[w].bid}
           /\ pc'[w] \in Summing => OpenBreaks(loc[w].sid)' = {}
  PROVE  SerialInv'
<1>1. OneOpen'
  BY DEF SerialInv, OneOpen
<1>2. CompletedIsFinal'
  BY DEF SerialInv, CompletedIsFinal
<1>3. ASSUME NEW w \in Workers, pc'[w] \in HasEmployee PROVE OpenSessions(loc[w].emp)' = {}
  <2>1. pc[w] \in HasEmployee /\ loc'[w].emp = loc[w].emp /\ OpenSessions(loc[w].emp) = {}
    BY <1>3 DEF SerialInv
  <2>2. QED
    BY <2>1 DEF OpenSessions
<1>4. QED
  BY <1>1, <1>2, <1>3 DEF SerialInv

(* The premises of the frame about rows, when no status and no break       *)
(* changes.                                                                *)
RowsKept ==
  \A s \in Sessions : /\ sessions'[s].status = sessions[s].status
                      /\ sessions'[s].emp = sessions[s].emp
                      /\ sessions'[s].clock_out_at = sessions[s].clock_out_at

(* A step that keeps the rows keeps what serial handlers know of them, if  *)
(* its own locals fit.                                                     *)
LEMMA SerialRows ==
  ASSUME SerialInv, Alone', RowsKept, breaks' = breaks,
         \A w \in Workers :
           /\ pc'[w] \in HasEmployee => pc[w] \in HasEmployee /\ loc'[w].emp = loc[w].emp
           /\ pc'[w] = "co_end" => OpenBreaks(loc'[w].sid) \subseteq {loc'[w].bid}
           /\ pc'[w] \in Summing => OpenBreaks(loc'[w].sid) = {}
  PROVE  SerialInv'
<1>1. \A s \in Sessions : OpenBreaks(s)' = OpenBreaks(s)
  BY DEF OpenBreaks, BreaksOf
<1>2. \A s \in Sessions :
           /\ IsOpen(s)' => /\ IsOpen(s) /\ sessions'[s].emp = sessions[s].emp
                            /\ sessions'[s].clock_out_at = sessions[s].clock_out_at
           /\ OpenBreaks(s)' \subseteq OpenBreaks(s)
           /\ OpenBreaks(s)' # {} => sessions'[s].status = "on_break"
  BY <1>1 DEF IsOpen, RowsKept, SerialInv, CompletedIsFinal
<1>3. \A w \in Workers : /\ OpenBreaks(loc[w].sid)' = OpenBreaks(loc'[w].sid)
  BY DEF OpenBreaks, BreaksOf
<1>4. QED
  BY <1>2, <1>3, SerialFrame

(* A slot that holds neither an employee nor a session to sum up.          *)
Settled(label) == label \notin HasEmployee \cup Summing \cup {"co_end"}

(* So does a step that only moves on.                                      *)
LEMMA SerialMoves ==
  ASSUME SerialInv, Alone', RowsKept, breaks' = breaks, NEW w \in Workers, OnlyMoves(w),
         Settled(pc'[w])
  PROVE  SerialInv'
<1>1. \A v \in Workers :
           /\ pc'[v] \in HasEmployee => pc[v] \in HasEmployee /\ loc'[v].emp = loc[v].emp
           /\ pc'[v] = "co_end" => OpenBreaks(loc'[v].sid) \subseteq {loc'[v].bid}
           /\ pc'[v] \in Summing => OpenBreaks(loc'[v].sid) = {}
  BY DEF SerialInv, OnlyMoves, Settled
<1>2. QED
  BY <1>1, SerialRows

(* Clocking in.                                                            *)
LEMMA SerialClockIn ==
  ASSUME ControlTypeOK, SerialInv, BreakInv, Alone', NEW w \in Workers,
         ClockInMatch(w) \/ ClockInClaim(w) \/ ClockInCreate(w)
  PROVE  SerialInv'
<1>m. /\ OnlyMoves(w) /\ pc[w] # "idle" /\ Edge(pc[w], pc'[w])
      /\ pc'[w] \in HasEmployee => loc'[w].emp = loc[w].emp
  BY HandlerMoves DEF HandlerStep
<1>b. breaks' = breaks
  BY DEF ClockInMatch, ClockInClaim, ClockInCreate, Database
<1>p. pc[w] \in HasEmployee
  BY DEF ClockInMatch, ClockInClaim, ClockInCreate, HasEmployee
<1>1. CASE sessions' = sessions
  <2>1. pc'[w] \notin Summing \cup {"co_end"}
    BY <1>m, <1>p DEF Edge, HasEmployee, Summing
  <2>2. RowsKept
    BY <1>1 DEF RowsKept
  <2>3. \A v \in Workers :
           /\ pc'[v] \in HasEmployee => pc[v] \in HasEmployee /\ loc'[v].emp = loc[v].emp
           /\ pc'[v] = "co_end" => OpenBreaks(loc'[v].sid) \subseteq {loc'[v].bid}
           /\ pc'[v] \in Summing => OpenBreaks(loc'[v].sid) = {}
    BY <1>m, <1>p, <2>1 DEF SerialInv, OnlyMoves
  <2>4. QED
    BY <1>b, <2>2, <2>3, SerialRows
<1>2. CASE sessions' # sessions
  <2>1. ClockInCreate(w)
    BY <1>2 DEF ClockInMatch, ClockInClaim, Database
  <2>2. PICK s \in Sessions :
              /\ sessions[s].status = "none"
              /\ sessions'[s].status = "active" /\ sessions'[s].emp = loc[w].emp
              /\ sessions'[s].clock_out_at = Null
              /\ \A r \in Sessions \ {s} : sessions'[r] = sessions[r]
    BY <1>2, <2>1, Created
  <2>3. \A v \in Workers : pc'[v] = "idle"
    <3>1. pc'[w] = "idle"
      BY <2>1, Finished DEF ClockInCreate
    <3>2. QED
      BY <1>m, <3>1 DEF SerialInv, Alone, OnlyMoves
  <2>4. \A r \in Sessions : IsOpen(r) => sessions[r].emp # loc[w].emp
    BY <1>p DEF SerialInv, OpenSessions
  <2>5. OneOpen'
    BY <2>2, <2>4 DEF SerialInv, OneOpen, IsOpen
  <2>6. OpenBreaks(s) = {}
    BY <2>2, IdsAssumption DEF BreakInv, OpenBreaks, BreaksOf
  <2>7. CompletedIsFinal'
    <3>1. \A r \in Sessions : OpenBreaks(r)' = OpenBreaks(r)
      BY <1>b DEF OpenBreaks, BreaksOf
    <3>2. QED
      BY <2>2, <2>6, <3>1 DEF SerialInv, CompletedIsFinal, IsOpen
  <2>8. QED
    BY <2>3, <2>5, <2>7 DEF SerialInv, HasEmployee, Summing
<1>3. QED
  BY <1>1, <1>2

(* Clocking out, up to the session row.                                    *)
LEMMA SerialClockOut ==
  ASSUME ControlTypeOK, SerialInv, BreakInv, Alone', NEW w \in Workers,
         \/ ClockOutFindBreak(w) \/ ClockOutEndBreak(w) \/ ClockOutSumBreaks(w)
         \/ ClockOutOvertime(w) \/ ClockOutShift(w)
  PROVE  SerialInv'
<1>m. /\ OnlyMoves(w) /\ pc[w] # "idle" /\ Edge(pc[w], pc'[w])
      /\ pc'[w] \in HasSid => loc'[w].sid = loc[w].sid
  BY HandlerMoves DEF HandlerStep
<1>k. sessions' = sessions /\ RowsKept
  BY DEF ClockOutFindBreak, ClockOutEndBreak, ClockOutSumBreaks, ClockOutOvertime, ClockOutShift,
         Database, RowsKept
<1>o. \A v \in Workers \ {w} : pc'[v] = "idle"
  BY <1>m DEF SerialInv, Alone, OnlyMoves
<1>1. CASE ClockOutFindBreak(w)
  <2>1. breaks' = breaks
    BY <1>1 DEF ClockOutFindBreak, Database
  <2>2. loc[w].sid \in Sessions
    BY <1>1 DEF ClockOutFindBreak, ControlTypeOK, LocalsSet, HasSid, Locals
  <2>3. \/ pc'[w] = "co_sum" /\ OpenBreaks(loc'[w].sid) = {}
        \/ pc'[w] = "co_end" /\ OpenBreaks(loc'[w].sid) \subseteq {loc'[w].bid}
    <3>1. CASE OpenBreaks(loc[w].sid) = {} /\ Goto(w, "co_sum", loc[w])
      BY <3>1, Went
    <3>2. ASSUME NEW b \in OpenBreaks(loc[w].sid), Goto(w, "co_end", [loc[w] EXCEPT !.bid = b])
          PROVE  pc'[w] = "co_end" /\ OpenBreaks(loc'[w].sid) \subseteq {loc'[w].bid}
      <4>1. pc'[w] = "co_end" /\ loc'[w] = [loc[w] EXCEPT !.bid = b]
        BY <3>2, Went
      <4>2. loc'[w].bid = b /\ loc'[w].sid = loc[w].sid
        BY <4>1 DEF ControlTypeOK, Locals
      <4>3. \A c \in OpenBreaks(loc[w].sid) : c = b
        BY <2>2, <3>2 DEF BreakInv, BreakGate
      <4>4. QED
        BY <4>1, <4>2, <4>3
    <3>3. QED
      BY <1>1, <3>1, <3>2 DEF ClockOutFindBreak
  <2>4. \A v \in Workers :
           /\ pc'[v] \in HasEmployee => pc[v] \in HasEmployee /\ loc'[v].emp = loc[v].emp
           /\ pc'[v] = "co_end" => OpenBreaks(loc'[v].sid) \subseteq {loc'[v].bid}
           /\ pc'[v] \in Summing => OpenBreaks(loc'[v].sid) = {}
    BY <1>o, <2>3 DEF HasEmployee, Summing
  <2>5. QED
    BY <1>k, <2>1, <2>4, SerialRows
<1>2. CASE ClockOutEndBreak(w)
  <2>1. loc[w].sid \in Sessions /\ loc[w].bid \in Breaks /\ loc[w].at \in Nat /\ pc[w] = "co_end"
    BY <1>2 DEF ClockOutEndBreak, ControlTypeOK, LocalsSet, HasSid, HasBid, Locals
  <2>2. PICK x \in Sessions, b \in Breaks, t \in Nat : x = loc[w].sid /\ b = loc[w].bid /\ t = loc[w].at
    BY <2>1
  <2>3. breaks' = [breaks EXCEPT ![b].ended_at = t] /\ t # Null
    BY <1>2, <2>2, IdsAssumption DEF ClockOutEndBreak
  <2>4. \A s \in Sessions : OpenBreaks(s)' \subseteq OpenBreaks(s) \ {b}
    BY <2>3 DEF OpenBreaks, BreaksOf, ControlTypeOK, BreakRows
  <2>5. OpenBreaks(x)' = {}
    BY <2>1, <2>2, <2>4 DEF SerialInv
  <2>6. pc'[w] = "co_sum" /\ loc'[w] = loc[w]
    BY <1>2, Went DEF ClockOutEndBreak
  <2>7. OpenBreaks(loc[w].sid)' = {}
    <3>1. loc'[w].sid = x
      BY <2>2, <2>6
    <3>2. OpenBreaks(loc[w].sid)' = OpenBreaks(x)'
      BY <3>1 DEF OpenBreaks, BreaksOf
    <3>3. QED
      BY <2>5, <3>2
  <2>8. \A v \in Workers :
           /\ pc'[v] \in HasEmployee => pc[v] \in HasEmployee /\ loc'[v].emp = loc[v].emp
           /\ pc'[v] = "co_end" => OpenBreaks(loc[v].sid)' \subseteq {loc'[v].bid}
           /\ pc'[v] \in Summing => OpenBreaks(loc[v].sid)' = {}
    BY <1>o, <2>6, <2>7 DEF HasEmployee, Summing
  <2>9. \A s \in Sessions :
           /\ IsOpen(s)' => /\ IsOpen(s) /\ sessions'[s].emp = sessions[s].emp
                            /\ sessions'[s].clock_out_at = sessions[s].clock_out_at
           /\ OpenBreaks(s)' \subseteq OpenBreaks(s)
           /\ OpenBreaks(s)' # {} => sessions'[s].status = "on_break"
    BY <1>k, <2>4 DEF SerialInv, CompletedIsFinal, IsOpen
  <2>10. QED
    BY <2>8, <2>9, SerialFrame
<1>3. CASE ClockOutSumBreaks(w) \/ ClockOutOvertime(w) \/ ClockOutShift(w)
  <2>1. breaks' = breaks /\ pc[w] \in Summing
    BY <1>3 DEF ClockOutSumBreaks, ClockOutOvertime, ClockOutShift, Database, Summing
  <2>2. pc'[w] \in Summing \cup {"idle"} /\ (pc'[w] \in Summing => loc'[w].sid = loc[w].sid)
    <3>1. pc[w] \in {"co_sum", "co_overtime", "co_shift"}
      BY <1>3 DEF ClockOutSumBreaks, ClockOutOvertime, ClockOutShift
    <3>2. QED
      BY <1>m, <3>1 DEF Edge, Summing, HasSid
  <2>3. \A v \in Workers :
           /\ pc'[v] \in HasEmployee => pc[v] \in HasEmployee /\ loc'[v].emp = loc[v].emp
           /\ pc'[v] = "co_end" => OpenBreaks(loc'[v].sid) \subseteq {loc'[v].bid}
           /\ pc'[v] \in Summing => OpenBreaks(loc'[v].sid) = {}
    BY <1>o, <2>1, <2>2 DEF SerialInv, HasEmployee, Summing
  <2>4. QED
    BY <1>k, <2>1, <2>3, SerialRows
<1>4. QED
  BY <1>1, <1>2, <1>3

(* The session row of a clock-out, and the end of a break.                 *)
LEMMA SerialEnds ==
  ASSUME ControlTypeOK, SerialInv, BreakInv, Alone', NEW w \in Workers,
         ClockOutComplete(w) \/ EndBreakCommit(w)
  PROVE  SerialInv'
<1>m. OnlyMoves(w) /\ pc[w] # "idle" /\ Edge(pc[w], pc'[w])
  BY HandlerMoves DEF HandlerStep
<1>l. Settled(pc'[w])
  <2>1. pc[w] \in {"co_complete", "eb_commit"}
    BY DEF ClockOutComplete, EndBreakCommit
  <2>2. QED
    BY <1>m, <2>1 DEF Edge, Settled, Summing, HasEmployee
<1>s. \A v \in Workers :
           /\ pc'[v] \in HasEmployee => pc[v] \in HasEmployee /\ loc'[v].emp = loc[v].emp
           /\ pc'[v] = "co_end" => OpenBreaks(loc[v].sid)' \subseteq {loc'[v].bid}
           /\ pc'[v] \in Summing => OpenBreaks(loc[v].sid)' = {}
  <2>1. \A v \in Workers : Settled(pc'[v])
    <3>1. \A v \in Workers \ {w} : pc'[v] = "idle"
      BY <1>m DEF SerialInv, Alone, OnlyMoves
    <3>2. QED
      BY <1>l, <3>1 DEF Settled, Summing, HasEmployee
  <2>2. QED
    BY <2>1 DEF Settled
<1>1. CASE ClockOutComplete(w)
  <2>1. PICK s \in Sessions : s = loc[w].sid
    BY <1>1, Completed
  <2>2. /\ sessions'[s].status = "completed"
        /\ \A r \in Sessions \ {s} : sessions'[r] = sessions[r]
    BY <1>1, <2>1, Completed
  <2>3. \A r \in Sessions : OpenBreaks(r)' = OpenBreaks(r)
    BY <1>1 DEF ClockOutComplete, OpenBreaks, BreaksOf
  <2>4. OpenBreaks(s) = {}
    BY <1>1, <2>1 DEF ClockOutComplete, SerialInv, Summing
  <2>5. \A r \in Sessions :
           /\ IsOpen(r)' => /\ IsOpen(r) /\ sessions'[r].emp = sessions[r].emp
                            /\ sessions'[r].clock_out_at = sessions[r].clock_out_at
           /\ OpenBreaks(r)' \subseteq OpenBreaks(r)
           /\ OpenBreaks(r)' # {} => sessions'[r].status = "on_break"
    BY <2>2, <2>3, <2>4 DEF IsOpen, SerialInv, CompletedIsFinal
  <2>6. QED
    BY <1>s, <2>5, SerialFrame
<1>2. CASE EndBreakCommit(w)
  <2>1. CASE breaks' = breaks /\ sessions' = sessions
    BY <1>l, <1>m, <2>1, SerialMoves DEF RowsKept
  <2>2. CASE ~(breaks' = breaks /\ sessions' = sessions)
    <3>1. /\ loc[w].sid \in Sessions /\ sessions'[loc[w].sid].status = "active"
          /\ breaks[loc[w].bid].ended_at = Null /\ loc[w].bid \in Breaks
          /\ breaks' = [breaks EXCEPT ![loc[w].bid].ended_at = loc[w].at]
      BY <1>2, <2>2, Resumed
    <3>2. PICK s \in Sessions, b \in Breaks, t \in Nat : s = loc[w].sid /\ b = loc[w].bid /\ t = loc[w].at
      BY <3>1 DEF ControlTypeOK, Locals
    <3>3. t # Null
      BY IdsAssumption
    <3>4. b \in OpenBreaks(s)
      BY <1>2, <3>1, <3>2 DEF EndBreakCommit, BreakInv, OpenBreaks, BreaksOf
    <3>5. \A c \in OpenBreaks(s) : c = b
      BY <3>4 DEF BreakInv, BreakGate
    <3>6. \A r \in Sessions : OpenBreaks(r)' \subseteq OpenBreaks(r) \ {b}
      BY <3>1, <3>2, <3>3 DEF OpenBreaks, BreaksOf, ControlTypeOK, BreakRows
    <3>7. OpenBreaks(s)' = {} /\ sessions[s].status = "on_break"
      BY <3>4, <3>5, <3>6 DEF SerialInv, CompletedIsFinal
    <3>8. \A r \in Sessions : /\ sessions'[r].emp = sessions[r].emp
                              /\ sessions'[r].clock_out_at = sessions[r].clock_out_at
                              /\ sessions'[r].status # sessions[r].status =>
                                   r = s /\ sessions'[r].status = "active"
      BY <1>2, <3>2, Resumed
    <3>9. \A r \in Sessions :
           /\ IsOpen(r)' => /\ IsOpen(r) /\ sessions'[r].emp = sessions[r].emp
                            /\ sessions'[r].clock_out_at = sessions[r].clock_out_at
           /\ OpenBreaks(r)' \subseteq OpenBreaks(r)
           /\ OpenBreaks(r)' # {} => sessions'[r].status = "on_break"
      BY <3>6, <3>7, <3>8 DEF IsOpen, SerialInv, CompletedIsFinal
    <3>10. QED
      BY <1>s, <3>9, SerialFrame
  <2>3. QED
    BY <2>1, <2>2
<1>3. QED
  BY <1>1, <1>2

(* The steps that touch neither statuses nor breaks.                       *)
LEMMA SerialOthers ==
  ASSUME ControlTypeOK, SerialInv, Alone', NEW w \in Workers,
         \/ LaborCreate(w) \/ LaborMark(w) \/ LaborAdmins(w) \/ LaborNotify(w) \/ RemoveShiftDelete(w)
         \/ MissedCheck(w) \/ MissedMark(w) \/ RemindStamp(w) \/ RemindSend(w)
  PROVE  SerialInv'
<1>1. OnlyMoves(w) /\ pc[w] # "idle" /\ Edge(pc[w], pc'[w])
  BY HandlerMoves DEF HandlerStep
<1>2. pc[w] \in {"lc_create", "lc_mark", "lc_admins", "lc_notify", "rs_delete", "ms_check", "ms_mark",
                "rm_stamp", "rm_send"}
  BY DEF LaborCreate, LaborMark, LaborAdmins, LaborNotify, RemoveShiftDelete, MissedCheck, MissedMark,
         RemindStamp, RemindSend
<1>3. Settled(pc'[w])
  BY <1>1, <1>2 DEF Edge, Settled, Summing, HasEmployee
<1>4. breaks' = breaks
  BY DEF LaborCreate, LaborMark, LaborAdmins, LaborNotify, RemoveShiftDelete, MissedCheck, MissedMark,
     RemindStamp, RemindSend, Database
<1>5. RowsKept
  <2>1. CASE LaborMark(w)
    BY <2>1, Marked DEF RowsKept
  <2>2. CASE RemoveShiftDelete(w)
    BY <2>2, Unlinked DEF RowsKept
  <2>3. CASE ~(LaborMark(w) \/ RemoveShiftDelete(w))
    <3>1. sessions' = sessions
      BY <2>3 DEF LaborCreate, LaborAdmins, LaborNotify, MissedCheck, MissedMark, RemindStamp,
           RemindSend, Database
    <3>2. QED
      BY <3>1 DEF RowsKept
  <2>4. QED
    BY <2>1, <2>2, <2>3
<1>6. QED
  BY <1>1, <1>3, <1>4, <1>5, SerialMoves

(* A failed call leaves a slot idle, or where the tables are as it knew.   *)
LEMMA SerialFails ==
  ASSUME ControlTypeOK, SerialInv, Alone', NEW w \in Workers, DbError(w)
  PROVE  SerialInv'
<1>1. sessions' = sessions /\ breaks' = breaks /\ RowsKept
  BY DEF DbError, RowsKept
<1>2. CASE pc[w] = "co_shift"
  <2>1. Goto(w, "co_complete", loc[w])
    BY <1>2, DbErrorGoes DEF Posting, Telling
  <2>2. OnlyMoves(w) /\ pc'[w] = "co_complete" /\ loc'[w] = loc[w]
    BY <2>1, Went
  <2>3. \A v \in Workers :
           /\ pc'[v] \in HasEmployee => pc[v] \in HasEmployee /\ loc'[v].emp = loc[v].emp
           /\ pc'[v] = "co_end" => OpenBreaks(loc'[v].sid) \subseteq {loc'[v].bid}
           /\ pc'[v] \in Summing => OpenBreaks(loc'[v].sid) = {}
    BY <1>2, <2>2 DEF SerialInv, OnlyMoves, HasEmployee, Summing
  <2>4. QED
    BY <1>1, <2>3, SerialRows
<1>3. CASE pc[w] # "co_shift"
  <2>1. NextShift(w, "rm_stamp", loc[w].list) \/ Goto(w, "lc_admins", loc[w]) \/ End(w)
    BY <1>3, DbErrorGoes DEF Finish
  <2>2. OnlyMoves(w) /\ Settled(pc'[w])
    BY <2>1, Went, WentOn, Ended DEF Settled, Summing, HasEmployee
  <2>3. QED
    BY <1>1, <2>2, SerialMoves
<1>4. QED
  BY <1>2, <1>3

(* What arrives finds every slot idle.                                     *)
LEMMA SerialArrive ==
  ASSUME Serial, ControlTypeOK, SerialInv, BreakInv, Alone', Arrive
  PROVE  SerialInv'
<1>i. \A v \in Workers : pc[v] = "idle"
  BY ArriveAlone
<1>q. /\ "idle" \notin HasEmployee \cup Summing \cup {"co_end"}
      /\ \A label \in {"co_find", "eb_commit", "rs_delete", "ms_check", "rm_stamp"} : Settled(label)
  BY DEF HasEmployee, Summing, Settled
<1>1. ASSUME NEW w \in Workers, NEW label, NEW l, Goto(w, label, l), Settled(label),
             UNCHANGED <<sessions, breaks>>
      PROVE  SerialInv'
  BY <1>1, Went, SerialMoves DEF RowsKept
<1>2. ASSUME NEW w \in Requests, NEW e \in Employees, NEW geo \in GeoInputs, NEW project \in Projects, NEW task \in BOOLEAN,
             ClockInCheck(w, e, geo, project, task)
      PROVE  SerialInv'
  <2>1. PICK l : l = [NoLocals EXCEPT !.emp = e, !.project = project, !.geofence = GpsGate(geo)]
    OBVIOUS
  <2>2. w \in Workers /\ Goto(w, "ci_match", l) /\ l.emp = e /\ OpenSessions(e) = {}
        /\ sessions' = sessions /\ breaks' = breaks
    BY <1>2, <2>1 DEF ClockInCheck, NoLocals, Database, Workers
  <2>3. OnlyMoves(w) /\ pc'[w] = "ci_match" /\ loc'[w].emp = e
    BY <2>2, Went
  <2>4. \A x : OpenSessions(x)' = OpenSessions(x) /\ OpenBreaks(x)' = OpenBreaks(x)
    BY <2>2 DEF OpenSessions, IsOpen, OpenBreaks, BreaksOf
  <2>5. \A v \in Workers : pc'[v] \notin Summing \cup {"co_end"} /\ (pc'[v] \in HasEmployee => v = w)
    BY <1>i, <1>q, <2>3 DEF OnlyMoves, Summing
  <2>6. OpenSessions(loc[w].emp)' = {}
    BY <2>2, <2>3 DEF OpenSessions, IsOpen
  <2>7. OneOpen' /\ CompletedIsFinal'
    BY <2>2, <2>4 DEF SerialInv, OneOpen, CompletedIsFinal, IsOpen
  <2>8. QED
    BY <2>5, <2>6, <2>7 DEF SerialInv
<1>3. ASSUME NEW w \in Requests, NEW e \in Employees, ClockOutRead(w, e)
      PROVE  SerialInv'
  <2>1. w \in Workers /\ sessions' = sessions /\ breaks' = breaks /\ RowsKept
    BY <1>3 DEF ClockOutRead, Database, Workers, RowsKept
  <2>2. PICK s \in OpenSessions(e) :
           Goto(w, IF sessions[s].status = "on_break" THEN "co_find" ELSE "co_sum",
                [NoLocals EXCEPT !.emp = e, !.sid = s, !.shift = sessions[s].shift, !.at = now])
    BY <1>3 DEF ClockOutRead
  <2>3. CASE sessions[s].status = "on_break"
    <3>1. \E l : Goto(w, "co_find", l)
      BY <2>2, <2>3
    <3>2. QED
      BY <1>1, <1>q, <2>1, <3>1
  <2>4. CASE sessions[s].status # "on_break"
    <3>1. PICK l : l = [NoLocals EXCEPT !.emp = e, !.sid = s, !.shift = sessions[s].shift, !.at = now]
      OBVIOUS
    <3>2. Goto(w, "co_sum", l) /\ l.sid = s
      BY <2>2, <2>4, <3>1 DEF NoLocals
    <3>3. OnlyMoves(w) /\ pc'[w] = "co_sum" /\ loc'[w].sid = s
      BY <2>1, <3>2, Went
    <3>4. OpenBreaks(s) = {}
      BY <2>2, <2>4 DEF OpenSessions, IsOpen, BreakInv, BreakGate
    <3>5. \A v \in Workers :
           /\ pc'[v] \in HasEmployee => pc[v] \in HasEmployee /\ loc'[v].emp = loc[v].emp
           /\ pc'[v] = "co_end" => OpenBreaks(loc'[v].sid) \subseteq {loc'[v].bid}
           /\ pc'[v] \in Summing => OpenBreaks(loc'[v].sid) = {}
      BY <1>i, <3>3, <3>4 DEF OnlyMoves, HasEmployee, Summing
    <3>6. QED
      BY <2>1, <3>5, SerialRows
  <2>5. QED
    BY <2>3, <2>4
<1>4. ASSUME NEW w \in Workers,
             (\E s \in Sessions : EndBreakRead(w, s)) \/ (\E h \in Shifts : RemoveShiftRead(w, h))
               \/ MissedList(w) \/ RemindList(w)
      PROVE  SerialInv'
  <2>1. /\ UNCHANGED <<sessions, breaks>>
        /\ \E label \in {"eb_commit", "rs_delete", "ms_check", "rm_stamp"} : \E l : Goto(w, label, l)
    BY <1>4 DEF EndBreakRead, RemoveShiftRead, MissedList, RemindList, Database
  <2>2. QED
    BY <1>1, <1>q, <2>1
<1>5. ASSUME NEW s \in Sessions, NEW b \in Breaks, NEW type \in BreakTypes, StartBreak(s, b, type)
      PROVE  SerialInv'
  <2>1. \A v \in Workers : pc'[v] = "idle"
    BY <1>i, <1>5 DEF StartBreak, Slots
  <2>2. /\ sessions'[s].status = "on_break" /\ sessions[s].status = "active"
        /\ \A r \in Sessions : /\ r # s => sessions'[r].status = sessions[r].status
                               /\ sessions'[r].emp = sessions[r].emp
                               /\ sessions'[r].clock_out_at = sessions[r].clock_out_at
    BY <1>5, Paused
  <2>3. OneOpen'
    BY <2>2 DEF SerialInv, OneOpen, IsOpen
  <2>4. \A r \in Sessions : r # s => OpenBreaks(r)' = OpenBreaks(r)
    BY <1>5, IdsAssumption DEF StartBreak, OpenBreaks, BreaksOf, ControlTypeOK
  <2>5. CompletedIsFinal'
    BY <2>2, <2>4 DEF SerialInv, CompletedIsFinal, IsOpen
  <2>6. QED
    BY <1>q, <2>1, <2>3, <2>5 DEF SerialInv, Alone
<1>6. CASE UNCHANGED <<sessions, breaks, pc, loc>>
  <2>1. \A v \in Workers :
           /\ pc'[v] \in HasEmployee => pc[v] \in HasEmployee /\ loc'[v].emp = loc[v].emp
           /\ pc'[v] = "co_end" => OpenBreaks(loc'[v].sid) \subseteq {loc'[v].bid}
           /\ pc'[v] \in Summing => OpenBreaks(loc'[v].sid) = {}
    BY <1>i, <1>q, <1>6
  <2>2. QED
    BY <1>6, <2>1, SerialRows DEF RowsKept
<1>7. QED
  <2>1. ASSUME NEW new, CreateShifts(new) PROVE UNCHANGED <<sessions, breaks, pc, loc>>
    BY <2>1 DEF CreateShifts, Slots
  <2>2. ASSUME NEW h, NEW e, NEW t, NEW status, UpdateShift(h, e, t, status)
        PROVE  UNCHANGED <<sessions, breaks, pc, loc>>
    BY <2>2 DEF UpdateShift, Slots
  <2>3. QED
    BY <1>2, <1>3, <1>4, <1>5, <1>6, <2>1, <2>2 DEF Arrive, Workers

(* What serial handlers know holds at first.                               *)
LEMMA SerialInit == Init => SerialInv
<1> SUFFICES ASSUME Init PROVE SerialInv
  OBVIOUS
<1>1. /\ \A w \in Workers : pc[w] = "idle"
      /\ \A s \in Sessions : sessions[s].status = "none"
      /\ \A b \in Breaks : breaks[b].session = Null
  BY DEF Init, NoSession, NoBreak
<1>2. \A s \in Sessions : OpenBreaks(s) = {} /\ ~IsOpen(s)
  BY <1>1, IdsAssumption DEF OpenBreaks, BreaksOf, IsOpen
<1>3. QED
  BY <1>1, <1>2 DEF SerialInv, Alone, OneOpen, CompletedIsFinal, HasEmployee, Summing

(* Every step keeps it.                                                    *)
LEMMA SerialNext ==
  ASSUME Serial, ControlTypeOK, BreakInv, SerialInv, [Next]_vars
  PROVE  SerialInv'
<1>a. Alone'
  BY AloneNext DEF SerialInv
<1>1. CASE Arrive
  BY <1>a, <1>1, SerialArrive
<1>2. ASSUME NEW w \in Workers, HandlerStep(w) \/ DbError(w) PROVE SerialInv'
  BY <1>a, <1>2, SerialClockIn, SerialClockOut, SerialEnds, SerialOthers, SerialFails DEF HandlerStep
<1>3. CASE Crash \/ Tick \/ Wait \/ UNCHANGED vars
  <2>1. UNCHANGED <<sessions, breaks>> /\ (UNCHANGED <<pc, loc>> \/ \A w \in Workers : pc'[w] = "idle")
    BY <1>3 DEF Crash, Tick, Wait, vars, Slots, Database
  <2>2. \A v \in Workers :
           /\ pc'[v] \in HasEmployee => pc[v] \in HasEmployee /\ loc'[v].emp = loc[v].emp
           /\ pc'[v] = "co_end" => OpenBreaks(loc'[v].sid) \subseteq {loc'[v].bid}
           /\ pc'[v] \in Summing => OpenBreaks(loc'[v].sid) = {}
    BY <2>1 DEF SerialInv, HasEmployee, Summing
  <2>3. QED
    BY <1>a, <2>1, <2>2, SerialRows DEF RowsKept
<1>4. QED
  BY <1>1, <1>2, <1>3 DEF Next

(* When handlers do not overlap, whatever fails or is cut off: an employee *)
(* has one open session at most.                                           *)
LEMMA OneSessionEach ==
  ASSUME Serial
  PROVE  Spec => []OneActiveSession
<1>1. SerialInv => OneActiveSession
  <2> SUFFICES ASSUME SerialInv, NEW e \in Employees PROVE Cardinality(OpenSessions(e)) <= 1
    BY DEF OneActiveSession
  <2>1. CASE OpenSessions(e) = {}
    BY <2>1, FS_EmptySet
  <2>2. CASE OpenSessions(e) # {}
    <3>1. PICK s \in OpenSessions(e) : TRUE
      BY <2>2
    <3>2. OpenSessions(e) = {s}
      BY <3>1 DEF SerialInv, OneOpen, OpenSessions
    <3>3. Cardinality({s}) = 1
      BY FS_Singleton
    <3>4. QED
      BY <3>2, <3>3
  <2>3. QED
    BY <2>1, <2>2
<1>2. ControlTypeOK /\ BreakInv /\ SerialInv /\ [Next]_vars => BreakInv' /\ SerialInv'
  BY GateNext, SerialNext
<1>3. QED
  BY <1>1, <1>2, GateInit, SerialInit, TypeCorrect, PTL DEF Spec

(* And what is clocked out stays so, with no break left open behind it.    *)
THEOREM ClockedOutForGood ==
  ASSUME Serial
  PROVE  Spec => []CompletedIsFinal
<1>1. SerialInv => CompletedIsFinal
  BY DEF SerialInv
<1>2. ControlTypeOK /\ BreakInv /\ SerialInv /\ [Next]_vars => BreakInv' /\ SerialInv'
  BY GateNext, SerialNext
<1>3. QED
  BY <1>1, <1>2, GateInit, SerialInit, TypeCorrect, PTL DEF Spec

-----------------------------------------------------------------------------
(* The minutes of a session *)

InClockOut == {"co_find", "co_end", "co_sum", "co_overtime", "co_shift", "co_complete"}

(* Max of nothing and x; Min of three.                                     *)
LEMMA MaxWithZero ==
  ASSUME NEW x \in Int
  PROVE  Max({0, x}) = IF x >= 0 THEN x ELSE 0
<1> DEFINE m == IF x >= 0 THEN x ELSE 0
<1>1. m \in {0, x} /\ \A y \in {0, x} : m >= y
  OBVIOUS
<1>2. \A n \in {0, x} : (\A y \in {0, x} : n >= y) => n = m
  OBVIOUS
<1> HIDE DEF m
<1>3. Max({0, x}) = m
  BY <1>1, <1>2 DEF Max
<1>4. QED
  BY <1>3 DEF m

(* The smallest of three is at most each of them.                          *)
LEMMA MinOfThree ==
  ASSUME NEW a \in Nat, NEW b \in Nat, NEW c \in Nat
  PROVE  /\ Min({a, b, c}) \in Nat
         /\ Min({a, b, c}) <= a /\ Min({a, b, c}) <= b /\ Min({a, b, c}) <= c
<1>1. PICK m \in {a, b, c} : m <= a /\ m <= b /\ m <= c
  OBVIOUS
<1>2. \A y \in {a, b, c} : m <= y
  BY <1>1
<1>3. /\ Min({a, b, c}) \in {a, b, c}
      /\ \A y \in {a, b, c} : Min({a, b, c}) <= y
  BY <1>2 DEF Min
<1>4. QED
  BY <1>3

(* The sum of a function on its own domain.                                *)
LEMMA SumOnDomain ==
  ASSUME NEW f
  PROVE  SumFunction(f) = SumFunctionOnSet(f, DOMAIN f)
BY DEF SumFunction

(* The unpaid minutes of a session are a natural number.                   *)
LEMMA UnpaidIsNat ==
  ASSUME ControlTypeOK, NEW s
  PROVE  /\ UnpaidMinutes(s) \in Nat
         /\ IsFiniteSet(UnpaidBreaks(s))
         /\ \A b \in UnpaidBreaks(s) : Duration(b) \in Nat
<1>1. IsFiniteSet(UnpaidBreaks(s))
  BY IdsAssumption, FS_Subset DEF UnpaidBreaks, BreaksOf
<1>2. ASSUME NEW b \in UnpaidBreaks(s) PROVE Duration(b) \in Nat
  <2>1. breaks[b].ended_at \in Nat /\ breaks[b].started_at \in Nat
    BY DEF UnpaidBreaks, OpenBreaks, BreaksOf, ControlTypeOK, BreakRows
  <2>2. PICK x \in Int : x = breaks[b].ended_at - breaks[b].started_at
    BY <2>1
  <2>3. QED
    BY <2>2, MaxWithZero DEF Duration
<1> DEFINE f == [b \in UnpaidBreaks(s) |-> Duration(b)]
<1>3. DOMAIN f = UnpaidBreaks(s) /\ \A b \in UnpaidBreaks(s) : f[b] \in Nat
  BY <1>2
<1>4. UnpaidMinutes(s) = SumFunction(f)
  BY DEF UnpaidMinutes
<1> HIDE DEF f
<1>5. UnpaidMinutes(s) \in Nat
  BY <1>1, <1>3, <1>4, SumOnDomain, SumIsNat
<1>6. QED
  BY <1>1, <1>2, <1>5

(* A session without breaks has no unpaid minutes.                         *)
LEMMA NoBreaksNoMinutes ==
  ASSUME NEW s, BreaksOf(s) = {}
  PROVE  UnpaidMinutes(s) = 0
<1> DEFINE f == [b \in UnpaidBreaks(s) |-> Duration(b)]
<1>1. DOMAIN f = {}
  BY DEF UnpaidBreaks
<1>2. UnpaidMinutes(s) = SumFunction(f)
  BY DEF UnpaidMinutes
<1> HIDE DEF f
<1>3. QED
  BY <1>1, <1>2, SumOnDomain, SumEmpty

(* Steps that leave a session's ended breaks alone leave its minutes.      *)
LEMMA UnpaidStill ==
  ASSUME ControlTypeOK, NEW s, UnpaidBreaks(s)' = UnpaidBreaks(s),
         \A b \in UnpaidBreaks(s) : breaks'[b] = breaks[b]
  PROVE  UnpaidMinutes(s)' = UnpaidMinutes(s)
<1>1. \A b \in UnpaidBreaks(s) : Duration(b)' = Duration(b)
  BY DEF Duration
<1>2. [b \in UnpaidBreaks(s)' |-> Duration(b)'] = [b \in UnpaidBreaks(s) |-> Duration(b)]
  BY <1>1
<1>3. QED
  BY <1>2 DEF UnpaidMinutes

(* A break that ends adds its duration, if it is unpaid.                   *)
LEMMA UnpaidOneMore ==
  ASSUME ControlTypeOK, NEW s, NEW b, b \notin UnpaidBreaks(s),
         UnpaidBreaks(s)' = UnpaidBreaks(s) \cup {b},
         \A c \in UnpaidBreaks(s) : breaks'[c] = breaks[c],
         Duration(b)' \in Nat
  PROVE  UnpaidMinutes(s)' = UnpaidMinutes(s) + Duration(b)'
<1> DEFINE f == [c \in UnpaidBreaks(s) |-> Duration(c)]
           g == [c \in UnpaidBreaks(s)' |-> Duration(c)']
<1>1. PICK S : S = UnpaidBreaks(s)
  OBVIOUS
<1>2. /\ DOMAIN f = S /\ DOMAIN g = S \cup {b}
      /\ \A c \in S : f[c] = g[c] /\ f[c] \in Nat
      /\ g[b] = Duration(b)'
  <2>1. \A c \in S : Duration(c)' = Duration(c) /\ Duration(c) \in Nat
    BY <1>1, UnpaidIsNat DEF Duration
  <2>2. UnpaidBreaks(s)' = S \cup {b}
    BY <1>1
  <2>3. QED
    BY <1>1, <2>1, <2>2
<1>3. UnpaidMinutes(s) = SumFunction(f) /\ UnpaidMinutes(s)' = SumFunction(g)
  BY DEF UnpaidMinutes
<1>4. IsFiniteSet(S) /\ b \notin S
  BY <1>1, UnpaidIsNat
<1> HIDE DEF f, g
<1>5. SumFunctionOnSet(g, S \cup {b}) = g[b] + SumFunctionOnSet(g, S)
  BY <1>2, <1>4, SumOneIn
<1>6. SumFunctionOnSet(g, S) = SumFunctionOnSet(f, S)
  BY <1>2, <1>4, SumSame
<1>7. SumFunctionOnSet(f, S) \in Nat
  BY <1>2, <1>4, SumIsNat
<1>8. QED
  BY <1>2, <1>3, <1>5, <1>6, <1>7, SumOnDomain

MinuteRows == [total : Nat, regular : Nat]
LogRows == [regular : Int, overtime : Int]

HourTypes ==
  /\ minutes \in [Sessions -> MinuteRows]
  /\ calc \in [Workers -> [unpaid : Nat, mins : MinuteRows]]
  /\ hourLogs \in [Sessions -> Seq(LogRows)]

(* The earliest time at which the unpaid breaks that have ended fit in.    *)
Earliest(s) == sessions[s].clock_in_at + UnpaidMinutes(s)

(* An open session's ended breaks fit before its open break, or else       *)
(* before now; nothing is posted before the session is completed.          *)
SessionHours(s) ==
  /\ sessions[s].status # "none" => sessions[s].clock_in_at \in Nat
  /\ IsOpen(s) => Earliest(s) <= now
  /\ \A b \in OpenBreaks(s) : Earliest(s) <= breaks[b].started_at /\ breaks[b].started_at <= now
  /\ sessions[s].status # "completed" => hourLogs[s] = <<>> /\ ~sessions[s].posted

Accounted(s) ==
  /\ sessions[s].status = "completed" =>
       minutes[s].total + UnpaidMinutes(s) = sessions[s].clock_out_at - sessions[s].clock_in_at
  /\ sessions[s].posted => hourLogs[s] = <<HoursOf(minutes[s])>>

Timed == {"ci_claim", "ci_create", "eb_commit"} \cup InClockOut
Computed == {"co_overtime", "co_shift", "co_complete"}

(* A slot that clocks out session s, or ends a break of it, does so after  *)
(* all its breaks, and what it has computed so far is still right.         *)
SlotFor(w, s) ==
  /\ pc[w] \in InClockOut => IsOpen(s)
  /\ pc[w] = "co_end" => loc[w].bid \in OpenBreaks(s)
  /\ pc[w] \in InClockOut \cup {"eb_commit"} =>
       /\ \A b \in OpenBreaks(s) : breaks[b].started_at <= loc[w].at
       /\ OpenBreaks(s) = {} => Earliest(s) <= loc[w].at
  /\ pc[w] \in Computed => calc[w].unpaid = UnpaidMinutes(s)
  /\ \A m \in MinuteRows : m = calc[w].mins =>
       /\ pc[w] \in {"co_shift", "co_complete"} =>
            /\ m.total + UnpaidMinutes(s) = loc[w].at - sessions[s].clock_in_at
            /\ m.regular = RegularMinutes(s, m.total)
       /\ pc[w] = "lc_create" => /\ sessions[s].status = "completed" /\ hourLogs[s] = <<>>
                                 /\ ~sessions[s].posted /\ m = minutes[s]
       /\ pc[w] = "lc_mark" => sessions[s].status = "completed" /\ hourLogs[s] = <<HoursOf(minutes[s])>>

SlotHours(w) ==
  /\ pc[w] \in Timed => loc[w].at <= now
  /\ \A s \in Sessions : s = loc[w].sid => SlotFor(w, s)

HoursInv ==
  /\ HourTypes
  /\ \A s \in Sessions : SessionHours(s) /\ Accounted(s)
  /\ \A w \in Workers : SlotHours(w)

(* A slot that is idle, or in no handler that looks at hours.              *)
LEMMA SlotFree ==
  ASSUME NEW w, pc'[w] \notin (HasSid \ Telling) \cup {"ci_claim", "ci_create"}
  PROVE  SlotHours(w)'
BY DEF SlotHours, SlotFor, HasSid, Telling, Timed, InClockOut, Computed

(* The columns of a session that hours depend on.                          *)
SameSession(s) ==
  /\ sessions'[s].status = sessions[s].status /\ sessions'[s].emp = sessions[s].emp
  /\ sessions'[s].clock_in_at = sessions[s].clock_in_at
  /\ sessions'[s].clock_out_at = sessions[s].clock_out_at
  /\ sessions'[s].posted = sessions[s].posted

(* A session whose row, breaks, minutes and log stay is right as before.   *)
LEMMA SessionStill ==
  ASSUME ControlTypeOK, ControlTypeOK', NEW s \in Sessions, SessionHours(s), Accounted(s), SameSession(s),
         UnpaidMinutes(s)' = UnpaidMinutes(s), now' >= now,
         OpenBreaks(s)' \subseteq OpenBreaks(s),
         \A b \in OpenBreaks(s)' : breaks'[b] = breaks[b],
         minutes'[s] = minutes[s], hourLogs'[s] = hourLogs[s]
  PROVE  SessionHours(s)' /\ Accounted(s)'
<1>1. Earliest(s)' = Earliest(s)
  BY DEF Earliest, SameSession
<1>2. now \in Nat /\ now' \in Nat /\ UnpaidMinutes(s) \in Nat
  BY UnpaidIsNat DEF ControlTypeOK
<1>3. ASSUME IsOpen(s)' PROVE Earliest(s)' <= now'
  <2>1. IsOpen(s) /\ sessions[s].clock_in_at \in Nat
    BY <1>3 DEF IsOpen, SameSession, SessionHours
  <2>2. Earliest(s) <= now /\ Earliest(s) \in Nat
    BY <1>2, <2>1 DEF SessionHours, Earliest
  <2>3. QED
    BY <1>1, <1>2, <2>2
<1>4. ASSUME NEW b \in OpenBreaks(s)'
      PROVE  Earliest(s)' <= breaks'[b].started_at /\ breaks'[b].started_at <= now'
  <2>1. Earliest(s) <= breaks[b].started_at /\ breaks[b].started_at <= now /\ breaks[b].started_at \in Nat
    BY <1>4 DEF SessionHours, OpenBreaks, BreaksOf, ControlTypeOK, BreakRows
  <2>2. QED
    BY <1>1, <1>2, <1>4, <2>1
<1>5. QED
  BY <1>3, <1>4 DEF SessionHours, Accounted, SameSession

(* Steps that leave breaks, minutes, logs and sessions alone, but for what *)
(* hours do not depend on, keep every session right.                       *)
TablesStill ==
  /\ UNCHANGED <<breaks, minutes, hourLogs>>
  /\ now' >= now
  /\ \A s \in Sessions : SameSession(s)

(* Where no break changes, neither do a session's unpaid minutes.          *)
LEMMA BreaksStill ==
  ASSUME ControlTypeOK, breaks' = breaks, NEW s
  PROVE  UnpaidMinutes(s)' = UnpaidMinutes(s) /\ OpenBreaks(s)' = OpenBreaks(s)
<1>1. OpenBreaks(s)' = OpenBreaks(s) /\ UnpaidBreaks(s)' = UnpaidBreaks(s)
  BY DEF UnpaidBreaks, OpenBreaks, BreaksOf
<1>2. QED
  BY <1>1, UnpaidStill

(* Where the tables of hours do not change, no session's account does.     *)
LEMMA SessionsStill ==
  ASSUME ControlTypeOK, ControlTypeOK', HoursInv, TablesStill
  PROVE  \A s \in Sessions : SessionHours(s)' /\ Accounted(s)'
<1> SUFFICES ASSUME NEW s \in Sessions PROVE SessionHours(s)' /\ Accounted(s)'
  OBVIOUS
<1>1. UnpaidMinutes(s)' = UnpaidMinutes(s) /\ OpenBreaks(s)' = OpenBreaks(s)
  BY BreaksStill DEF TablesStill
<1>2. QED
  BY <1>1, SessionStill DEF HoursInv, TablesStill

(* The sums of the earlier sessions depend on sessions and minutes only.   *)
LEMMA RegularStill ==
  ASSUME ControlTypeOK, TablesStill, NEW s \in Sessions, NEW total
  PROVE  RegularMinutes(s, total)' = RegularMinutes(s, total)
<1>1. [r \in Sessions |-> Regular(r)]' = [r \in Sessions |-> Regular(r)]
  BY DEF TablesStill, Regular
<1>2. ASSUME NEW S PROVE RegularOf(S)' = RegularOf(S)
  BY <1>1 DEF RegularOf
<1> DEFINE T == {r \in PriorCompleted(s) : DayOf(sessions[r].clock_in_at) = DayOf(sessions[s].clock_in_at)}
           W == {r \in PriorCompleted(s) : WeekOf(sessions[r].clock_in_at) = WeekOf(sessions[s].clock_in_at)}
<1>3. PriorCompleted(s)' = PriorCompleted(s)
  BY DEF PriorCompleted, TablesStill, SameSession
<1>4. T' = T /\ W' = W
  BY <1>3 DEF TablesStill, SameSession, DayOf, WeekOf, PriorCompleted
<1>5. PriorToday(s)' = PriorToday(s) /\ PriorThisWeek(s)' = PriorThisWeek(s)
  <2>1. PICK A, B : A = T /\ B = W
    OBVIOUS
  <2>2. PriorToday(s) = RegularOf(A) /\ PriorThisWeek(s) = RegularOf(B)
    BY <2>1 DEF PriorToday, PriorThisWeek
  <2>3. PriorToday(s)' = RegularOf(A)' /\ PriorThisWeek(s)' = RegularOf(B)'
    BY <1>4, <2>1 DEF PriorToday, PriorThisWeek, RegularOf
  <2>4. QED
    BY <1>2, <2>2, <2>3
<1>6. QED
  BY <1>5 DEF RegularMinutes

(* A slot that stays where it is, over tables that stay.                   *)
LEMMA SlotStill ==
  ASSUME ControlTypeOK, ControlTypeOK', TablesStill, NEW w \in Workers, SlotHours(w),
         pc'[w] = pc[w], loc'[w] = loc[w], calc'[w] = calc[w]
  PROVE  SlotHours(w)'
<1>1. now \in Nat /\ now' \in Nat /\ loc[w].at \in Nat
  BY DEF ControlTypeOK, Locals
<1>2. pc'[w] \in Timed => loc'[w].at <= now'
  BY <1>1 DEF SlotHours, TablesStill
<1>3. ASSUME NEW s \in Sessions, s = loc'[w].sid PROVE SlotFor(w, s)'
  <2>1. SlotFor(w, s)
    BY <1>3 DEF SlotHours
  <2>2. UnpaidMinutes(s)' = UnpaidMinutes(s) /\ OpenBreaks(s)' = OpenBreaks(s)
    BY BreaksStill DEF TablesStill
  <2>3. /\ Earliest(s)' = Earliest(s) /\ IsOpen(s)' = IsOpen(s)
        /\ sessions'[s].clock_in_at = sessions[s].clock_in_at
        /\ sessions'[s].status = sessions[s].status /\ sessions'[s].posted = sessions[s].posted
        /\ minutes'[s] = minutes[s] /\ hourLogs'[s] = hourLogs[s]
        /\ breaks' = breaks
    BY <2>2 DEF Earliest, IsOpen, TablesStill, SameSession
  <2>4. \A m \in MinuteRows : RegularMinutes(s, m.total)' = RegularMinutes(s, m.total)
    BY RegularStill
  <2>5. QED
    BY <2>1, <2>2, <2>3, <2>4 DEF SlotFor
<1>4. QED
  BY <1>2, <1>3 DEF SlotHours

(* A break that ends leaves its session none open, adds no more than the   *)
(* time since it started, and leaves the other sessions' breaks alone.     *)
LEMMA BreakEnds ==
  ASSUME ControlTypeOK, BreakInv, NEW s \in Sessions, NEW b \in OpenBreaks(s), NEW t \in Nat,
         breaks' = [breaks EXCEPT ![b].ended_at = t], breaks[b].started_at <= t
  PROVE  /\ OpenBreaks(s)' = {}
         /\ \E d \in Nat : /\ UnpaidMinutes(s)' = UnpaidMinutes(s) + d
                           /\ d <= t - breaks[b].started_at
         /\ \A r \in Sessions \ {s} : /\ UnpaidMinutes(r)' = UnpaidMinutes(r)
                                      /\ OpenBreaks(r)' = OpenBreaks(r)
         /\ \A c \in Breaks \ {b} : breaks'[c] = breaks[c]
<1>1. /\ b \in Breaks /\ breaks[b].session = s /\ breaks[b].ended_at = Null
      /\ OpenBreaks(s) = {b} /\ t # Null
  BY IdsAssumption DEF OpenBreaks, BreaksOf, BreakInv, BreakGate
<1>2. /\ breaks'[b].session = s /\ breaks'[b].ended_at = t /\ breaks'[b].type = breaks[b].type
      /\ breaks'[b].started_at = breaks[b].started_at /\ breaks[b].started_at \in Nat
      /\ \A c \in Breaks \ {b} : breaks'[c] = breaks[c]
  BY <1>1 DEF ControlTypeOK, BreakRows
<1>3. \A r \in Sessions : BreaksOf(r)' = BreaksOf(r)
  BY <1>1, <1>2 DEF BreaksOf
<1>4. OpenBreaks(s)' = {}
  BY <1>1, <1>2, <1>3 DEF OpenBreaks, BreaksOf
<1>5. ASSUME NEW r \in Sessions \ {s}
      PROVE  UnpaidMinutes(r)' = UnpaidMinutes(r) /\ OpenBreaks(r)' = OpenBreaks(r)
  <2>1. b \notin BreaksOf(r) /\ BreaksOf(r) \subseteq Breaks
    BY <1>1 DEF BreaksOf
  <2>2. OpenBreaks(r)' = OpenBreaks(r)
    BY <1>2, <1>3, <2>1 DEF OpenBreaks
  <2>3. /\ UnpaidBreaks(r)' = UnpaidBreaks(r)
        /\ \A c \in UnpaidBreaks(r) : breaks'[c] = breaks[c]
    BY <1>2, <1>3, <2>1, <2>2 DEF UnpaidBreaks
  <2>4. QED
    BY <2>2, <2>3, UnpaidStill
<1>6. \E d \in Nat : UnpaidMinutes(s)' = UnpaidMinutes(s) + d /\ d <= t - breaks[b].started_at
  <2>1. b \notin UnpaidBreaks(s) /\ UnpaidBreaks(s) \subseteq Breaks
    BY <1>1 DEF UnpaidBreaks, BreaksOf
  <2>2. \A c \in UnpaidBreaks(s) : breaks'[c] = breaks[c]
    BY <1>2, <2>1
  <2>3. CASE breaks[b].type = "unpaid"
    <3>1. UnpaidBreaks(s)' = UnpaidBreaks(s) \cup {b}
      BY <1>1, <1>2, <1>3, <1>4, <2>3 DEF UnpaidBreaks, BreaksOf
    <3>2. PICK d \in Nat : d = t - breaks[b].started_at
      BY <1>2
    <3>3. Duration(b)' = d
      BY <1>2, <3>2, MaxWithZero DEF Duration
    <3>4. QED
      BY <2>1, <2>2, <3>1, <3>2, <3>3, UnpaidOneMore
  <2>4. CASE breaks[b].type # "unpaid"
    <3>1. UnpaidBreaks(s)' = UnpaidBreaks(s)
      BY <1>1, <1>2, <1>3, <1>4, <2>4 DEF UnpaidBreaks, BreaksOf
    <3>2. UnpaidMinutes(s)' = UnpaidMinutes(s) + 0 /\ 0 <= t - breaks[b].started_at
      BY <1>2, <2>2, <3>1, UnpaidStill, UnpaidIsNat
    <3>3. QED
      BY <3>2
  <2>5. QED
    BY <2>3, <2>4
<1>7. QED
  BY <1>2, <1>4, <1>5, <1>6

(* The regular minutes are part of the worked ones.                        *)
LEMMA RegularIsPart ==
  ASSUME HourTypes, NEW s, NEW total \in Nat
  PROVE  RegularMinutes(s, total) \in Nat /\ RegularMinutes(s, total) <= total
<1>1. ASSUME NEW S \in SUBSET Sessions PROVE RegularOf(S) \in Nat
  <2> DEFINE f == [r \in Sessions |-> Regular(r)]
  <2>1. IsFiniteSet(S) /\ \A r \in S : f[r] \in Nat
    BY IdsAssumption, FS_Subset DEF HourTypes, MinuteRows, Regular
  <2>2. SumFunctionOnSet(f, S) \in Nat
    <3> HIDE DEF f
    <3>1. QED
      BY <2>1, SumIsNat
  <2>3. QED
    BY <2>2 DEF RegularOf
<1>2. PriorToday(s) \in Nat /\ PriorThisWeek(s) \in Nat
  BY <1>1 DEF PriorToday, PriorThisWeek, PriorCompleted
<1>3. PICK a \in Nat, b \in Nat : /\ a = Max({0, Settings.daily_threshold - PriorToday(s)})
                                  /\ b = Max({0, Settings.weekly_threshold - PriorThisWeek(s)})
  <2>1. PICK x \in Int, y \in Int : x = Settings.daily_threshold - PriorToday(s)
                                    /\ y = Settings.weekly_threshold - PriorThisWeek(s)
    BY <1>2, InputsAssumption
  <2>2. QED
    BY <2>1, MaxWithZero
<1>4. RegularMinutes(s, total) = IF Settings.overtime_enabled THEN Min({total, a, b}) ELSE total
  BY <1>3 DEF RegularMinutes
<1>5. Min({total, a, b}) \in Nat /\ Min({total, a, b}) <= total
  BY MinOfThree
<1>6. QED
  BY <1>4, <1>5

-----------------------------------------------------------------------------
(* Every step keeps the hours *)

(* The slots that a step of one handler does not move are idle.            *)
LEMMA OthersFree ==
  ASSUME ControlTypeOK, Alone, NEW w \in Workers, pc[w] # "idle", OnlyMoves(w)
  PROVE  \A v \in Workers \ {w} : SlotHours(v)'
<1>1. \A v \in Workers \ {w} : pc'[v] = "idle"
  BY DEF Alone, OnlyMoves
<1>2. QED
  BY <1>1, SlotFree DEF HasSid

(* Steps over tables that stay, of a slot that ends where no hours matter. *)
LEMMA HoursFree ==
  ASSUME ControlTypeOK, ControlTypeOK', HoursInv, HourTypes', Alone, TablesStill,
         NEW w \in Workers, pc[w] # "idle", OnlyMoves(w),
         pc'[w] \notin (HasSid \ Telling) \cup {"ci_claim", "ci_create"}
  PROVE  HoursInv'
<1>1. \A s \in Sessions : SessionHours(s)' /\ Accounted(s)'
  BY SessionsStill
<1>2. \A v \in Workers : SlotHours(v)'
  BY OthersFree, SlotFree
<1>3. QED
  BY <1>1, <1>2 DEF HoursInv

(* The computed minutes keep their type when a slot ends or goes on.       *)
LEMMA CalcFinish ==
  ASSUME HourTypes, NEW w \in Workers,
         End(w) \/ (\E label, l : Goto(w, label, l)) \/ (\E label, rest : NextShift(w, label, rest)),
         UNCHANGED <<minutes, hourLogs>>
  PROVE  HourTypes'
<1>1. calc' = calc \/ End(w)
  BY DEF Goto, NextShift, Finish
<1>2. CASE calc' = calc
  BY <1>2 DEF HourTypes
<1>3. CASE End(w)
  <2>1. NoCalc \in [unpaid : Nat, mins : MinuteRows]
    BY DEF NoCalc, NoMinutes, MinuteRows
  <2>2. calc' \in [Workers -> [unpaid : Nat, mins : MinuteRows]]
    BY <1>3, <2>1 DEF End, HourTypes
  <2>3. QED
    BY <2>2 DEF HourTypes
<1>4. QED
  BY <1>1, <1>2, <1>3

(* The tables stand still where nothing writes them.                       *)
LEMMA NothingMoves ==
  ASSUME ControlTypeOK, UNCHANGED <<now, sessions, minutes, breaks, hourLogs>>
  PROVE  TablesStill
BY DEF TablesStill, SameSession, ControlTypeOK

(* Clocking in.                                                            *)
LEMMA HoursClockIn ==
  ASSUME ControlTypeOK, ControlTypeOK', HoursInv, BreakInv, Alone, NEW w \in Workers,
         ClockInMatch(w) \/ ClockInClaim(w) \/ ClockInCreate(w)
  PROVE  HoursInv'
<1>m. OnlyMoves(w) /\ pc[w] # "idle"
  BY HandlerMoves DEF HandlerStep
<1>t. HourTypes'
  BY CalcFinish DEF ClockInMatch, ClockInClaim, ClockInCreate, Finish, Database, HoursInv
<1>n. now \in Nat /\ now' = now
  BY DEF ControlTypeOK, ClockInMatch, ClockInClaim, ClockInCreate
<1>1. CASE ClockInMatch(w) \/ ClockInClaim(w)
  <2>1. TablesStill
    BY <1>1, NothingMoves DEF ClockInMatch, ClockInClaim, Database
  <2>2. pc'[w] \in {"idle", "ci_claim", "ci_create"}
    <3>1. CASE ClockInMatch(w)
      <4>1. (\E l : Goto(w, "ci_create", l)) \/ (\E l : Goto(w, "ci_claim", l))
        BY <3>1 DEF ClockInMatch
      <4>2. QED
        BY <4>1, Went
    <3>2. CASE ClockInClaim(w)
      BY <3>2, Went, Finished DEF ClockInClaim
    <3>3. QED
      BY <1>1, <3>1, <3>2
  <2>3. pc'[w] \in {"ci_claim", "ci_create"} => loc'[w].at <= now'
    <3>1. CASE ClockInMatch(w)
      <4>1. loc[w] \in Locals
        BY DEF ControlTypeOK
      <4>2. \E label, l : Goto(w, label, l) /\ l.at = now
        <5>1. [loc[w] EXCEPT !.at = now].at = now
          BY <4>1 DEF Locals
        <5>2. \A h : [loc[w] EXCEPT !.at = now, !.shift = h].at = now
          BY <4>1 DEF Locals
        <5>3. QED
          BY <3>1, <5>1, <5>2 DEF ClockInMatch
      <4>3. QED
        BY <1>n, <4>2, Went
    <3>2. CASE ClockInClaim(w)
      <4>1. pc[w] \in Timed
        BY <3>2 DEF ClockInClaim, Timed
      <4>2. QED
        BY <1>n, <3>2, <4>1, Went, Finished DEF ClockInClaim, HoursInv, SlotHours
    <3>3. QED
      BY <1>1, <3>1, <3>2
  <2>4. SlotHours(w)'
    BY <2>2, <2>3 DEF SlotHours, SlotFor, InClockOut, Computed, Timed
  <2>5. QED
    BY <1>m, <1>t, <2>1, <2>4, SessionsStill, OthersFree DEF HoursInv
<1>2. CASE ClockInCreate(w)
  <2>1. pc'[w] = "idle" /\ breaks' = breaks /\ UNCHANGED <<minutes, hourLogs>>
    BY <1>2, Finished DEF ClockInCreate
  <2>2. \A v \in Workers : SlotHours(v)'
    BY <1>m, <2>1, OthersFree, SlotFree DEF HasSid
  <2>3. \A s \in Sessions : UnpaidMinutes(s)' = UnpaidMinutes(s) /\ OpenBreaks(s)' = OpenBreaks(s)
    BY <2>1, BreaksStill
  <2>4. CASE sessions' = sessions
    <3>1. TablesStill
      BY <1>n, <2>1, <2>4 DEF TablesStill, SameSession
    <3>2. QED
      BY <1>t, <2>2, <3>1, SessionsStill DEF HoursInv
  <2>5. ASSUME NEW s \in Sessions,
               /\ sessions[s].status = "none"
               /\ sessions'[s].status = "active"
               /\ sessions'[s].clock_in_at = loc[w].at
               /\ sessions'[s].posted = FALSE
               /\ \A r \in Sessions \ {s} : sessions'[r] = sessions[r]
        PROVE  HoursInv'
    <3>1. BreaksOf(s) = {} /\ OpenBreaks(s) = {}
      BY <2>5, IdsAssumption DEF BreaksOf, OpenBreaks, BreakInv
    <3>2. UnpaidMinutes(s)' = 0
      BY <2>3, <3>1, NoBreaksNoMinutes
    <3>3. loc[w].at \in Nat /\ loc[w].at <= now
      BY <1>2 DEF ClockInCreate, ControlTypeOK, Locals, HoursInv, SlotHours, Timed
    <3>4. hourLogs[s] = <<>>
      BY <2>5 DEF HoursInv, SessionHours
    <3>5. SessionHours(s)' /\ Accounted(s)'
      BY <1>n, <2>1, <2>3, <2>5, <3>1, <3>2, <3>3, <3>4 DEF SessionHours, Accounted, Earliest, IsOpen
    <3>6. ASSUME NEW r \in Sessions \ {s} PROVE SessionHours(r)' /\ Accounted(r)'
      BY <1>n, <2>1, <2>3, <2>5, SessionStill DEF HoursInv, SameSession
    <3>7. QED
      BY <1>t, <2>2, <3>5, <3>6 DEF HoursInv
  <2>6. QED
    BY <1>2, <2>4, <2>5, Created
<1>3. QED
  BY <1>1, <1>2

(* Reading for clockOut: the breaks that have ended lie before now.        *)
LEMMA HoursRead ==
  ASSUME Serial, ControlTypeOK, ControlTypeOK', HoursInv, BreakInv, NEW w \in Workers,
         \/ \E e \in Employees : ClockOutRead(w, e)
         \/ \E s \in Sessions : EndBreakRead(w, s)
  PROVE  HoursInv'
<1>1. TablesStill /\ HourTypes' /\ now' = now
  <2>1. UNCHANGED <<now, sessions, minutes, breaks, hourLogs, calc>>
    BY DEF ClockOutRead, EndBreakRead, Goto, Database
  <2>2. QED
    BY <2>1, NothingMoves DEF HoursInv, HourTypes
<1>2. \A v \in Workers : pc[v] = "idle"
  BY DEF ClockOutRead, EndBreakRead, Begin
<1>3. \E s \in Sessions, label \in {"co_find", "co_sum", "eb_commit"} : \E l :
        /\ Goto(w, label, l) /\ l.sid = s /\ l.at = now
        /\ label # "eb_commit" => IsOpen(s)
        /\ OpenBreaks(s) # {} \/ IsOpen(s)
  <2>1. ASSUME NEW e \in Employees, NEW s \in OpenSessions(e), NEW label \in {"co_find", "co_sum"},
               Goto(w, label, [NoLocals EXCEPT !.emp = e, !.sid = s, !.shift = sessions[s].shift, !.at = now])
        PROVE  \E l : Goto(w, label, l) /\ l.sid = s /\ l.at = now /\ IsOpen(s) /\ s \in Sessions
    <3>1. PICK l : l = [NoLocals EXCEPT !.emp = e, !.sid = s, !.shift = sessions[s].shift, !.at = now]
      OBVIOUS
    <3>2. l.sid = s /\ l.at = now
      BY <3>1 DEF NoLocals
    <3>3. QED
      BY <2>1, <3>1, <3>2 DEF OpenSessions
  <2>2. ASSUME NEW s \in Sessions, NEW b \in OpenBreaks(s),
               Goto(w, "eb_commit", [NoLocals EXCEPT !.sid = s, !.bid = b, !.at = now])
        PROVE  \E l : Goto(w, "eb_commit", l) /\ l.sid = s /\ l.at = now
    <3>1. PICK l : l = [NoLocals EXCEPT !.sid = s, !.bid = b, !.at = now]
      OBVIOUS
    <3>2. l.sid = s /\ l.at = now
      BY <3>1 DEF NoLocals
    <3>3. QED
      BY <2>2, <3>1, <3>2
  <2>3. CASE \E s \in Sessions : EndBreakRead(w, s)
    BY <2>2, <2>3 DEF EndBreakRead
  <2>4. CASE \E e \in Employees : ClockOutRead(w, e)
    BY <2>1, <2>4 DEF ClockOutRead, OpenSessions
  <2>5. QED
    BY <2>3, <2>4
<1>4. PICK s \in Sessions, label \in {"co_find", "co_sum", "eb_commit"} :
        /\ OnlyMoves(w) /\ pc'[w] = label /\ loc'[w].sid = s /\ loc'[w].at = now
        /\ label # "eb_commit" => IsOpen(s)
        /\ OpenBreaks(s) # {} \/ IsOpen(s)
  BY <1>3, Went
<1>5. SessionHours(s) /\ UnpaidMinutes(s)' = UnpaidMinutes(s) /\ OpenBreaks(s)' = OpenBreaks(s)
  BY <1>1, BreaksStill DEF HoursInv, TablesStill
<1>6. Earliest(s)' = Earliest(s) /\ IsOpen(s)' = IsOpen(s) /\ breaks' = breaks
  BY <1>1, <1>5 DEF TablesStill, Earliest, IsOpen, SameSession
<1>7. /\ \A b \in OpenBreaks(s)' : breaks'[b].started_at <= loc'[w].at
      /\ OpenBreaks(s)' = {} => Earliest(s)' <= loc'[w].at
  BY <1>4, <1>5, <1>6 DEF SessionHours
<1>8. SlotHours(w)'
  <2>1. now \in Nat
    BY DEF ControlTypeOK
  <2>2. SlotFor(w, s)'
    BY <1>4, <1>6, <1>7 DEF SlotFor, InClockOut, Computed
  <2>3. QED
    BY <1>1, <1>4, <2>1, <2>2 DEF SlotHours
<1>9. \A v \in Workers \ {w} : SlotHours(v)'
  BY <1>2, <1>4, SlotFree DEF OnlyMoves, HasSid
<1>10. QED
  BY <1>1, <1>8, <1>9, SessionsStill DEF HoursInv

(* A slot that goes from one step of a handler to the next over the same   *)
(* tables, with the same session and time.                                 *)
LEMMA SlotOn ==
  ASSUME ControlTypeOK, ControlTypeOK', HoursInv, Alone, TablesStill, HourTypes', now' = now,
         NEW w \in Workers, pc[w] # "idle", OnlyMoves(w),
         loc'[w].at = loc[w].at, loc'[w].sid = loc[w].sid, pc[w] \in Timed,
         \A s \in Sessions : s = loc[w].sid => SlotFor(w, s)'
  PROVE  HoursInv'
<1>1. SlotHours(w)'
  BY DEF HoursInv, SlotHours
<1>2. QED
  BY <1>1, OthersFree, SessionsStill DEF HoursInv

(* The steps of clockOut before it completes the session.                  *)
LEMMA HoursClockOut ==
  ASSUME ControlTypeOK, ControlTypeOK', HoursInv, BreakInv, SerialInv, NEW w \in Workers,
         \/ ClockOutFindBreak(w) \/ ClockOutSumBreaks(w) \/ ClockOutOvertime(w) \/ ClockOutShift(w)
         \/ DbError(w) /\ pc[w] = "co_shift"
  PROVE  HoursInv'
<1>m. OnlyMoves(w) /\ pc[w] # "idle" /\ (pc'[w] \in HasSid => loc'[w].sid = loc[w].sid)
  BY HandlerMoves DEF HandlerStep
<1>p. pc[w] \in InClockOut
  BY DEF ClockOutFindBreak, ClockOutSumBreaks, ClockOutOvertime, ClockOutShift, InClockOut
<1>s. PICK s \in Sessions : s = loc[w].sid
  BY <1>p DEF ControlTypeOK, LocalsSet, HasSid, Locals, InClockOut
<1>t. TablesStill /\ UNCHANGED <<now, sessions, breaks, minutes, hourLogs>>
  BY NothingMoves DEF ClockOutFindBreak, ClockOutSumBreaks, ClockOutOvertime, ClockOutShift, DbError, Database
<1>r. SlotFor(w, s) /\ SessionHours(s)
  BY <1>s DEF HoursInv, SlotHours
<1>e. /\ Earliest(s)' = Earliest(s) /\ IsOpen(s)' = IsOpen(s)
      /\ UnpaidMinutes(s)' = UnpaidMinutes(s) /\ OpenBreaks(s)' = OpenBreaks(s)
  BY <1>t, BreaksStill DEF Earliest, IsOpen
<1>i. IsOpen(s) /\ \A b \in OpenBreaks(s) : breaks[b].started_at <= loc[w].at
  BY <1>p, <1>r DEF SlotFor
<1>f. OpenBreaks(s) = {} => Earliest(s) <= loc[w].at
  BY <1>p, <1>r DEF SlotFor
<1>c. ASSUME HourTypes', pc'[w] \in InClockOut, loc'[w].at = loc[w].at, SlotFor(w, s)'
      PROVE  HoursInv'
  BY <1>c, <1>m, <1>p, <1>s, <1>t, SlotOn DEF SerialInv, Timed, InClockOut, HasSid
<1>1. CASE ClockOutFindBreak(w)
  <2>1. HourTypes'
    BY <1>1, <1>t, CalcFinish DEF ClockOutFindBreak, HoursInv
  <2>2. \/ /\ pc'[w] = "co_sum" /\ loc'[w] = loc[w]
        \/ \E b \in OpenBreaks(s) : pc'[w] = "co_end" /\ loc'[w].bid = b /\ loc'[w].at = loc[w].at
    <3>1. CASE Goto(w, "co_sum", loc[w])
      BY <3>1, Went
    <3>2. ASSUME NEW b \in OpenBreaks(s), Goto(w, "co_end", [loc[w] EXCEPT !.bid = b])
          PROVE  pc'[w] = "co_end" /\ loc'[w].bid = b /\ loc'[w].at = loc[w].at
      <4>1. [loc[w] EXCEPT !.bid = b].bid = b /\ [loc[w] EXCEPT !.bid = b].at = loc[w].at
        BY DEF ControlTypeOK, Locals
      <4>2. QED
        BY <3>2, <4>1, Went
    <3>3. QED
      BY <1>1, <1>s, <3>1, <3>2 DEF ClockOutFindBreak
  <2>3. SlotFor(w, s)'
    BY <1>e, <1>f, <1>i, <1>t, <2>2 DEF SlotFor, InClockOut, Computed
  <2>4. QED
    BY <1>c, <2>1, <2>2, <2>3 DEF InClockOut
<1>2. CASE ClockOutSumBreaks(w)
  <2>1. /\ pc'[w] = "co_overtime" /\ loc' = loc /\ calc'[w].unpaid = UnpaidMinutes(s)
        /\ HourTypes'
    <3>1. PICK u \in Nat : u = UnpaidMinutes(s)
      BY UnpaidIsNat
    <3>2. calc' = [calc EXCEPT ![w].unpaid = u]
      BY <1>2, <1>s, <3>1 DEF ClockOutSumBreaks
    <3>3. calc \in [Workers -> [unpaid : Nat, mins : MinuteRows]]
      BY DEF HoursInv, HourTypes
    <3>4. calc' \in [Workers -> [unpaid : Nat, mins : MinuteRows]] /\ calc'[w].unpaid = u
      BY <3>2, <3>3
    <3>5. QED
      BY <1>2, <1>t, <3>1, <3>4 DEF ClockOutSumBreaks, HoursInv, HourTypes, ControlTypeOK
  <2>2. SlotFor(w, s)'
    BY <1>e, <1>f, <1>i, <1>t, <2>1 DEF SlotFor, InClockOut, Computed
  <2>3. QED
    BY <1>c, <2>1, <2>2 DEF InClockOut
<1>3. CASE ClockOutOvertime(w)
  <2>1. OpenBreaks(s) = {} /\ Earliest(s) <= loc[w].at /\ calc[w].unpaid = UnpaidMinutes(s)
    BY <1>3, <1>f, <1>r, <1>s DEF SerialInv, Summing, SlotFor, Computed, ClockOutOvertime
  <2>2. PICK total : total = Max({0, (loc[w].at - sessions[s].clock_in_at) - calc[w].unpaid})
    OBVIOUS
  <2>3. total \in Nat /\ total + UnpaidMinutes(s) = loc[w].at - sessions[s].clock_in_at
    <3>1. /\ loc[w].at \in Nat /\ sessions[s].clock_in_at \in Nat /\ UnpaidMinutes(s) \in Nat
      BY <1>i, <1>r, UnpaidIsNat DEF ControlTypeOK, Locals, SessionHours, IsOpen
    <3>2. PICK x \in Nat : x = (loc[w].at - sessions[s].clock_in_at) - calc[w].unpaid
      BY <2>1, <3>1 DEF Earliest
    <3>3. total = x
      BY <2>2, <3>2, MaxWithZero
    <3>4. QED
      BY <2>1, <3>1, <3>2, <3>3
  <2>4. PICK m : m = [total |-> total, regular |-> RegularMinutes(s, total)]
    OBVIOUS
  <2>5. m \in MinuteRows /\ m.total = total /\ m.regular = RegularMinutes(s, total)
    BY <2>3, <2>4, RegularIsPart DEF MinuteRows, HoursInv
  <2>6. calc' = [calc EXCEPT ![w].mins = m]
    BY <1>3, <1>s, <2>2, <2>4 DEF ClockOutOvertime
  <2>7. /\ calc' \in [Workers -> [unpaid : Nat, mins : MinuteRows]]
        /\ calc'[w].mins = m /\ calc'[w].unpaid = calc[w].unpaid
    BY <2>5, <2>6 DEF HoursInv, HourTypes
  <2>8. HourTypes'
    BY <1>t, <2>7 DEF HoursInv, HourTypes
  <2>9. pc'[w] \in {"co_shift", "co_complete"} /\ loc' = loc
    BY <1>3 DEF ClockOutOvertime, ControlTypeOK
  <2>10. RegularMinutes(s, total)' = RegularMinutes(s, total)
    BY <1>t, RegularStill
  <2>11. SlotFor(w, s)'
    BY <1>e, <1>i, <1>t, <2>1, <2>3, <2>5, <2>7, <2>9, <2>10 DEF SlotFor, InClockOut, Computed
  <2>12. QED
    BY <1>c, <2>8, <2>9, <2>11 DEF InClockOut
<1>4. CASE ClockOutShift(w) \/ (DbError(w) /\ pc[w] = "co_shift")
  <2>1. Goto(w, "co_complete", loc[w]) /\ pc[w] = "co_shift"
    BY <1>4, DbErrorGoes DEF ClockOutShift, Posting, Telling
  <2>2. pc'[w] = "co_complete" /\ loc'[w] = loc[w] /\ calc' = calc
    BY <2>1, Went DEF Goto
  <2>3. HourTypes'
    BY <1>t, <2>2 DEF HoursInv, HourTypes
  <2>4. \A m \in MinuteRows : RegularMinutes(s, m.total)' = RegularMinutes(s, m.total)
    BY <1>t, RegularStill
  <2>5. SlotFor(w, s)'
    BY <1>e, <1>f, <1>i, <1>r, <1>t, <2>1, <2>2, <2>4 DEF SlotFor, InClockOut, Computed
  <2>6. QED
    BY <1>c, <2>2, <2>3, <2>5 DEF InClockOut
<1>5. QED
  BY <1>1, <1>2, <1>3, <1>4

(* A break that ends, in clockOut or in endBreak.                          *)
LEMMA HoursEndBreak ==
  ASSUME ControlTypeOK, ControlTypeOK', HoursInv, BreakInv, SerialInv, NEW w \in Workers,
         ClockOutEndBreak(w) \/ EndBreakCommit(w)
  PROVE  HoursInv'
<1>m. OnlyMoves(w) /\ pc[w] # "idle"
  BY HandlerMoves DEF HandlerStep
<1>s. PICK s \in Sessions, b \in Breaks, t \in Nat : s = loc[w].sid /\ b = loc[w].bid /\ t = loc[w].at
  BY DEF ControlTypeOK, LocalsSet, HasSid, HasBid, Locals, ClockOutEndBreak, EndBreakCommit
<1>t. HourTypes' /\ UNCHANGED <<now, minutes, hourLogs>>
  BY CalcFinish DEF ClockOutEndBreak, EndBreakCommit, Finish, HoursInv
<1>r. SlotFor(w, s) /\ SessionHours(s) /\ Accounted(s) /\ loc[w].at <= now
  BY <1>s DEF HoursInv, SlotHours, Timed, InClockOut, ClockOutEndBreak, EndBreakCommit
<1>n. now \in Nat /\ now' = now
  BY <1>t DEF ControlTypeOK
<1>1. CASE breaks' = breaks /\ sessions' = sessions /\ pc[w] = "eb_commit"
  <2>1. TablesStill /\ pc'[w] = "idle"
    BY <1>1, <1>t, NothingMoves, Finished DEF EndBreakCommit, ClockOutEndBreak
  <2>2. QED
    BY <1>m, <1>t, <2>1, HoursFree DEF SerialInv, HasSid
<1>2. CASE /\ b \in OpenBreaks(s) /\ breaks' = [breaks EXCEPT ![b].ended_at = t]
           /\ \A r \in Sessions \ {s} : SameSession(r)
           /\ sessions'[s].clock_in_at = sessions[s].clock_in_at
           /\ sessions'[s].posted = sessions[s].posted
           /\ sessions'[s].status \in {"active", "on_break"}
           /\ \/ pc'[w] = "idle"
              \/ /\ pc[w] = "co_end" /\ pc'[w] = "co_sum" /\ loc'[w] = loc[w]
                 /\ sessions'[s].status = sessions[s].status
  <2>1. breaks[b].started_at <= t /\ Earliest(s) <= breaks[b].started_at
    BY <1>2, <1>r, <1>s DEF SlotFor, SessionHours, InClockOut, ClockOutEndBreak, EndBreakCommit
  <2>2. /\ OpenBreaks(s)' = {}
        /\ \E d \in Nat : UnpaidMinutes(s)' = UnpaidMinutes(s) + d /\ d <= t - breaks[b].started_at
        /\ \A r \in Sessions \ {s} : UnpaidMinutes(r)' = UnpaidMinutes(r) /\ OpenBreaks(r)' = OpenBreaks(r)
        /\ \A c \in Breaks \ {b} : breaks'[c] = breaks[c]
    BY <1>2, <2>1, BreakEnds
  <2>3. sessions[s].status = "on_break"
    BY <1>2 DEF SerialInv, CompletedIsFinal
  <2>4. Earliest(s)' <= t /\ sessions[s].clock_in_at \in Nat
    <3>1. /\ breaks[b].started_at \in Nat /\ sessions[s].clock_in_at \in Nat /\ UnpaidMinutes(s) \in Nat
      BY <1>r, <2>3, UnpaidIsNat DEF ControlTypeOK, BreakRows, SessionHours
    <3>2. QED
      BY <1>2, <2>1, <2>2, <3>1 DEF Earliest
  <2>5. SessionHours(s)' /\ Accounted(s)'
    <3>1. Earliest(s)' <= now
      <4>1. UnpaidMinutes(s)' \in Nat
        BY <2>2, UnpaidIsNat
      <4>2. Earliest(s)' \in Nat
        BY <1>2, <2>4, <4>1 DEF Earliest
      <4>3. QED
        BY <1>n, <1>r, <1>s, <2>4, <4>2
    <3>2. hourLogs[s] = <<>> /\ ~sessions[s].posted
      BY <1>r, <2>3 DEF SessionHours
    <3>3. QED
      BY <1>2, <1>n, <1>t, <2>2, <2>4, <3>1, <3>2 DEF SessionHours, Accounted
  <2>6. ASSUME NEW r \in Sessions \ {s} PROVE SessionHours(r)' /\ Accounted(r)'
    <3>1. b \notin OpenBreaks(r)
      BY <1>2 DEF OpenBreaks, BreaksOf
    <3>2. \A c \in OpenBreaks(r)' : breaks'[c] = breaks[c]
      BY <2>2, <3>1 DEF OpenBreaks, BreaksOf
    <3>3. QED
      BY <1>2, <1>n, <1>t, <2>2, <3>2, SessionStill DEF HoursInv
  <2>7. SlotHours(w)'
    <3>1. CASE pc'[w] = "idle"
      BY <3>1, SlotFree DEF HasSid
    <3>2. CASE /\ pc[w] = "co_end" /\ pc'[w] = "co_sum" /\ loc'[w] = loc[w]
               /\ sessions'[s].status = sessions[s].status
      <4>1. SlotFor(w, s)'
        BY <1>2, <1>s, <2>2, <2>4, <3>2 DEF SlotFor, InClockOut, Computed, IsOpen
      <4>2. QED
        BY <1>n, <1>r, <1>s, <3>2, <4>1 DEF SlotHours
    <3>3. QED
      BY <1>2, <3>1, <3>2
  <2>8. QED
    BY <1>m, <1>t, <2>5, <2>6, <2>7, OthersFree DEF HoursInv, SerialInv
<1>3. CASE ClockOutEndBreak(w)
  <2>1. sessions' = sessions /\ pc[w] = "co_end" /\ Goto(w, "co_sum", loc[w])
        /\ breaks' = [breaks EXCEPT ![b].ended_at = t]
    BY <1>3, <1>s DEF ClockOutEndBreak
  <2>2. pc'[w] = "co_sum" /\ loc'[w] = loc[w] /\ b \in OpenBreaks(s) /\ IsOpen(s)
    BY <1>r, <1>s, <2>1, Went DEF SlotFor, InClockOut
  <2>3. QED
    BY <1>2, <2>1, <2>2 DEF SameSession, IsOpen
<1>4. CASE EndBreakCommit(w)
  <2>1. pc'[w] = "idle" /\ pc[w] = "eb_commit"
    BY <1>4, Finished DEF EndBreakCommit
  <2>2. /\ \A r \in Sessions : /\ sessions'[r].emp = sessions[r].emp
                               /\ sessions'[r].posted = sessions[r].posted
                               /\ sessions'[r].clock_out_at = sessions[r].clock_out_at
                               /\ sessions'[r].clock_in_at = sessions[r].clock_in_at
                               /\ sessions'[r].status # sessions[r].status =>
                                    r = s /\ sessions'[r].status = "active"
        /\ \/ breaks' = breaks /\ sessions' = sessions
           \/ /\ sessions'[s].status = "active" /\ breaks[b].ended_at = Null
              /\ breaks' = [breaks EXCEPT ![b].ended_at = t]
    BY <1>4, <1>s, Resumed
  <2>3. breaks[b].session = s
    BY <1>s, <2>1 DEF BreakInv
  <2>4. CASE breaks' = breaks /\ sessions' = sessions
    BY <1>1, <2>1, <2>4
  <2>5. CASE /\ sessions'[s].status = "active" /\ breaks[b].ended_at = Null
             /\ breaks' = [breaks EXCEPT ![b].ended_at = t]
    <3>1. b \in OpenBreaks(s) /\ \A r \in Sessions \ {s} : SameSession(r)
      BY <2>2, <2>3, <2>5 DEF OpenBreaks, BreaksOf, SameSession
    <3>2. QED
      BY <1>2, <2>1, <2>2, <2>5, <3>1
  <2>6. QED
    BY <2>2, <2>4, <2>5
<1>5. QED
  BY <1>3, <1>4

(* Completing the session, and posting its hours.                          *)
LEMMA HoursComplete ==
  ASSUME ControlTypeOK, ControlTypeOK', HoursInv, SerialInv, NEW w \in Workers, ClockOutComplete(w)
  PROVE  HoursInv'
<1>m. OnlyMoves(w) /\ pc[w] = "co_complete"
  BY HandlerMoves DEF HandlerStep, LaborAdmins, LaborNotify, ClockOutComplete
<1>s. PICK s \in Sessions, t \in Nat : s = loc[w].sid /\ t = loc[w].at
  BY <1>m DEF ControlTypeOK, LocalsSet, HasSid, Locals
<1>r. /\ SlotFor(w, s) /\ SessionHours(s)
      /\ calc[w].mins \in MinuteRows
  BY <1>s DEF HoursInv, SlotHours, HourTypes
<1>c. PICK m \in MinuteRows : m = calc[w].mins
  BY <1>r
<1>1. /\ IsOpen(s) /\ hourLogs[s] = <<>> /\ ~sessions[s].posted /\ sessions[s].clock_in_at \in Nat
      /\ m.total + UnpaidMinutes(s) = t - sessions[s].clock_in_at
      /\ OpenBreaks(s) = {}
  BY <1>c, <1>m, <1>r, <1>s DEF SlotFor, SessionHours, InClockOut, Computed, IsOpen, SerialInv, Summing
<1>2. /\ sessions'[s].status = "completed" /\ sessions'[s].clock_in_at = sessions[s].clock_in_at
      /\ sessions'[s].clock_out_at = t /\ sessions'[s].posted = sessions[s].posted
      /\ \A r \in Sessions \ {s} : sessions'[r] = sessions[r]
      /\ IF NeedsLabor(s) THEN Goto(w, "lc_create", loc[w]) ELSE Finish(w)
  BY <1>s, Completed
<1>3. /\ minutes' = [minutes EXCEPT ![s] = m] /\ hourLogs' = hourLogs
      /\ breaks' = breaks /\ now' = now
  BY <1>c, <1>s DEF ClockOutComplete
<1>4. minutes' \in [Sessions -> MinuteRows] /\ minutes'[s] = m /\ \A r \in Sessions \ {s} : minutes'[r] = minutes[r]
  BY <1>3 DEF HoursInv, HourTypes
<1>5. HourTypes'
  <2>1. calc' \in [Workers -> [unpaid : Nat, mins : MinuteRows]]
    <3>1. CASE calc' = calc
      BY <3>1 DEF HoursInv, HourTypes
    <3>2. CASE calc' = [calc EXCEPT ![w] = NoCalc]
      BY <3>2 DEF HoursInv, HourTypes, NoCalc, NoMinutes, MinuteRows
    <3>3. QED
      BY <1>2, <3>1, <3>2 DEF Goto, Finish, End
  <2>2. QED
    BY <1>3, <1>4, <2>1 DEF HoursInv, HourTypes
<1>6. \A r \in Sessions : UnpaidMinutes(r)' = UnpaidMinutes(r) /\ OpenBreaks(r)' = OpenBreaks(r)
  BY <1>3, BreaksStill
<1>7. SessionHours(s)' /\ Accounted(s)'
  BY <1>1, <1>2, <1>3, <1>4, <1>6 DEF SessionHours, Accounted, IsOpen
<1>8. ASSUME NEW r \in Sessions \ {s} PROVE SessionHours(r)' /\ Accounted(r)'
  <2>1. now' >= now
    BY <1>3 DEF ControlTypeOK
  <2>2. QED
    BY <1>2, <1>3, <1>4, <1>6, <2>1, SessionStill DEF HoursInv, SameSession
<1>9. SlotHours(w)'
  <2>1. CASE Finish(w)
    BY <2>1, Finished, SlotFree DEF HasSid
  <2>2. CASE Goto(w, "lc_create", loc[w])
    <3>1. pc'[w] = "lc_create" /\ loc'[w] = loc[w] /\ calc' = calc
      BY <2>2, Went DEF Goto
    <3>2. SlotFor(w, s)'
      BY <1>1, <1>2, <1>3, <1>4, <1>c, <3>1 DEF SlotFor, InClockOut, Computed
    <3>3. QED
      BY <1>s, <3>1, <3>2 DEF SlotHours, Timed, InClockOut
  <2>3. QED
    BY <1>2, <2>1, <2>2
<1>10. QED
  BY <1>5, <1>7, <1>8, <1>9, <1>m, OthersFree DEF HoursInv, SerialInv

(* Posting labour keeps the hours: the entry has the minutes of the        *)
(* session.                                                                *)
LEMMA HoursLabor ==
  ASSUME ControlTypeOK, ControlTypeOK', HoursInv, SerialInv, NEW w \in Workers,
         LaborCreate(w) \/ LaborMark(w)
  PROVE  HoursInv'
<1>m. OnlyMoves(w) /\ pc[w] \in {"lc_create", "lc_mark"}
  BY HandlerMoves DEF HandlerStep, LaborAdmins, LaborNotify, LaborCreate, LaborMark
<1>s. PICK s \in Sessions : s = loc[w].sid
  BY <1>m DEF ControlTypeOK, LocalsSet, HasSid, Locals
<1>r. /\ SlotFor(w, s) /\ SessionHours(s) /\ Accounted(s)
      /\ calc[w].mins \in MinuteRows
  BY <1>s DEF HoursInv, SlotHours, HourTypes
<1>c. PICK m \in MinuteRows : m = calc[w].mins
  BY <1>r
<1>t. UNCHANGED <<now, breaks, minutes>> /\ now' >= now
  BY DEF LaborCreate, LaborMark, ControlTypeOK
<1>u. \A r \in Sessions : UnpaidMinutes(r)' = UnpaidMinutes(r) /\ OpenBreaks(r)' = OpenBreaks(r)
  BY <1>t, BreaksStill
<1>1. CASE LaborCreate(w)
  <2>1. /\ sessions[s].status = "completed" /\ hourLogs[s] = <<>> /\ ~sessions[s].posted /\ m = minutes[s]
    BY <1>1, <1>c, <1>r DEF SlotFor, LaborCreate
  <2>h. HoursOf(m) \in LogRows
    BY DEF HoursOf, Hundredths, LogRows, MinuteRows
  <2>2. hourLogs' = [hourLogs EXCEPT ![s] = Append(@, HoursOf(m))] /\ sessions' = sessions
    BY <1>1, <1>c, <1>s DEF LaborCreate
  <2>3. hourLogs'[s] = <<HoursOf(m)>> /\ \A r \in Sessions \ {s} : hourLogs'[r] = hourLogs[r]
    BY <2>1, <2>2 DEF HoursInv, HourTypes
  <2>4. pc'[w] = "lc_mark" /\ loc'[w] = loc[w] /\ calc' = calc
    BY <1>1, Went DEF LaborCreate, Goto
  <2>5. HourTypes'
    <3>1. hourLogs' \in [Sessions -> Seq(LogRows)]
      BY <2>2, <2>h DEF HoursInv, HourTypes
    <3>2. QED
      BY <1>t, <2>4, <3>1 DEF HoursInv, HourTypes
  <2>6. SessionHours(s)' /\ Accounted(s)'
    <3>1. Earliest(s)' = Earliest(s)
      BY <1>u, <2>2 DEF Earliest
    <3>2. QED
      BY <1>r, <1>t, <1>u, <2>1, <2>2, <3>1 DEF SessionHours, Accounted, IsOpen
  <2>7. ASSUME NEW r \in Sessions \ {s} PROVE SessionHours(r)' /\ Accounted(r)'
    BY <1>t, <1>u, <2>2, <2>3, SessionStill DEF HoursInv, SameSession
  <2>8. SlotHours(w)'
    <3>1. SlotFor(w, s)'
      BY <1>t, <2>1, <2>2, <2>3, <2>4 DEF SlotFor, InClockOut, Computed
    <3>2. QED
      BY <1>s, <2>4, <3>1 DEF SlotHours, Timed, InClockOut
  <2>9. QED
    BY <1>m, <2>5, <2>6, <2>7, <2>8, OthersFree DEF HoursInv, SerialInv
<1>2. CASE LaborMark(w)
  <2>1. sessions[s].status = "completed" /\ hourLogs[s] = <<HoursOf(minutes[s])>>
    BY <1>2, <1>c, <1>r DEF SlotFor, LaborMark
  <2>2. /\ sessions'[s].posted = TRUE
        /\ sessions'[s].status = sessions[s].status /\ sessions'[s].emp = sessions[s].emp
        /\ sessions'[s].clock_out_at = sessions[s].clock_out_at
        /\ sessions'[s].clock_in_at = sessions[s].clock_in_at
        /\ \A r \in Sessions \ {s} : sessions'[r] = sessions[r]
    BY <1>2, <1>s, Marked
  <2>3. pc'[w] = "idle" /\ hourLogs' = hourLogs
    BY <1>2, Finished DEF LaborMark
  <2>4. HourTypes'
    BY <1>2, CalcFinish DEF LaborMark, Finish, HoursInv
  <2>5. SessionHours(s)' /\ Accounted(s)'
    <3>1. Earliest(s)' = Earliest(s)
      BY <1>u, <2>2 DEF Earliest
    <3>2. QED
      BY <1>r, <1>t, <1>u, <2>1, <2>2, <2>3, <3>1 DEF SessionHours, Accounted, IsOpen
  <2>6. ASSUME NEW r \in Sessions \ {s} PROVE SessionHours(r)' /\ Accounted(r)'
    BY <1>t, <1>u, <2>2, <2>3, SessionStill DEF HoursInv, SameSession
  <2>7. QED
    BY <1>m, <2>3, <2>4, <2>5, <2>6, OthersFree, SlotFree DEF HoursInv, SerialInv, HasSid
<1>3. QED
  BY <1>1, <1>2

(* A break that starts does so after those that have ended.                *)
LEMMA HoursStartBreak ==
  ASSUME Serial, ControlTypeOK, ControlTypeOK', HoursInv, BreakInv,
         NEW s \in Sessions, NEW b \in Breaks, NEW type \in BreakTypes, StartBreak(s, b, type)
  PROVE  HoursInv'
<1>1. /\ \A v \in Workers : pc'[v] = "idle"
      /\ UNCHANGED <<now, minutes, hourLogs, calc>> /\ now' >= now /\ now \in Nat
  BY DEF StartBreak, Slots, ControlTypeOK
<1>2. /\ sessions'[s].status = "on_break" /\ sessions[s].status = "active"
      /\ \A r \in Sessions : /\ r # s => sessions'[r].status = sessions[r].status
                             /\ sessions'[r].emp = sessions[r].emp
                             /\ sessions'[r].posted = sessions[r].posted
                             /\ sessions'[r].clock_out_at = sessions[r].clock_out_at
                             /\ sessions'[r].clock_in_at = sessions[r].clock_in_at
  BY Paused
<1>3. /\ breaks[b].session = Null /\ breaks'[b].session = s /\ breaks'[b].started_at = now
      /\ breaks'[b].ended_at = Null
      /\ \A c \in Breaks \ {b} : breaks'[c] = breaks[c]
  BY DEF StartBreak, ControlTypeOK
<1>4. \A r \in Sessions : r # Null /\ b \notin BreaksOf(r) /\ BreaksOf(r) \subseteq Breaks
  BY <1>3, IdsAssumption DEF BreaksOf
<1>5. ASSUME NEW r \in Sessions
      PROVE  /\ UnpaidMinutes(r)' = UnpaidMinutes(r)
             /\ OpenBreaks(r)' \subseteq OpenBreaks(r) \cup {b}
             /\ r # s => OpenBreaks(r)' = OpenBreaks(r)
             /\ \A c \in OpenBreaks(r) : breaks'[c] = breaks[c]
  <2>1. BreaksOf(r)' = IF r = s THEN BreaksOf(r) \cup {b} ELSE BreaksOf(r)
    BY <1>3, <1>4 DEF BreaksOf
  <2>2. OpenBreaks(r)' = IF r = s THEN OpenBreaks(r) \cup {b} ELSE OpenBreaks(r)
    BY <1>3, <1>4, <2>1 DEF OpenBreaks
  <2>3. UnpaidBreaks(r)' = UnpaidBreaks(r)
    BY <1>3, <1>4, <2>1, <2>2 DEF UnpaidBreaks, OpenBreaks
  <2>4. \A c \in UnpaidBreaks(r) \cup OpenBreaks(r) : breaks'[c] = breaks[c]
    BY <1>3, <1>4 DEF UnpaidBreaks, OpenBreaks
  <2>5. QED
    BY <2>2, <2>3, <2>4, UnpaidStill
<1>6. OpenBreaks(s) = {} /\ SessionHours(s) /\ IsOpen(s) /\ Accounted(s)
  BY <1>2 DEF BreakInv, BreakGate, HoursInv, IsOpen
<1>7. SessionHours(s)' /\ Accounted(s)'
  <2>1. Earliest(s)' = Earliest(s) /\ OpenBreaks(s)' \subseteq {b}
    BY <1>2, <1>5, <1>6 DEF Earliest
  <2>2. QED
    BY <1>1, <1>2, <1>3, <1>6, <2>1 DEF SessionHours, Accounted, IsOpen
<1>8. ASSUME NEW r \in Sessions \ {s} PROVE SessionHours(r)' /\ Accounted(r)'
  BY <1>1, <1>2, <1>5, SessionStill DEF HoursInv, SameSession
<1>9. HourTypes'
  BY <1>1 DEF HoursInv, HourTypes
<1>10. QED
  BY <1>1, <1>7, <1>8, <1>9, SlotFree DEF HoursInv, HasSid

(* What arrives and looks at no hours, and what fails or is cut off.       *)
LEMMA HoursOthers ==
  ASSUME Serial, ControlTypeOK, ControlTypeOK', HoursInv, SerialInv,
         \/ \E w \in Requests, e \in Employees, geo \in GeoInputs, project \in Projects, task \in BOOLEAN :
              ClockInCheck(w, e, geo, project, task)
         \/ \E new \in NewShifts : CreateShifts(new)
         \/ \E h \in Shifts, e \in Employees, t \in ShiftStarts, status \in ShiftStatuses :
              UpdateShift(h, e, t, status)
         \/ \E w \in Requests, h \in Shifts : RemoveShiftRead(w, h)
         \/ \E w \in Jobs : MissedList(w) \/ RemindList(w)
         \/ \E w \in Workers : MissedCheck(w) \/ MissedMark(w) \/ RemindStamp(w) \/ RemindSend(w)
         \/ \E w \in Workers : RemoveShiftDelete(w) \/ LaborAdmins(w) \/ LaborNotify(w)
         \/ \E w \in Workers : DbError(w) /\ pc[w] # "co_shift"
         \/ Crash \/ Tick \/ Wait \/ UNCHANGED vars
  PROVE  HoursInv'
<1>q. /\ {"idle", "ci_match", "rs_delete", "ms_check", "ms_mark", "rm_stamp", "rm_send", "lc_admins",
          "lc_notify"} \cap ((HasSid \ Telling) \cup {"ci_claim", "ci_create"}) = {}
  BY DEF HasSid, Telling
<1>1. ASSUME NEW w \in Workers, pc[w] = "idle", \A v \in Workers : pc[v] = "idle",
             NEW label \in {"ci_match", "rs_delete", "ms_check", "rm_stamp"}, NEW l,
             Goto(w, label, l), UNCHANGED <<now, Database>>
      PROVE  HoursInv'
  <2>1. TablesStill
    BY <1>1, NothingMoves DEF Database
  <2>2. HourTypes'
    BY <1>1, CalcFinish DEF HoursInv, Database
  <2>3. OnlyMoves(w) /\ pc'[w] = label
    BY <1>1, Went
  <2>4. \A v \in Workers : SlotHours(v)'
    BY <1>1, <1>q, <2>3, SlotFree DEF OnlyMoves
  <2>5. QED
    BY <2>1, <2>2, <2>4, SessionsStill DEF HoursInv
<1>2. ASSUME NEW w \in Workers, TablesStill, UNCHANGED <<minutes, hourLogs>>, pc[w] # "idle",
             \/ End(w)
             \/ \E label \in {"ms_check", "ms_mark", "rm_stamp", "rm_send", "lc_admins", "lc_notify"} :
                  (\E l : Goto(w, label, l)) \/ (\E rest : NextShift(w, label, rest))
      PROVE  HoursInv'
  <2>1. OnlyMoves(w) /\ pc'[w] \in {"idle", "ms_check", "ms_mark", "rm_stamp", "rm_send", "lc_admins",
                                    "lc_notify"}
    BY <1>2, Went, WentOn, Ended
  <2>2. HourTypes'
    BY <1>2, CalcFinish DEF HoursInv
  <2>3. QED
    BY <1>2, <1>q, <2>1, <2>2, HoursFree DEF SerialInv
<1>3. CASE \/ \E w \in Requests, e \in Employees, geo \in GeoInputs, project \in Projects, task \in BOOLEAN :
                ClockInCheck(w, e, geo, project, task)
           \/ \E w \in Requests, h \in Shifts : RemoveShiftRead(w, h)
           \/ \E w \in Jobs : MissedList(w) \/ RemindList(w)
  BY <1>1, <1>3 DEF ClockInCheck, RemoveShiftRead, MissedList, RemindList, Begin, Workers
<1>4. CASE \/ \E new \in NewShifts : CreateShifts(new)
           \/ \E h \in Shifts, e \in Employees, t \in ShiftStarts, status \in ShiftStatuses :
                UpdateShift(h, e, t, status)
           \/ Tick \/ Wait \/ UNCHANGED vars
  <2>1. UNCHANGED <<sessions, breaks, minutes, hourLogs, pc, loc, calc>> /\ now' >= now
    <3>1. UNCHANGED <<sessions, breaks, minutes, hourLogs, pc, loc, calc>> /\ now' \in {now, now + 1}
      BY <1>4 DEF CreateShifts, UpdateShift, Tick, Wait, vars, Database, Slots
    <3>2. QED
      BY <3>1 DEF ControlTypeOK
  <2>2. TablesStill /\ HourTypes'
    BY <2>1 DEF TablesStill, SameSession, HoursInv, HourTypes
  <2>3. QED
    BY <2>1, <2>2, SessionsStill, SlotStill DEF HoursInv
<1>5. CASE \E w \in Workers : MissedCheck(w) \/ MissedMark(w) \/ RemindStamp(w) \/ RemindSend(w)
  <2>1. PICK w \in Workers : MissedCheck(w) \/ MissedMark(w) \/ RemindStamp(w) \/ RemindSend(w)
    BY <1>5
  <2>2. /\ UNCHANGED <<now, sessions, minutes, breaks, hourLogs>> /\ pc[w] # "idle"
    BY <2>1 DEF MissedCheck, MissedMark, RemindStamp, RemindSend, Database
  <2>3. \/ End(w)
        \/ \E label \in {"ms_check", "ms_mark", "rm_stamp", "rm_send"} :
             (\E l : Goto(w, label, l)) \/ (\E rest : NextShift(w, label, rest))
    BY <2>1 DEF MissedCheck, MissedMark, RemindStamp, RemindSend, Finish
  <2>4. TablesStill
    BY <2>2, NothingMoves
  <2>5. QED
    BY <1>2, <2>2, <2>3, <2>4
<1>6. CASE \E w \in Workers : RemoveShiftDelete(w) \/ LaborAdmins(w) \/ LaborNotify(w)
  <2>1. PICK w \in Workers : RemoveShiftDelete(w) \/ LaborAdmins(w) \/ LaborNotify(w)
    BY <1>6
  <2>2. CASE RemoveShiftDelete(w)
    <3>1. TablesStill
      BY <2>2, Unlinked DEF RemoveShiftDelete, TablesStill, SameSession, ControlTypeOK
    <3>2. QED
      BY <1>2, <2>2, <3>1 DEF RemoveShiftDelete, Finish
  <2>3. CASE LaborAdmins(w) \/ LaborNotify(w)
    <3>1. UNCHANGED <<now, sessions, minutes, breaks, hourLogs>> /\ pc[w] # "idle"
      BY <2>3 DEF LaborAdmins, LaborNotify, Database
    <3>2. Goto(w, "lc_notify", loc[w]) \/ End(w)
      BY <2>3 DEF LaborAdmins, LaborNotify, Finish
    <3>3. QED
      BY <1>2, <3>1, <3>2, NothingMoves
  <2>4. QED
    BY <2>1, <2>2, <2>3
<1>7. CASE \E w \in Workers : DbError(w) /\ pc[w] # "co_shift"
  <2>1. PICK w \in Workers : DbError(w) /\ pc[w] # "co_shift"
    BY <1>7
  <2>2. UNCHANGED <<now, sessions, minutes, breaks, hourLogs>> /\ pc[w] # "idle"
    BY <2>1 DEF DbError
  <2>3. NextShift(w, "rm_stamp", loc[w].list) \/ Goto(w, "lc_admins", loc[w]) \/ End(w)
    BY <2>1, DbErrorGoes DEF Finish
  <2>4. QED
    BY <1>2, <2>2, <2>3, NothingMoves
<1>8. CASE Crash
  <2>1. /\ UNCHANGED <<now, sessions, minutes, breaks, hourLogs>>
        /\ \A w \in Workers : pc'[w] = "idle"
        /\ calc' = [w \in Workers |-> NoCalc]
    BY <1>8 DEF Crash, Database
  <2>2. HourTypes'
    <3>1. NoCalc \in [unpaid : Nat, mins : MinuteRows]
      BY DEF NoCalc, NoMinutes, MinuteRows
    <3>2. QED
      BY <2>1, <3>1 DEF HoursInv, HourTypes
  <2>3. QED
    BY <1>q, <2>1, <2>2, NothingMoves, SessionsStill, SlotFree DEF HoursInv
<1>9. QED
  BY <1>3, <1>4, <1>5, <1>6, <1>7, <1>8

(* The account of minutes holds at first.                                  *)
LEMMA HoursInit == Init => HoursInv
<1> SUFFICES ASSUME Init PROVE HoursInv
  OBVIOUS
<1>1. HourTypes
  BY DEF Init, HourTypes, NoCalc, NoMinutes, MinuteRows
<1>2. \A s \in Sessions : sessions[s].status = "none" /\ ~sessions[s].posted /\ hourLogs[s] = <<>>
  BY DEF Init, NoSession
<1>3. \A s \in Sessions : OpenBreaks(s) = {}
  BY IdsAssumption DEF Init, NoBreak, OpenBreaks, BreaksOf
<1>4. \A s \in Sessions : SessionHours(s) /\ Accounted(s)
  BY <1>2, <1>3 DEF SessionHours, Accounted, IsOpen
<1>5. \A w \in Workers : pc[w] = "idle"
  BY DEF Init
<1>6. \A w \in Workers : SlotHours(w)
  BY <1>5 DEF SlotHours, SlotFor, Timed, InClockOut, Computed
<1>7. QED
  BY <1>1, <1>4, <1>6 DEF HoursInv

(* Every step keeps it.                                                    *)
LEMMA HoursNext ==
  ASSUME Serial, ControlTypeOK, ControlTypeOK', BreakInv, SerialInv, HoursInv, [Next]_vars
  PROVE  HoursInv'
<1>a. Alone
  BY DEF SerialInv
<1>1. CASE Arrive
  BY <1>1, HoursRead, HoursStartBreak, HoursOthers DEF Arrive, Workers
<1>2. ASSUME NEW w \in Workers, HandlerStep(w) PROVE HoursInv'
  BY <1>a, <1>2, HoursClockIn, HoursClockOut, HoursEndBreak, HoursComplete, HoursLabor, HoursOthers
  DEF HandlerStep
<1>3. ASSUME NEW w \in Workers, DbError(w) PROVE HoursInv'
  BY <1>3, HoursClockOut, HoursOthers
<1>4. CASE Crash \/ Tick \/ Wait \/ UNCHANGED vars
  BY <1>4, HoursOthers
<1>5. QED
  BY <1>1, <1>2, <1>3, <1>4 DEF Next

(* Rounding two parts to a hundredth is off by a third of one each.        *)
LEMMA RoundedOff ==
  ASSUME NEW a \in Int, NEW b \in Int
  PROVE  3 * (Hundredths(a) + Hundredths(b - a)) - 5 * b \in -2..2
<1>1. ASSUME NEW n \in Int
      PROVE  Hundredths(n) \in Int /\ 3 * Hundredths(n) - 5 * n \in -1..1
  BY DEF Hundredths
<1>2. PICK x \in Int, y \in Int : x = Hundredths(a) /\ y = Hundredths(b - a)
  BY <1>1
<1>3. 3 * x - 5 * a \in -1..1 /\ 3 * y - 5 * (b - a) \in -1..1
  BY <1>1, <1>2
<1>4. QED
  BY <1>2, <1>3

(* When handlers do not overlap, whatever fails or is cut off: the worked  *)
(* and the unpaid minutes of a completed session add up to its time, and   *)
(* what is posted is what it worked, once.                                 *)
THEOREM MinutesAddUp ==
  ASSUME Serial
  PROVE  Spec => []MinutesAccounted
<1>1. HoursInv => MinutesAccounted
  <2> SUFFICES ASSUME HoursInv, NEW s \in Sessions
               PROVE  /\ sessions[s].status = "completed" =>
                           minutes[s].total + UnpaidMinutes(s)
                             = sessions[s].clock_out_at - sessions[s].clock_in_at
                      /\ sessions[s].posted =>
                           /\ hourLogs[s] = <<HoursOf(minutes[s])>>
                           /\ 3 * (hourLogs[s][1].regular + hourLogs[s][1].overtime)
                                - 5 * minutes[s].total \in -2..2
    BY DEF MinutesAccounted
  <2>1. Accounted(s) /\ minutes[s] \in MinuteRows
    BY DEF HoursInv, HourTypes
  <2>2. PICK a \in Int, b \in Int : a = minutes[s].regular /\ b = minutes[s].total
    BY <2>1 DEF MinuteRows
  <2>3. 3 * (Hundredths(a) + Hundredths(b - a)) - 5 * b \in -2..2
    BY RoundedOff
  <2>4. HoursOf(minutes[s]).regular = Hundredths(a) /\ HoursOf(minutes[s]).overtime = Hundredths(b - a)
    BY <2>2 DEF HoursOf
  <2>5. ASSUME sessions[s].posted
        PROVE  3 * (hourLogs[s][1].regular + hourLogs[s][1].overtime) - 5 * minutes[s].total \in -2..2
    <3>1. hourLogs[s][1] = HoursOf(minutes[s])
      BY <2>1, <2>5 DEF Accounted
    <3>2. QED
      BY <2>2, <2>3, <2>4, <3>1
  <2>6. QED
    BY <2>1, <2>5 DEF Accounted
<1>2. ControlTypeOK /\ BreakInv /\ SerialInv /\ HoursInv /\ [Next]_vars
        => BreakInv' /\ SerialInv' /\ HoursInv'
  BY TypeNext, GateNext, SerialNext, HoursNext
<1>3. QED
  BY <1>1, <1>2, GateInit, SerialInit, HoursInit, TypeCorrect, PTL DEF Spec

-----------------------------------------------------------------------------
(* The overtime thresholds *)

OnDay(e, d) == {s \in Sessions : /\ sessions[s].status = "completed" /\ sessions[s].emp = e
                                 /\ DayOf(sessions[s].clock_in_at) = d}
InWeek(e, d) == {s \in Sessions : /\ sessions[s].status = "completed" /\ sessions[s].emp = e
                                  /\ WeekOf(sessions[s].clock_in_at) = d}

(* The thresholds bound the regular minutes of every day and every week:   *)
(* a bound on the sessions' own sums does not say what a session that is   *)
(* still open will find.                                                   *)
CapsInv ==
  Settings.overtime_enabled =>
    \A e, d : /\ RegularOf(OnDay(e, d)) <= Settings.daily_threshold
              /\ RegularOf(InWeek(e, d)) <= Settings.weekly_threshold

(* Regular minutes sum up to a natural number; one session more adds its   *)
(* own.                                                                    *)
LEMMA RegularSums ==
  ASSUME HourTypes, NEW S, S \subseteq Sessions
  PROVE  /\ RegularOf(S) \in Nat
         /\ \A s \in S : RegularOf(S) = Regular(s) + RegularOf(S \ {s}) /\ Regular(s) \in Nat
<1> DEFINE f == [r \in Sessions |-> Regular(r)]
<1>1. IsFiniteSet(S) /\ \A r \in S : f[r] \in Nat /\ f[r] = Regular(r)
  BY IdsAssumption, FS_Subset DEF HourTypes, MinuteRows, Regular
<1>2. \A T : RegularOf(T) = SumFunctionOnSet(f, T)
  BY DEF RegularOf
<1> HIDE DEF f
<1>3. QED
  BY <1>1, <1>2, SumIsNat, SumOneOut

(* One more completed session adds its regular minutes to the sum.         *)
LEMMA RegularOneMore ==
  ASSUME HourTypes, NEW s \in Sessions, NEW m \in MinuteRows, minutes' = [minutes EXCEPT ![s] = m],
         NEW S, S \subseteq Sessions \ {s}
  PROVE  /\ RegularOf(S)' = RegularOf(S)
         /\ RegularOf(S \cup {s})' = m.regular + RegularOf(S)
<1> DEFINE f == [r \in Sessions |-> minutes[r].regular]
           g == [r \in Sessions |-> minutes'[r].regular]
<1>1. /\ IsFiniteSet(S) /\ s \notin S
      /\ \A r \in S : f[r] = g[r]
      /\ \A r \in S \cup {s} : g[r] \in Nat
      /\ g[s] = m.regular
  BY IdsAssumption, FS_Subset DEF HourTypes, MinuteRows
<1>2. \A T : RegularOf(T) = SumFunctionOnSet(f, T) /\ RegularOf(T)' = SumFunctionOnSet(g, T)
  BY DEF RegularOf, Regular
<1> HIDE DEF f, g
<1>3. SumFunctionOnSet(g, S) = SumFunctionOnSet(f, S)
  BY <1>1, SumSame
<1>4. SumFunctionOnSet(g, S \cup {s}) = g[s] + SumFunctionOnSet(g, S)
  BY <1>1, SumOneIn
<1>5. QED
  BY <1>1, <1>2, <1>3, <1>4

(* Steps that complete no session leave every day and week as it was.      *)
LEMMA CapsStill ==
  ASSUME CapsInv, minutes' = minutes,
         \A s \in Sessions :
           /\ sessions'[s].status = "completed" <=> sessions[s].status = "completed"
           /\ sessions[s].status = "completed" => /\ sessions'[s].emp = sessions[s].emp
                                                  /\ sessions'[s].clock_in_at = sessions[s].clock_in_at
  PROVE  CapsInv'
<1> SUFFICES ASSUME Settings.overtime_enabled, NEW e, NEW d
             PROVE  /\ RegularOf(OnDay(e, d))' <= Settings.daily_threshold
                    /\ RegularOf(InWeek(e, d))' <= Settings.weekly_threshold
  BY DEF CapsInv
<1>1. OnDay(e, d)' = OnDay(e, d) /\ InWeek(e, d)' = InWeek(e, d)
  BY DEF OnDay, InWeek, DayOf, WeekOf
<1>2. [r \in Sessions |-> Regular(r)]' = [r \in Sessions |-> Regular(r)]
  BY DEF Regular
<1>3. RegularOf(OnDay(e, d))' = RegularOf(OnDay(e, d)) /\ RegularOf(InWeek(e, d))' = RegularOf(InWeek(e, d))
  BY <1>1, <1>2 DEF RegularOf
<1>4. QED
  BY <1>3 DEF CapsInv

(* What a day has left for a session that is completed bounds its regular  *)
(* minutes.                                                                *)
LEMMA RegularFits ==
  ASSUME HourTypes, Settings.overtime_enabled, NEW s, NEW total \in Nat
  PROVE  /\ PriorToday(s) <= Settings.daily_threshold =>
              RegularMinutes(s, total) + PriorToday(s) <= Settings.daily_threshold
         /\ PriorThisWeek(s) <= Settings.weekly_threshold =>
              RegularMinutes(s, total) + PriorThisWeek(s) <= Settings.weekly_threshold
<1>1. PriorToday(s) \in Nat /\ PriorThisWeek(s) \in Nat
  BY RegularSums DEF PriorToday, PriorThisWeek, PriorCompleted
<1>2. PICK x \in Int, y \in Int : /\ x = Settings.daily_threshold - PriorToday(s)
                                  /\ y = Settings.weekly_threshold - PriorThisWeek(s)
  BY <1>1, InputsAssumption
<1>3. PICK a \in Nat, b \in Nat : /\ a = Max({0, x}) /\ a = IF x >= 0 THEN x ELSE 0
                                  /\ b = Max({0, y}) /\ b = IF y >= 0 THEN y ELSE 0
  BY <1>2, MaxWithZero
<1>4. PICK n \in Nat : n = RegularMinutes(s, total) /\ n <= a /\ n <= b
  <2>1. RegularMinutes(s, total) = Min({total, a, b})
    BY <1>2, <1>3 DEF RegularMinutes
  <2>2. QED
    BY <2>1, MinOfThree
<1>5. PICK p \in Nat, q \in Nat, d \in Nat, k \in Nat :
        p = PriorToday(s) /\ q = PriorThisWeek(s) /\ d = Settings.daily_threshold /\ k = Settings.weekly_threshold
  BY <1>1, InputsAssumption
<1>6. (p <= d => n + p <= d) /\ (q <= k => n + q <= k)
  <2>1. x = d - p /\ y = k - q
    BY <1>2, <1>5
  <2>2. (x >= 0 => n <= x) /\ (y >= 0 => n <= y)
    <3>1. (x >= 0 => a = x) /\ (y >= 0 => b = y)
      BY <1>3
    <3>2. n <= a /\ n <= b
      BY <1>4
    <3>3. QED
      BY <3>1, <3>2
  <2>3. QED
    BY <2>1, <2>2
<1>7. QED
  BY <1>4, <1>5, <1>6

(* Completing a session keeps the regular minutes of a day and of a week   *)
(* within the thresholds.                                                  *)
LEMMA CapsComplete ==
  ASSUME ControlTypeOK, HoursInv, CapsInv, NEW w \in Workers, ClockOutComplete(w)
  PROVE  CapsInv'
<1> SUFFICES ASSUME Settings.overtime_enabled PROVE CapsInv'
  BY DEF CapsInv
<1>s. PICK s \in Sessions : s = loc[w].sid
  BY DEF ClockOutComplete, ControlTypeOK, LocalsSet, HasSid, Locals
<1>m. PICK m \in MinuteRows : m = calc[w].mins
  BY DEF HoursInv, HourTypes
<1>1. /\ minutes' = [minutes EXCEPT ![s] = m]
      /\ sessions'[s].status = "completed" /\ sessions'[s].emp = sessions[s].emp
      /\ sessions'[s].clock_in_at = sessions[s].clock_in_at
      /\ \A r \in Sessions \ {s} : sessions'[r] = sessions[r]
  BY <1>m, <1>s, Completed DEF ClockOutComplete
<1>2. sessions[s].status # "completed" /\ m.regular = RegularMinutes(s, m.total) /\ m.total \in Nat
  <2>1. SlotFor(w, s)
    BY <1>s DEF HoursInv, SlotHours
  <2>2. QED
    BY <1>m, <2>1 DEF SlotFor, ClockOutComplete, InClockOut, IsOpen, MinuteRows
<1>3. ASSUME NEW e, NEW d
      PROVE  /\ RegularOf(OnDay(e, d))' <= Settings.daily_threshold
             /\ RegularOf(InWeek(e, d))' <= Settings.weekly_threshold
  <2>1. PICK D, W : D = OnDay(e, d) /\ W = InWeek(e, d)
    OBVIOUS
  <2>2. /\ D \subseteq Sessions \ {s} /\ W \subseteq Sessions \ {s}
        /\ RegularOf(D) <= Settings.daily_threshold /\ RegularOf(W) <= Settings.weekly_threshold
        /\ RegularOf(D) \in Nat /\ RegularOf(W) \in Nat
    <3>1. D \subseteq Sessions \ {s} /\ W \subseteq Sessions \ {s}
      BY <1>2, <2>1 DEF OnDay, InWeek
    <3>2. RegularOf(D) <= Settings.daily_threshold /\ RegularOf(W) <= Settings.weekly_threshold
      BY <2>1 DEF CapsInv
    <3>3. RegularOf(D) \in Nat /\ RegularOf(W) \in Nat
      BY <3>1, RegularSums DEF HoursInv
    <3>4. QED
      BY <3>1, <3>2, <3>3
  <2>3. /\ RegularOf(D)' = RegularOf(D) /\ RegularOf(D \cup {s})' = m.regular + RegularOf(D)
        /\ RegularOf(W)' = RegularOf(W) /\ RegularOf(W \cup {s})' = m.regular + RegularOf(W)
    BY <1>1, <2>2, RegularOneMore DEF HoursInv
  <2>4. RegularOf(OnDay(e, d))' <= Settings.daily_threshold
    <3>1. CASE sessions[s].emp = e /\ DayOf(sessions[s].clock_in_at) = d
      <4>1. OnDay(e, d)' = D \cup {s}
        BY <1>1, <2>1, <3>1 DEF OnDay, DayOf
      <4>2. PriorToday(s) = RegularOf(D)
        <5>1. {r \in PriorCompleted(s) : DayOf(sessions[r].clock_in_at) = DayOf(sessions[s].clock_in_at)} = D
          BY <1>2, <2>1, <3>1 DEF PriorCompleted, OnDay
        <5>2. QED
          BY <5>1 DEF PriorToday
      <4>3. m.regular + RegularOf(D) <= Settings.daily_threshold
        BY <1>2, <2>2, <4>2, RegularFits DEF HoursInv
      <4>4. RegularOf(OnDay(e, d))' = RegularOf(D \cup {s})'
        BY <4>1 DEF RegularOf
      <4>5. QED
        BY <2>3, <4>3, <4>4
    <3>2. CASE ~(sessions[s].emp = e /\ DayOf(sessions[s].clock_in_at) = d)
      <4>1. OnDay(e, d)' = D
        BY <1>1, <1>2, <2>1, <3>2 DEF OnDay, DayOf
      <4>2. RegularOf(OnDay(e, d))' = RegularOf(D)'
        BY <4>1 DEF RegularOf
      <4>3. QED
        BY <2>2, <2>3, <4>2
    <3>3. QED
      BY <3>1, <3>2
  <2>5. RegularOf(InWeek(e, d))' <= Settings.weekly_threshold
    <3>1. CASE sessions[s].emp = e /\ WeekOf(sessions[s].clock_in_at) = d
      <4>1. InWeek(e, d)' = W \cup {s}
        BY <1>1, <2>1, <3>1 DEF InWeek, WeekOf, DayOf
      <4>2. PriorThisWeek(s) = RegularOf(W)
        <5>1. {r \in PriorCompleted(s) : WeekOf(sessions[r].clock_in_at) = WeekOf(sessions[s].clock_in_at)} = W
          BY <1>2, <2>1, <3>1 DEF PriorCompleted, InWeek
        <5>2. QED
          BY <5>1 DEF PriorThisWeek
      <4>3. m.regular + RegularOf(W) <= Settings.weekly_threshold
        BY <1>2, <2>2, <4>2, RegularFits DEF HoursInv
      <4>4. RegularOf(InWeek(e, d))' = RegularOf(W \cup {s})'
        BY <4>1 DEF RegularOf
      <4>5. QED
        BY <2>3, <4>3, <4>4
    <3>2. CASE ~(sessions[s].emp = e /\ WeekOf(sessions[s].clock_in_at) = d)
      <4>1. InWeek(e, d)' = W
        BY <1>1, <1>2, <2>1, <3>2 DEF InWeek, WeekOf, DayOf
      <4>2. RegularOf(InWeek(e, d))' = RegularOf(W)'
        BY <4>1 DEF RegularOf
      <4>3. QED
        BY <2>2, <2>3, <4>2
    <3>3. QED
      BY <3>1, <3>2
  <2>6. QED
    BY <2>4, <2>5
<1>4. QED
  BY <1>3 DEF CapsInv

(* So does every step.                                                     *)
LEMMA CapsNext ==
  ASSUME ControlTypeOK, BreakInv, SerialInv, HoursInv, CapsInv, [Next]_vars
  PROVE  CapsInv'
<1>1. ASSUME NEW s \in Sessions, NEW b \in Breaks, NEW type \in BreakTypes, StartBreak(s, b, type)
      PROVE  CapsInv'
  <2>1. minutes' = minutes
    BY <1>1 DEF StartBreak
  <2>2. QED
    BY <1>1, <2>1, Paused, CapsStill
<1>2. ASSUME NEW w \in Workers, HandlerStep(w) \/ DbError(w) PROVE CapsInv'
  <2>1. CASE ClockOutComplete(w)
    BY <2>1, CapsComplete
  <2>2. CASE ~ClockOutComplete(w)
    <3>1. minutes' = minutes
      BY <1>2, <2>2 DEF HandlerStep, LaborAdmins, LaborNotify, ClockInMatch, ClockInClaim,
         ClockInCreate, ClockOutFindBreak, ClockOutEndBreak, ClockOutSumBreaks, ClockOutOvertime,
         ClockOutShift, LaborCreate, LaborMark, EndBreakCommit, RemoveShiftDelete, MissedCheck,
         MissedMark, RemindStamp, RemindSend, DbError, Database
    <3>2. \A r \in Sessions :
           /\ sessions'[r].status = "completed" <=> sessions[r].status = "completed"
           /\ sessions[r].status = "completed" => /\ sessions'[r].emp = sessions[r].emp
                                                  /\ sessions'[r].clock_in_at = sessions[r].clock_in_at
      <4>1. CASE ClockInCreate(w)
        BY <4>1, Created
      <4>2. CASE LaborMark(w)
        BY <4>2, Marked
      <4>3. CASE EndBreakCommit(w)
        <5>1. pc[w] = "eb_commit"
          BY <4>3 DEF EndBreakCommit
        <5>2. breaks' # breaks => sessions[loc[w].sid].status = "on_break"
          BY <4>3, <5>1, Resumed DEF BreakInv, SerialInv, CompletedIsFinal, OpenBreaks, BreaksOf
        <5>3. breaks' = breaks => sessions' = sessions
          BY <4>3, <5>1, IdsAssumption DEF EndBreakCommit, ControlTypeOK, LocalsSet, HasBid, BreakRows, Locals
        <5>4. QED
          BY <4>3, <5>2, <5>3, Resumed
      <4>4. CASE RemoveShiftDelete(w)
        BY <4>4, Unlinked
      <4>5. QED
        BY <1>2, <2>2, <4>1, <4>2, <4>3, <4>4, SessionsLeft
    <3>3. QED
      BY <3>1, <3>2, CapsStill
  <2>3. QED
    BY <2>1, <2>2
<1>3. CASE UNCHANGED <<sessions, minutes>>
  BY <1>3, CapsStill
<1>4. QED
  <2>1. CASE Arrive
    <3>1. UNCHANGED <<sessions, minutes>>
            \/ \E s \in Sessions, b \in Breaks, type \in BreakTypes : StartBreak(s, b, type)
      BY <2>1 DEF Arrive, ClockInCheck, ClockOutRead, EndBreakRead, CreateShifts, UpdateShift,
         RemoveShiftRead, MissedList, RemindList, Database
    <3>2. QED
      BY <1>1, <1>3, <3>1
  <2>2. CASE Crash \/ Tick \/ Wait \/ UNCHANGED vars
    BY <1>3, <2>2 DEF Crash, Tick, Wait, vars, Database
  <2>3. QED
    BY <1>2, <2>1, <2>2 DEF Next

(* They are within them at first.                                          *)
LEMMA CapsInit == Init => CapsInv
<1> SUFFICES ASSUME Init, NEW e, NEW d
             PROVE  /\ RegularOf(OnDay(e, d)) <= Settings.daily_threshold
                    /\ RegularOf(InWeek(e, d)) <= Settings.weekly_threshold
  BY DEF CapsInv
<1>1. OnDay(e, d) = {} /\ InWeek(e, d) = {}
  BY DEF Init, NoSession, OnDay, InWeek
<1>2. RegularOf({}) = 0
  BY SumEmpty DEF RegularOf
<1>3. QED
  BY <1>1, <1>2, InputsAssumption

(* And the regular minutes of any employee's day or week stay within the   *)
(* thresholds.                                                             *)
THEOREM OvertimeIsPaid ==
  ASSUME Serial
  PROVE  Spec => []OvertimeCaps
<1>1. HoursInv /\ CapsInv => OvertimeCaps
  <2> SUFFICES ASSUME HoursInv, CapsInv, Settings.overtime_enabled, NEW s \in Sessions,
                      sessions[s].status = "completed"
               PROVE  /\ Regular(s) + PriorToday(s) <= Settings.daily_threshold
                      /\ Regular(s) + PriorThisWeek(s) <= Settings.weekly_threshold
    BY DEF OvertimeCaps
  <2>1. PICK D, W : /\ D = OnDay(sessions[s].emp, DayOf(sessions[s].clock_in_at))
                    /\ W = InWeek(sessions[s].emp, WeekOf(sessions[s].clock_in_at))
    OBVIOUS
  <2>2. /\ D \subseteq Sessions /\ W \subseteq Sessions /\ s \in D /\ s \in W
        /\ RegularOf(D) <= Settings.daily_threshold /\ RegularOf(W) <= Settings.weekly_threshold
    <3>1. D \subseteq Sessions /\ W \subseteq Sessions /\ s \in D /\ s \in W
      BY <2>1 DEF OnDay, InWeek
    <3>2. RegularOf(D) <= Settings.daily_threshold /\ RegularOf(W) <= Settings.weekly_threshold
      BY <2>1 DEF CapsInv
    <3>3. QED
      BY <3>1, <3>2
  <2>3. /\ {r \in PriorCompleted(s) : DayOf(sessions[r].clock_in_at) = DayOf(sessions[s].clock_in_at)} = D \ {s}
        /\ {r \in PriorCompleted(s) : WeekOf(sessions[r].clock_in_at) = WeekOf(sessions[s].clock_in_at)} = W \ {s}
    BY <2>1 DEF PriorCompleted, OnDay, InWeek
  <2>4. PriorToday(s) = RegularOf(D \ {s}) /\ PriorThisWeek(s) = RegularOf(W \ {s})
    BY <2>3 DEF PriorToday, PriorThisWeek
  <2>5. /\ RegularOf(D) = Regular(s) + RegularOf(D \ {s})
        /\ RegularOf(W) = Regular(s) + RegularOf(W \ {s})
    BY <2>2, RegularSums DEF HoursInv
  <2>6. QED
    BY <2>2, <2>4, <2>5
<1>2. ControlTypeOK /\ BreakInv /\ SerialInv /\ HoursInv /\ CapsInv /\ [Next]_vars
        => BreakInv' /\ SerialInv' /\ HoursInv' /\ CapsInv'
  BY TypeNext, GateNext, SerialNext, HoursNext, CapsNext
<1>3. QED
  BY <1>1, <1>2, GateInit, SerialInit, HoursInit, CapsInit, TypeCorrect, PTL DEF Spec

-----------------------------------------------------------------------------
(* The abstract clock *)

(* A row is an employee's as soon as it exists; what is being posted is    *)
(* owed.                                                                   *)
PayInv ==
  /\ \A s \in Sessions : sessions[s].status = "none" <=> sessions[s].emp = Null
  /\ \A w \in Workers, s \in Sessions :
       s = loc[w].sid /\ pc[w] = "lc_create" => sessions[s].project /\ sessions[s].emp \in Billable

(* The columns of a session that the abstract clock looks at.              *)
SameRow(s) ==
  /\ sessions'[s].status = sessions[s].status /\ sessions'[s].emp = sessions[s].emp
  /\ sessions'[s].project = sessions[s].project

Owing(e) == {s \in Sessions : /\ sessions[s].emp = e /\ e \in Billable
                              /\ sessions[s].status = "completed"
                              /\ sessions[s].project
                              /\ hourLogs[s] = <<>>}
RowsOf(e) == {s \in Sessions : sessions[s].emp = e}

(* Steps that keep those columns and the logs are stuttering steps.        *)
LEMMA AbstractStill ==
  ASSUME \A s \in Sessions : SameRow(s), hourLogs' = hourLogs
  PROVE  UNCHANGED Abstract!vars
<1>1. ASSUME NEW e PROVE PresenceOf(e)' = PresenceOf(e) /\ Owed(e)' = Owed(e) /\ Entries(e)' = Entries(e)
  <2>1. OpenSessions(e)' = OpenSessions(e)
    BY DEF OpenSessions, IsOpen, SameRow
  <2>2. PresenceOf(e)' = PresenceOf(e)
    BY <2>1 DEF PresenceOf, SameRow, OpenSessions
  <2>3. Owing(e)' = Owing(e) /\ RowsOf(e)' = RowsOf(e)
    BY DEF Owing, RowsOf, SameRow
  <2>4. QED
    BY <2>2, <2>3 DEF Owed, Entries, Owing, RowsOf
<1>2. QED
  BY <1>1 DEF Abstract!vars

(* A step on one row changes nothing for the other employees.              *)
LEMMA ElsewhereStill ==
  ASSUME NEW s \in Sessions, NEW e \in Employees, NEW x \in Employees \ {e},
         sessions[s].emp \in {e, Null}, sessions'[s].emp = e,
         \A r \in Sessions \ {s} : SameRow(r) /\ hourLogs'[r] = hourLogs[r]
  PROVE  PresenceOf(x)' = PresenceOf(x) /\ Owed(x)' = Owed(x) /\ Entries(x)' = Entries(x)
<1>1. x # Null /\ x # e
  BY IdsAssumption
<1>2. OpenSessions(x)' = OpenSessions(x) /\ s \notin OpenSessions(x)
  BY <1>1 DEF OpenSessions, IsOpen, SameRow
<1>3. PresenceOf(x)' = PresenceOf(x)
  <2>1. \A r \in OpenSessions(x) : sessions'[r].status = sessions[r].status
    BY <1>2 DEF SameRow, OpenSessions
  <2>2. QED
    BY <1>2, <2>1 DEF PresenceOf
<1>4. Owed(x)' = Owed(x)
  <2>1. Owing(x)' = Owing(x)
    BY <1>1 DEF Owing, SameRow
  <2>2. QED
    BY <2>1 DEF Owed, Owing
<1>5. Entries(x)' = Entries(x)
  <2> DEFINE f == [r \in Sessions |-> Len(hourLogs[r])]
             g == [r \in Sessions |-> Len(hourLogs'[r])]
  <2>1. PICK R : R = RowsOf(x)
    OBVIOUS
  <2>2. RowsOf(x)' = R /\ R \subseteq Sessions \ {s} /\ IsFiniteSet(R)
    BY <1>1, <2>1, IdsAssumption, FS_Subset DEF RowsOf, SameRow
  <2>3. \A r \in R : f[r] = g[r]
    BY <2>2
  <2>4. Entries(x) = SumFunctionOnSet(f, R) /\ Entries(x)' = SumFunctionOnSet(g, R)
    BY <2>1, <2>2 DEF Entries, RowsOf
  <2> HIDE DEF f, g
  <2>5. QED
    BY <2>2, <2>3, <2>4, SumSame
<1>6. QED
  BY <1>3, <1>4, <1>5

(* Where an employee is, once there is at most one open session of each.   *)
LEMMA PresenceKnown ==
  ASSUME OneOpen, NEW s \in Sessions, IsOpen(s), NEW e, sessions[s].emp = e
  PROVE  PresenceOf(e) = IF sessions[s].status = "on_break" THEN "resting" ELSE "working"
<1>1. OpenSessions(e) = {s}
  BY DEF OpenSessions, OneOpen
<1>2. QED
  BY <1>1 DEF PresenceOf

(* The open session of an employee decides their presence.                 *)
LEMMA PresenceThen ==
  ASSUME OneOpen', NEW s \in Sessions, IsOpen(s)', NEW e, sessions'[s].emp = e
  PROVE  PresenceOf(e)' = IF sessions'[s].status = "on_break" THEN "resting" ELSE "working"
<1>1. OpenSessions(e)' = {s}
  BY DEF OpenSessions, OneOpen, IsOpen
<1>2. QED
  BY <1>1 DEF PresenceOf

(* From one employee to the table of all.                                  *)
LEMMA AbstractMoves ==
  ASSUME NEW e \in Employees, NEW from, NEW to, PresenceOf(e) \in from, PresenceOf(e)' = to,
         \A x \in Employees \ {e} : PresenceOf(x)' = PresenceOf(x)
  PROVE  Abstract!Move(e, from, to)
BY DEF Abstract!Move

(* The owed sessions as a function stay when they stay for each employee.  *)
LEMMA OwedStays ==
  ASSUME \A x \in Employees : Owed(x)' = Owed(x)
  PROVE  [e \in Employees |-> Owed(e)]' = [e \in Employees |-> Owed(e)]
OBVIOUS

(* So do the entries.                                                      *)
LEMMA EntriesStay ==
  ASSUME \A x \in Employees : Entries(x)' = Entries(x)
  PROVE  [e \in Employees |-> Entries(e)]' = [e \in Employees |-> Entries(e)]
OBVIOUS

(* Labour entries of an employee whose rows and logs stay.                 *)
LEMMA EntriesSame ==
  ASSUME NEW e, RowsOf(e)' = RowsOf(e), hourLogs' = hourLogs
  PROVE  Entries(e)' = Entries(e)
BY DEF Entries, RowsOf

(* clockIn is Arrive.                                                      *)
LEMMA RefineClockIn ==
  ASSUME ControlTypeOK, SerialInv, SerialInv', HoursInv, PayInv, NEW w \in Workers, ClockInCreate(w)
  PROVE  [Abstract!Next]_(Abstract!vars)
<1>1. hourLogs' = hourLogs
  BY DEF ClockInCreate
<1>2. CASE sessions' = sessions
  BY <1>1, <1>2, AbstractStill DEF SameRow
<1>3. ASSUME NEW s \in Sessions,
             /\ sessions[s].status = "none"
             /\ sessions'[s].status = "active" /\ sessions'[s].emp = loc[w].emp
             /\ \A r \in Sessions \ {s} : sessions'[r] = sessions[r]
      PROVE  [Abstract!Next]_(Abstract!vars)
  <2>1. PICK e \in Employees : e = loc[w].emp
    BY DEF ClockInCreate, ControlTypeOK, LocalsSet, HasEmployee, Locals
  <2>2. OpenSessions(e) = {}
    BY <2>1 DEF SerialInv, ClockInCreate, HasEmployee
  <2>3. sessions[s].emp = Null /\ hourLogs[s] = <<>> /\ e # Null
    BY <1>3, IdsAssumption DEF PayInv, HoursInv, SessionHours
  <2>4. \A r \in Sessions \ {s} : SameRow(r) /\ hourLogs'[r] = hourLogs[r]
    BY <1>1, <1>3 DEF SameRow
  <2>5. \A x \in Employees \ {e} :
          PresenceOf(x)' = PresenceOf(x) /\ Owed(x)' = Owed(x) /\ Entries(x)' = Entries(x)
    BY <1>3, <2>1, <2>3, <2>4, ElsewhereStill
  <2>6. PresenceOf(e) = "out"
    BY <2>2 DEF PresenceOf
  <2>7. PresenceOf(e)' = "working"
    BY <1>3, <2>1, PresenceThen DEF SerialInv, IsOpen
  <2>8. Owed(e)' = Owed(e)
    <3>1. Owing(e)' = Owing(e)
      BY <1>1, <1>3, <2>3 DEF Owing
    <3>2. QED
      BY <3>1 DEF Owed, Owing
  <2>9. Entries(e)' = Entries(e)
    <3> DEFINE f == [r \in Sessions |-> Len(hourLogs[r])]
    <3>1. PICK R : R = RowsOf(e)
      OBVIOUS
    <3>2. RowsOf(e)' = R \cup {s} /\ s \notin R /\ R \subseteq Sessions /\ IsFiniteSet(R)
      BY <1>3, <2>1, <2>3, <3>1, IdsAssumption, FS_Subset DEF RowsOf
    <3>3. f[s] = 0 /\ \A r \in R \cup {s} : f[r] \in Nat
      BY <2>3, <3>2 DEF HoursInv, HourTypes
    <3>4. Entries(e) = SumFunctionOnSet(f, R) /\ Entries(e)' = SumFunctionOnSet(f, R \cup {s})
      BY <1>1, <3>1, <3>2 DEF Entries, RowsOf
    <3> HIDE DEF f
    <3>5. SumFunctionOnSet(f, R \cup {s}) = f[s] + SumFunctionOnSet(f, R) /\ SumFunctionOnSet(f, R) \in Nat
      BY <3>2, <3>3, SumOneIn, SumIsNat
    <3>6. QED
      BY <3>3, <3>4, <3>5
  <2>10. Abstract!Move(e, {"out"}, "working")
    BY <2>5, <2>6, <2>7, AbstractMoves
  <2>11. Abstract!Arrive(e)
    BY <2>5, <2>8, <2>9, <2>10, OwedStays, EntriesStay DEF Abstract!Arrive
  <2>12. QED
    BY <2>11 DEF Abstract!Next
<1>4. QED
  BY <1>2, <1>3, Created

(* startBreak is Rest, endBreak Resume.                                    *)
LEMMA RefineBreaks ==
  ASSUME ControlTypeOK, SerialInv, SerialInv', PayInv, NEW s \in Sessions,
         IsOpen(s), IsOpen(s)', sessions'[s].status # sessions[s].status,
         sessions'[s].emp = sessions[s].emp, sessions'[s].project = sessions[s].project,
         \A r \in Sessions \ {s} : SameRow(r), hourLogs' = hourLogs
  PROVE  [Abstract!Next]_(Abstract!vars)
<1>1. PICK e \in Employees : e = sessions[s].emp
  BY DEF PayInv, IsOpen, ControlTypeOK, SessionRows
<1>2. \A x \in Employees \ {e} :
        PresenceOf(x)' = PresenceOf(x) /\ Owed(x)' = Owed(x) /\ Entries(x)' = Entries(x)
  BY <1>1, ElsewhereStill
<1>3. Owing(e)' = Owing(e) /\ RowsOf(e)' = RowsOf(e)
  BY <1>1 DEF Owing, RowsOf, SameRow, IsOpen
<1>4. Owed(e)' = Owed(e) /\ Entries(e)' = Entries(e)
  BY <1>3, EntriesSame DEF Owed, Owing
<1>5. PresenceOf(e) = IF sessions[s].status = "on_break" THEN "resting" ELSE "working"
  BY <1>1, PresenceKnown DEF SerialInv
<1>6. PresenceOf(e)' = IF sessions'[s].status = "on_break" THEN "resting" ELSE "working"
  BY <1>1, PresenceThen DEF SerialInv
<1>7. UNCHANGED [x \in Employees |-> Owed(x)] /\ UNCHANGED [x \in Employees |-> Entries(x)]
  BY <1>2, <1>4
<1>8. CASE sessions'[s].status = "on_break"
  <2>1. Abstract!Move(e, {"working"}, "resting")
    BY <1>2, <1>5, <1>6, <1>8, AbstractMoves
  <2>2. Abstract!Rest(e)
    BY <1>7, <2>1 DEF Abstract!Rest
  <2>3. QED
    BY <2>2 DEF Abstract!Next
<1>9. CASE sessions'[s].status # "on_break"
  <2>1. sessions[s].status = "on_break"
    BY <1>9 DEF IsOpen
  <2>2. Abstract!Move(e, {"resting"}, "working")
    BY <1>2, <1>5, <1>6, <1>9, <2>1, AbstractMoves
  <2>3. Abstract!Resume(e)
    BY <1>7, <2>2 DEF Abstract!Resume
  <2>4. QED
    BY <2>3 DEF Abstract!Next
<1>10. QED
  BY <1>8, <1>9

(* clockOut's last step is Leave.                                          *)
LEMMA RefineClockOut ==
  ASSUME ControlTypeOK, SerialInv, SerialInv', HoursInv, PayInv, NEW w \in Workers, ClockOutComplete(w)
  PROVE  [Abstract!Next]_(Abstract!vars)
<1>s. PICK s \in Sessions : s = loc[w].sid
  BY DEF ClockOutComplete, ControlTypeOK, LocalsSet, HasSid, Locals
<1>1. /\ sessions'[s].status = "completed" /\ sessions'[s].emp = sessions[s].emp
      /\ sessions'[s].project = sessions[s].project
      /\ \A r \in Sessions \ {s} : SameRow(r)
      /\ hourLogs' = hourLogs
  BY <1>s, Completed DEF ClockOutComplete, SameRow
<1>2. IsOpen(s) /\ hourLogs[s] = <<>>
  <2>1. SlotFor(w, s) /\ SessionHours(s)
    BY <1>s DEF HoursInv, SlotHours
  <2>2. QED
    BY <2>1 DEF SlotFor, SessionHours, ClockOutComplete, InClockOut, IsOpen
<1>3. PICK e \in Employees : e = sessions[s].emp
  BY <1>2 DEF PayInv, IsOpen, ControlTypeOK, SessionRows
<1>4. \A x \in Employees \ {e} :
        PresenceOf(x)' = PresenceOf(x) /\ Owed(x)' = Owed(x) /\ Entries(x)' = Entries(x)
  BY <1>1, <1>3, ElsewhereStill
<1>5. PresenceOf(e) \in {"working", "resting"}
  BY <1>2, <1>3, PresenceKnown DEF SerialInv
<1>6. PresenceOf(e)' = "out"
  <2>1. OpenSessions(e) = {s}
    BY <1>2, <1>3 DEF SerialInv, OneOpen, OpenSessions
  <2>2. OpenSessions(e)' = {}
    BY <1>1, <1>3, <2>1 DEF OpenSessions, IsOpen, SameRow
  <2>3. QED
    BY <2>2 DEF PresenceOf
<1>7. Entries(e)' = Entries(e)
  <2>1. RowsOf(e)' = RowsOf(e)
    BY <1>1 DEF RowsOf, SameRow
  <2>2. QED
    BY <1>1, <2>1, EntriesSame
<1>8. IF e \in Billable /\ sessions[s].project THEN Owed(e)' = Owed(e) + 1 ELSE Owed(e)' = Owed(e)
  <2>1. PICK O : O = Owing(e)
    OBVIOUS
  <2>2. IsFiniteSet(O) /\ s \notin O /\ Owed(e) = Cardinality(O)
    BY <1>2, <2>1, IdsAssumption, FS_Subset DEF Owing, Owed, IsOpen
  <2>3. CASE e \in Billable /\ sessions[s].project
    <3>1. Owing(e)' = O \cup {s}
      BY <1>1, <1>2, <1>3, <2>1, <2>3 DEF Owing, SameRow
    <3>2. Cardinality(O \cup {s}) = Cardinality(O) + 1
      BY <2>2, FS_AddElement
    <3>3. QED
      BY <2>2, <2>3, <3>1, <3>2 DEF Owed, Owing
  <2>4. CASE ~(e \in Billable /\ sessions[s].project)
    <3>1. Owing(e)' = O
      BY <1>1, <1>3, <2>1, <2>2, <2>4 DEF Owing, SameRow
    <3>2. QED
      BY <2>2, <2>4, <3>1 DEF Owed, Owing
  <2>5. QED
    BY <2>3, <2>4
<1>9. Abstract!Move(e, {"working", "resting"}, "out")
  BY <1>4, <1>5, <1>6, AbstractMoves
<1>10. UNCHANGED [x \in Employees |-> Entries(x)]
  BY <1>4, <1>7
<1>11. \/ /\ e \in Billable
          /\ [x \in Employees |-> Owed(x)]' =
               [[x \in Employees |-> Owed(x)] EXCEPT ![e] = [x \in Employees |-> Owed(x)][e] + 1]
       \/ UNCHANGED [x \in Employees |-> Owed(x)]
  BY <1>4, <1>8
<1>12. Abstract!Leave(e)
  BY <1>9, <1>10, <1>11 DEF Abstract!Leave
<1>13. QED
  BY <1>12 DEF Abstract!Next

(* The crew hour entry is Post.                                            *)
LEMMA RefinePost ==
  ASSUME ControlTypeOK, SerialInv, HoursInv, PayInv, NEW w \in Workers, LaborCreate(w)
  PROVE  [Abstract!Next]_(Abstract!vars)
<1>s. PICK s \in Sessions : s = loc[w].sid
  BY DEF LaborCreate, ControlTypeOK, LocalsSet, HasSid, Locals
<1>m. PICK m \in MinuteRows : m = calc[w].mins
  BY DEF HoursInv, HourTypes
<1>1. /\ hourLogs' = [hourLogs EXCEPT ![s] = Append(@, HoursOf(m))] /\ sessions' = sessions
      /\ pc[w] = "lc_create"
  BY <1>m, <1>s DEF LaborCreate
<1>2. sessions[s].status = "completed" /\ hourLogs[s] = <<>>
  BY <1>1, <1>m, <1>s DEF HoursInv, SlotHours, SlotFor
<1>3. hourLogs'[s] = <<HoursOf(m)>> /\ \A r \in Sessions \ {s} : hourLogs'[r] = hourLogs[r]
  BY <1>1, <1>2 DEF HoursInv, HourTypes
<1>4. PICK e \in Employees : e = sessions[s].emp /\ e \in Billable /\ sessions[s].project
  BY <1>1, <1>s, InputsAssumption DEF PayInv
<1>5. \A x \in Employees \ {e} :
        PresenceOf(x)' = PresenceOf(x) /\ Owed(x)' = Owed(x) /\ Entries(x)' = Entries(x)
  <2>1. \A r \in Sessions \ {s} : SameRow(r)
    BY <1>1 DEF SameRow
  <2>2. QED
    BY <1>1, <1>3, <1>4, <2>1, ElsewhereStill
<1>6. PresenceOf(e)' = PresenceOf(e)
  BY <1>1 DEF PresenceOf, OpenSessions, IsOpen
<1>7. Owed(e) \in Nat /\ Owed(e) > 0 /\ Owed(e)' = Owed(e) - 1
  <2>1. PICK O : O = Owing(e)
    OBVIOUS
  <2>2. IsFiniteSet(O) /\ s \in O /\ Owed(e) = Cardinality(O)
    BY <1>2, <1>4, <2>1, IdsAssumption, FS_Subset DEF Owing, Owed
  <2>3. Owing(e)' = O \ {s}
    BY <1>1, <1>3, <2>1 DEF Owing
  <2>4. Cardinality(O \ {s}) = Cardinality(O) - 1 /\ Cardinality(O) \in Nat /\ Cardinality(O) # 0
    BY <2>2, FS_RemoveElement, FS_CardinalityType, FS_EmptySet
  <2>5. Owed(e)' = Cardinality(O \ {s})
    BY <2>3 DEF Owed, Owing
  <2>6. QED
    BY <2>2, <2>4, <2>5
<1>8. Entries(e)' = Entries(e) + 1
  <2> DEFINE f == [r \in Sessions |-> Len(hourLogs[r])]
             g == [r \in Sessions |-> Len(hourLogs'[r])]
  <2>1. PICK R : R = RowsOf(e) \ {s}
    OBVIOUS
  <2>2. /\ RowsOf(e) = R \cup {s} /\ RowsOf(e)' = R \cup {s} /\ s \notin R
        /\ R \subseteq Sessions /\ IsFiniteSet(R)
    BY <1>1, <1>4, <2>1, IdsAssumption, FS_Subset DEF RowsOf
  <2>3. f[s] = 0 /\ g[s] = 1
    BY <1>2, <1>3
  <2>4. \A r \in R : f[r] = g[r] /\ f[r] \in Nat
    <3>1. \A r \in R : hourLogs'[r] = hourLogs[r] /\ hourLogs[r] \in Seq(LogRows)
      BY <1>3, <2>2 DEF HoursInv, HourTypes
    <3>2. \A x : x \in Seq(LogRows) => Len(x) \in Nat
      OBVIOUS
    <3>3. QED
      BY <2>2, <3>1, <3>2
  <2>5. Entries(e) = SumFunctionOnSet(f, R \cup {s}) /\ Entries(e)' = SumFunctionOnSet(g, R \cup {s})
    BY <2>2 DEF Entries, RowsOf
  <2> HIDE DEF f, g
  <2>6. SumFunctionOnSet(f, R \cup {s}) = f[s] + SumFunctionOnSet(f, R) /\ SumFunctionOnSet(f, R) \in Nat
    BY <2>2, <2>3, <2>4, SumOneIn, SumIsNat
  <2>7. SumFunctionOnSet(g, R \cup {s}) = g[s] + SumFunctionOnSet(g, R)
    BY <2>2, <2>3, <2>4, SumOneIn
  <2>8. SumFunctionOnSet(g, R) = SumFunctionOnSet(f, R)
    BY <2>2, <2>4, SumSame
  <2>9. QED
    BY <2>3, <2>5, <2>6, <2>7, <2>8
<1>9. /\ [x \in Employees |-> Owed(x)]' =
           [[x \in Employees |-> Owed(x)] EXCEPT ![e] = [x \in Employees |-> Owed(x)][e] - 1]
      /\ [x \in Employees |-> Entries(x)]' =
           [[x \in Employees |-> Entries(x)] EXCEPT ![e] = [x \in Employees |-> Entries(x)][e] + 1]
      /\ UNCHANGED [x \in Employees |-> PresenceOf(x)]
      /\ [x \in Employees |-> Owed(x)][e] > 0
  BY <1>5, <1>6, <1>7, <1>8
<1>10. Abstract!Post(e)
  BY <1>9 DEF Abstract!Post
<1>11. QED
  BY <1>10 DEF Abstract!Next

(* What the refinement needs holds at first.                               *)
LEMMA PayInit == Init => PayInv
<1> SUFFICES ASSUME Init PROVE PayInv
  OBVIOUS
<1>1. \A s \in Sessions : sessions[s].status = "none" /\ sessions[s].emp = Null
  BY DEF Init, NoSession
<1>2. \A w \in Workers : pc[w] # "lc_create"
  BY DEF Init
<1>3. QED
  BY <1>1, <1>2 DEF PayInv

(* Every step keeps it.                                                    *)
LEMMA PayNext ==
  ASSUME ControlTypeOK, BreakInv, SerialInv, HoursInv, PayInv, [Next]_vars
  PROVE  PayInv'
<1>1. ASSUME \A s \in Sessions :
               /\ sessions'[s].status = "none" <=> sessions[s].status = "none"
               /\ sessions'[s].emp = sessions[s].emp /\ sessions'[s].project = sessions[s].project,
             \A w \in Workers : pc'[w] = "lc_create" => pc[w] = "lc_create" /\ loc'[w] = loc[w]
      PROVE  PayInv'
  BY <1>1 DEF PayInv
<1>2. ASSUME NEW w \in Workers, HandlerStep(w) \/ DbError(w) PROVE PayInv'
  <2>m. /\ OnlyMoves(w) /\ pc[w] # "idle" /\ Edge(pc[w], pc'[w])
    BY <1>2, HandlerMoves
  <2>1. CASE ClockInCreate(w)
    <3>1. pc'[w] = "idle" /\ loc[w].emp # Null
      BY <2>1, Finished DEF ClockInCreate, ControlTypeOK, LocalsSet, HasEmployee
    <3>2. \A v \in Workers : pc'[v] # "lc_create"
      BY <2>m, <3>1 DEF SerialInv, Alone, OnlyMoves
    <3>3. \A r \in Sessions : sessions'[r].status = "none" <=> sessions'[r].emp = Null
      <4>1. CASE sessions' = sessions
        BY <4>1 DEF PayInv
      <4>2. ASSUME NEW s \in Sessions, sessions'[s].status = "active", sessions'[s].emp = loc[w].emp,
                   \A r \in Sessions \ {s} : sessions'[r] = sessions[r]
            PROVE  \A r \in Sessions : sessions'[r].status = "none" <=> sessions'[r].emp = Null
        <5>1. sessions'[s].status # "none" /\ sessions'[s].emp # Null
          BY <3>1, <4>2
        <5>2. \A r \in Sessions \ {s} : sessions'[r].status = "none" <=> sessions'[r].emp = Null
          BY <4>2 DEF PayInv
        <5>3. QED
          BY <5>1, <5>2
      <4>3. QED
        BY <2>1, <4>1, <4>2, Created
    <3>4. QED
      BY <3>2, <3>3 DEF PayInv
  <2>2. CASE ClockOutComplete(w)
    <3>1. PICK s \in Sessions : s = loc[w].sid
      BY <2>2 DEF ClockOutComplete, ControlTypeOK, LocalsSet, HasSid, Locals
    <3>2. /\ sessions'[s].status = "completed" /\ sessions'[s].emp = sessions[s].emp
          /\ sessions'[s].project = sessions[s].project
          /\ \A r \in Sessions \ {s} : sessions'[r] = sessions[r]
          /\ IF NeedsLabor(s) THEN Goto(w, "lc_create", loc[w]) ELSE Finish(w)
      BY <2>2, <3>1, Completed
    <3>3. pc'[w] = "lc_create" => NeedsLabor(s) /\ loc'[w].sid = s
      BY <3>1, <3>2, Went, Finished
    <3>4. \A v \in Workers \ {w} : pc'[v] = "idle"
      BY <2>m DEF SerialInv, Alone, OnlyMoves
    <3>5. IsOpen(s)
      BY <2>2, <3>1 DEF HoursInv, SlotHours, SlotFor, ClockOutComplete, InClockOut
    <3>6. \A r \in Sessions : sessions'[r].status = "none" <=> sessions'[r].emp = Null
      BY <3>2, <3>5 DEF PayInv, IsOpen
    <3>7. QED
      BY <3>2, <3>3, <3>4, <3>6 DEF PayInv, NeedsLabor
  <2>3. CASE ~ClockInCreate(w) /\ ~ClockOutComplete(w)
    <3>1. \A v \in Workers : pc'[v] # "lc_create"
      <4>1. CASE pc[w] = "co_complete"
        <5>1. DbError(w)
          BY <1>2, <2>3, <4>1 DEF HandlerStep, LaborAdmins, LaborNotify, ClockInMatch,
             ClockInClaim, ClockOutFindBreak, ClockOutEndBreak, ClockOutSumBreaks,
             ClockOutOvertime, ClockOutShift, LaborCreate, LaborMark, EndBreakCommit,
             RemoveShiftDelete, MissedCheck, MissedMark, RemindStamp, RemindSend
        <5>2. Finish(w)
          BY <4>1, <5>1, DbErrorGoes DEF Posting, Telling
        <5>3. QED
          BY <2>m, <5>2, Finished DEF SerialInv, Alone, OnlyMoves
      <4>2. CASE pc[w] # "co_complete"
        BY <2>m, <4>2 DEF Edge, SerialInv, Alone, OnlyMoves
      <4>3. QED
        BY <4>1, <4>2
    <3>2. \A s \in Sessions :
               /\ sessions'[s].status = "none" <=> sessions[s].status = "none"
               /\ sessions'[s].emp = sessions[s].emp /\ sessions'[s].project = sessions[s].project
      <4>1. CASE LaborMark(w)
        BY <4>1, Marked
      <4>2. CASE RemoveShiftDelete(w)
        BY <4>2, Unlinked
      <4>3. CASE EndBreakCommit(w)
        <5>1. PICK s, b : s = loc[w].sid /\ b = loc[w].bid
          OBVIOUS
        <5>2. pc[w] = "eb_commit" /\ b \in Breaks /\ s \in Sessions
          BY <4>3, <5>1 DEF EndBreakCommit, ControlTypeOK, LocalsSet, HasBid, HasSid, Locals
        <5>3. breaks[b].session = s
          BY <5>1, <5>2 DEF BreakInv
        <5>4. sessions[s].status # "none"
          BY <5>2, <5>3, IdsAssumption DEF BreakInv
        <5>5. QED
          BY <4>3, <5>1, <5>4, Resumed
      <4>4. QED
        BY <1>2, <2>3, <4>1, <4>2, <4>3, SessionsLeft
    <3>3. QED
      BY <1>1, <3>1, <3>2
  <2>4. QED
    BY <2>1, <2>2, <2>3
<1>3. CASE Arrive
  <2>1. CASE \E s \in Sessions, b \in Breaks, type \in BreakTypes : StartBreak(s, b, type)
    <3>1. UNCHANGED <<pc, loc>>
      BY <2>1 DEF StartBreak, Slots
    <3>2. \A s \in Sessions :
               /\ sessions'[s].status = "none" <=> sessions[s].status = "none"
               /\ sessions'[s].emp = sessions[s].emp /\ sessions'[s].project = sessions[s].project
      BY <2>1, Paused
    <3>3. QED
      BY <1>1, <3>1, <3>2
  <2>2. CASE ~\E s \in Sessions, b \in Breaks, type \in BreakTypes : StartBreak(s, b, type)
    <3>1. sessions' = sessions
      BY <1>3, <2>2 DEF Arrive, ClockInCheck, ClockOutRead, EndBreakRead, CreateShifts, UpdateShift,
         RemoveShiftRead, MissedList, RemindList, Database
    <3>2. \A w \in Workers : pc'[w] = "lc_create" => pc[w] = "lc_create" /\ loc'[w] = loc[w]
      BY <1>3, ArriveMoves DEF Starting, OnlyMoves
    <3>3. QED
      BY <1>1, <3>1, <3>2
  <2>3. QED
    BY <2>1, <2>2
<1>4. CASE Crash \/ Tick \/ Wait \/ UNCHANGED vars
  <2>1. sessions' = sessions /\ (UNCHANGED <<pc, loc>> \/ \A w \in Workers : pc'[w] = "idle")
    BY <1>4 DEF Crash, Tick, Wait, vars, Slots, Database
  <2>2. QED
    BY <1>1, <2>1
<1>5. QED
  BY <1>2, <1>3, <1>4 DEF Next

(* Every step is a step of the abstract clock, or none that it sees.       *)
LEMMA RefineNext ==
  ASSUME ControlTypeOK, BreakInv, SerialInv, SerialInv', HoursInv, PayInv, [Next]_vars
  PROVE  [Abstract!Next]_(Abstract!vars)
<1>1. ASSUME NEW s \in Sessions, NEW b \in Breaks, NEW type \in BreakTypes, StartBreak(s, b, type)
      PROVE  [Abstract!Next]_(Abstract!vars)
  <2>1. /\ IsOpen(s) /\ IsOpen(s)' /\ sessions'[s].status # sessions[s].status
        /\ sessions'[s].emp = sessions[s].emp /\ sessions'[s].project = sessions[s].project
        /\ \A r \in Sessions \ {s} : SameRow(r)
    BY <1>1, Paused DEF IsOpen, SameRow
  <2>2. hourLogs' = hourLogs
    BY <1>1 DEF StartBreak
  <2>3. QED
    BY <2>1, <2>2, RefineBreaks
<1>2. ASSUME NEW w \in Workers, EndBreakCommit(w) PROVE [Abstract!Next]_(Abstract!vars)
  <2>1. hourLogs' = hourLogs /\ pc[w] = "eb_commit"
    BY <1>2 DEF EndBreakCommit
  <2>2. CASE sessions' = sessions
    BY <2>1, <2>2, AbstractStill DEF SameRow
  <2>3. CASE sessions' # sessions
    <3>1. PICK s \in Sessions, b \in Breaks : s = loc[w].sid /\ b = loc[w].bid
      BY <2>1 DEF ControlTypeOK, LocalsSet, HasBid, HasSid, Locals
    <3>2. sessions'[s].status = "active" /\ breaks[b].ended_at = Null /\ breaks[b].session = s
      BY <1>2, <2>1, <2>3, <3>1, Resumed DEF BreakInv
    <3>3. sessions[s].status = "on_break"
      BY <3>2 DEF SerialInv, CompletedIsFinal, OpenBreaks, BreaksOf
    <3>4. /\ IsOpen(s) /\ IsOpen(s)' /\ sessions'[s].status # sessions[s].status
          /\ sessions'[s].emp = sessions[s].emp /\ sessions'[s].project = sessions[s].project
          /\ \A r \in Sessions \ {s} : SameRow(r)
      BY <1>2, <3>1, <3>2, <3>3, Resumed DEF IsOpen, SameRow
    <3>5. QED
      BY <2>1, <3>4, RefineBreaks
  <2>4. QED
    BY <2>2, <2>3
<1>3. ASSUME NEW w \in Workers, LaborMark(w) \/ RemoveShiftDelete(w) PROVE [Abstract!Next]_(Abstract!vars)
  <2>1. hourLogs' = hourLogs
    BY <1>3 DEF LaborMark, RemoveShiftDelete
  <2>2. \A r \in Sessions : SameRow(r)
    BY <1>3, Marked, Unlinked DEF SameRow
  <2>3. QED
    BY <2>1, <2>2, AbstractStill
<1>4. CASE UNCHANGED <<sessions, hourLogs>>
  BY <1>4, AbstractStill DEF SameRow
<1>5. ASSUME NEW w \in Workers, HandlerStep(w) \/ DbError(w) PROVE [Abstract!Next]_(Abstract!vars)
  <2>1. \/ ClockInCreate(w) \/ ClockOutComplete(w) \/ LaborCreate(w) \/ LaborMark(w)
        \/ EndBreakCommit(w) \/ RemoveShiftDelete(w)
        \/ UNCHANGED <<sessions, hourLogs>>
    BY <1>5 DEF HandlerStep, LaborAdmins, LaborNotify, ClockInMatch, ClockInClaim,
       ClockOutFindBreak, ClockOutEndBreak, ClockOutSumBreaks, ClockOutOvertime, ClockOutShift,
       MissedCheck, MissedMark, RemindStamp, RemindSend, DbError, Database
  <2>2. QED
    BY <1>2, <1>3, <1>4, <2>1, RefineClockIn, RefineClockOut, RefinePost
<1>6. CASE Arrive
  <2>1. UNCHANGED <<sessions, hourLogs>>
          \/ \E s \in Sessions, b \in Breaks, type \in BreakTypes : StartBreak(s, b, type)
    BY <1>6 DEF Arrive, ClockInCheck, ClockOutRead, EndBreakRead, CreateShifts, UpdateShift,
       RemoveShiftRead, MissedList, RemindList, Database
  <2>2. QED
    BY <1>1, <1>4, <2>1
<1>7. CASE Crash \/ Tick \/ Wait \/ UNCHANGED vars
  BY <1>4, <1>7 DEF Crash, Tick, Wait, vars, Database
<1>8. QED
  BY <1>5, <1>6, <1>7 DEF Next

(* The initial states are initial states of the abstract clock.            *)
LEMMA RefineInit == Init => Abstract!Init
<1> SUFFICES ASSUME Init PROVE Abstract!Init
  OBVIOUS
<1>1. \A s \in Sessions : sessions[s].status = "none" /\ sessions[s].emp = Null
  BY DEF Init, NoSession
<1>2. ASSUME NEW e \in Employees PROVE PresenceOf(e) = "out" /\ Owed(e) = 0 /\ Entries(e) = 0
  <2>1. e # Null
    BY IdsAssumption
  <2>2. OpenSessions(e) = {} /\ Owing(e) = {} /\ RowsOf(e) = {}
    BY <1>1, <2>1 DEF OpenSessions, IsOpen, Owing, RowsOf
  <2>3. PresenceOf(e) = "out"
    BY <2>2 DEF PresenceOf
  <2>4. Owed(e) = 0
    BY <2>2, FS_EmptySet DEF Owed, Owing
  <2>5. Entries(e) = 0
    BY <2>2, SumEmpty DEF Entries, RowsOf
  <2>6. QED
    BY <2>3, <2>4, <2>5
<1>3. QED
  BY <1>2 DEF Abstract!Init

(* When handlers do not overlap, the time clock implements the abstract    *)
(* clock: an employee works one period at a time, and a billable period    *)
(* yields at most one labour entry, failures and restarts included.        *)
THEOREM ClockImplementsAttendance ==
  ASSUME Serial
  PROVE  Spec => ImplementsAttendance
<1>1. ControlTypeOK /\ BreakInv /\ SerialInv /\ HoursInv /\ PayInv /\ [Next]_vars
        => BreakInv' /\ SerialInv' /\ HoursInv' /\ PayInv'
  BY TypeNext, GateNext, SerialNext, HoursNext, PayNext
<1>2. ControlTypeOK /\ BreakInv /\ SerialInv /\ SerialInv' /\ HoursInv /\ PayInv /\ [Next]_vars
        => [Abstract!Next]_(Abstract!vars)
  BY RefineNext
<1>3. QED
  BY <1>1, <1>2, GateInit, SerialInit, HoursInit, PayInit, RefineInit, TypeCorrect, PTL
  DEF Spec, ImplementsAttendance, Abstract!Spec
=============================================================================
