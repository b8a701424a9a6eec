----------------------------- MODULE MCTimeClock -----------------------------
(* TimeClock on small instances. *)
EXTENDS TimeClock

(* No location rule, overtime from the third minute of a day, the fourth of *)
(* a week; a shift is missed one minute after its start.                   *)
PlainSettings ==
  [gps_required |-> FALSE, gps_unavailable_action |-> "allow_flagged",
   clock_in_mode |-> "anywhere", geofence_violation_action |-> "warn_only",
   require_job_tag |-> FALSE, require_task_tag |-> FALSE, overtime_enabled |-> TRUE,
   daily_threshold |-> 2, weekly_threshold |-> 3, pay_period_start_day |-> 1,
   missed_threshold |-> 1, reminder |-> 1]

(* Location enforced: outside is flagged, no coordinates are refused.      *)
GpsSettings ==
  [PlainSettings EXCEPT !.gps_required = TRUE, !.gps_unavailable_action = "block",
                        !.clock_in_mode = "specific_addresses", !.require_job_tag = TRUE, !.require_task_tag = TRUE]

RowSymmetry == Permutations(Sessions) \cup Permutations(Breaks)
SlotSymmetry == RowSymmetry \cup Permutations(Requests)
JobSymmetry == Permutations(Shifts) \cup Permutations(Jobs)
=============================================================================
