----------------------------- MODULE Attendance -----------------------------
(***************************************************************************)
(* What the time clock promises, free of rows, requests and failures: an   *)
(* employee is out, working or on a break, works one period at a time, and *)
(* every billable period that ended yields at most one labour entry.       *)
(***************************************************************************)
EXTENDS Naturals

CONSTANTS Employees, Billable

VARIABLES
  presence,  \* where each employee is
  owed,      \* billable periods that ended without a labour entry so far
  entries    \* labour entries

vars == <<presence, owed, entries>>

Init ==
  /\ presence = [e \in Employees |-> "out"]
  /\ owed = [e \in Employees |-> 0]
  /\ entries = [e \in Employees |-> 0]

Move(e, from, to) ==
  /\ presence[e] \in from
  /\ presence' = [presence EXCEPT ![e] = to]

Arrive(e) == Move(e, {"out"}, "working") /\ UNCHANGED <<owed, entries>>
Rest(e) == Move(e, {"working"}, "resting") /\ UNCHANGED <<owed, entries>>
Resume(e) == Move(e, {"resting"}, "working") /\ UNCHANGED <<owed, entries>>

(* A period without a project costs nothing.                               *)
Leave(e) ==
  /\ Move(e, {"working", "resting"}, "out")
  /\ \/ e \in Billable /\ owed' = [owed EXCEPT ![e] = @ + 1]
     \/ UNCHANGED owed
  /\ UNCHANGED entries

Post(e) ==
  /\ owed[e] > 0
  /\ owed' = [owed EXCEPT ![e] = @ - 1]
  /\ entries' = [entries EXCEPT ![e] = @ + 1]
  /\ UNCHANGED presence

Next == \E e \in Employees : Arrive(e) \/ Rest(e) \/ Resume(e) \/ Leave(e) \/ Post(e)

Spec == Init /\ [][Next]_vars
=============================================================================
