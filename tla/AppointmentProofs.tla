--------------------------- MODULE AppointmentProofs ---------------------------
(***************************************************************************)
(* Appointments and their calendar events, for any number of requests,     *)
(* rows, events, start times and faults: the types, one live row per       *)
(* booking, what is over stays over, and the service request and the       *)
(* calendar event follow the last row, with the exceptions the properties  *)
(* name.  Each invariant is proved step by step over the one before it:    *)
(* BaseInv, LiveInv, VisitInv, EventInv.                                   *)
(***************************************************************************)
EXTENDS Appointment, FiniteSetTheorems, SequenceTheorems, WellFoundedInduction, TLAPS

Labels  == {"idle", "write", "request", "calendar"}
Workers == [pc : {"idle", "create", "store", "update", "delete", "ack"}, job : Jobs,
            event : 0 .. MaxEvents]
Locals  == [op : LifecycleOps \cup {"none", "create"}, appt : 0 .. MaxAppts,
            event : 0 .. MaxEvents, start : Starts \cup {0}]

Active    == {r \in Requests : pc[r] # "idle"}
Inserting == {r \in Requests : pc[r] = "write" /\ loc[r].op = "reschedule"}

Types ==
  /\ appts \in [Appts -> Rows]
  /\ visit \subseteq ServiceRequests
  /\ event \in [1 .. MaxEvents -> Starts \cup {0}]
  /\ made \in 0 .. MaxEvents
  /\ queue \in Seq(Jobs)
  /\ worker \in Workers
  /\ pc \in [Requests -> Labels]
  /\ loc \in [Requests -> Locals]
  /\ faults \in 0 .. MaxFaults
  /\ overlapped \subseteq Appts
  /\ excused \subseteq Appts

\* The rows are numbered without gaps, and there is a number for every row that
\* requests in flight may still insert.
Numbered ==
  \E n \in 0 .. MaxAppts : Booked = 1 .. n /\ n + Cardinality(Inserting) <= MaxAppts

\* A row belongs to a booking, its first row, and is about its service request.
RowOK(a) ==
  LET row == appts[a] IN
    /\ row.start \in Starts
    /\ row.sr \in ServiceRequests
    /\ row.root \in Booked /\ row.root <= a
    /\ appts[row.root].root = row.root
    /\ appts[row.root].sr = row.sr

\* A request in flight is about a row there is; the one that has a calendar job
\* left to queue has the event the job needs.
RequestOK(r) ==
  LET l == loc[r] IN
    /\ l.appt \in Booked
    /\ pc[r] = "write" => /\ l.op \in LifecycleOps
                          /\ l.op = "reschedule" => l.start \in Starts
    /\ pc[r] = "request" => l.op \in {"create", "cancel", "no_show"}
    /\ pc[r] = "calendar" => /\ l.op \in {"create", "cancel", "reschedule"}
                             /\ l.op = "cancel" => l.event # 0
                             /\ l.op = "reschedule" => appts[l.appt].event # 0

\* A job is about a row there is, and has the event it needs.
JobOK(job) ==
  /\ job.kind # "none"
  /\ job.appt \in Booked
  /\ HasEvent(job)

WorkerOK ==
  /\ worker.pc = "idle" => worker.job = NoJob
  /\ worker.pc # "idle" => JobOK(worker.job)
  /\ worker.pc \in {"create", "update", "delete"} => worker.job.kind = worker.pc
  /\ worker.pc = "store" => worker.job.kind = "create" /\ worker.event # 0

BaseInv ==
  /\ Types
  /\ Numbered
  /\ \A a \in Booked : RowOK(a)
  /\ \A r \in Active : RequestOK(r)
  /\ \A i \in DOMAIN queue : JobOK(queue[i])
  /\ WorkerOK

\* While requests on a booking come one after the other, all its rows but the
\* last have been rescheduled, and a request about to write still finds its row
\* live, as it read it.
LiveInv ==
  /\ \A a, b \in Booked : a < b /\ appts[a].root = appts[b].root /\ appts[a].root \notin overlapped
       => appts[a].status = "rescheduled"
  /\ \A r \in Active : Root(r) \notin overlapped =>
       /\ \A s \in Active : Root(s) = Root(r) => s = r
       /\ pc[r] = "write" \/ loc[r].op = "create" => IsLive(loc[r].appt)

----------------------------------------------------------------------------
\* The inductive invariant of the service request.
Clean(root) == root \notin overlapped /\ root \notin excused
Over(a)     == appts[a].status \in {"cancelled", "no_show"}
IsLast(a)   == \A b \in Booked : appts[b].root = appts[a].root => b <= a
RootsOf(sr) == {root \in Booked : appts[root].root = root /\ appts[root].sr = sr}

\* A request that still has to make its service request new again, or a visit.
Undoing(sr)  == \E r \in Active : /\ pc[r] = "request" /\ loc[r].op \in {"cancel", "no_show"}
                                  /\ appts[loc[r].appt].sr = sr
Visiting(sr) == \E r \in Active : /\ pc[r] = "request" /\ loc[r].op = "create"
                                  /\ appts[loc[r].appt].sr = sr

\* A request that has cancelled a row, or marked it missed, finds it so later.
UndoingInv ==
  \A r \in Active : /\ pc[r] = "request" /\ loc[r].op \in {"cancel", "no_show"}
                    /\ Root(r) \notin overlapped
                    => Over(loc[r].appt)

\* A service request that is a scheduled visit has a booking that is neither
\* cancelled nor missed, or a request is about to make it new again; one whose
\* only booking is live is a scheduled visit, or a request is about to make it one.
VisitOK(sr) ==
  /\ sr \in visit => \/ \E a \in Booked : appts[a].sr = sr /\ IsLast(a) /\ ~Over(a)
                     \/ Undoing(sr)
  /\ \A a \in Booked : appts[a].sr = sr /\ IsLast(a) /\ IsLive(a) /\ RootsOf(sr) = {appts[a].root}
       => sr \in visit \/ Visiting(sr)

VisitInv ==
  /\ UndoingInv
  /\ \A sr \in ServiceRequests : (\A root \in RootsOf(sr) : Clean(root)) => VisitOK(sr)

----------------------------------------------------------------------------
\* The inductive invariant of the calendar.
JobRoot(job) == appts[job.appt].root

\* A row, a request in flight or a job of the booking has the event's id.
Claim(g, root) ==
  \/ \E a \in Booked : appts[a].event = g /\ appts[a].root = root
  \/ \E r \in Active : loc[r].event = g /\ Root(r) = root
  \/ \E i \in DOMAIN queue : queue[i].event = g /\ JobRoot(queue[i]) = root
  \/ worker.pc # "idle" /\ worker.job.event = g /\ JobRoot(worker.job) = root

\* An event belongs to one booking, and one about to be stored is new to all.
ClaimsInv ==
  /\ \A g \in 1 .. MaxEvents, x, y \in Appts : Claim(g, x) /\ Claim(g, y) => x = y
  /\ \A g \in 1 .. MaxEvents, x \in Appts :
       Claim(g, x) => g <= made /\ (worker.pc = "store" => g # worker.event)
  /\ worker.pc = "store" => worker.event = made

Queued(root)   == {i \in DOMAIN queue : JobRoot(queue[i]) = root}
AtWork(root)   == worker.pc \notin {"idle", "ack"} /\ JobRoot(worker.job) = root
Working(root)  == {r \in Active : Root(r) = root}
Creating(root) == {r \in Working(root) : loc[r].op = "create"}

\* Before its event is known a booking has one row, and the creation of its event
\* is in exactly one place: a request, the queue, or the worker.
Unknown(root) ==
  /\ appts[root].event = 0
  /\ \A a \in Booked : appts[a].root = root => a = root
  /\ appts[root].status \notin {"cancelled", "rescheduled"}
  /\ \A r \in Working(root) : /\ loc[r].event = 0
                              /\ pc[r] # "write" => loc[r].op \notin {"cancel", "reschedule"}
  /\ \/ Creating(root) # {} /\ Queued(root) = {} /\ ~AtWork(root)
     \/ /\ Creating(root) = {} /\ ~AtWork(root)
        /\ \E i \in Queued(root) : queue[i].kind = "create" /\ \A j \in Queued(root) : j = i
     \/ /\ Creating(root) = {} /\ Queued(root) = {}
        /\ AtWork(root) /\ worker.pc \in {"create", "store"}
        /\ worker.pc = "store" => event[worker.event] = appts[root].start

\* Once it is known, every row of the booking has it, and so has every request and
\* job that cancels or moves it; nothing creates another.
Known(root) ==
  /\ appts[root].event # 0
  /\ \A a \in Booked : appts[a].root = root => appts[a].event = appts[root].event
  /\ \A r \in Working(root) :
       /\ loc[r].op # "create"
       /\ loc[r].event \in {0, appts[root].event}
       /\ pc[r] # "write" /\ loc[r].op = "cancel" =>
            loc[r].event = appts[root].event /\ appts[loc[r].appt].status = "cancelled"
       /\ pc[r] # "write" /\ loc[r].op = "reschedule" => IsLive(loc[r].appt)
  /\ \A i \in Queued(root) : /\ queue[i].kind # "create"
                             /\ queue[i].kind = "delete" => queue[i].event = appts[root].event
  /\ AtWork(root) => /\ worker.pc \in {"update", "delete"}
                     /\ worker.pc = "delete" => worker.job.event = appts[root].event

\* The event is where the last row says, or the job that will move it there is the
\* last one on its way for the booking.
Moving(root, a) ==
  \/ \E r \in Working(root) : pc[r] = "calendar" /\ loc[r].op = "reschedule" /\ loc[r].appt = a
  \/ \E i \in Queued(root) : /\ queue[i].kind = "update" /\ queue[i].appt = a
                             /\ \A j \in Queued(root) : j <= i
  \/ /\ Queued(root) = {}
     /\ AtWork(root) /\ worker.pc = "update" /\ worker.job.appt = a
  \/ /\ Queued(root) = {} /\ ~AtWork(root)
     /\ event[appts[root].event] = appts[a].start

\* A cancelled booking's event is gone, or its deletion is on its way.
Deleting(root) ==
  \/ event[appts[root].event] = 0
  \/ \E r \in Working(root) : pc[r] # "write" /\ loc[r].op = "cancel"
  \/ \E i \in Queued(root) : queue[i].kind = "delete"
  \/ AtWork(root) /\ worker.pc = "delete"

Followed(root, a) ==
  /\ appts[a].status = "cancelled" => Deleting(root)
  /\ appts[a].status # "cancelled" =>
       /\ event[appts[root].event] # 0
       /\ Moving(root, a)
       /\ \A i \in Queued(root) : queue[i].kind # "delete"
       /\ ~(AtWork(root) /\ worker.pc = "delete")

EventOK(root) ==
  \/ Unknown(root)
  \/ Known(root) /\ \A a \in Booked : appts[a].root = root /\ IsLast(a) => Followed(root, a)

EventInv ==
  /\ ClaimsInv
  /\ \A root \in Booked : appts[root].root = root /\ Clean(root) => EventOK(root)

----------------------------------------------------------------------------
\* The rows.
LEMMA BookedSize ==
  ASSUME Types, NEW n \in 0 .. MaxAppts, Booked = 1 .. n
  PROVE  NewRow = n + 1 /\ NewRow \notin Booked
  <1>1. n \in Nat
    BY AppointmentAssumption
  <1>2. Cardinality(1 .. n) = n
    BY <1>1, FS_Interval
  <1> QED BY <1>1, <1>2 DEF NewRow

(* Only finitely many requests insert a row at a time.                     *)
LEMMA InsertingFinite ==
  IsFiniteSet(Inserting) /\ Cardinality(Inserting) \in Nat
  <1>1. Inserting \subseteq Requests
    BY DEF Inserting
  <1> QED BY <1>1, AppointmentAssumption, FS_Subset, FS_CardinalityType

\* There is room for the row a reschedule is about to insert.
LEMMA RoomToInsert ==
  ASSUME Types, Numbered, NEW r \in Inserting
  PROVE  NewRow \in Appts /\ NewRow \notin Booked
  <1>1. PICK n \in 0 .. MaxAppts : Booked = 1 .. n /\ n + Cardinality(Inserting) <= MaxAppts
    BY DEF Numbered
  <1>2. Cardinality(Inserting) # 0
    BY InsertingFinite, FS_EmptySet
  <1> QED BY <1>1, <1>2, InsertingFinite, BookedSize, AppointmentAssumption DEF Appts

(* The next row's number is free, and still leaves room for the            *)
(* reschedules under way.                                                  *)
LEMMA RoomToCreate ==
  ASSUME Types, Numbered, Room
  PROVE  /\ NewRow \in Appts /\ NewRow \notin Booked
         /\ NewRow + Cardinality(Inserting) <= MaxAppts
  <1>1. PICK n \in 0 .. MaxAppts : Booked = 1 .. n
    BY DEF Numbered
  <1>2. NewRow = n + 1 /\ NewRow \notin Booked
    BY <1>1, BookedSize
  <1>3. NewRow + Cardinality(Inserting) \in Appts
    BY DEF Room, Inserting
  <1> QED BY <1>2, <1>3, InsertingFinite, AppointmentAssumption DEF Appts

\* What a step does to the rows there are: it may change their status and give
\* them an event.
Grows ==
  /\ Booked \subseteq Booked'
  /\ \A a \in Booked : /\ appts'[a].start = appts[a].start
                       /\ appts'[a].sr = appts[a].sr
                       /\ appts'[a].root = appts[a].root
                       /\ appts[a].event # 0 => appts'[a].event # 0

\* The status of a row is written.
LEMMA StatusWritten ==
  ASSUME Types, NEW a \in Booked, NEW s \in Statuses \ {"none"},
         appts' = [appts EXCEPT ![a].status = s]
  PROVE  /\ appts' \in [Appts -> Rows]
         /\ Booked' = Booked
         /\ \A b \in Appts : /\ appts'[b].start = appts[b].start /\ appts'[b].sr = appts[b].sr
                             /\ appts'[b].root = appts[b].root /\ appts'[b].event = appts[b].event
                             /\ appts'[b].status = IF b = a THEN s ELSE appts[b].status
  <1>1. a \in Appts /\ appts[a].status # "none"
    BY DEF Booked
  <1>2. appts' \in [Appts -> Rows]
    BY <1>1 DEF Types, Rows
  <1>3. \A b \in Appts : /\ appts'[b].start = appts[b].start /\ appts'[b].sr = appts[b].sr
                         /\ appts'[b].root = appts[b].root /\ appts'[b].event = appts[b].event
                         /\ appts'[b].status = IF b = a THEN s ELSE appts[b].status
    BY <1>1 DEF Types, Rows
  <1>4. Booked' = Booked
    BY <1>1, <1>3 DEF Booked
  <1> QED BY <1>2, <1>3, <1>4

\* The id of an event is stored.
LEMMA EventStored ==
  ASSUME Types, NEW a \in Booked, NEW g \in 0 .. MaxEvents,
         appts' = [appts EXCEPT ![a].event = g]
  PROVE  /\ appts' \in [Appts -> Rows]
         /\ Booked' = Booked
         /\ \A b \in Appts : /\ appts'[b].start = appts[b].start /\ appts'[b].sr = appts[b].sr
                             /\ appts'[b].root = appts[b].root /\ appts'[b].status = appts[b].status
                             /\ appts'[b].event = IF b = a THEN g ELSE appts[b].event
  <1>1. a \in Appts
    BY DEF Booked
  <1>2. appts' \in [Appts -> Rows]
    BY <1>1 DEF Types, Rows
  <1>3. \A b \in Appts : /\ appts'[b].start = appts[b].start /\ appts'[b].sr = appts[b].sr
                         /\ appts'[b].root = appts[b].root /\ appts'[b].status = appts[b].status
                         /\ appts'[b].event = IF b = a THEN g ELSE appts[b].event
    BY <1>1 DEF Types, Rows
  <1>4. Booked' = Booked
    BY <1>1, <1>3 DEF Booked
  <1> QED BY <1>2, <1>3, <1>4

\* A booking is made.
LEMMA RowCreated ==
  ASSUME Types, Numbered, Room, NEW sr \in ServiceRequests, NEW t \in Starts,
         appts' = [appts EXCEPT ![NewRow] = [status |-> "scheduled", start |-> t, sr |-> sr,
                                             event |-> 0, root |-> NewRow]]
  PROVE  /\ appts' \in [Appts -> Rows]
         /\ NewRow \in Appts \ Booked
         /\ Booked' = Booked \cup {NewRow}
         /\ \A b \in Appts \ {NewRow} : appts'[b] = appts[b]
         /\ appts'[NewRow].status = "scheduled" /\ appts'[NewRow].start = t
         /\ appts'[NewRow].sr = sr /\ appts'[NewRow].event = 0 /\ appts'[NewRow].root = NewRow
  <1> DEFINE n == NewRow
  <1>1. n \in Appts /\ n \notin Booked
    BY RoomToCreate
  <1>2. appts' = [appts EXCEPT ![n] = [status |-> "scheduled", start |-> t, sr |-> sr,
                                       event |-> 0, root |-> n]]
    OBVIOUS
  <1> HIDE DEF n
  <1>3. n \in 0 .. MaxAppts
    BY <1>1, AppointmentAssumption DEF Appts
  <1>4. [status |-> "scheduled", start |-> t, sr |-> sr, event |-> 0, root |-> n] \in Rows
    BY <1>3, AppointmentAssumption DEF Rows, Statuses, LiveStates
  <1>5. appts' \in [Appts -> Rows]
    BY <1>1, <1>2, <1>4 DEF Types
  <1>6. /\ \A b \in Appts \ {n} : appts'[b] = appts[b]
        /\ appts'[n] = [status |-> "scheduled", start |-> t, sr |-> sr, event |-> 0, root |-> n]
    BY <1>1, <1>2 DEF Types
  <1>7. Booked' = Booked \cup {n}
    BY <1>1, <1>6 DEF Booked
  <1> QED BY <1>1, <1>5, <1>6, <1>7 DEF n

\* An appointment is moved: its row is marked, and a new one takes its place.
LEMMA RowMoved ==
  ASSUME Types, Numbered, NEW r \in Inserting, loc[r].appt \in Booked,
         loc[r].start \in Starts, WriteRow(r)
  PROVE  /\ appts' \in [Appts -> Rows]
         /\ NewRow \in Appts \ Booked
         /\ Booked' = Booked \cup {NewRow}
         /\ \A b \in Appts \ {NewRow} :
              /\ appts'[b].start = appts[b].start /\ appts'[b].sr = appts[b].sr
              /\ appts'[b].root = appts[b].root /\ appts'[b].event = appts[b].event
              /\ appts'[b].status = IF b = loc[r].appt THEN "rescheduled" ELSE appts[b].status
         /\ appts'[NewRow].status = "scheduled" /\ appts'[NewRow].start = loc[r].start
         /\ appts'[NewRow].sr = appts[loc[r].appt].sr /\ appts'[NewRow].event = loc[r].event
         /\ appts'[NewRow].root = appts[loc[r].appt].root
  <1> DEFINE n == NewRow
             a == loc[r].appt
             t == loc[r].start
             g == loc[r].event
  <1>a. r \in Requests /\ loc[r].op = "reschedule"
    BY DEF Inserting
  <1>b. a \in Booked /\ t \in Starts /\ g \in 0 .. MaxEvents
    BY <1>a DEF Types, Locals
  <1>0. appts' = [appts EXCEPT ![a].status = "rescheduled",
                    ![n] = [appts[a] EXCEPT !.status = "scheduled", !.start = t, !.event = g]]
    BY <1>a DEF WriteRow
  <1>1. n \in Appts /\ n \notin Booked
    BY RoomToInsert
  <1> HIDE DEF n, a, t, g
  <1>2. a \in Appts /\ a # n /\ appts[a] \in Rows
    BY <1>1, <1>b DEF Booked, Types
  <1> DEFINE moved == [appts[a] EXCEPT !.status = "scheduled", !.start = t, !.event = g]
             marked == [appts[a] EXCEPT !.status = "rescheduled"]
  <1>3. /\ moved \in Rows /\ moved.status = "scheduled" /\ moved.start = t
        /\ moved.sr = appts[a].sr /\ moved.event = g /\ moved.root = appts[a].root
    BY <1>2, <1>b DEF Rows, Statuses, LiveStates
  <1>4. /\ marked \in Rows /\ marked.status = "rescheduled" /\ marked.start = appts[a].start
        /\ marked.sr = appts[a].sr /\ marked.event = appts[a].event
        /\ marked.root = appts[a].root
    BY <1>2, <1>b DEF Rows, Statuses, TerminalStates
  <1>5. appts' = [appts EXCEPT ![a] = marked, ![n] = moved]
    BY <1>0, <1>1, <1>2 DEF Types
  <1> HIDE DEF moved, marked
  <1>6. appts' \in [Appts -> Rows]
    BY <1>1, <1>2, <1>3, <1>4, <1>5 DEF Types
  <1>7. /\ \A b \in Appts \ {n, a} : appts'[b] = appts[b]
        /\ appts'[n] = moved /\ appts'[a] = marked
    BY <1>1, <1>2, <1>5 DEF Types
  <1>8. Booked' = Booked \cup {n}
    BY <1>1, <1>2, <1>3, <1>4, <1>7, <1>b DEF Booked
  <1> QED BY <1>1, <1>2, <1>3, <1>4, <1>6, <1>7, <1>8 DEF n, a, t, g

----------------------------------------------------------------------------
\* What a step leaves alone stays well formed.
LEMMA NumberedKept ==
  ASSUME Types, Numbered, Booked' = Booked, Inserting' \subseteq Inserting
  PROVE  Numbered'
  <1>1. Cardinality(Inserting') <= Cardinality(Inserting) /\ Cardinality(Inserting') \in Nat
    BY InsertingFinite, FS_Subset, FS_CardinalityType
  <1>2. PICK n \in 0 .. MaxAppts : Booked = 1 .. n /\ n + Cardinality(Inserting) <= MaxAppts
    BY DEF Numbered
  <1>3. Booked' = 1 .. n /\ n + Cardinality(Inserting') <= MaxAppts
    BY <1>1, <1>2, InsertingFinite, AppointmentAssumption
  <1> QED BY <1>3 DEF Numbered

(* Rows that keep their start, service request and root stay well formed.  *)
LEMMA RowsCarried ==
  ASSUME \A a \in Booked : RowOK(a), Booked' = Booked,
         \A a \in Booked : /\ appts'[a].start = appts[a].start /\ appts'[a].sr = appts[a].sr
                           /\ appts'[a].root = appts[a].root
  PROVE  (\A a \in Booked : RowOK(a))'
  BY DEF RowOK

(* A step of one request leaves the others' locals well formed.            *)
LEMMA RequestsCarried ==
  ASSUME Grows, \A s \in Active : RequestOK(s), NEW r \in Requests,
         \A s \in Requests \ {r} : pc'[s] = pc[s] /\ loc'[s] = loc[s],
         pc'[r] # "idle" => RequestOK(r)'
  PROVE  (\A s \in Active : RequestOK(s))'
  <1> SUFFICES ASSUME NEW s \in Active' PROVE RequestOK(s)'
    OBVIOUS
  <1>1. CASE s = r
    BY <1>1 DEF Active
  <1>2. CASE s # r
    <2>1. s \in Active /\ pc'[s] = pc[s] /\ loc'[s] = loc[s]
      BY <1>2 DEF Active
    <2>2. RequestOK(s)
      BY <2>1
    <2> QED BY <2>1, <2>2 DEF RequestOK, Grows
  <1> QED BY <1>1, <1>2

(* So does a step of no request.                                           *)
LEMMA RequestsStay ==
  ASSUME Grows, \A s \in Active : RequestOK(s), UNCHANGED <<pc, loc>>
  PROVE  (\A s \in Active : RequestOK(s))'
  BY DEF Active, RequestOK, Grows

(* A job stays well formed while the table grows.                          *)
LEMMA JobCarried ==
  ASSUME Grows
  PROVE  \A j : JobOK(j) => /\ j.kind # "none" /\ j.appt \in Booked'
                            /\ j.kind = "update" => appts'[j.appt].event # 0
                            /\ j.kind = "delete" => j.event # 0
  BY DEF JobOK, HasEvent, Grows

(* A queue that gains only well-formed jobs stays well formed.             *)
LEMMA QueueCarried ==
  ASSUME Grows, \A i \in DOMAIN queue : JobOK(queue[i]),
         \A i \in DOMAIN queue' : (\E k \in DOMAIN queue : queue'[i] = queue[k]) \/ JobOK(queue'[i])
  PROVE  (\A i \in DOMAIN queue : JobOK(queue[i]))'
  <1>1. ASSUME NEW i \in DOMAIN queue' PROVE JobOK(queue'[i])
    BY <1>1
  <1> QED BY <1>1, JobCarried DEF JobOK, HasEvent

(* The worker's job stays well formed while the table grows.               *)
LEMMA WorkerCarried ==
  ASSUME Grows, WorkerOK, worker' = worker
  PROVE  WorkerOK'
  <1>1. worker.pc # "idle" => JobOK(worker.job)
    BY DEF WorkerOK
  <1>2. (worker.pc # "idle" => JobOK(worker.job))'
    BY <1>1, JobCarried DEF JobOK, HasEvent
  <1> QED BY <1>2 DEF WorkerOK

(* A table that does not change grows trivially.                           *)
LEMMA NothingGrows ==
  ASSUME appts' = appts
  PROVE  Grows /\ Booked' = Booked
  BY DEF Grows, Booked

\* Jobs that are added to the queue or leave it.
LEMMA JobAppended ==
  ASSUME queue \in Seq(Jobs), NEW j \in Jobs, queue' = Append(queue, j)
  PROVE  /\ queue' \in Seq(Jobs)
         /\ Len(queue') = Len(queue) + 1
         /\ DOMAIN queue' = DOMAIN queue \cup {Len(queue) + 1}
         /\ \A i \in DOMAIN queue : queue'[i] = queue[i]
         /\ queue'[Len(queue) + 1] = j
  OBVIOUS

(* Taking the first job shifts the others by one.                          *)
LEMMA JobTaken ==
  ASSUME queue \in Seq(Jobs), queue # << >>, queue' = Tail(queue)
  PROVE  /\ queue' \in Seq(Jobs) /\ Head(queue) = queue[1] /\ 1 \in DOMAIN queue
         /\ Len(queue') = Len(queue) - 1 /\ Len(queue) > 0
         /\ \A i \in DOMAIN queue' : i + 1 \in DOMAIN queue /\ queue'[i] = queue[i + 1]
         /\ \A i \in DOMAIN queue \ {1} : i - 1 \in DOMAIN queue' /\ queue'[i - 1] = queue[i]
  OBVIOUS

(* Returning a job to the front shifts the others by one.                  *)
LEMMA JobReturned ==
  ASSUME queue \in Seq(Jobs), NEW j \in Jobs, queue' = <<j>> \o queue
  PROVE  /\ queue' \in Seq(Jobs)
         /\ Len(queue') = Len(queue) + 1
         /\ queue'[1] = j
         /\ \A i \in DOMAIN queue' \ {1} : i - 1 \in DOMAIN queue /\ queue'[i] = queue[i - 1]
         /\ \A i \in DOMAIN queue : i + 1 \in DOMAIN queue' /\ queue'[i + 1] = queue[i]
  OBVIOUS

----------------------------------------------------------------------------
\* What a request does to the control state.
LEMMA NoLocalsTyped == NoLocals \in Locals /\ NoJob \in Jobs /\ NoWork \in Workers
  <1>1. NoLocals \in Locals /\ NoJob \in Jobs
    BY AppointmentAssumption DEF NoLocals, Locals, NoJob, Jobs
  <1> QED BY <1>1, AppointmentAssumption DEF NoWork, Workers

(* What a request's move changes.                                          *)
LEMMA Went ==
  ASSUME Types, NEW r \in Requests, NEW next \in Labels, NEW l \in Locals, Goto(r, next, l)
  PROVE  /\ pc' \in [Requests -> Labels] /\ loc' \in [Requests -> Locals]
         /\ pc'[r] = next /\ (next # "idle" => loc'[r] = l)
         /\ \A s \in Requests \ {r} : pc'[s] = pc[s] /\ loc'[s] = loc[s]
         /\ next # "write" => Inserting' = Inserting \ {r}
         /\ Active' = (IF next = "idle" THEN Active \ {r} ELSE Active \cup {r})
  <1>1. /\ pc' \in [Requests -> Labels]
        /\ pc'[r] = next /\ \A s \in Requests \ {r} : pc'[s] = pc[s]
    BY DEF Goto, Types
  <1>2. /\ loc' \in [Requests -> Locals]
        /\ next # "idle" => loc'[r] = l
        /\ \A s \in Requests \ {r} : loc'[s] = loc[s]
    BY NoLocalsTyped DEF Goto, Types
  <1>3. next # "write" => Inserting' = Inserting \ {r}
    BY <1>1, <1>2 DEF Inserting
  <1>4. Active' = (IF next = "idle" THEN Active \ {r} ELSE Active \cup {r})
    BY <1>1 DEF Active
  <1> QED BY <1>1, <1>2, <1>3, <1>4

----------------------------------------------------------------------------
\* The actions keep what BaseInv says.
LEMMA BeginBase ==
  ASSUME BaseInv, NEW r \in Requests, NEW op \in LifecycleOps, NEW a \in Appts,
         NEW t \in Starts \cup {0}, Begin(r, op, a, t)
  PROVE  BaseInv'
  <1> DEFINE l == [op |-> op, appt |-> a, event |-> appts[a].event, start |-> t]
  <1>1. /\ Goto(r, "write", l) /\ a \in Booked /\ pc[r] = "idle"
        /\ op = "reschedule" => Room /\ t \in Starts
        /\ UNCHANGED <<appts, visit, event, made, worker, queue, excused>>
    BY DEF Begin, outbound
  <1>2. /\ l \in Locals /\ l.op = op /\ l.appt = a /\ l.start = t
    BY <1>1, AppointmentAssumption DEF Locals, BaseInv, Types, Rows, Booked, Appts
  <1> HIDE DEF l
  <1>3. /\ pc' \in [Requests -> Labels] /\ loc' \in [Requests -> Locals]
        /\ pc'[r] = "write" /\ loc'[r] = l
        /\ \A s \in Requests \ {r} : pc'[s] = pc[s] /\ loc'[s] = loc[s]
    BY <1>1, <1>2, Went DEF BaseInv, Labels
  <1>4. faults' \in 0 .. MaxFaults /\ overlapped' \subseteq Appts
    <2>1. appts[a].root \in Appts
      BY <1>1 DEF BaseInv, RowOK, Booked
    <2> QED BY <2>1, AppointmentAssumption DEF Begin, BaseInv, Types
  <1>5. Types'
    BY <1>1, <1>3, <1>4 DEF BaseInv, Types
  <1>6. Numbered'
    <2>1. Inserting' = IF op = "reschedule" THEN Inserting \cup {r} ELSE Inserting
      BY <1>1, <1>2, <1>3 DEF Inserting
    <2>2. CASE op # "reschedule"
      BY <1>1, <2>1, <2>2, NothingGrows, NumberedKept DEF BaseInv
    <2>3. CASE op = "reschedule"
      <3>0. Inserting' = Inserting \cup {r}
        BY <2>1, <2>3
      <3>1. Cardinality(Inserting') <= Cardinality(Inserting) + 1 /\ Cardinality(Inserting') \in Nat
        <4>1. IsFiniteSet(Inserting)
          BY InsertingFinite
        <4>2. /\ IsFiniteSet(Inserting \cup {r})
              /\ Cardinality(Inserting \cup {r}) =
                   IF r \in Inserting THEN Cardinality(Inserting) ELSE Cardinality(Inserting) + 1
          BY <4>1, FS_AddElement
        <4>3. Cardinality(Inserting') \in Nat
          BY <3>0, <4>2, FS_CardinalityType
        <4> QED BY <3>0, <4>2, <4>3, InsertingFinite
      <3>2. PICK n \in 0 .. MaxAppts : Booked = 1 .. n
        BY DEF BaseInv, Numbered
      <3>3. n + 1 + Cardinality(Inserting) <= MaxAppts
        BY <1>1, <2>3, <3>2, BookedSize, RoomToCreate DEF BaseInv
      <3>4. Booked' = 1 .. n /\ n + Cardinality(Inserting') <= MaxAppts
        BY <1>1, <3>1, <3>2, <3>3, NothingGrows, InsertingFinite, AppointmentAssumption
      <3> QED BY <3>4 DEF Numbered
    <2> QED BY <2>2, <2>3
  <1>7. RequestOK(r)'
    BY <1>1, <1>2, <1>3, NothingGrows DEF RequestOK
  <1>8. (\A s \in Active : RequestOK(s))'
    BY <1>1, <1>3, <1>7, NothingGrows, RequestsCarried DEF BaseInv
  <1>9. (\A b \in Booked : RowOK(b))'
    BY <1>1, NothingGrows, RowsCarried DEF BaseInv
  <1>10. (\A i \in DOMAIN queue : JobOK(queue[i]))' /\ WorkerOK'
    BY <1>1, NothingGrows, QueueCarried, WorkerCarried DEF BaseInv
  <1> QED BY <1>5, <1>6, <1>8, <1>9, <1>10 DEF BaseInv

(* createAppointment keeps the types and the numbering of rows.            *)
LEMMA CreateBase ==
  ASSUME BaseInv, NEW r \in Requests, NEW sr \in ServiceRequests, NEW t \in Starts,
         Create(r, sr, t)
  PROVE  BaseInv' /\ Grows
  <1> DEFINE n == NewRow
             l == [NoLocals EXCEPT !.op = "create", !.appt = n]
  <1>1. /\ Goto(r, "request", l) /\ Room /\ pc[r] = "idle"
        /\ appts' = [appts EXCEPT ![NewRow] = [status |-> "scheduled", start |-> t, sr |-> sr,
                                               event |-> 0, root |-> NewRow]]
        /\ UNCHANGED <<visit, event, made, worker, queue, faults, overlapped, excused>>
    BY DEF Create, outbound
  <1>2. /\ appts' \in [Appts -> Rows]
        /\ n \in Appts \ Booked
        /\ Booked' = Booked \cup {n}
        /\ \A b \in Appts \ {n} : appts'[b] = appts[b]
        /\ appts'[n].start = t /\ appts'[n].sr = sr /\ appts'[n].root = n
    BY <1>1, RowCreated DEF BaseInv
  <1> HIDE DEF n
  <1>3. l \in Locals /\ l.op = "create" /\ l.appt = n
    <2>1. n \in 0 .. MaxAppts
      BY <1>2, AppointmentAssumption DEF Appts
    <2> QED BY <2>1, NoLocalsTyped DEF Locals
  <1> HIDE DEF l
  <1>4. /\ pc' \in [Requests -> Labels] /\ loc' \in [Requests -> Locals]
        /\ pc'[r] = "request" /\ loc'[r] = l
        /\ \A s \in Requests \ {r} : pc'[s] = pc[s] /\ loc'[s] = loc[s]
        /\ Inserting' = Inserting \ {r}
    BY <1>1, <1>3, Went DEF BaseInv, Labels
  <1>5. Types'
    BY <1>1, <1>2, <1>4 DEF BaseInv, Types
  <1>6. Grows
    BY <1>2 DEF Grows, Booked
  <1>7. Numbered'
    <2>1. Inserting' = Inserting
      BY <1>1, <1>4 DEF Inserting
    <2>2. PICK m \in 0 .. MaxAppts : Booked = 1 .. m
      BY DEF BaseInv, Numbered
    <2>3. n = m + 1
      BY <2>2, BookedSize DEF BaseInv, n
    <2>4. n + Cardinality(Inserting') <= MaxAppts
      BY <1>1, <2>1, RoomToCreate DEF BaseInv, n
    <2>5. Booked' = 1 .. n /\ n \in 0 .. MaxAppts
      BY <1>2, <2>2, <2>3, AppointmentAssumption DEF Appts
    <2> QED BY <2>4, <2>5 DEF Numbered
  <1>8. (\A b \in Booked : RowOK(b))'
    <2>1. ASSUME NEW b \in Booked' PROVE RowOK(b)'
      <3>1. CASE b = n
        BY <1>2, <3>1, AppointmentAssumption DEF RowOK, Appts
      <3>2. CASE b # n
        <4>1. RowOK(b) /\ b \in Booked
          BY <1>2, <3>2 DEF BaseInv
        <4>2. appts[b].root # n
          BY <1>2, <4>1 DEF RowOK
        <4> QED BY <1>2, <4>1, <4>2 DEF RowOK, Booked
      <3> QED BY <3>1, <3>2
    <2> QED BY <2>1
  <1>9. RequestOK(r)'
    BY <1>2, <1>3, <1>4 DEF RequestOK
  <1>10. (\A s \in Active : RequestOK(s))'
    BY <1>4, <1>6, <1>9, RequestsCarried DEF BaseInv
  <1>11. (\A i \in DOMAIN queue : JobOK(queue[i]))' /\ WorkerOK'
    BY <1>1, <1>6, QueueCarried, WorkerCarried DEF BaseInv
  <1> QED BY <1>5, <1>6, <1>7, <1>8, <1>10, <1>11 DEF BaseInv

(* So does the write of a lifecycle operation, which inserts a row when it *)
(* reschedules.                                                            *)
LEMMA WriteBase ==
  ASSUME BaseInv, NEW r \in Requests, WriteRow(r)
  PROVE  BaseInv' /\ Grows
  <1> DEFINE a == loc[r].appt
             n == NewRow
             l == loc[r]
             m == [l EXCEPT !.appt = n]
  <1>1. /\ pc[r] = "write" /\ r \in Active /\ a \in Booked /\ l.op \in LifecycleOps
        /\ l.op = "reschedule" => l.start \in Starts
        /\ l \in Locals
    BY DEF WriteRow, BaseInv, Active, RequestOK, Types
  <1>2. /\ visit' = visit /\ event' = event /\ made' = made /\ worker' = worker /\ queue' = queue
        /\ faults' = faults /\ overlapped' = overlapped
    BY DEF WriteRow, outbound
  <1>3. excused' \subseteq Appts
    <2>1. Root(r) \in Appts
      BY <1>1 DEF Root, BaseInv, RowOK, Booked
    <2> QED BY <2>1 DEF WriteRow, BaseInv, Types
  <1>4. CASE l.op # "reschedule"
    <2>1. appts' = [appts EXCEPT ![a].status = Target(l.op)] /\ Goto(r, AfterWrite(l), l)
      BY <1>4 DEF WriteRow
    <2>2. Target(l.op) \in Statuses \ {"none"}
      BY <1>1 DEF Target, LifecycleOps, Statuses, LiveStates, TerminalStates
    <2>3. AfterWrite(l) \in {"request", "idle"}
      BY <1>4 DEF AfterWrite
    <2>a. AfterWrite(l) = "request" => l.op \in {"cancel", "no_show"}
      BY <1>4 DEF AfterWrite
    <2>4. /\ pc' \in [Requests -> Labels] /\ loc' \in [Requests -> Locals]
          /\ pc'[r] = AfterWrite(l) /\ (pc'[r] # "idle" => loc'[r] = l)
          /\ \A s \in Requests \ {r} : pc'[s] = pc[s] /\ loc'[s] = loc[s]
          /\ Inserting' \subseteq Inserting
      BY <1>1, <2>1, <2>3, Went DEF BaseInv, Labels
    <2>5. /\ appts' \in [Appts -> Rows]
          /\ Booked' = Booked
          /\ \A b \in Appts : /\ appts'[b].start = appts[b].start /\ appts'[b].sr = appts[b].sr
                              /\ appts'[b].root = appts[b].root /\ appts'[b].event = appts[b].event
      BY <1>1, <2>1, <2>2, StatusWritten DEF BaseInv
    <2>6. Grows
      BY <2>5 DEF Grows, Booked
    <2>7. Types'
      BY <1>2, <1>3, <2>4, <2>5 DEF BaseInv, Types
    <2>8. Numbered' /\ (\A b \in Booked : RowOK(b))'
      <3>1. Booked \subseteq Appts
        BY DEF Booked
      <3> QED BY <2>4, <2>5, <3>1, NumberedKept, RowsCarried DEF BaseInv
    <2>9. pc'[r] # "idle" => RequestOK(r)'
      BY <1>1, <2>3, <2>a, <2>4, <2>5 DEF RequestOK
    <2>10. (\A s \in Active : RequestOK(s))'
      BY <2>4, <2>6, <2>9, RequestsCarried DEF BaseInv
    <2>11. (\A i \in DOMAIN queue : JobOK(queue[i]))' /\ WorkerOK'
      BY <1>2, <2>6, QueueCarried, WorkerCarried DEF BaseInv
    <2> QED BY <2>6, <2>7, <2>8, <2>10, <2>11 DEF BaseInv
  <1>5. CASE l.op = "reschedule"
    <2>1. /\ appts' = [appts EXCEPT
                         ![a].status = "rescheduled",
                         ![NewRow] = [appts[a] EXCEPT !.status = "scheduled",
                                        !.start = l.start, !.event = l.event]]
          /\ Goto(r, AfterWrite(l), m)
      BY <1>5 DEF WriteRow
    <2>2. r \in Inserting /\ l.event \in 0 .. MaxEvents
      BY <1>1, <1>5 DEF Inserting, Locals
    <2>3. /\ appts' \in [Appts -> Rows]
          /\ n \in Appts \ Booked
          /\ Booked' = Booked \cup {n}
          /\ \A b \in Appts \ {n} :
               /\ appts'[b].start = appts[b].start /\ appts'[b].sr = appts[b].sr
               /\ appts'[b].root = appts[b].root /\ appts'[b].event = appts[b].event
          /\ appts'[n].start = l.start /\ appts'[n].event = l.event
          /\ appts'[n].sr = appts[a].sr /\ appts'[n].root = appts[a].root
      <3>1. l.start \in Starts
        BY <1>1, <1>5
      <3> QED BY <1>1, <2>2, <3>1, RowMoved DEF BaseInv
    <2> HIDE DEF n
    <2>4. /\ m \in Locals /\ m.op = "reschedule" /\ m.appt = n /\ m.event = l.event
      BY <1>1, <1>5, <2>3, AppointmentAssumption DEF Locals, Appts
    <2>5. AfterWrite(l) = IF l.event # 0 THEN "calendar" ELSE "idle"
      BY <1>5 DEF AfterWrite
    <2> HIDE DEF m
    <2>6. /\ pc' \in [Requests -> Labels] /\ loc' \in [Requests -> Locals]
          /\ pc'[r] = AfterWrite(l) /\ (pc'[r] # "idle" => loc'[r] = m)
          /\ \A s \in Requests \ {r} : pc'[s] = pc[s] /\ loc'[s] = loc[s]
          /\ Inserting' = Inserting \ {r}
      BY <2>1, <2>4, <2>5, Went DEF BaseInv, Labels
    <2>7. Grows
      BY <2>3 DEF Grows, Booked
    <2>8. Types'
      BY <1>2, <1>3, <2>3, <2>6 DEF BaseInv, Types
    <2>9. Numbered'
      <3>1. PICK k \in 0 .. MaxAppts : Booked = 1 .. k /\ k + Cardinality(Inserting) <= MaxAppts
        BY DEF BaseInv, Numbered
      <3>2. Cardinality(Inserting') = Cardinality(Inserting) - 1
        BY <2>2, <2>6, InsertingFinite, FS_RemoveElement
      <3>3. n = k + 1
        BY <3>1, BookedSize DEF BaseInv, n
      <3>4. Booked' = 1 .. n /\ n \in 0 .. MaxAppts /\ n + Cardinality(Inserting') <= MaxAppts
        BY <2>3, <3>1, <3>2, <3>3, InsertingFinite, AppointmentAssumption DEF Appts
      <3> QED BY <3>4 DEF Numbered
    <2>10. (\A b \in Booked : RowOK(b))'
      <3>1. ASSUME NEW b \in Booked' PROVE RowOK(b)'
        <4>1. \A c \in Booked : RowOK(c) /\ appts[c].root # n /\ appts[c].root \in Booked /\ c # n
          BY <2>3 DEF BaseInv, RowOK
        <4>2. CASE b = n
          <5>1. appts[a].root <= n
            <6>1. PICK k \in 0 .. MaxAppts : Booked = 1 .. k
              BY DEF BaseInv, Numbered
            <6>2. n = k + 1
              BY <6>1, BookedSize DEF BaseInv, n
            <6> QED BY <1>1, <4>1, <6>1, <6>2, AppointmentAssumption
          <5> QED BY <1>1, <1>5, <2>3, <4>1, <4>2, <5>1 DEF RowOK, Booked
        <4>3. CASE b # n
          BY <2>3, <4>1, <4>3 DEF RowOK, Booked
        <4> QED BY <4>2, <4>3
      <3> QED BY <3>1
    <2>11. pc'[r] # "idle" => RequestOK(r)'
      BY <2>3, <2>4, <2>5, <2>6 DEF RequestOK
    <2>12. (\A s \in Active : RequestOK(s))'
      BY <2>6, <2>7, <2>11, RequestsCarried DEF BaseInv
    <2>13. (\A i \in DOMAIN queue : JobOK(queue[i]))' /\ WorkerOK'
      BY <1>2, <2>7, QueueCarried, WorkerCarried DEF BaseInv
    <2> QED BY <2>7, <2>8, <2>9, <2>10, <2>12, <2>13 DEF BaseInv
  <1> QED BY <1>4, <1>5

\* A request that ends, or goes on, leaving the rows alone.
LEMMA GoneOn ==
  ASSUME BaseInv, NEW r \in Active, NEW next \in Labels \ {"write"}, NEW l \in Locals,
         Goto(r, next, l), appts' = appts,
         next # "idle" => RequestOK(r)'
  PROVE  /\ pc' \in [Requests -> Labels] /\ loc' \in [Requests -> Locals]
         /\ Numbered' /\ (\A a \in Booked : RowOK(a))' /\ (\A s \in Active : RequestOK(s))'
  <1>0. r \in Requests
    BY DEF Active
  <1>1. /\ pc' \in [Requests -> Labels] /\ loc' \in [Requests -> Locals]
        /\ pc'[r] = next
        /\ \A s \in Requests \ {r} : pc'[s] = pc[s] /\ loc'[s] = loc[s]
        /\ Inserting' = Inserting \ {r}
    BY <1>0, Went DEF BaseInv
  <1>2. Numbered' /\ (\A a \in Booked : RowOK(a))'
    BY <1>1, NothingGrows, NumberedKept, RowsCarried DEF BaseInv
  <1>3. (\A s \in Active : RequestOK(s))'
    BY <1>0, <1>1, NothingGrows, RequestsCarried DEF BaseInv
  <1> QED BY <1>1, <1>2, <1>3

(* Every root that a row, a request or a job names is a row's number.      *)
LEMMA RootTyped ==
  ASSUME BaseInv
  PROVE  /\ \A a \in Booked : appts[a].root \in Appts
         /\ \A r \in Active : Root(r) \in Appts
         /\ worker.pc # "idle" => appts[worker.job.appt].root \in Appts
  BY DEF BaseInv, RowOK, RequestOK, Root, WorkerOK, JobOK, Booked

(* The service request's update keeps the types.                           *)
LEMMA UpdateBase ==
  ASSUME BaseInv, NEW r \in Requests, UpdateServiceRequest(r)
  PROVE  BaseInv'
  <1> DEFINE l == loc[r]
  <1>1. /\ r \in Active /\ pc[r] = "request" /\ l.op \in {"create", "cancel", "no_show"}
        /\ l \in Locals /\ l.appt \in Booked
    BY DEF UpdateServiceRequest, Active, BaseInv, RequestOK, Types
  <1>2. /\ Goto(r, AfterRequest(l), l)
        /\ UNCHANGED <<appts, event, made, worker, queue, faults, overlapped, excused>>
    BY DEF UpdateServiceRequest, outbound
  <1>3. visit' \subseteq ServiceRequests
    <2>1. appts[l.appt].sr \in ServiceRequests
      BY <1>1 DEF BaseInv, RowOK
    <2> QED BY <2>1 DEF UpdateServiceRequest, BaseInv, Types
  <1>4. /\ AfterRequest(l) \in {"calendar", "idle"}
        /\ AfterRequest(l) = "calendar" => l.op \in {"create", "cancel"} /\ (l.op = "cancel" => l.event # 0)
    BY DEF AfterRequest
  <1>5. AfterRequest(l) # "idle" => RequestOK(r)'
    <2>1. pc'[r] = AfterRequest(l) /\ (AfterRequest(l) # "idle" => loc'[r] = l)
      BY <1>1, <1>2, <1>4, Went DEF BaseInv, Labels
    <2> QED BY <1>1, <1>2, <1>4, <2>1, NothingGrows DEF RequestOK
  <1>6. /\ pc' \in [Requests -> Labels] /\ loc' \in [Requests -> Locals]
        /\ Numbered' /\ (\A a \in Booked : RowOK(a))' /\ (\A s \in Active : RequestOK(s))'
    <2>1. AfterRequest(l) \in Labels \ {"write"}
      BY <1>4 DEF Labels
    <2> QED BY <1>1, <1>2, <1>5, <2>1, GoneOn
  <1>7. Types'
    BY <1>2, <1>3, <1>6 DEF BaseInv, Types
  <1>8. (\A i \in DOMAIN queue : JobOK(queue[i]))' /\ WorkerOK'
    BY <1>2, NothingGrows, QueueCarried, WorkerCarried DEF BaseInv
  <1> QED BY <1>6, <1>7, <1>8 DEF BaseInv

\* The job a request queues.
LEMMA CalendarJobIs ==
  ASSUME BaseInv, NEW r \in Active, pc[r] = "calendar"
  PROVE  LET l == loc[r]
             job == CalendarJob(l) IN
         /\ job \in Jobs /\ JobOK(job) /\ job.appt = l.appt
         /\ l.op \in {"create", "cancel", "reschedule"}
         /\ l.op = "create" => job.kind = "create" /\ job.event = 0
         /\ l.op = "cancel" => job.kind = "delete" /\ job.event = l.event
         /\ l.op = "reschedule" => job.kind = "update" /\ job.event = 0
  <1> DEFINE l == loc[r]
             job == CalendarJob(l)
  <1>1. /\ l \in Locals /\ l.appt \in Booked /\ l.op \in {"create", "cancel", "reschedule"}
        /\ l.op = "cancel" => l.event # 0
        /\ l.op = "reschedule" => appts[l.appt].event # 0
    BY DEF Active, BaseInv, Types, RequestOK
  <1>2. l.appt \in 0 .. MaxAppts /\ l.event \in 0 .. MaxEvents
    BY <1>1 DEF Locals
  <1> HIDE DEF l
  <1>3. CASE l.op = "create"
    <2>1. job = [NoJob EXCEPT !.kind = "create", !.appt = l.appt]
      BY <1>3 DEF CalendarJob
    <2>2. job \in Jobs /\ job.kind = "create" /\ job.appt = l.appt /\ job.event = NoJob.event
      BY <1>2, <2>1, NoLocalsTyped DEF Jobs
    <2>3. NoJob.event = 0
      BY DEF NoJob
    <2> HIDE DEF job
    <2> QED BY <1>1, <1>3, <2>2, <2>3 DEF JobOK, HasEvent, l, job
  <1>4. CASE l.op = "cancel"
    <2>1. job = [NoJob EXCEPT !.kind = "delete", !.appt = l.appt, !.event = l.event]
      BY <1>4 DEF CalendarJob
    <2>2. job \in Jobs /\ job.kind = "delete" /\ job.appt = l.appt /\ job.event = l.event
      BY <1>2, <2>1, NoLocalsTyped DEF Jobs
    <2> HIDE DEF job
    <2> QED BY <1>1, <1>4, <2>2 DEF JobOK, HasEvent, l, job
  <1>5. CASE l.op = "reschedule"
    <2>1. job = [NoJob EXCEPT !.kind = "update", !.appt = l.appt]
      BY <1>5 DEF CalendarJob
    <2>2. job \in Jobs /\ job.kind = "update" /\ job.appt = l.appt /\ job.event = NoJob.event
      BY <1>2, <2>1, NoLocalsTyped DEF Jobs
    <2>3. NoJob.event = 0
      BY DEF NoJob
    <2> HIDE DEF job
    <2> QED BY <1>1, <1>5, <2>2, <2>3 DEF JobOK, HasEvent, l, job
  <1> QED BY <1>1, <1>3, <1>4, <1>5

(* Queueing a calendar job keeps the types: the job names a row that is    *)
(* there.                                                                  *)
LEMMA QueueBase ==
  ASSUME BaseInv, NEW r \in Requests, QueueCalendarJob(r)
  PROVE  BaseInv'
  <1> DEFINE job == CalendarJob(loc[r])
  <1>1. r \in Active /\ pc[r] = "calendar" /\ Goto(r, "idle", NoLocals)
    BY DEF QueueCalendarJob, Active
  <1>2. UNCHANGED <<appts, visit, event, made, worker, faults, overlapped, excused>>
    BY DEF QueueCalendarJob, outbound
  <1>3. job \in Jobs /\ JobOK(job) /\ queue' = Append(queue, job) /\ queue \in Seq(Jobs)
    BY <1>1, CalendarJobIs DEF QueueCalendarJob, BaseInv, Types
  <1> HIDE DEF job
  <1>4. /\ pc' \in [Requests -> Labels] /\ loc' \in [Requests -> Locals]
        /\ Numbered' /\ (\A a \in Booked : RowOK(a))' /\ (\A s \in Active : RequestOK(s))'
    <2>1. "idle" \in Labels \ {"write"}
      BY DEF Labels
    <2> QED BY <1>1, <1>2, <2>1, NoLocalsTyped, GoneOn
  <1>5. queue' \in Seq(Jobs) /\ (\A i \in DOMAIN queue : JobOK(queue[i]))' 
    <2>1. /\ queue' \in Seq(Jobs)
          /\ DOMAIN queue' = DOMAIN queue \cup {Len(queue) + 1}
          /\ \A i \in DOMAIN queue : queue'[i] = queue[i]
          /\ queue'[Len(queue) + 1] = job
      BY <1>3, JobAppended
    <2>2. \A i \in DOMAIN queue' : (\E k \in DOMAIN queue : queue'[i] = queue[k]) \/ JobOK(queue'[i])
      BY <1>3, <2>1
    <2> QED BY <1>2, <2>1, <2>2, NothingGrows, QueueCarried DEF BaseInv
  <1>6. WorkerOK'
    BY <1>2, NothingGrows, WorkerCarried DEF BaseInv
  <1>7. Types'
    BY <1>2, <1>4, <1>5 DEF BaseInv, Types
  <1> QED BY <1>4, <1>5, <1>6, <1>7 DEF BaseInv

(* So does a request that fails.                                           *)
LEMMA FailBase ==
  ASSUME BaseInv, NEW r \in Requests, RequestFails(r)
  PROVE  BaseInv'
  <1>1. r \in Active /\ Goto(r, "idle", NoLocals)
    BY DEF RequestFails, Active
  <1>2. UNCHANGED <<appts, visit, event, made, worker, queue, overlapped>>
    BY DEF RequestFails, outbound
  <1>3. excused' \subseteq Appts /\ faults' \in 0 .. MaxFaults
    BY <1>1, RootTyped, AppointmentAssumption DEF RequestFails, BaseInv, Types
  <1>4. /\ pc' \in [Requests -> Labels] /\ loc' \in [Requests -> Locals]
        /\ Numbered' /\ (\A a \in Booked : RowOK(a))' /\ (\A s \in Active : RequestOK(s))'
    <2>1. "idle" \in Labels \ {"write"}
      BY DEF Labels
    <2> QED BY <1>1, <1>2, <2>1, NoLocalsTyped, GoneOn
  <1>5. (\A i \in DOMAIN queue : JobOK(queue[i]))' /\ WorkerOK'
    BY <1>2, NothingGrows, QueueCarried, WorkerCarried DEF BaseInv
  <1>6. Types'
    BY <1>2, <1>3, <1>4 DEF BaseInv, Types
  <1> QED BY <1>4, <1>5, <1>6 DEF BaseInv

----------------------------------------------------------------------------
\* The worker.
LEMMA Worked ==
  ASSUME Types, NEW next \in {"store", "ack"}, NEW e \in 0 .. MaxEvents, Work(next, e)
  PROVE  worker' \in Workers /\ worker'.pc = next /\ worker'.job = worker.job /\ worker'.event = e
  BY DEF Work, Types, Workers

\* A step of the worker that leaves the rows and the queue alone.
LEMMA JobGoneOn ==
  ASSUME BaseInv, NEW next \in {"store", "ack"}, NEW e \in 0 .. MaxEvents, Work(next, e),
         worker.pc # "idle", next = "store" => e # 0 /\ worker.job.kind = "create",
         Grows, Booked' = Booked,
         UNCHANGED <<pc, loc, queue>>
  PROVE  /\ worker' \in Workers /\ WorkerOK'
         /\ Numbered' /\ (\A s \in Active : RequestOK(s))'
         /\ (\A i \in DOMAIN queue : JobOK(queue[i]))'
         /\ (\A a \in Booked : RowOK(a))'
  <1>1. worker' \in Workers /\ worker'.pc = next /\ worker'.job = worker.job /\ worker'.event = e
    BY Worked DEF BaseInv
  <1>2. JobOK(worker.job)
    BY DEF BaseInv, WorkerOK
  <1>3. JobOK(worker.job)'
    BY <1>1, <1>2, JobCarried DEF JobOK, HasEvent
  <1>4. WorkerOK'
    BY <1>1, <1>3 DEF WorkerOK
  <1>5. Inserting' = Inserting
    BY DEF Inserting
  <1>6. Numbered' /\ (\A s \in Active : RequestOK(s))'
        /\ (\A i \in DOMAIN queue : JobOK(queue[i]))'
    BY <1>5, NumberedKept, RequestsStay, QueueCarried DEF BaseInv
  <1>7. (\A a \in Booked : RowOK(a))'
    BY RowsCarried DEF BaseInv, Grows
  <1> QED BY <1>1, <1>4, <1>6, <1>7

(* So does the worker taking a job.                                        *)
LEMMA TakeBase ==
  ASSUME BaseInv, TakeJob
  PROVE  BaseInv'
  <1> DEFINE job == Head(queue)
  <1>1. /\ queue # << >> /\ queue' = Tail(queue) /\ queue \in Seq(Jobs)
        /\ worker' = [NoWork EXCEPT !.pc = job.kind, !.job = job]
    BY DEF TakeJob, BaseInv, Types
  <1>2. UNCHANGED <<appts, event, made, faults, excused, visit, pc, loc, overlapped>>
    BY DEF TakeJob, requestSide
  <1>3. /\ queue' \in Seq(Jobs) /\ job = queue[1] /\ 1 \in DOMAIN queue
        /\ \A i \in DOMAIN queue' : i + 1 \in DOMAIN queue /\ queue'[i] = queue[i + 1]
    BY <1>1, JobTaken
  <1>4. job \in Jobs /\ JobOK(job)
    <2>1. queue[1] \in Jobs
      BY <1>1, <1>3
    <2> QED BY <1>3, <2>1 DEF BaseInv
  <1> HIDE DEF job
  <1>5. job.kind \in {"create", "update", "delete"}
    BY <1>4 DEF Jobs, JobOK
  <1>6. worker' \in Workers /\ worker'.pc = job.kind /\ worker'.job = job
    BY <1>1, <1>4, <1>5, NoLocalsTyped DEF Workers
  <1>7. WorkerOK'
    <2>1. JobOK(worker.job)'
      BY <1>2, <1>4, <1>6, NothingGrows, JobCarried DEF JobOK, HasEvent
    <2> QED BY <1>5, <1>6, <2>1 DEF WorkerOK
  <1>8. (\A i \in DOMAIN queue : JobOK(queue[i]))'
    <2>1. \A i \in DOMAIN queue' : (\E k \in DOMAIN queue : queue'[i] = queue[k]) \/ JobOK(queue'[i])
      BY <1>3
    <2> QED BY <1>2, <2>1, NothingGrows, QueueCarried DEF BaseInv
  <1>9. Inserting' = Inserting
    BY <1>2 DEF Inserting
  <1>10. /\ Numbered' /\ (\A s \in Active : RequestOK(s))'
         /\ (\A a \in Booked : RowOK(a))'
    BY <1>2, <1>9, NothingGrows, NumberedKept, RequestsStay, RowsCarried DEF BaseInv
  <1>11. Types'
    BY <1>2, <1>3, <1>6 DEF BaseInv, Types
  <1> QED BY <1>7, <1>8, <1>10, <1>11 DEF BaseInv

(* So does creating an event.                                              *)
LEMMA CreateEventBase ==
  ASSUME BaseInv, CreateEvent
  PROVE  BaseInv'
  <1>1. /\ worker.pc = "create" /\ worker.job.kind = "create" /\ worker.job.appt \in Booked
        /\ made + 1 \in 1 .. MaxEvents
        /\ made' = made + 1 /\ Work("store", made + 1)
        /\ event' = [event EXCEPT ![made + 1] = appts[worker.job.appt].start]
    BY AppointmentAssumption DEF CreateEvent, BaseInv, Types, WorkerOK, JobOK
  <1>2. UNCHANGED <<appts, queue, faults, excused, visit, pc, loc, overlapped>>
    BY DEF CreateEvent, requestSide
  <1>3. made + 1 \in 0 .. MaxEvents /\ made + 1 # 0
    BY <1>1, AppointmentAssumption
  <1>4. event' \in [1 .. MaxEvents -> Starts \cup {0}] /\ made' \in 0 .. MaxEvents
    BY <1>1, <1>3 DEF BaseInv, Types, RowOK
  <1>5. /\ worker' \in Workers /\ WorkerOK'
        /\ Numbered' /\ (\A s \in Active : RequestOK(s))'
        /\ (\A i \in DOMAIN queue : JobOK(queue[i]))'
        /\ (\A a \in Booked : RowOK(a))'
    BY <1>1, <1>2, <1>3, NothingGrows, JobGoneOn
  <1>6. Types'
    BY <1>2, <1>4, <1>5 DEF BaseInv, Types
  <1> QED BY <1>5, <1>6 DEF BaseInv

(* So does storing the event's id, which only adds it to a row.            *)
LEMMA StoreBase ==
  ASSUME BaseInv, StoreEventId
  PROVE  BaseInv' /\ Grows
  <1>1. /\ worker.pc = "store" /\ worker.job.appt \in Booked
        /\ worker.event \in 0 .. MaxEvents /\ worker.event # 0
        /\ appts' = [appts EXCEPT ![worker.job.appt].event = worker.event]
        /\ Work("ack", 0)
    BY DEF StoreEventId, BaseInv, Types, WorkerOK, JobOK, Workers
  <1>2. UNCHANGED <<event, made, queue, faults, excused, visit, pc, loc, overlapped>>
    BY DEF StoreEventId, requestSide
  <1>3. /\ appts' \in [Appts -> Rows]
        /\ Booked' = Booked
        /\ \A b \in Appts : /\ appts'[b].start = appts[b].start /\ appts'[b].sr = appts[b].sr
                            /\ appts'[b].root = appts[b].root
                            /\ appts'[b].event = IF b = worker.job.appt THEN worker.event
                                                                        ELSE appts[b].event
    BY <1>1, EventStored DEF BaseInv
  <1>4. Grows
    BY <1>1, <1>3 DEF Grows, Booked
  <1>5. 0 \in 0 .. MaxEvents
    BY AppointmentAssumption
  <1>6. /\ worker' \in Workers /\ WorkerOK'
        /\ Numbered' /\ (\A s \in Active : RequestOK(s))'
        /\ (\A i \in DOMAIN queue : JobOK(queue[i]))'
        /\ (\A a \in Booked : RowOK(a))'
    BY <1>1, <1>2, <1>3, <1>4, <1>5, JobGoneOn
  <1>7. Types'
    BY <1>2, <1>3, <1>6 DEF BaseInv, Types
  <1> QED BY <1>4, <1>6, <1>7 DEF BaseInv

\* A step that ends the job with the rows left alone.
LEMMA JobEnds ==
  ASSUME BaseInv, Work("ack", 0), worker.pc # "idle",
         event' \in [1 .. MaxEvents -> Starts \cup {0}],
         excused' \subseteq Appts, faults' \in 0 .. MaxFaults,
         UNCHANGED <<appts, made, queue, visit, pc, loc, overlapped>>
  PROVE  BaseInv'
  <1>1. 0 \in 0 .. MaxEvents
    BY AppointmentAssumption
  <1>2. /\ worker' \in Workers /\ WorkerOK'
        /\ Numbered' /\ (\A s \in Active : RequestOK(s))'
        /\ (\A i \in DOMAIN queue : JobOK(queue[i]))'
        /\ (\A a \in Booked : RowOK(a))'
    BY <1>1, NothingGrows, JobGoneOn
  <1>3. Types'
    BY <1>2 DEF BaseInv, Types
  <1> QED BY <1>2, <1>3 DEF BaseInv

(* Every step of the worker keeps the types, and the table only grows.     *)
LEMMA WorkerBase ==
  ASSUME BaseInv, WorkerStep
  PROVE  BaseInv' /\ Grows
  <1>1. CASE TakeJob
    BY <1>1, TakeBase, NothingGrows DEF TakeJob
  <1>2. CASE CreateEvent
    BY <1>2, CreateEventBase, NothingGrows DEF CreateEvent
  <1>3. CASE StoreEventId
    BY <1>3, StoreBase
  <1>4. CASE UpdateEvent
    <2>1. /\ worker.pc = "update" /\ worker.job.appt \in Booked /\ Work("ack", 0)
          /\ event' = [event EXCEPT ![appts[worker.job.appt].event] =
                         IF @ = 0 THEN 0 ELSE appts[worker.job.appt].start]
          /\ UNCHANGED <<appts, made, queue, faults, excused, visit, pc, loc, overlapped>>
      BY <1>4 DEF UpdateEvent, BaseInv, WorkerOK, JobOK, requestSide
    <2>2. event' \in [1 .. MaxEvents -> Starts \cup {0}]
      BY <2>1 DEF BaseInv, Types, RowOK
    <2> QED BY <2>1, <2>2, JobEnds, NothingGrows DEF BaseInv, Types
  <1>5. CASE DeleteEvent
    <2>1. /\ worker.pc = "delete" /\ Work("ack", 0)
          /\ event' = [event EXCEPT ![worker.job.event] = 0]
          /\ UNCHANGED <<appts, made, queue, faults, excused, visit, pc, loc, overlapped>>
      BY <1>5 DEF DeleteEvent, requestSide
    <2>2. event' \in [1 .. MaxEvents -> Starts \cup {0}]
      BY <2>1 DEF BaseInv, Types
    <2> QED BY <2>1, <2>2, JobEnds, NothingGrows DEF BaseInv, Types
  <1>6. CASE AckJob
    <2>1. /\ worker' = NoWork
          /\ UNCHANGED <<appts, event, made, queue, faults, excused, visit, pc, loc, overlapped>>
      BY <1>6 DEF AckJob, requestSide
    <2>2. worker' \in Workers /\ WorkerOK'
      <3>1. NoWork.pc = "idle" /\ NoWork.job = NoJob
        BY DEF NoWork
      <3> QED BY <2>1, <3>1, NoLocalsTyped DEF WorkerOK
    <2>3. Inserting' = Inserting
      BY <2>1 DEF Inserting
    <2>4. /\ Numbered' /\ (\A s \in Active : RequestOK(s))'
          /\ (\A i \in DOMAIN queue : JobOK(queue[i]))'
          /\ (\A a \in Booked : RowOK(a))'
      BY <2>1, <2>3, NothingGrows, NumberedKept, RequestsStay, QueueCarried, RowsCarried DEF BaseInv
    <2>5. Types'
      BY <2>1, <2>2 DEF BaseInv, Types
    <2> QED BY <2>1, <2>2, <2>4, <2>5, NothingGrows DEF BaseInv
  <1>7. CASE JobFails
    <2>1. /\ worker.pc # "idle" /\ Work("ack", 0)
          /\ excused' = excused \cup {appts[worker.job.appt].root}
          /\ UNCHANGED <<appts, event, made, queue, visit, pc, loc, overlapped>>
      BY <1>7 DEF JobFails, requestSide
    <2>2. faults' \in 0 .. MaxFaults
      BY <1>7, AppointmentAssumption DEF JobFails, BaseInv, Types
    <2>3. excused' \subseteq Appts
      BY <2>1, RootTyped DEF BaseInv, Types
    <2> QED BY <2>1, <2>2, <2>3, JobEnds, NothingGrows DEF BaseInv, Types
  <1> QED BY <1>1, <1>2, <1>3, <1>4, <1>5, <1>6, <1>7 DEF WorkerStep

\* A restart: the interrupted job is back in front, unless it was before.
LEMMA RestartBase ==
  ASSUME BaseInv, Restart
  PROVE  BaseInv'
  <1> DEFINE job == [worker.job EXCEPT !.stalled = TRUE]
  <1>1. /\ UNCHANGED <<appts, visit, event, made, overlapped>>
        /\ worker' = NoWork
        /\ pc' = [r \in Requests |-> "idle"] /\ loc' = [r \in Requests |-> NoLocals]
    BY DEF Restart
  <1>2. queue' = queue \/ (worker.pc # "idle" /\ queue' = <<job>> \o queue)
    BY DEF Restart
  <1>3. worker.pc # "idle" => job \in Jobs /\ JobOK(job)
    <2>1. worker.job \in Jobs
      BY DEF BaseInv, Types, Workers
    <2>2. /\ job \in Jobs /\ job.kind = worker.job.kind /\ job.appt = worker.job.appt
          /\ job.event = worker.job.event
      BY <2>1 DEF Jobs
    <2> HIDE DEF job
    <2> QED BY <2>2 DEF BaseInv, WorkerOK, JobOK, HasEvent
  <1> HIDE DEF job
  <1>4. queue' \in Seq(Jobs) /\ (\A i \in DOMAIN queue : JobOK(queue[i]))'
    <2>1. CASE queue' = queue
      BY <1>1, <2>1, NothingGrows, QueueCarried DEF BaseInv, Types
    <2>2. CASE worker.pc # "idle" /\ queue' = <<job>> \o queue
      <3>1. /\ queue' \in Seq(Jobs)
            /\ queue'[1] = job
            /\ \A i \in DOMAIN queue' \ {1} : i - 1 \in DOMAIN queue /\ queue'[i] = queue[i - 1]
        BY <1>3, <2>2, JobReturned DEF BaseInv, Types
      <3>2. \A i \in DOMAIN queue' : (\E k \in DOMAIN queue : queue'[i] = queue[k]) \/ JobOK(queue'[i])
        BY <1>3, <2>2, <3>1
      <3> QED BY <1>1, <3>1, <3>2, NothingGrows, QueueCarried DEF BaseInv
    <2> QED BY <1>2, <2>1, <2>2
  <1>5. excused' \subseteq Appts
    <2>1. {Root(r) : r \in {q \in Requests : pc[q] # "idle"}} \subseteq Appts
      BY RootTyped DEF Active
    <2>2. (IF worker.pc = "idle" THEN {} ELSE {appts[worker.job.appt].root}) \subseteq Appts
      BY RootTyped
    <2> QED BY <2>1, <2>2 DEF Restart, BaseInv, Types
  <1>6. faults' \in 0 .. MaxFaults
    BY AppointmentAssumption DEF Restart, BaseInv, Types
  <1>7. Types'
    BY <1>1, <1>4, <1>5, <1>6, NoLocalsTyped DEF BaseInv, Types, Labels
  <1>8. Active' = {} /\ Inserting' = {}
    BY <1>1 DEF Active, Inserting
  <1>9. Numbered' /\ (\A a \in Booked : RowOK(a))' /\ (\A s \in Active : RequestOK(s))'
    BY <1>1, <1>8, NothingGrows, NumberedKept, RowsCarried DEF BaseInv
  <1>10. WorkerOK'
    <2>1. NoWork.pc = "idle" /\ NoWork.job = NoJob
      BY DEF NoWork
    <2> QED BY <1>1, <2>1 DEF WorkerOK
  <1> QED BY <1>4, <1>7, <1>9, <1>10 DEF BaseInv

(* The types hold at first.                                                *)
LEMMA BaseInit == Init => BaseInv
  <1> SUFFICES ASSUME Init PROVE BaseInv
    OBVIOUS
  <1> USE AppointmentAssumption
  <1>1. Booked = {}
    BY DEF Init, NoAppt, Booked
  <1>2. Active = {} /\ Inserting = {}
    BY DEF Init, Active, Inserting
  <1>3. appts \in [Appts -> Rows]
    <2>1. NoAppt \in Rows
      BY DEF NoAppt, Rows, Statuses
    <2> QED BY <2>1 DEF Init
  <1>4. Types
    BY <1>3, NoLocalsTyped DEF Init, Types, Labels
  <1>5. Numbered
    <2>1. Cardinality(Inserting) = 0
      BY <1>2, FS_EmptySet
    <2>2. 0 \in 0 .. MaxAppts /\ 0 + 0 <= MaxAppts /\ Booked = 1 .. 0
      BY <1>1
    <2> QED BY <2>1, <2>2 DEF Numbered
  <1>6. WorkerOK
    <2>1. NoWork.pc = "idle" /\ NoWork.job = NoJob
      BY DEF NoWork
    <2> QED BY <2>1 DEF Init, WorkerOK
  <1>7. DOMAIN queue = {}
    BY DEF Init
  <1> QED BY <1>1, <1>2, <1>4, <1>5, <1>6, <1>7 DEF BaseInv

(* Every step keeps them.                                                  *)
LEMMA BaseNext ==
  ASSUME BaseInv, Next
  PROVE  BaseInv'
  <1>1. ASSUME NEW r \in Requests, Proceed(r) PROVE BaseInv'
    BY <1>1, WriteBase, UpdateBase, QueueBase, FailBase DEF Proceed
  <1> QED BY <1>1, CreateBase, BeginBase, WorkerBase, RestartBase DEF Next

(* They hold always.                                                       *)
LEMMA BaseAlways == Spec => []BaseInv
  <1>1. BaseInv /\ UNCHANGED vars => BaseInv'
    <2> SUFFICES ASSUME BaseInv, UNCHANGED vars PROVE BaseInv'
      OBVIOUS
    <2>1. UNCHANGED <<appts, visit, event, made, queue, worker, pc, loc, faults, overlapped, excused>>
      BY DEF vars
    <2>2. Inserting' = Inserting
      BY <2>1 DEF Inserting
    <2>3. Types'
      BY <2>1 DEF BaseInv, Types
    <2> QED BY <2>1, <2>2, <2>3, NothingGrows, NumberedKept, RowsCarried, RequestsStay, QueueCarried,
               WorkerCarried DEF BaseInv
  <1>2. BaseInv /\ [Next]_vars => BaseInv'
    BY <1>1, BaseNext
  <1> QED BY <1>2, BaseInit, PTL DEF Spec

\* For every number of requests, rows, events and faults: the tables, the queue
\* and the requests in flight are well typed, row numbers never run out, and no
\* update or deletion of an event reaches the worker without the event it is
\* about, however requests, restarts and returned jobs interleave.
THEOREM TypeCorrect == Spec => []TypeOK
  <1>1. BaseInv => TypeOK
    <2> SUFFICES ASSUME BaseInv PROVE TypeOK
      OBVIOUS
    <2>1. HasEvent(worker.job)
      <3>1. CASE worker.pc = "idle"
        BY <3>1 DEF BaseInv, WorkerOK, HasEvent, NoJob
      <3>2. CASE worker.pc # "idle"
        BY <3>2 DEF BaseInv, WorkerOK, JobOK
      <3> QED BY <3>1, <3>2
    <2> QED BY <2>1 DEF BaseInv, Types, TypeOK, JobOK, Workers, Locals, Labels
  <1> QED BY <1>1, BaseAlways, PTL

----------------------------------------------------------------------------
\* One live row to a booking.
LEMMA LiveShrinks ==
  ASSUME BaseInv, LiveInv, Booked' = Booked, Active' \subseteq Active, overlapped' = overlapped,
         \A a \in Booked : appts'[a].root = appts[a].root /\ appts'[a].status = appts[a].status,
         \A s \in Active' : loc'[s] = loc[s] /\ (pc'[s] = "write" => pc[s] = "write")
  PROVE  LiveInv'
  <1>1. \A s \in Active' : Root(s)' = Root(s) /\ loc[s].appt \in Booked
    BY DEF Root, BaseInv, RequestOK
  <1> QED BY <1>1 DEF LiveInv, IsLive, Root

(* An operation is allowed only on a live appointment.                     *)
LEMMA OnlyLiveChange ==
  ASSUME NEW op, NEW s, Target(op) \in AllowedTransitions(s)
  PROVE  s \in LiveStates
  BY DEF AllowedTransitions, LiveStates

(* A request that begins an operation adds no live row.                    *)
LEMMA BeginLive ==
  ASSUME BaseInv, LiveInv, NEW r \in Requests, NEW op \in LifecycleOps, NEW a \in Appts,
         NEW t \in Starts \cup {0}, Begin(r, op, a, t)
  PROVE  LiveInv'
  <1> DEFINE l == [op |-> op, appt |-> a, event |-> appts[a].event, start |-> t]
             root == appts[a].root
  <1>1. /\ Goto(r, "write", l) /\ a \in Booked /\ pc[r] = "idle"
        /\ appts' = appts /\ Booked' = Booked
        /\ overlapped \subseteq overlapped'
        /\ Busy(root) => root \in overlapped'
        /\ IsLive(a)
    BY OnlyLiveChange, NothingGrows DEF Begin, IsLive
  <1>2. pc'[r] = "write" /\ loc'[r].appt = a /\ loc'[r].op = op
    BY <1>1 DEF Goto, BaseInv, Types
  <1>3. \A s \in Requests \ {r} : pc'[s] = pc[s] /\ loc'[s] = loc[s]
    BY <1>1 DEF Goto, BaseInv, Types
  <1>4. Active' = Active \cup {r} /\ r \notin Active
    BY <1>1, <1>2, <1>3 DEF Active
  <1> HIDE DEF l
  <1>5. Root(r)' = root /\ \A s \in Active : Root(s)' = Root(s) /\ s # r /\ loc'[s] = loc[s] /\ pc'[s] = pc[s]
    BY <1>1, <1>2, <1>3, <1>4 DEF Root, Active
  <1>6. \A s \in Active : Root(s) = root => root \in overlapped'
    BY <1>1 DEF Busy, Active
  <1> HIDE DEF root
  <1>7. (\A b, c \in Booked : b < c /\ appts[b].root = appts[c].root /\ appts[b].root \notin overlapped
           => appts[b].status = "rescheduled")'
    BY <1>1 DEF LiveInv
  <1>8. ASSUME NEW s \in Active', (Root(s) \notin overlapped)'
        PROVE  /\ \A q \in Active' : Root(q)' = Root(s)' => q = s
               /\ (pc[s] = "write" \/ loc[s].op = "create" => IsLive(loc[s].appt))'
    <2>1. CASE s = r
      BY <1>1, <1>2, <1>4, <1>5, <1>6, <1>8, <2>1 DEF IsLive
    <2>2. CASE s # r
      <3>1. s \in Active /\ Root(s)' = Root(s) /\ Root(s) \notin overlapped /\ Root(s) # root
        BY <1>1, <1>4, <1>5, <1>6, <1>8, <2>2
      <3>2. \A q \in Active : Root(q) = Root(s) => q = s
        BY <3>1 DEF LiveInv
      <3>3. pc[s] = "write" \/ loc[s].op = "create" => IsLive(loc[s].appt)
        BY <3>1 DEF LiveInv
      <3> QED BY <1>1, <1>4, <1>5, <3>1, <3>2, <3>3 DEF IsLive
    <2> QED BY <2>1, <2>2
  <1> QED BY <1>7, <1>8 DEF LiveInv

(* A new appointment is the only row of its booking.                       *)
LEMMA CreateLive ==
  ASSUME BaseInv, LiveInv, NEW r \in Requests, NEW sr \in ServiceRequests, NEW t \in Starts,
         Create(r, sr, t)
  PROVE  LiveInv'
  <1> DEFINE n == NewRow
             l == [NoLocals EXCEPT !.op = "create", !.appt = n]
  <1>1. /\ Goto(r, "request", l) /\ pc[r] = "idle" /\ overlapped' = overlapped
        /\ n \in Appts \ Booked
        /\ Booked' = Booked \cup {n}
        /\ \A b \in Appts \ {n} : appts'[b] = appts[b]
        /\ appts'[n].status = "scheduled" /\ appts'[n].root = n
    BY RowCreated DEF Create, BaseInv
  <1>2. /\ pc'[r] = "request" /\ loc'[r].appt = n
        /\ \A s \in Requests \ {r} : pc'[s] = pc[s] /\ loc'[s] = loc[s]
    <2>1. l.appt = n
      BY NoLocalsTyped DEF Locals
    <2> HIDE DEF l
    <2> QED BY <1>1, <2>1 DEF Goto, BaseInv, Types
  <1> HIDE DEF n, l
  <1>3. Active' = Active \cup {r} /\ r \notin Active
    BY <1>1, <1>2 DEF Active
  <1>4. \A b \in Booked : b \in Appts /\ b # n /\ appts[b].root # n /\ appts'[b] = appts[b]
    BY <1>1 DEF BaseInv, RowOK, Booked
  <1>5. /\ Root(r)' = n
        /\ \A s \in Active : /\ Root(s)' = Root(s) /\ Root(s) # n /\ s # r
                             /\ loc'[s] = loc[s] /\ pc'[s] = pc[s] /\ loc[s].appt \in Booked
    BY <1>1, <1>2, <1>3, <1>4 DEF Root, BaseInv, RequestOK, Active
  <1>6. (\A b, c \in Booked : b < c /\ appts[b].root = appts[c].root /\ appts[b].root \notin overlapped
           => appts[b].status = "rescheduled")'
    <2>1. ~(n < n)
      BY <1>1, AppointmentAssumption DEF Appts
    <2> QED BY <1>1, <1>4, <2>1 DEF LiveInv
  <1>7. ASSUME NEW s \in Active', (Root(s) \notin overlapped)'
        PROVE  /\ \A q \in Active' : Root(q)' = Root(s)' => q = s
               /\ (pc[s] = "write" \/ loc[s].op = "create" => IsLive(loc[s].appt))'
    <2>1. CASE s = r
      BY <1>1, <1>2, <1>3, <1>5, <2>1 DEF IsLive, LiveStates
    <2>2. CASE s # r
      <3>1. s \in Active /\ Root(s)' = Root(s) /\ Root(s) \notin overlapped
        BY <1>1, <1>3, <1>5, <1>7, <2>2
      <3>2. \A q \in Active : Root(q) = Root(s) => q = s
        BY <3>1 DEF LiveInv
      <3>3. pc[s] = "write" \/ loc[s].op = "create" => IsLive(loc[s].appt)
        BY <3>1 DEF LiveInv
      <3> QED BY <1>3, <1>4, <1>5, <3>1, <3>2, <3>3 DEF IsLive
    <2> QED BY <2>1, <2>2
  <1> QED BY <1>6, <1>7 DEF LiveInv

\* What a write does, in the words of the rows: the row gets the target of the
\* operation, and a reschedule adds a row to the same booking.
LEMMA Wrote ==
  ASSUME BaseInv, NEW r \in Requests, WriteRow(r)
  PROVE  LET l == loc[r] IN
         /\ r \in Active /\ pc[r] = "write" /\ l.appt \in Booked /\ l.op \in LifecycleOps
         /\ overlapped' = overlapped /\ visit' = visit /\ event' = event /\ made' = made
         /\ queue' = queue /\ worker' = worker
         /\ \A b \in Booked :
              /\ b \in Booked' /\ b \in Appts
              /\ appts'[b].start = appts[b].start /\ appts'[b].sr = appts[b].sr
              /\ appts'[b].root = appts[b].root /\ appts'[b].event = appts[b].event
              /\ appts'[b].status = IF b = l.appt THEN Target(l.op) ELSE appts[b].status
         /\ l.op # "reschedule" => Booked' = Booked
         /\ l.op = "reschedule" =>
              /\ NewRow \in Appts \ Booked /\ Booked' = Booked \cup {NewRow}
              /\ appts'[NewRow].status = "scheduled" /\ appts'[NewRow].start = l.start
              /\ appts'[NewRow].sr = appts[l.appt].sr /\ appts'[NewRow].event = l.event
              /\ appts'[NewRow].root = appts[l.appt].root
         /\ \A s \in Requests \ {r} : pc'[s] = pc[s] /\ loc'[s] = loc[s]
         /\ pc'[r] = AfterWrite(l) /\ AfterWrite(l) \in {"request", "calendar", "idle"}
         /\ Active' = IF pc'[r] = "idle" THEN Active \ {r} ELSE Active
         /\ pc'[r] # "idle" => /\ loc'[r].op = l.op /\ loc'[r].event = l.event
                               /\ loc'[r].appt = IF l.op = "reschedule" THEN NewRow ELSE l.appt
  <1> DEFINE l == loc[r]
             n == NewRow
             m == [l EXCEPT !.appt = n]
  <1>1. /\ r \in Active /\ pc[r] = "write" /\ l.appt \in Booked /\ l.op \in LifecycleOps
        /\ l.op = "reschedule" => l.start \in Starts
        /\ l \in Locals
    BY DEF WriteRow, BaseInv, Active, RequestOK, Types
  <1>2. /\ overlapped' = overlapped /\ visit' = visit /\ event' = event /\ made' = made
        /\ queue' = queue /\ worker' = worker
    BY DEF WriteRow, outbound
  <1>3. AfterWrite(l) \in {"request", "calendar", "idle"}
    BY DEF AfterWrite
  <1>4. Booked \subseteq Appts
    BY DEF Booked
  <1>5. CASE l.op # "reschedule"
    <2>1. appts' = [appts EXCEPT ![l.appt].status = Target(l.op)] /\ Goto(r, AfterWrite(l), l)
      BY <1>5 DEF WriteRow
    <2>2. Target(l.op) \in Statuses \ {"none"}
      BY <1>1 DEF Target, LifecycleOps, Statuses, LiveStates, TerminalStates
    <2>3. /\ Booked' = Booked
          /\ \A b \in Appts : /\ appts'[b].start = appts[b].start /\ appts'[b].sr = appts[b].sr
                              /\ appts'[b].root = appts[b].root /\ appts'[b].event = appts[b].event
                              /\ appts'[b].status = IF b = l.appt THEN Target(l.op) ELSE appts[b].status
      BY <1>1, <2>1, <2>2, StatusWritten DEF BaseInv
    <2>4. /\ pc'[r] = AfterWrite(l) /\ (pc'[r] # "idle" => loc'[r] = l)
          /\ \A s \in Requests \ {r} : pc'[s] = pc[s] /\ loc'[s] = loc[s]
          /\ Active' = IF pc'[r] = "idle" THEN Active \ {r} ELSE Active \cup {r}
      BY <1>1, <1>3, <2>1, Went DEF BaseInv, Labels
    <2> QED BY <1>1, <1>2, <1>3, <1>4, <1>5, <2>3, <2>4
  <1>6. CASE l.op = "reschedule"
    <2>1. Goto(r, AfterWrite(l), m)
      BY <1>6 DEF WriteRow
    <2>2. r \in Inserting /\ Target(l.op) = "rescheduled"
      BY <1>1, <1>6 DEF Inserting, Target
    <2>3. /\ n \in Appts \ Booked
          /\ Booked' = Booked \cup {n}
          /\ \A b \in Appts \ {n} :
               /\ appts'[b].start = appts[b].start /\ appts'[b].sr = appts[b].sr
               /\ appts'[b].root = appts[b].root /\ appts'[b].event = appts[b].event
               /\ appts'[b].status = IF b = l.appt THEN "rescheduled" ELSE appts[b].status
          /\ appts'[n].status = "scheduled" /\ appts'[n].start = l.start
          /\ appts'[n].sr = appts[l.appt].sr /\ appts'[n].event = l.event
          /\ appts'[n].root = appts[l.appt].root
      BY <1>1, <1>6, <2>2, RowMoved DEF BaseInv
    <2> HIDE DEF n
    <2>4. m \in Locals /\ m.op = l.op /\ m.event = l.event /\ m.appt = n
      BY <1>1, <2>3, AppointmentAssumption DEF Locals, Appts
    <2> HIDE DEF m
    <2>5. /\ pc'[r] = AfterWrite(l) /\ (pc'[r] # "idle" => loc'[r] = m)
          /\ \A s \in Requests \ {r} : pc'[s] = pc[s] /\ loc'[s] = loc[s]
          /\ Active' = IF pc'[r] = "idle" THEN Active \ {r} ELSE Active \cup {r}
      BY <1>3, <2>1, <2>4, Went DEF BaseInv, Labels
    <2> HIDE DEF l
    <2>6. \A b \in Booked : b \in Appts \ {n}
      BY <1>4, <2>3
    <2>7. Active' = IF pc'[r] = "idle" THEN Active \ {r} ELSE Active
      BY <1>1, <2>5
    <2> QED BY <1>1, <1>2, <1>3, <1>6, <2>2, <2>3, <2>4, <2>5, <2>6, <2>7 DEF n, l
  <1> QED BY <1>5, <1>6

(* A write keeps one live row per booking: a reschedule ends the row it    *)
(* replaces, and a second one under way marks the booking as overlapped.   *)
LEMMA WriteLive ==
  ASSUME BaseInv, LiveInv, NEW r \in Requests, WriteRow(r)
  PROVE  LiveInv'
  <1> DEFINE l == loc[r]
             a == loc[r].appt
             n == NewRow
             root == Root(r)
  <1>1. /\ r \in Active /\ pc[r] = "write" /\ a \in Booked
        /\ overlapped' = overlapped
        /\ \A b \in Booked :
             /\ b \in Booked'
             /\ appts'[b].root = appts[b].root
             /\ appts'[b].status = IF b = a THEN Target(l.op) ELSE appts[b].status
        /\ l.op # "reschedule" => Booked' = Booked
        /\ l.op = "reschedule" =>
             /\ n \in Appts \ Booked /\ Booked' = Booked \cup {n}
             /\ appts'[n].root = appts[a].root
        /\ \A s \in Requests \ {r} : pc'[s] = pc[s] /\ loc'[s] = loc[s]
        /\ pc'[r] # "write" /\ Active' \subseteq Active
        /\ pc'[r] # "idle" => /\ loc'[r].op = l.op
                              /\ loc'[r].appt = IF l.op = "reschedule" THEN n ELSE a
    BY Wrote
  <1>2. l.op # "create"
    BY <1>1 DEF BaseInv, RequestOK, LifecycleOps
  <1>3. root = appts[a].root
    BY DEF Root
  <1>4. /\ r \in Active' => Root(r)' = root
        /\ \A s \in Active' \ {r} : Root(s)' = Root(s) /\ loc[s].appt \in Booked
    <2>1. r \in Active' => pc'[r] # "idle"
      BY DEF Active
    <2>2. r \in Active' => appts'[loc'[r].appt].root = appts[a].root
      BY <1>1, <2>1
    <2>3. ASSUME NEW s \in Active' \ {r} PROVE loc'[s] = loc[s] /\ loc[s].appt \in Booked
      BY <1>1, <2>3 DEF Active, BaseInv, RequestOK
    <2> QED BY <1>1, <2>2, <2>3 DEF Root
  <1>5. ASSUME root \notin overlapped
        PROVE  /\ IsLive(a)
               /\ \A b \in Booked \ {a} : appts[b].root = root => b < a /\ appts[b].status = "rescheduled"
    <2>1. IsLive(a)
      BY <1>1, <1>5 DEF LiveInv
    <2>2. appts[a].status # "rescheduled"
      BY <2>1 DEF IsLive, LiveStates
    <2>3. \A b \in Booked : b \in Nat
      BY AppointmentAssumption DEF Booked, Appts
    <2>4. ASSUME NEW b \in Booked \ {a}, appts[b].root = root
          PROVE  b < a
      <3>1. ~(a < b)
        BY <1>1, <1>3, <1>5, <2>2, <2>4 DEF LiveInv
      <3> QED BY <1>1, <2>3, <3>1
    <2> QED BY <1>1, <1>3, <1>5, <2>1, <2>4 DEF LiveInv
  <1> HIDE DEF root
  <1>6. ASSUME NEW b \in Booked', NEW c \in Booked', b < c, appts'[b].root = appts'[c].root,
               appts'[b].root \notin overlapped
        PROVE  appts'[b].status = "rescheduled"
    <2>0. l.op = "reschedule" => n \in Appts /\ ~(n < n) /\ \A d \in Booked : d < n
      <3>1. PICK k \in 0 .. MaxAppts : Booked = 1 .. k
        BY DEF BaseInv, Numbered
      <3>2. n = k + 1
        BY <3>1, BookedSize DEF BaseInv
      <3> QED BY <1>1, <3>1, <3>2, AppointmentAssumption
    <2> HIDE DEF n, l, a
    <2>1. CASE b \in Booked /\ c \in Booked
      <3>1. appts[b].root = appts[c].root /\ appts[b].root \notin overlapped
        BY <1>1, <1>6, <2>1
      <3>2. appts[b].status = "rescheduled"
        BY <1>6, <2>1, <3>1 DEF LiveInv
      <3>3. b # a
        BY <1>3, <1>5, <3>1, <3>2 DEF IsLive, LiveStates
      <3> QED BY <1>1, <2>1, <3>2, <3>3
    <2>2. CASE b \notin Booked
      <3>1. l.op = "reschedule" /\ b = n
        BY <1>1, <2>2
      <3>2. c = n \/ c \in Booked
        BY <1>1, <3>1
      <3>3. \A d \in Booked : d \in Nat
        BY AppointmentAssumption DEF Booked, Appts
      <3>4. n \in Nat
        BY <2>0, <3>1, AppointmentAssumption DEF Appts
      <3> QED BY <1>6, <2>0, <3>1, <3>2, <3>3, <3>4
    <2>3. CASE b \in Booked /\ c \notin Booked
      <3>1. l.op = "reschedule" /\ c = n
        BY <1>1, <2>3
      <3>2. appts[b].root = root /\ root \notin overlapped
        BY <1>1, <1>3, <1>6, <2>3, <3>1
      <3>3. CASE b = a
        BY <1>1, <2>3, <3>1, <3>3 DEF Target
      <3>4. CASE b # a
        BY <1>1, <1>5, <2>3, <3>2, <3>4
      <3> QED BY <3>3, <3>4
    <2> QED BY <2>1, <2>2, <2>3
  <1>7. ASSUME NEW s \in Active', (Root(s) \notin overlapped)'
        PROVE  /\ \A q \in Active' : Root(q)' = Root(s)' => q = s
               /\ (pc[s] = "write" \/ loc[s].op = "create" => IsLive(loc[s].appt))'
    <2>1. Root(s)' = Root(s) /\ s \in Active /\ Root(s) \notin overlapped
      BY <1>1, <1>4, <1>7 DEF root
    <2>2. \A q \in Active : Root(q) = Root(s) => q = s
      BY <2>1 DEF LiveInv
    <2>3. \A q \in Active' : Root(q)' = Root(s)' => q = s
      BY <1>1, <1>4, <2>1, <2>2 DEF root
    <2>4. CASE s = r
      <3>1. s \in Requests /\ pc'[s] # "idle"
        BY <1>7 DEF Active
      <3> QED BY <1>1, <1>2, <2>3, <2>4, <3>1
    <2>5. CASE s # r
      <3>1. s \in Requests
        BY <2>1 DEF Active
      <3>2. Root(s) # Root(r)
        BY <1>1, <2>2, <2>5
      <3>3. loc[s].appt # a /\ loc[s].appt \in Booked
        BY <1>3, <1>4, <1>7, <2>5, <3>2 DEF Root
      <3>4. pc[s] = "write" \/ loc[s].op = "create" => IsLive(loc[s].appt)
        BY <2>1 DEF LiveInv
      <3> QED BY <1>1, <2>3, <2>5, <3>1, <3>3, <3>4 DEF IsLive
    <2> QED BY <2>4, <2>5
  <1> QED BY <1>6, <1>7, <1>1 DEF LiveInv

(* Every step keeps one live row per booking, overlapping requests apart.  *)
LEMMA LiveNext ==
  ASSUME BaseInv, LiveInv, Next
  PROVE  LiveInv'
  <1>0. Active \subseteq Requests
    BY DEF Active
  <1>1. ASSUME NEW r \in Requests, Proceed(r) PROVE LiveInv'
    <2>1. CASE UpdateServiceRequest(r)
      <3>1. appts' = appts /\ overlapped' = overlapped /\ r \in Active
        BY <2>1 DEF UpdateServiceRequest, Active
      <3>2. /\ pc'[r] \in {"calendar", "idle"} /\ (pc'[r] # "idle" => loc'[r] = loc[r])
            /\ \A s \in Requests \ {r} : pc'[s] = pc[s] /\ loc'[s] = loc[s]
        BY <2>1 DEF UpdateServiceRequest, Goto, BaseInv, Types, AfterRequest
      <3>3. Active' \subseteq Active
        BY <3>1, <3>2 DEF Active
      <3>4. \A s \in Active' : loc'[s] = loc[s] /\ (pc'[s] = "write" => pc[s] = "write")
        BY <3>2 DEF Active
      <3> QED BY <3>1, <3>3, <3>4, NothingGrows, LiveShrinks
    <2>2. CASE QueueCalendarJob(r) \/ RequestFails(r)
      <3>1. appts' = appts /\ overlapped' = overlapped /\ Goto(r, "idle", NoLocals)
        BY <2>2 DEF QueueCalendarJob, RequestFails
      <3>2. pc'[r] = "idle" /\ \A s \in Requests \ {r} : pc'[s] = pc[s] /\ loc'[s] = loc[s]
        BY <3>1 DEF Goto, BaseInv, Types
      <3>3. Active' \subseteq Active
        BY <3>2 DEF Active
      <3>4. \A s \in Active' : loc'[s] = loc[s] /\ (pc'[s] = "write" => pc[s] = "write")
        BY <3>2 DEF Active
      <3> QED BY <3>1, <3>3, <3>4, NothingGrows, LiveShrinks
    <2> QED BY <1>1, <2>1, <2>2, WriteLive DEF Proceed
  <1>2. ASSUME WorkerStep PROVE LiveInv'
    <2>1. UNCHANGED <<pc, loc, overlapped>>
      BY <1>2 DEF WorkerStep, TakeJob, CreateEvent, StoreEventId, UpdateEvent, DeleteEvent, AckJob,
                  JobFails, requestSide
    <2>2. /\ Booked' = Booked
          /\ \A a \in Booked : appts'[a].root = appts[a].root /\ appts'[a].status = appts[a].status
      <3>1. CASE StoreEventId
        <4>1. /\ worker.job.appt \in Booked /\ worker.event \in 0 .. MaxEvents
              /\ appts' = [appts EXCEPT ![worker.job.appt].event = worker.event]
          BY <3>1 DEF StoreEventId, BaseInv, Types, WorkerOK, JobOK, Workers
        <4> QED BY <4>1, EventStored DEF BaseInv, Booked
      <3>2. CASE ~StoreEventId
        <4>1. appts' = appts
          BY <1>2, <3>2 DEF WorkerStep, TakeJob, CreateEvent, UpdateEvent, DeleteEvent, AckJob, JobFails
        <4> QED BY <4>1, NothingGrows
      <3> QED BY <3>1, <3>2
    <2>3. Active' = Active
      BY <2>1 DEF Active
    <2> QED BY <2>1, <2>2, <2>3, LiveShrinks
  <1>3. ASSUME Restart PROVE LiveInv'
    <2>1. appts' = appts /\ overlapped' = overlapped /\ Active' = {}
      BY <1>3 DEF Restart, Active
    <2> QED BY <2>1, NothingGrows, LiveShrinks
  <1> QED BY <1>1, <1>2, <1>3, BeginLive, CreateLive DEF Next

(* So it holds always.                                                     *)
LEMMA LiveAlways == Spec => [](BaseInv /\ LiveInv)
  <1>1. Init => BaseInv /\ LiveInv
    <2>1. Init => Booked = {} /\ Active = {}
      BY DEF Init, NoAppt, Booked, Active
    <2> QED BY <2>1, BaseInit DEF LiveInv
  <1>2. BaseInv /\ LiveInv /\ UNCHANGED vars => LiveInv'
    <2> SUFFICES ASSUME BaseInv, LiveInv, UNCHANGED vars PROVE LiveInv'
      OBVIOUS
    <2>1. UNCHANGED <<appts, pc, loc, overlapped>> /\ Active' = Active
      BY DEF vars, Active
    <2> QED BY <2>1, NothingGrows, LiveShrinks
  <1>3. BaseInv /\ BaseInv' /\ LiveInv /\ [Next]_vars => LiveInv'
    BY <1>2, LiveNext
  <1> QED BY <1>1, <1>3, BaseAlways, PTL DEF Spec

\* For every number of requests and bookings: a booking whose requests do not
\* overlap has at most one live row, whatever fails and wherever a restart
\* interrupts a reschedule.
THEOREM NeverDoubled == Spec => []OneLivePerBooking
  <1>1. BaseInv /\ LiveInv => OneLivePerBooking
    <2> SUFFICES ASSUME BaseInv, LiveInv, NEW root \in Roots \ overlapped
                 PROVE  Cardinality({a \in RowsOf(root) : IsLive(a)}) <= 1
      BY DEF OneLivePerBooking
    <2> DEFINE S == {a \in RowsOf(root) : IsLive(a)}
    <2>1. \A a, b \in S : a = b
      <3> SUFFICES ASSUME NEW a \in S, NEW b \in S, a < b PROVE FALSE
        BY AppointmentAssumption DEF RowsOf, Booked, Appts
      <3>1. appts[a].status = "rescheduled"
        BY DEF LiveInv, RowsOf
      <3> QED BY <3>1 DEF IsLive, LiveStates
    <2>2. S = {} \/ \E a : S = {a}
      BY <2>1
    <2> HIDE DEF S
    <2>3. Cardinality(S) <= 1
      <3>1. CASE S = {}
        BY <3>1, FS_EmptySet
      <3>2. ASSUME NEW a, S = {a} PROVE Cardinality(S) <= 1
        <4>1. Cardinality({a}) = 1
          BY FS_Singleton
        <4> QED BY <3>2, <4>1
      <3> QED BY <2>2, <3>1, <3>2
    <2> QED BY <2>3 DEF S
  <1> QED BY <1>1, LiveAlways, PTL

\* An appointment that is completed, cancelled, missed or moved stays so, as long
\* as the requests on its booking do not overlap: the write by id that follows the
\* check of the status then finds the row as it was checked.
LEMMA OverIsOver == Spec => TerminalFinal
  <1>1. ASSUME BaseInv, LiveInv, [Next]_vars
        PROVE  [\A a \in Appts : appts[a].status \in TerminalStates /\ appts[a].root \notin overlapped
                  => appts'[a].status = appts[a].status]_vars
    <2> SUFFICES ASSUME NEW a \in Appts, appts[a].status \in TerminalStates,
                        appts[a].root \notin overlapped, Next
                 PROVE  appts'[a].status = appts[a].status
      BY <1>1 DEF vars
    <2>1. a \in Booked
      BY DEF Booked, TerminalStates
    <2>2. ASSUME NEW r \in Requests, WriteRow(r) PROVE appts'[a].status = appts[a].status
      <3>1. /\ r \in Active /\ pc[r] = "write"
            /\ appts'[a].status = IF a = loc[r].appt THEN Target(loc[r].op) ELSE appts[a].status
        BY <1>1, <2>1, <2>2, Wrote
      <3>2. a # loc[r].appt
        BY <1>1, <3>1 DEF LiveInv, Root, IsLive, LiveStates, TerminalStates
      <3> QED BY <3>1, <3>2
    <2>3. ASSUME NEW r \in Requests, NEW sr \in ServiceRequests, NEW t \in Starts, Create(r, sr, t)
          PROVE  appts'[a].status = appts[a].status
      <3>1. NewRow \notin Booked /\ \A b \in Appts \ {NewRow} : appts'[b] = appts[b]
        BY <1>1, <2>3, RowCreated DEF Create, BaseInv
      <3> QED BY <2>1, <3>1
    <2>4. ASSUME StoreEventId PROVE appts'[a].status = appts[a].status
      BY <1>1, <2>4, EventStored DEF StoreEventId, BaseInv, Types, WorkerOK, JobOK, Workers
    <2>5. appts' = appts \/ (\E r \in Requests : WriteRow(r)) \/ StoreEventId
          \/ \E r \in Requests, sr \in ServiceRequests, t \in Starts : Create(r, sr, t)
      BY DEF Next, Proceed, UpdateServiceRequest, QueueCalendarJob, RequestFails, Begin, WorkerStep,
             TakeJob, CreateEvent, UpdateEvent, DeleteEvent, AckJob, JobFails, Restart
    <2> QED BY <2>2, <2>3, <2>4, <2>5
  <1> QED BY <1>1, LiveAlways, PTL DEF Spec, TerminalFinal

----------------------------------------------------------------------------
\* The last row of a booking.
LEMMA HasLargest ==
  ASSUME NEW S, S \subseteq Nat, S # {}, NEW k \in Nat, \A x \in S : x <= k
  PROVE  \E m \in S : \A y \in S : y <= m
  <1> DEFINE U == {n \in Nat : \A g \in S : g <= n}
  <1>1. PICK m \in U : \A y \in U : ~(<<y, m>> \in OpToRel(<, Nat))
    <2>1. U \subseteq Nat /\ U # {}
      OBVIOUS
    <2> HIDE DEF U
    <2> QED BY <2>1, NatLessThanWellFounded, WFMin
  <1>2. ASSUME NEW y \in U PROVE m <= y
    <2>1. m \in Nat /\ y \in Nat
      OBVIOUS
    <2>2. ~(y < m)
      BY <1>1, <2>1 DEF OpToRel
    <2> QED BY <2>1, <2>2
  <1>3. m \in S
    <2> SUFFICES ASSUME m \notin S PROVE FALSE
      OBVIOUS
    <2>1. PICK g \in S : TRUE
      OBVIOUS
    <2>2. m \in Nat /\ \A h \in S : h <= m /\ h # m /\ h \in Nat
      OBVIOUS
    <2>3. m - 1 \in U
      BY <2>1, <2>2
    <2> QED BY <1>2, <2>2, <2>3
  <1> QED BY <1>3

(* CHOOSE finds the largest element.                                       *)
LEMMA LargestChosen ==
  ASSUME NEW S, S \subseteq Nat, NEW m \in S, \A g \in S : g <= m
  PROVE  (CHOOSE f \in S : \A g \in S : g <= f) = m
  <1>1. \A f \in S : (\A g \in S : g <= f) => f = m
    OBVIOUS
  <1> QED BY <1>1

(* The last row of a booking is the one LastRow names.                     *)
LEMMA LastIs ==
  ASSUME BaseInv, NEW a \in Booked, IsLast(a)
  PROVE  LastRow(appts[a].root) = a
  <1> DEFINE S == RowsOf(appts[a].root)
  <1>1. S \subseteq Nat /\ a \in S /\ \A g \in S : g <= a
    BY AppointmentAssumption DEF RowsOf, IsLast, Booked, Appts
  <1>2. LastRow(appts[a].root) = CHOOSE f \in S : \A g \in S : g <= f
    BY DEF LastRow
  <1> HIDE DEF S
  <1> QED BY <1>1, <1>2, LargestChosen

(* Every booking has a last row.                                           *)
LEMMA HasLast ==
  ASSUME BaseInv, NEW root \in Roots
  PROVE  /\ LastRow(root) \in Booked /\ appts[LastRow(root)].root = root
         /\ IsLast(LastRow(root))
  <1> DEFINE S == RowsOf(root)
  <1>1. S \subseteq Nat /\ S # {} /\ MaxAppts \in Nat /\ \A x \in S : x <= MaxAppts
    BY AppointmentAssumption DEF RowsOf, Roots, Booked, Appts
  <1>2. PICK m \in S : \A y \in S : y <= m
    <2> HIDE DEF S
    <2> QED BY <1>1, HasLargest
  <1>3. m \in Booked /\ appts[m].root = root /\ IsLast(m)
    BY <1>2 DEF RowsOf, IsLast
  <1> QED BY <1>3, LastIs

\* While requests come one after the other, the row that was not moved is the last.
LEMMA NotMovedIsLast ==
  ASSUME BaseInv, LiveInv, NEW a \in Booked, appts[a].root \notin overlapped,
         appts[a].status # "rescheduled"
  PROVE  IsLast(a)
  <1> SUFFICES ASSUME NEW b \in Booked, appts[b].root = appts[a].root PROVE b <= a
    BY DEF IsLast
  <1>1. ~(a < b)
    BY DEF LiveInv
  <1>2. a \in Nat /\ b \in Nat
    BY AppointmentAssumption DEF Booked, Appts
  <1> QED BY <1>1, <1>2

(* It has only one.                                                        *)
LEMMA OneLast ==
  ASSUME NEW a \in Booked, NEW b \in Booked, IsLast(a), IsLast(b), appts[a].root = appts[b].root
  PROVE  a = b
  <1>1. a <= b /\ b <= a /\ a \in Nat /\ b \in Nat
    BY AppointmentAssumption DEF IsLast, Booked, Appts
  <1> QED BY <1>1

----------------------------------------------------------------------------
\* The service request of an appointment.
LEMMA UndoingShrinks ==
  ASSUME BaseInv, UndoingInv, Booked' = Booked, Active' \subseteq Active, overlapped' = overlapped,
         \A a \in Booked : appts'[a].root = appts[a].root /\ appts'[a].status = appts[a].status,
         \A s \in Active' : loc'[s] = loc[s] /\ (pc'[s] = "request" => pc[s] = "request")
  PROVE  UndoingInv'
  <1>1. \A s \in Active' : Root(s)' = Root(s) /\ loc[s].appt \in Booked
    BY DEF Root, BaseInv, RequestOK
  <1> QED BY <1>1 DEF UndoingInv, Over

\* A step that changes neither the rows' status nor the visits.
LEMMA VisitSteady ==
  ASSUME BaseInv, NEW sr \in ServiceRequests, VisitOK(sr), visit' = visit, Booked' = Booked,
         \A a \in Booked : /\ appts'[a].root = appts[a].root /\ appts'[a].sr = appts[a].sr
                           /\ appts'[a].status = appts[a].status,
         Undoing(sr) => Undoing(sr)', Visiting(sr) => Visiting(sr)'
  PROVE  VisitOK(sr)'
  <1>1. \A a \in Booked : IsLast(a)' = IsLast(a)
    BY DEF IsLast
  <1>2. \A a \in Booked : Over(a)' = Over(a) /\ IsLive(a)' = IsLive(a)
    BY DEF Over, IsLive
  <1>3. RootsOf(sr)' = RootsOf(sr)
    BY DEF RootsOf
  <1> QED BY <1>1, <1>2, <1>3 DEF VisitOK

(* A booking that is clean after a step was clean before it.               *)
LEMMA CleanBefore ==
  ASSUME Grows, overlapped \subseteq overlapped', excused \subseteq excused', NEW sr,
         BaseInv, (\A root \in RootsOf(sr) : Clean(root))'
  PROVE  \A root \in RootsOf(sr) : Clean(root)
  BY DEF RootsOf, Clean, Grows

(* Requests that still have to update the service request stay while they  *)
(* do not move.                                                            *)
LEMMA RequestersKept ==
  ASSUME BaseInv, NEW sr, \A a \in Booked : appts'[a].sr = appts[a].sr,
         \A s \in Active : pc[s] = "request" /\ appts[loc[s].appt].sr = sr
            => s \in Active' /\ pc'[s] = "request" /\ loc'[s] = loc[s]
  PROVE  (Undoing(sr) => Undoing(sr)') /\ (Visiting(sr) => Visiting(sr)')
  <1>1. \A s \in Active : loc[s].appt \in Booked
    BY DEF BaseInv, RequestOK
  <1> QED BY <1>1 DEF Undoing, Visiting

\* The request is dropped: its booking is excused.
LEMMA DroppedExcused ==
  ASSUME BaseInv, NEW s \in Active, NEW sr, appts[loc[s].appt].sr = sr, Root(s) \in excused',
         appts' = appts
  PROVE  ~(\A root \in RootsOf(sr) : Clean(root))'
  <1>1. Root(s) \in RootsOf(sr)
    BY DEF BaseInv, RequestOK, RowOK, Root, RootsOf
  <1>2. Root(s) \in RootsOf(sr)'
    BY <1>1, NothingGrows DEF RootsOf
  <1> QED BY <1>2 DEF Clean

(* Beginning an operation changes nothing about the visit.                 *)
LEMMA BeginVisit ==
  ASSUME BaseInv, VisitInv, NEW r \in Requests, NEW op \in LifecycleOps, NEW a \in Appts,
         NEW t \in Starts \cup {0}, Begin(r, op, a, t)
  PROVE  VisitInv'
  <1> DEFINE l == [op |-> op, appt |-> a, event |-> appts[a].event, start |-> t]
  <1>1. /\ Goto(r, "write", l) /\ pc[r] = "idle"
        /\ appts' = appts /\ Booked' = Booked /\ visit' = visit /\ excused' = excused
        /\ overlapped \subseteq overlapped' /\ Grows
    BY NothingGrows DEF Begin
  <1>2. pc'[r] = "write" /\ \A s \in Requests \ {r} : pc'[s] = pc[s] /\ loc'[s] = loc[s]
    BY <1>1 DEF Goto, BaseInv, Types
  <1>3. \A s \in Active : s # r /\ s \in Active' /\ pc'[s] = pc[s] /\ loc'[s] = loc[s]
    BY <1>1, <1>2 DEF Active
  <1>4. \A s \in Active' : pc'[s] = "request" => s \in Active /\ pc[s] = "request" /\ loc'[s] = loc[s]
    BY <1>1, <1>2 DEF Active
  <1>5. UndoingInv'
    BY <1>1, <1>4 DEF VisitInv, UndoingInv, Over, Root
  <1>6. ASSUME NEW sr \in ServiceRequests, (\A root \in RootsOf(sr) : Clean(root))'
        PROVE  VisitOK(sr)'
    <2>1. VisitOK(sr)
      BY <1>1, <1>6, CleanBefore DEF VisitInv
    <2>2. (Undoing(sr) => Undoing(sr)') /\ (Visiting(sr) => Visiting(sr)')
      BY <1>1, <1>3, RequestersKept
    <2> QED BY <1>1, <2>1, <2>2, VisitSteady
  <1> QED BY <1>5, <1>6 DEF VisitInv

(* A new appointment makes its request one that has to set the visit.      *)
LEMMA CreateVisit ==
  ASSUME BaseInv, VisitInv, NEW r \in Requests, NEW s0 \in ServiceRequests, NEW t \in Starts,
         Create(r, s0, t)
  PROVE  VisitInv'
  <1> DEFINE n == NewRow
             l == [NoLocals EXCEPT !.op = "create", !.appt = n]
  <1>1. /\ Goto(r, "request", l) /\ pc[r] = "idle" /\ overlapped' = overlapped /\ excused' = excused
        /\ visit' = visit
        /\ n \in Appts \ Booked
        /\ Booked' = Booked \cup {n}
        /\ \A b \in Appts \ {n} : appts'[b] = appts[b]
        /\ appts'[n].status = "scheduled" /\ appts'[n].root = n /\ appts'[n].sr = s0
    BY RowCreated DEF Create, BaseInv
  <1>2. /\ pc'[r] = "request" /\ loc'[r].appt = n /\ loc'[r].op = "create"
        /\ \A s \in Requests \ {r} : pc'[s] = pc[s] /\ loc'[s] = loc[s]
    <2>1. l.appt = n /\ l.op = "create"
      BY NoLocalsTyped DEF Locals
    <2> HIDE DEF l
    <2> QED BY <1>1, <2>1 DEF Goto, BaseInv, Types
  <1>g. Grows
    BY CreateBase
  <1> HIDE DEF n, l
  <1>3. Active' = Active \cup {r} /\ r \notin Active
    BY <1>1, <1>2 DEF Active
  <1>4. \A b \in Booked : b # n /\ appts[b].root # n /\ appts'[b] = appts[b]
    BY <1>1 DEF BaseInv, RowOK, Booked
  <1>5. \A s \in Active : /\ s # r /\ loc[s].appt \in Booked /\ loc'[s] = loc[s] /\ pc'[s] = pc[s]
                          /\ Root(s)' = Root(s)
    BY <1>2, <1>3, <1>4 DEF BaseInv, RequestOK, Active, Root
  <1>6. UndoingInv'
    BY <1>1, <1>2, <1>3, <1>4, <1>5 DEF VisitInv, UndoingInv, Over
  <1>7. \A b \in Booked : IsLast(b)' = IsLast(b)
    BY <1>1, <1>4 DEF IsLast
  <1>9. ASSUME NEW sr \in ServiceRequests, (\A root \in RootsOf(sr) : Clean(root))'
        PROVE  VisitOK(sr)'
    <2>1. VisitOK(sr)
      BY <1>1, <1>9, <1>g, CleanBefore DEF VisitInv
    <2>2. (Undoing(sr) => Undoing(sr)') /\ (Visiting(sr) => Visiting(sr)')
      <3>1. \A a \in Booked : appts'[a].sr = appts[a].sr
        BY <1>4
      <3> QED BY <1>3, <1>5, <3>1, RequestersKept
    <2>3. (sr \in visit => \/ \E a \in Booked : appts[a].sr = sr /\ IsLast(a) /\ ~Over(a)
                           \/ Undoing(sr))'
      BY <1>1, <1>4, <1>7, <2>1, <2>2 DEF VisitOK, Over
    <2>4. ASSUME NEW a \in Booked', (appts[a].sr = sr /\ IsLast(a) /\ IsLive(a))',
                 (RootsOf(sr) = {appts[a].root})'
          PROVE  (sr \in visit \/ Visiting(sr))'
      <3>1. CASE a = n
        <4>1. sr = s0
          BY <1>1, <2>4, <3>1
        <4>2. r \in Active' /\ (pc[r] = "request" /\ loc[r].op = "create" /\ appts[loc[r].appt].sr = sr)'
          BY <1>1, <1>2, <1>3, <4>1
        <4> QED BY <4>2 DEF Visiting
      <3>2. CASE a # n
        <4>1. a \in Booked /\ appts'[a] = appts[a] /\ appts[a].root \in Booked
              /\ appts'[a].root # n
          BY <1>1, <1>4, <3>2 DEF BaseInv, RowOK
        <4>2. n \notin RootsOf(sr)'
          BY <2>4, <4>1
        <4>3. sr # s0
          BY <1>1, <4>2 DEF RootsOf
        <4>4. RootsOf(sr)' = RootsOf(sr)
          BY <1>1, <1>4, <4>3 DEF RootsOf
        <4>5. appts[a].sr = sr /\ IsLast(a) /\ IsLive(a) /\ RootsOf(sr) = {appts[a].root}
          BY <1>7, <2>4, <4>1, <4>4 DEF IsLive
        <4>6. sr \in visit \/ Visiting(sr)
          BY <2>1, <4>1, <4>5 DEF VisitOK
        <4> QED BY <1>1, <2>2, <4>6
      <3> QED BY <3>1, <3>2
    <2> QED BY <2>3, <2>4 DEF VisitOK
  <1> QED BY <1>6, <1>9 DEF VisitInv

(* The update sets the visit as the last appointment asks, unless another  *)
(* request of the booking got between.                                     *)
LEMMA UpdateVisit ==
  ASSUME BaseInv, LiveInv, VisitInv, NEW r \in Requests, UpdateServiceRequest(r)
  PROVE  VisitInv'
  <1> DEFINE l == loc[r]
             a == loc[r].appt
             s0 == appts[a].sr
  <1>1. /\ r \in Active /\ pc[r] = "request" /\ l.op \in {"create", "cancel", "no_show"}
        /\ a \in Booked /\ Root(r) = appts[a].root
    BY DEF UpdateServiceRequest, Active, BaseInv, RequestOK, Root
  <1>2. /\ appts' = appts /\ overlapped' = overlapped /\ excused' = excused
        /\ Booked' = Booked /\ Grows
        /\ visit' = IF l.op = "create" THEN visit \cup {s0} ELSE visit \ {s0}
    BY NothingGrows DEF UpdateServiceRequest
  <1>3. /\ pc'[r] \in {"calendar", "idle"} /\ (pc'[r] # "idle" => loc'[r] = loc[r])
        /\ \A s \in Requests \ {r} : pc'[s] = pc[s] /\ loc'[s] = loc[s]
    BY DEF UpdateServiceRequest, Goto, BaseInv, Types, AfterRequest
  <1>4. Active' \subseteq Active /\ \A s \in Active : s # r => s \in Active' /\ pc'[s] = pc[s] /\ loc'[s] = loc[s]
    BY <1>1, <1>3 DEF Active
  <1>5. UndoingInv'
    <2>1. \A s \in Active' : loc'[s] = loc[s] /\ (pc'[s] = "request" => pc[s] = "request")
      BY <1>3 DEF Active
    <2> QED BY <1>2, <1>4, <2>1, UndoingShrinks DEF VisitInv
  <1>6. ASSUME NEW sr \in ServiceRequests, (\A root \in RootsOf(sr) : Clean(root))'
        PROVE  VisitOK(sr)'
    <2>1. VisitOK(sr)
      BY <1>2, <1>6, CleanBefore DEF VisitInv
    <2>2. CASE sr # s0
      <3>1. (Undoing(sr) => Undoing(sr)') /\ (Visiting(sr) => Visiting(sr)')
        BY <1>2, <1>4, <2>2, RequestersKept
      <3>2. sr \in visit' <=> sr \in visit
        BY <1>2, <2>2
      <3> QED BY <1>2, <2>1, <3>1, <3>2 DEF VisitOK, IsLast, Over, IsLive, RootsOf
    <2>3. CASE sr = s0
      <3>1. Root(r) \in RootsOf(sr)
        BY <1>1, <2>3 DEF BaseInv, RowOK, RootsOf
      <3>2. Root(r) \notin overlapped
        BY <1>2, <1>6, <3>1, CleanBefore DEF Clean
      <3>3. appts[a].status # "rescheduled"
        BY <1>1, <3>2 DEF LiveInv, IsLive, LiveStates, VisitInv, UndoingInv, Over
      <3>4. IsLast(a)
        BY <1>1, <3>2, <3>3, NotMovedIsLast
      <3>5. CASE l.op = "create"
        <4>1. ~Over(a)
          BY <1>1, <3>2, <3>5 DEF LiveInv, IsLive, LiveStates, Over
        <4>2. \E b \in Booked' : IsLast(b)' /\ ~Over(b)' /\ appts'[b].sr = sr
          <5>1. PICK b \in Booked : b = a
            BY <1>1
          <5> HIDE DEF a
          <5>2. b \in Booked' /\ IsLast(b)' /\ ~Over(b)' /\ appts'[b].sr = sr
            BY <1>2, <2>3, <3>4, <4>1, <5>1 DEF IsLast, Over
          <5> QED BY <5>2
        <4>3. sr \in visit'
          BY <1>2, <2>3, <3>5
        <4> QED BY <4>2, <4>3 DEF VisitOK
      <3>6. CASE l.op # "create"
        <4>1. sr \notin visit'
          BY <1>2, <2>3, <3>6
        <4>2. Over(a)
          BY <1>1, <3>2, <3>6 DEF VisitInv, UndoingInv
        <4>3. ASSUME NEW b \in Booked, appts[b].sr = sr, IsLast(b), IsLive(b),
                     RootsOf(sr) = {appts[b].root}
              PROVE  FALSE
          <5>1. appts[b].root = appts[a].root
            BY <1>1, <3>1, <4>3
          <5>2. b = a
            BY <1>1, <3>4, <4>3, <5>1, OneLast
          <5> QED BY <4>2, <4>3, <5>2 DEF Over, IsLive, LiveStates
        <4> QED BY <1>2, <4>1, <4>3 DEF VisitOK, IsLast, IsLive, RootsOf
      <3> QED BY <3>5, <3>6
    <2> QED BY <2>2, <2>3
  <1> QED BY <1>5, <1>6 DEF VisitInv

(* A cancellation leaves a request that has to undo the visit.             *)
LEMMA WriteVisit ==
  ASSUME BaseInv, LiveInv, VisitInv, NEW r \in Requests, WriteRow(r)
  PROVE  VisitInv'
  <1> DEFINE l == loc[r]
  <1>0. PICK a \in Booked : a = l.appt
    BY Wrote
  <1>n. PICK n : n = NewRow
    OBVIOUS
  <1>1. /\ r \in Active /\ pc[r] = "write" /\ l.op \in LifecycleOps
        /\ overlapped' = overlapped /\ visit' = visit
        /\ \A b \in Booked :
             /\ b \in Booked'
             /\ appts'[b].sr = appts[b].sr /\ appts'[b].root = appts[b].root
             /\ appts'[b].status = IF b = a THEN Target(l.op) ELSE appts[b].status
        /\ l.op # "reschedule" => Booked' = Booked
        /\ l.op = "reschedule" =>
             /\ n \in Appts \ Booked /\ Booked' = Booked \cup {n}
             /\ appts'[n].status = "scheduled"
             /\ appts'[n].sr = appts[a].sr /\ appts'[n].root = appts[a].root
        /\ \A s \in Requests \ {r} : pc'[s] = pc[s] /\ loc'[s] = loc[s]
        /\ pc'[r] = AfterWrite(l) /\ AfterWrite(l) \in {"request", "calendar", "idle"}
        /\ Active' = IF pc'[r] = "idle" THEN Active \ {r} ELSE Active
        /\ pc'[r] # "idle" => /\ loc'[r].op = l.op
                              /\ loc'[r].appt = IF l.op = "reschedule" THEN n ELSE a
    BY <1>0, <1>n, Wrote
  <1>2. /\ excused \subseteq excused' /\ Grows
        /\ Root(r) = appts[a].root
    <2>1. Grows
      BY WriteBase
    <2> QED BY <1>0, <2>1 DEF WriteRow, Root
  <1>3. l.op = "reschedule" => \A b \in Booked : b < n /\ b \in Nat /\ n \in Nat /\ b # n
    <2>1. PICK k \in 0 .. MaxAppts : Booked = 1 .. k
      BY DEF BaseInv, Numbered
    <2>2. n = k + 1
      BY <1>n, <2>1, BookedSize DEF BaseInv
    <2> QED BY <2>1, <2>2, AppointmentAssumption
  <1>4. \A s \in Active \ {r} : /\ s \in Active' /\ s \in Requests /\ loc[s].appt \in Booked
                                /\ pc'[s] = pc[s] /\ loc'[s] = loc[s] /\ Root(s)' = Root(s)
    BY <1>1 DEF Active, BaseInv, RequestOK, Root
  <1>5. /\ AfterWrite(l) = "request" <=> l.op \in {"cancel", "no_show"}
        /\ l.op \in {"cancel", "no_show"} => Target(l.op) \in {"cancelled", "no_show"}
        /\ l.op \in {"confirm", "complete"} => Target(l.op) \in {"confirmed", "completed"}
        /\ l.op = "reschedule" => Target(l.op) = "rescheduled"
        /\ l.op \in {"cancel", "no_show", "confirm", "complete", "reschedule"}
    BY <1>1 DEF AfterWrite, Target, LifecycleOps
  <1> HIDE DEF l
  <1>6. UndoingInv'
    <2> SUFFICES ASSUME NEW s \in Active', pc'[s] = "request", loc'[s].op \in {"cancel", "no_show"},
                        Root(s)' \notin overlapped
                 PROVE  Over(loc[s].appt)'
      BY <1>1 DEF UndoingInv
    <2>1. CASE s = r
      BY <1>1, <1>5, <2>1 DEF Over
    <2>2. CASE s # r
      <3>1. s \in Active \ {r} /\ Root(s) \notin overlapped
        BY <1>1, <1>4, <2>2
      <3>2. Over(loc[s].appt)
        BY <1>4, <3>1 DEF VisitInv, UndoingInv
      <3>3. loc[s].appt # a
        <4>1. Root(s) # Root(r)
          BY <1>1, <3>1 DEF LiveInv
        <4> QED BY <1>2, <4>1 DEF Root
      <3> QED BY <1>1, <1>4, <3>1, <3>2, <3>3 DEF Over
    <2> QED BY <2>1, <2>2
  <1>7. ASSUME NEW sr \in ServiceRequests, (\A root \in RootsOf(sr) : Clean(root))'
        PROVE  VisitOK(sr)'
    <2>1. VisitOK(sr) /\ \A root \in RootsOf(sr) : Clean(root)
      BY <1>1, <1>2, <1>7, CleanBefore DEF VisitInv
    <2>2. (Undoing(sr) => Undoing(sr)') /\ (Visiting(sr) => Visiting(sr)')
      <3>1. \A s \in Active : pc[s] = "request" => s \in Active' /\ pc'[s] = "request" /\ loc'[s] = loc[s]
        BY <1>1, <1>4
      <3> QED BY <1>1, <3>1, RequestersKept
    <2>3. RootsOf(sr)' = RootsOf(sr)
      <3>1. l.op = "reschedule" => appts'[n].root # n
        BY <1>1, <1>3 DEF BaseInv, RowOK
      <3> QED BY <1>1, <3>1 DEF RootsOf
    <2>4. CASE appts[a].sr # sr
      <3>1. \A b \in Booked : appts[b].sr = sr => appts[b].root # appts[a].root
        BY <2>4 DEF BaseInv, RowOK
      <3>2. \A b \in Booked : appts[b].sr = sr => IsLast(b)' = IsLast(b)
        BY <1>1, <3>1 DEF IsLast
      <3>3. \A b \in Booked : appts[b].sr = sr => /\ Over(b)' = Over(b) /\ IsLive(b)' = IsLive(b)
        BY <1>1, <2>4 DEF Over, IsLive
      <3>4. \A b \in Booked' : appts'[b].sr = sr => b \in Booked
        BY <1>1, <2>4
      <3>5. (sr \in visit => \/ \E b \in Booked : appts[b].sr = sr /\ IsLast(b) /\ ~Over(b)
                             \/ Undoing(sr))'
        BY <1>1, <2>1, <2>2, <3>2, <3>3 DEF VisitOK
      <3>6. (\A b \in Booked : appts[b].sr = sr /\ IsLast(b) /\ IsLive(b) /\ RootsOf(sr) = {appts[b].root}
               => sr \in visit \/ Visiting(sr))'
        BY <1>1, <2>1, <2>2, <2>3, <3>2, <3>3, <3>4 DEF VisitOK
      <3> QED BY <3>5, <3>6 DEF VisitOK
    <2>5. CASE appts[a].sr = sr
      <3> DEFINE root == appts[a].root
      <3>1. root \in RootsOf(sr) /\ root \notin overlapped
        <4>1. root \in RootsOf(sr)
          BY <2>5 DEF BaseInv, RowOK, RootsOf
        <4> QED BY <2>1, <4>1 DEF Clean
      <3>2. IsLive(a)
        BY <1>0, <1>1, <1>2, <3>1 DEF LiveInv, l
      <3>3. IsLast(a)
        BY <3>1, <3>2, NotMovedIsLast DEF IsLive, LiveStates
      <3>4. \A b \in Booked : appts[b].root = root => b <= a
        BY <3>3 DEF IsLast
      <3> HIDE DEF root
      <3>5. \A b \in Booked : appts[b].root # root => (IsLast(b)' = IsLast(b)) /\ (Over(b)' = Over(b))
        BY <1>1 DEF IsLast, Over, root
      <3>6. CASE l.op # "reschedule"
        <4>1. \A b \in Booked : IsLast(b)' = IsLast(b)
          BY <1>1, <3>6 DEF IsLast
        <4>2. \A b \in Booked : b # a => (Over(b)' = Over(b)) /\ (IsLive(b)' = IsLive(b))
          BY <1>1 DEF Over, IsLive
        <4>3. (sr \in visit => \/ \E b \in Booked : appts[b].sr = sr /\ IsLast(b) /\ ~Over(b)
                               \/ Undoing(sr))'
          <5>1. CASE l.op \in {"cancel", "no_show"}
            <6>1. r \in Active' /\ (/\ pc[r] = "request" /\ loc[r].op \in {"cancel", "no_show"}
                                    /\ appts[loc[r].appt].sr = sr)'
              BY <1>1, <1>5, <2>5, <5>1
            <6> QED BY <6>1 DEF Undoing
          <5>2. CASE l.op \in {"confirm", "complete"}
            <6>1. ~Over(a)'
              BY <1>1, <1>5, <5>2 DEF Over
            <6> QED BY <1>1, <2>5, <3>3, <4>1, <6>1
          <5> QED BY <1>5, <3>6, <5>1, <5>2
        <4>4. ASSUME NEW b \in Booked', (appts[b].sr = sr /\ IsLast(b) /\ IsLive(b))',
                     (RootsOf(sr) = {appts[b].root})'
              PROVE  (sr \in visit \/ Visiting(sr))'
          <5>1. b \in Booked /\ IsLast(b) /\ appts[b].root = root
            BY <1>1, <2>3, <3>1, <3>6, <4>1, <4>4
          <5>2. b = a
            BY <3>3, <5>1, OneLast DEF root
          <5>3. RootsOf(sr) = {appts[a].root}
            BY <1>1, <2>3, <4>4, <5>2
          <5> QED BY <1>1, <2>1, <2>2, <2>5, <3>2, <3>3, <5>3 DEF VisitOK
        <4> QED BY <4>3, <4>4 DEF VisitOK
      <3>7. CASE l.op = "reschedule"
        <4>1. IsLast(n)' /\ ~Over(n)' /\ n \in Booked' /\ appts'[n].sr = sr /\ appts'[n].root = root
          <5>1. \A b \in Booked' : b <= n
            BY <1>1, <1>3, <3>7
          <5> QED BY <1>1, <2>5, <3>7, <5>1 DEF IsLast, Over, root
        <4>2. ASSUME NEW b \in Booked', (appts[b].sr = sr /\ IsLast(b) /\ IsLive(b))',
                     (RootsOf(sr) = {appts[b].root})'
              PROVE  (sr \in visit \/ Visiting(sr))'
          <5>1. appts'[b].root = root
            BY <2>3, <3>1, <4>2
          <5>2. RootsOf(sr) = {appts[a].root}
            BY <2>3, <4>2, <5>1 DEF root
          <5> QED BY <1>1, <2>1, <2>2, <2>5, <3>2, <3>3, <5>2 DEF VisitOK
        <4> QED BY <4>1, <4>2 DEF VisitOK
      <3> QED BY <3>6, <3>7
    <2> QED BY <2>4, <2>5
  <1> QED BY <1>6, <1>7 DEF VisitInv

(* Every step keeps the visit right or somebody about to put it right.     *)
LEMMA VisitNext ==
  ASSUME BaseInv, LiveInv, VisitInv, Next
  PROVE  VisitInv'
  <1>1. ASSUME NEW r \in Requests, QueueCalendarJob(r) PROVE VisitInv'
    <2>1. /\ appts' = appts /\ visit' = visit /\ overlapped' = overlapped /\ excused' = excused
          /\ Goto(r, "idle", NoLocals) /\ pc[r] = "calendar" /\ Booked' = Booked /\ Grows
      BY <1>1, NothingGrows DEF QueueCalendarJob
    <2>2. pc'[r] = "idle" /\ \A s \in Requests \ {r} : pc'[s] = pc[s] /\ loc'[s] = loc[s]
      BY <2>1 DEF Goto, BaseInv, Types
    <2>3. /\ Active' \subseteq Active
          /\ \A s \in Active : pc[s] = "request" => s \in Active' /\ pc'[s] = "request" /\ loc'[s] = loc[s]
          /\ \A s \in Active' : loc'[s] = loc[s] /\ pc'[s] = pc[s]
      BY <2>1, <2>2 DEF Active
    <2>4. UndoingInv'
      BY <2>1, <2>3, UndoingShrinks DEF VisitInv
    <2>5. ASSUME NEW sr \in ServiceRequests, (\A root \in RootsOf(sr) : Clean(root))'
          PROVE  VisitOK(sr)'
      <3>1. VisitOK(sr)
        BY <2>1, <2>5, CleanBefore DEF VisitInv
      <3>2. (Undoing(sr) => Undoing(sr)') /\ (Visiting(sr) => Visiting(sr)')
        BY <2>1, <2>3, RequestersKept
      <3> QED BY <2>1, <3>1, <3>2, VisitSteady
    <2> QED BY <2>4, <2>5 DEF VisitInv
  <1>2. ASSUME NEW D \in SUBSET Requests, appts' = appts, visit' = visit, overlapped' = overlapped,
               excused \subseteq excused', \A s \in D \cap Active : Root(s) \in excused',
               \A s \in D : pc'[s] = "idle",
               \A s \in Requests \ D : pc'[s] = pc[s] /\ loc'[s] = loc[s]
        PROVE  VisitInv'
    <2>1. /\ Active' \subseteq Active
          /\ \A s \in Active : s \in D \/ (s \in Active' /\ pc'[s] = pc[s] /\ loc'[s] = loc[s])
          /\ \A s \in Active' : loc'[s] = loc[s] /\ pc'[s] = pc[s]
      BY <1>2 DEF Active
    <2>2. Booked' = Booked /\ Grows
      BY <1>2, NothingGrows
    <2>3. UndoingInv'
      BY <1>2, <2>1, <2>2, UndoingShrinks DEF VisitInv
    <2>4. ASSUME NEW sr \in ServiceRequests, (\A root \in RootsOf(sr) : Clean(root))'
          PROVE  VisitOK(sr)'
      <3>1. VisitOK(sr)
        BY <1>2, <2>2, <2>4, CleanBefore DEF VisitInv
      <3>2. \A s \in Active : appts[loc[s].appt].sr = sr => s \notin D
        BY <1>2, <2>4, DroppedExcused
      <3>3. (Undoing(sr) => Undoing(sr)') /\ (Visiting(sr) => Visiting(sr)')
        BY <1>2, <2>1, <3>2, RequestersKept
      <3> QED BY <1>2, <2>2, <3>1, <3>3, VisitSteady
    <2> QED BY <2>3, <2>4 DEF VisitInv
  <1>3. ASSUME NEW r \in Requests, RequestFails(r) PROVE VisitInv'
    <2>1. /\ appts' = appts /\ visit' = visit /\ overlapped' = overlapped
          /\ excused \subseteq excused' /\ Root(r) \in excused'
          /\ Goto(r, "idle", NoLocals)
      BY <1>3 DEF RequestFails
    <2>2. pc'[r] = "idle" /\ \A s \in Requests \ {r} : pc'[s] = pc[s] /\ loc'[s] = loc[s]
      BY <2>1 DEF Goto, BaseInv, Types
    <2>3. {r} \in SUBSET Requests
      OBVIOUS
    <2> QED BY <1>2, <2>1, <2>2, <2>3
  <1>4. ASSUME Restart PROVE VisitInv'
    <2>1. /\ appts' = appts /\ visit' = visit /\ overlapped' = overlapped
          /\ excused \subseteq excused' /\ \A s \in Active : Root(s) \in excused'
          /\ \A s \in Requests : pc'[s] = "idle"
      BY <1>4 DEF Restart, Active
    <2> QED BY <1>2, <2>1
  <1>5. ASSUME WorkerStep PROVE VisitInv'
    <2>1. UNCHANGED <<pc, loc, overlapped, visit>> /\ excused \subseteq excused' /\ Active' = Active
      BY <1>5 DEF WorkerStep, TakeJob, CreateEvent, StoreEventId, UpdateEvent, DeleteEvent, AckJob,
                  JobFails, requestSide, Active
    <2>2. Grows
      BY <1>5, WorkerBase
    <2>3. /\ Booked' = Booked
          /\ \A a \in Booked : /\ appts'[a].root = appts[a].root /\ appts'[a].sr = appts[a].sr
                               /\ appts'[a].status = appts[a].status
      <3>1. CASE StoreEventId
        <4>1. /\ worker.job.appt \in Booked /\ worker.event \in 0 .. MaxEvents
              /\ appts' = [appts EXCEPT ![worker.job.appt].event = worker.event]
          BY <3>1 DEF StoreEventId, BaseInv, Types, WorkerOK, JobOK, Workers
        <4> QED BY <4>1, EventStored DEF BaseInv, Booked
      <3>2. CASE ~StoreEventId
        <4>1. appts' = appts
          BY <1>5, <3>2 DEF WorkerStep, TakeJob, CreateEvent, UpdateEvent, DeleteEvent, AckJob, JobFails
        <4> QED BY <4>1, NothingGrows
      <3> QED BY <3>1, <3>2
    <2>4. UndoingInv'
      BY <2>1, <2>3, UndoingShrinks DEF VisitInv
    <2>5. ASSUME NEW sr \in ServiceRequests, (\A root \in RootsOf(sr) : Clean(root))'
          PROVE  VisitOK(sr)'
      <3>1. VisitOK(sr)
        BY <2>1, <2>2, <2>5, CleanBefore DEF VisitInv
      <3>2. (Undoing(sr) => Undoing(sr)') /\ (Visiting(sr) => Visiting(sr)')
        BY <2>1, <2>3, RequestersKept
      <3> QED BY <2>1, <2>3, <3>1, <3>2, VisitSteady
    <2> QED BY <2>4, <2>5 DEF VisitInv
  <1> QED BY <1>1, <1>3, <1>4, <1>5, BeginVisit, CreateVisit, UpdateVisit, WriteVisit DEF Next, Proceed

(* So it is right always.                                                  *)
LEMMA VisitAlways == Spec => []VisitInv
  <1>1. Init => VisitInv
    <2> SUFFICES ASSUME Init PROVE VisitInv
      OBVIOUS
    <2>1. Booked = {} /\ Active = {} /\ visit = {}
      BY DEF Init, NoAppt, Booked, Active
    <2> QED BY <2>1 DEF VisitInv, UndoingInv, VisitOK
  <1>2. BaseInv /\ VisitInv /\ UNCHANGED vars => VisitInv'
    <2> SUFFICES ASSUME BaseInv, VisitInv, UNCHANGED vars PROVE VisitInv'
      OBVIOUS
    <2>1. UNCHANGED <<appts, visit, pc, loc, overlapped, excused>>
      BY DEF vars
    <2>2. Active' = Active /\ Booked' = Booked
      BY <2>1 DEF Active, Booked
    <2>3. UndoingInv'
      BY <2>1, <2>2, UndoingShrinks DEF VisitInv
    <2>4. ASSUME NEW sr \in ServiceRequests, (\A root \in RootsOf(sr) : Clean(root))'
          PROVE  VisitOK(sr)'
      <3>1. VisitOK(sr)
        BY <2>1, <2>2, <2>4, CleanBefore, NothingGrows DEF VisitInv
      <3>2. (Undoing(sr) => Undoing(sr)') /\ (Visiting(sr) => Visiting(sr)')
        BY <2>1, <2>2, RequestersKept
      <3> QED BY <2>1, <2>2, <3>1, <3>2, VisitSteady
    <2> QED BY <2>3, <2>4 DEF VisitInv
  <1>3. BaseInv /\ LiveInv /\ VisitInv /\ [Next]_vars => VisitInv'
    BY <1>2, VisitNext
  <1> QED BY <1>1, <1>3, LiveAlways, PTL DEF Spec

\* For every number of requests and bookings: once everything for a service
\* request has settled, it is new again if all its bookings were cancelled or
\* missed, and a scheduled visit while its only booking is live, unless a step
\* of one of them failed or two requests worked on one at the same time.
THEOREM VisitIsRight == Spec => []VisitFollows
  <1>1. BaseInv /\ VisitInv => VisitFollows
    <2> SUFFICES ASSUME BaseInv, VisitInv, NEW sr \in ServiceRequests,
                        LET mine == {root \in Roots : appts[root].sr = sr} IN
                          /\ mine # {}
                          /\ mine \cap (overlapped \cup excused) = {}
                          /\ \A root \in mine : Settled(root)
                 PROVE  LET mine == {root \in Roots : appts[root].sr = sr} IN
                          /\ (\A root \in mine : appts[LastRow(root)].status \in {"cancelled", "no_show"})
                               => sr \notin visit
                          /\ Cardinality(mine) = 1 /\ (\E root \in mine : IsLive(LastRow(root)))
                               => sr \in visit
      BY DEF VisitFollows
    <2> DEFINE mine == {root \in Roots : appts[root].sr = sr}
    <2>1. mine = RootsOf(sr)
      <3>1. \A root \in Booked : appts[root].root = root => root \in Roots
        BY DEF Roots
      <3>2. \A root \in Roots : root \in Booked /\ appts[root].root = root
        BY DEF Roots, BaseInv, RowOK
      <3> QED BY <3>1, <3>2 DEF RootsOf
    <2>2. VisitOK(sr)
      BY <2>1 DEF VisitInv, Clean
    <2>3. \A a \in Booked : appts[a].sr = sr => appts[a].root \in mine
      BY <2>1 DEF RootsOf, BaseInv, RowOK
    <2>4. ~Undoing(sr) /\ ~Visiting(sr)
      <3> SUFFICES ASSUME NEW r \in Active, appts[loc[r].appt].sr = sr PROVE FALSE
        BY DEF Undoing, Visiting
      <3>1. Root(r) \in mine /\ r \in Requests /\ pc[r] # "idle"
        BY <2>3 DEF Root, BaseInv, RequestOK, Active
      <3> QED BY <3>1 DEF Settled, Busy
    <2>5. ASSUME \A root \in mine : appts[LastRow(root)].status \in {"cancelled", "no_show"}, sr \in visit
          PROVE  FALSE
      <3>1. PICK a \in Booked : appts[a].sr = sr /\ IsLast(a) /\ ~Over(a)
        BY <2>2, <2>4, <2>5 DEF VisitOK
      <3>2. LastRow(appts[a].root) = a /\ appts[a].root \in mine
        BY <2>3, <3>1, LastIs
      <3> QED BY <2>5, <3>1, <3>2 DEF Over
    <2>6. ASSUME Cardinality(mine) = 1, NEW root \in mine, IsLive(LastRow(root))
          PROVE  sr \in visit
      <3>1. IsFiniteSet(mine)
        <4>1. IsFiniteSet(Appts)
          BY AppointmentAssumption, FS_Interval DEF Appts
        <4>2. mine \subseteq Appts
          BY <2>1 DEF RootsOf, Booked
        <4> HIDE DEF mine
        <4> QED BY <4>1, <4>2, FS_Subset
      <3>2. \E x : mine = {x}
        <4> HIDE DEF mine
        <4> QED BY <2>6, <3>1, FS_Singleton
      <3>3. mine = {root}
        BY <2>6, <3>2
      <3>4. /\ LastRow(root) \in Booked /\ appts[LastRow(root)].root = root
            /\ IsLast(LastRow(root))
        BY <2>6, HasLast
      <3>5. PICK a \in Booked : a = LastRow(root)
        BY <3>4
      <3>6. appts[a].sr = sr
        BY <2>1, <2>6, <3>4, <3>5 DEF RootsOf, BaseInv, RowOK
      <3> QED BY <2>1, <2>2, <2>4, <2>6, <3>3, <3>4, <3>5, <3>6 DEF VisitOK
    <2> QED BY <2>5, <2>6
  <1> QED BY <1>1, BaseAlways, VisitAlways, PTL

----------------------------------------------------------------------------
\* Who knows of an event.  The claims after a step are claims there were before.
LEMMA RowClaims ==
  ASSUME Booked' = Booked, \A a \in Booked : appts'[a].event = appts[a].event /\ appts'[a].root = appts[a].root,
         NEW g, NEW x
  PROVE  (\E a \in Booked : appts[a].event = g /\ appts[a].root = x)' => Claim(g, x)
  BY DEF Claim

(* Requests that do not move name no event they did not name.              *)
LEMMA RequestClaims ==
  ASSUME BaseInv, Grows, \A s \in Active' : s \in Active /\ loc'[s] = loc[s], NEW g, NEW x
  PROVE  (\E s \in Active : loc[s].event = g /\ Root(s) = x)' => Claim(g, x)
  <1>1. \A s \in Active' : Root(s)' = Root(s)
    BY DEF BaseInv, RequestOK, Grows, Root
  <1> QED BY <1>1 DEF Claim

(* A queue that gains no job names none either.                            *)
LEMMA QueueClaims ==
  ASSUME BaseInv, Grows, \A i \in DOMAIN queue' : \E k \in DOMAIN queue : queue'[i] = queue[k],
         NEW g, NEW x
  PROVE  (\E i \in DOMAIN queue : queue[i].event = g /\ JobRoot(queue[i]) = x)' => Claim(g, x)
  <1>1. \A k \in DOMAIN queue : appts'[queue[k].appt].root = appts[queue[k].appt].root
    BY DEF BaseInv, JobOK, Grows
  <1> QED BY <1>1 DEF Claim, JobRoot

(* Nor does a worker that takes no job.                                    *)
LEMMA WorkerClaims ==
  ASSUME BaseInv, Grows, worker'.pc # "idle" => worker.pc # "idle" /\ worker'.job = worker.job,
         NEW g, NEW x
  PROVE  (worker.pc # "idle" /\ worker.job.event = g /\ JobRoot(worker.job) = x)' => Claim(g, x)
  <1>1. worker.pc # "idle" => appts'[worker.job.appt].root = appts[worker.job.appt].root
    BY DEF BaseInv, WorkerOK, JobOK, Grows
  <1> QED BY <1>1 DEF Claim, JobRoot

\* No new claims.
NoClaims == \A g \in 1 .. MaxEvents, x \in Appts : Claim(g, x)' => Claim(g, x)

(* Where nothing new is claimed, an event still belongs to one booking.    *)
LEMMA ClaimsKept ==
  ASSUME ClaimsInv, NoClaims, made' = made,
         worker'.pc = "store" => worker.pc = "store" /\ worker'.event = worker.event
  PROVE  ClaimsInv'
  BY DEF ClaimsInv, NoClaims

(* A request that begins claims the event its row already has.             *)
LEMMA BeginClaims ==
  ASSUME BaseInv, NEW r \in Requests, NEW op \in LifecycleOps, NEW b \in Appts,
         NEW t \in Starts \cup {0}, Begin(r, op, b, t)
  PROVE  NoClaims /\ made' = made /\ worker' = worker
  <1> SUFFICES ASSUME NEW g \in 1 .. MaxEvents, NEW x \in Appts, Claim(g, x)' PROVE Claim(g, x)
    BY DEF NoClaims, Begin, outbound
  <1> DEFINE l == [op |-> op, appt |-> b, event |-> appts[b].event, start |-> t]
  <1>1. /\ Goto(r, "write", l) /\ b \in Booked /\ appts' = appts /\ queue' = queue /\ worker' = worker
        /\ Grows /\ Booked' = Booked
    BY NothingGrows DEF Begin, outbound
  <1>2. /\ loc'[r].event = appts[b].event /\ loc'[r].appt = b
        /\ \A s \in Requests \ {r} : pc'[s] = pc[s] /\ loc'[s] = loc[s]
    BY <1>1 DEF Goto, BaseInv, Types
  <1>3. (\E s \in Active : loc[s].event = g /\ Root(s) = x)' => Claim(g, x)
    <2> SUFFICES ASSUME NEW s \in Active', loc'[s].event = g, Root(s)' = x PROVE Claim(g, x)
      OBVIOUS
    <2>1. CASE s = r
      BY <1>1, <1>2, <2>1 DEF Claim, Root
    <2>2. CASE s # r
      BY <1>1, <1>2, <2>2 DEF Claim, Root, Active
    <2> QED BY <2>1, <2>2
  <1> QED BY <1>1, <1>3, RowClaims, QueueClaims, WorkerClaims DEF Claim

(* A new appointment claims none.                                          *)
LEMMA CreateClaims ==
  ASSUME BaseInv, NEW r \in Requests, NEW sr \in ServiceRequests, NEW t \in Starts,
         Create(r, sr, t)
  PROVE  NoClaims /\ made' = made /\ worker' = worker
  <1> SUFFICES ASSUME NEW g \in 1 .. MaxEvents, NEW x \in Appts, Claim(g, x)' PROVE Claim(g, x)
    BY DEF NoClaims, Create, outbound
  <1> DEFINE n == NewRow
             l == [NoLocals EXCEPT !.op = "create", !.appt = n]
  <1>1. /\ Goto(r, "request", l) /\ queue' = queue /\ worker' = worker
        /\ Booked' = Booked \cup {n} /\ n \notin Booked
        /\ \A b \in Appts \ {n} : appts'[b] = appts[b]
        /\ appts'[n].event = 0
    BY RowCreated DEF Create, BaseInv, outbound
  <1>2. Grows
    BY CreateBase
  <1>3. l.event = 0
    <2>1. l.event = NoLocals.event
      BY NoLocalsTyped DEF Locals
    <2> QED BY <2>1 DEF NoLocals
  <1> HIDE DEF n, l
  <1>4. g # 0
    BY AppointmentAssumption
  <1>5. loc'[r].event = 0 /\ \A s \in Requests \ {r} : pc'[s] = pc[s] /\ loc'[s] = loc[s]
    BY <1>1, <1>3 DEF Goto, BaseInv, Types
  <1>6. (\E s \in Active : loc[s].event = g /\ Root(s) = x)' => Claim(g, x)
    <2> SUFFICES ASSUME NEW s \in Active', loc'[s].event = g, Root(s)' = x PROVE Claim(g, x)
      OBVIOUS
    <2>1. s # r /\ s \in Active /\ loc'[s] = loc[s]
      BY <1>4, <1>5 DEF Active
    <2>2. Root(s)' = Root(s)
      BY <1>2, <2>1 DEF Root, Grows, BaseInv, RequestOK
    <2> QED BY <2>1, <2>2 DEF Claim
  <1>7. (\E a \in Booked : appts[a].event = g /\ appts[a].root = x)' => Claim(g, x)
    BY <1>1, <1>4 DEF Claim, Booked
  <1> QED BY <1>1, <1>2, <1>6, <1>7, QueueClaims, WorkerClaims DEF Claim

(* A write claims none that its row did not have.                          *)
LEMMA WriteClaims ==
  ASSUME BaseInv, NEW r \in Requests, WriteRow(r)
  PROVE  NoClaims /\ made' = made /\ worker' = worker
  <1> SUFFICES ASSUME NEW g \in 1 .. MaxEvents, NEW x \in Appts, Claim(g, x)' PROVE Claim(g, x)
    BY Wrote DEF NoClaims
  <1> DEFINE l == loc[r]
             n == NewRow
  <1>1. /\ r \in Active /\ l.appt \in Booked
        /\ queue' = queue /\ worker' = worker
        /\ \A b \in Booked : appts'[b].root = appts[b].root /\ appts'[b].event = appts[b].event
        /\ l.op # "reschedule" => Booked' = Booked
        /\ l.op = "reschedule" =>
             /\ Booked' = Booked \cup {n}
             /\ appts'[n].event = l.event /\ appts'[n].root = appts[l.appt].root
        /\ \A s \in Requests \ {r} : loc'[s] = loc[s]
        /\ Active' \subseteq Active
        /\ r \in Active' => /\ loc'[r].event = l.event
                            /\ loc'[r].appt = IF l.op = "reschedule" THEN n ELSE l.appt
    BY Wrote DEF Active
  <1>2. Grows
    BY WriteBase
  <1>3. Claim(l.event, appts[l.appt].root)
    BY <1>1 DEF Claim, Root
  <1> HIDE DEF n
  <1>4. (\E s \in Active : loc[s].event = g /\ Root(s) = x)' => Claim(g, x)
    <2> SUFFICES ASSUME NEW s \in Active', loc'[s].event = g, Root(s)' = x PROVE Claim(g, x)
      OBVIOUS
    <2>1. CASE s = r
      <3>1. appts'[loc'[r].appt].root = appts[l.appt].root
        BY <1>1, <2>1
      <3> QED BY <1>1, <1>3, <2>1, <3>1 DEF Root
    <2>2. CASE s # r
      <3>1. s \in Active /\ loc'[s] = loc[s]
        BY <1>1, <2>2 DEF Active
      <3>2. Root(s)' = Root(s)
        BY <1>2, <3>1 DEF Root, Grows, BaseInv, RequestOK
      <3> QED BY <3>1, <3>2 DEF Claim
    <2> QED BY <2>1, <2>2
  <1>5. (\E a \in Booked : appts[a].event = g /\ appts[a].root = x)' => Claim(g, x)
    <2> SUFFICES ASSUME NEW a \in Booked', appts'[a].event = g, appts'[a].root = x PROVE Claim(g, x)
      OBVIOUS
    <2>1. CASE a \in Booked
      BY <1>1, <2>1 DEF Claim
    <2>2. CASE a \notin Booked
      BY <1>1, <1>3, <2>2
    <2> QED BY <2>1, <2>2
  <1> QED BY <1>1, <1>2, <1>4, <1>5, QueueClaims, WorkerClaims DEF Claim

(* A queued job claims what its request did.                               *)
LEMMA QueueJobClaims ==
  ASSUME BaseInv, NEW r \in Requests, QueueCalendarJob(r)
  PROVE  NoClaims /\ made' = made /\ worker' = worker
  <1> SUFFICES ASSUME NEW g \in 1 .. MaxEvents, NEW x \in Appts, Claim(g, x)' PROVE Claim(g, x)
    BY DEF NoClaims, QueueCalendarJob, outbound
  <1> DEFINE job == CalendarJob(loc[r])
  <1>1. /\ r \in Active /\ pc[r] = "calendar" /\ Goto(r, "idle", NoLocals)
        /\ appts' = appts /\ worker' = worker /\ Grows /\ Booked' = Booked
    BY NothingGrows DEF QueueCalendarJob, Active, outbound
  <1>2. /\ job \in Jobs /\ job.appt = loc[r].appt /\ job.event \in {0, loc[r].event}
        /\ queue' = Append(queue, job) /\ queue \in Seq(Jobs)
    BY <1>1, CalendarJobIs DEF QueueCalendarJob, BaseInv, Types
  <1> HIDE DEF job
  <1>3. /\ DOMAIN queue' = DOMAIN queue \cup {Len(queue) + 1}
        /\ \A i \in DOMAIN queue : queue'[i] = queue[i]
        /\ queue'[Len(queue) + 1] = job
    BY <1>2, JobAppended
  <1>4. g # 0
    BY AppointmentAssumption
  <1>5. (\E i \in DOMAIN queue : queue[i].event = g /\ JobRoot(queue[i]) = x)' => Claim(g, x)
    <2> SUFFICES ASSUME NEW i \in DOMAIN queue', queue'[i].event = g, appts[queue'[i].appt].root = x
                 PROVE  Claim(g, x)
      BY <1>1 DEF JobRoot
    <2>1. CASE i \in DOMAIN queue
      BY <1>3, <2>1 DEF Claim, JobRoot
    <2>2. CASE i \notin DOMAIN queue
      BY <1>1, <1>2, <1>3, <1>4, <2>2 DEF Claim, Root
    <2> QED BY <2>1, <2>2
  <1>6. \A s \in Active' : s \in Active /\ loc'[s] = loc[s]
    BY <1>1 DEF Goto, BaseInv, Types, Active
  <1> QED BY <1>1, <1>5, <1>6, RowClaims, RequestClaims, WorkerClaims DEF Claim

\* A step that leaves the rows alone, and starts no request.
LEMMA FewerClaims ==
  ASSUME BaseInv, appts' = appts, \A s \in Active' : s \in Active /\ loc'[s] = loc[s],
         \A i \in DOMAIN queue' : \E k \in DOMAIN queue : queue'[i] = queue[k],
         worker'.pc # "idle" => worker.pc # "idle" /\ worker'.job = worker.job
  PROVE  NoClaims
  <1>1. Grows /\ Booked' = Booked
    BY NothingGrows
  <1> SUFFICES ASSUME NEW g \in 1 .. MaxEvents, NEW x \in Appts, Claim(g, x)' PROVE Claim(g, x)
    BY DEF NoClaims
  <1>2. (\E a \in Booked : appts[a].event = g /\ appts[a].root = x)' => Claim(g, x)
    BY <1>1, RowClaims
  <1>3. (\E s \in Active : loc[s].event = g /\ Root(s) = x)' => Claim(g, x)
    BY <1>1, RequestClaims
  <1>4. (\E i \in DOMAIN queue : queue[i].event = g /\ JobRoot(queue[i]) = x)' => Claim(g, x)
    BY <1>1, QueueClaims
  <1>5. (worker.pc # "idle" /\ worker.job.event = g /\ JobRoot(worker.job) = x)' => Claim(g, x)
    BY <1>1, WorkerClaims
  <1> QED BY <1>2, <1>3, <1>4, <1>5 DEF Claim

(* No step of a request claims an event for another booking.               *)
LEMMA RequestStepClaims ==
  ASSUME BaseInv, NEW r \in Requests, Proceed(r)
  PROVE  NoClaims /\ made' = made /\ worker' = worker
  <1>1. CASE UpdateServiceRequest(r) \/ RequestFails(r)
    <2>1. appts' = appts /\ queue' = queue /\ worker' = worker /\ made' = made
      BY <1>1 DEF UpdateServiceRequest, RequestFails, outbound
    <2>2. \A s \in Active' : s \in Active /\ loc'[s] = loc[s]
      <3>1. ASSUME UpdateServiceRequest(r) PROVE \A s \in Active' : s \in Active /\ loc'[s] = loc[s]
        BY <3>1 DEF UpdateServiceRequest, Goto, Active, BaseInv, Types
      <3>2. ASSUME RequestFails(r) PROVE \A s \in Active' : s \in Active /\ loc'[s] = loc[s]
        BY <3>2 DEF RequestFails, Goto, Active, BaseInv, Types
      <3> QED BY <1>1, <3>1, <3>2
    <2> QED BY <2>1, <2>2, FewerClaims
  <1> QED BY <1>1, WriteClaims, QueueJobClaims DEF Proceed

(* The worker's job claims what it claimed in the queue.                   *)
LEMMA TakeClaims ==
  ASSUME BaseInv, TakeJob
  PROVE  NoClaims /\ made' = made /\ worker'.pc # "store"
  <1> DEFINE job == Head(queue)
  <1>1. /\ queue # << >> /\ queue' = Tail(queue) /\ queue \in Seq(Jobs)
        /\ worker' = [NoWork EXCEPT !.pc = job.kind, !.job = job]
        /\ UNCHANGED <<appts, made, pc, loc>>
    BY DEF TakeJob, BaseInv, Types, requestSide
  <1>2. /\ job = queue[1] /\ 1 \in DOMAIN queue
        /\ \A i \in DOMAIN queue' : i + 1 \in DOMAIN queue /\ queue'[i] = queue[i + 1]
    BY <1>1, JobTaken
  <1>3. job \in Jobs /\ JobOK(job)
    <2>1. queue[1] \in Jobs
      BY <1>1, <1>2
    <2> QED BY <1>2, <2>1 DEF BaseInv
  <1> HIDE DEF job
  <1>4. worker'.pc = job.kind /\ worker'.job = job /\ job.kind # "store"
    <2>1. job.kind \in {"create", "update", "delete"}
      BY <1>3 DEF Jobs, JobOK
    <2> QED BY <1>1, <1>3, <2>1, NoLocalsTyped DEF Workers
  <1>5. Active' = Active /\ Booked' = Booked /\ Grows
    BY <1>1, NothingGrows DEF Active
  <1> SUFFICES ASSUME NEW g \in 1 .. MaxEvents, NEW x \in Appts, Claim(g, x)' PROVE Claim(g, x)
    BY <1>1, <1>4 DEF NoClaims
  <1>6. (worker.pc # "idle" /\ worker.job.event = g /\ JobRoot(worker.job) = x)' => Claim(g, x)
    BY <1>1, <1>2, <1>4 DEF Claim, JobRoot
  <1>7. (\E i \in DOMAIN queue : queue[i].event = g /\ JobRoot(queue[i]) = x)' => Claim(g, x)
    BY <1>2, <1>5, QueueClaims
  <1>8. (\E a \in Booked : appts[a].event = g /\ appts[a].root = x)' => Claim(g, x)
    BY <1>1, <1>5, RowClaims
  <1>9. (\E s \in Active : loc[s].event = g /\ Root(s) = x)' => Claim(g, x)
    BY <1>1, <1>5, RequestClaims
  <1> QED BY <1>6, <1>7, <1>8, <1>9 DEF Claim

(* A stalled job that returns to the queue claims what it claimed at work. *)
LEMMA RestartClaims ==
  ASSUME BaseInv, Restart
  PROVE  NoClaims /\ made' = made /\ worker'.pc = "idle"
  <1> DEFINE job == [worker.job EXCEPT !.stalled = TRUE]
  <1>1. /\ appts' = appts /\ made' = made /\ worker'.pc = "idle" /\ Active' = {}
        /\ Grows /\ Booked' = Booked
    BY NothingGrows DEF Restart, NoWork, Active
  <1>2. queue' = queue \/ (worker.pc # "idle" /\ queue' = <<job>> \o queue)
    BY DEF Restart
  <1>3. job \in Jobs /\ job.appt = worker.job.appt /\ job.event = worker.job.event
    <2>1. worker.job \in Jobs
      BY DEF BaseInv, Types, Workers
    <2> QED BY <2>1 DEF Jobs
  <1> HIDE DEF job
  <1> SUFFICES ASSUME NEW g \in 1 .. MaxEvents, NEW x \in Appts, Claim(g, x)' PROVE Claim(g, x)
    BY <1>1 DEF NoClaims
  <1>4. (\E i \in DOMAIN queue : queue[i].event = g /\ JobRoot(queue[i]) = x)' => Claim(g, x)
    <2>1. CASE queue' = queue
      BY <1>1, <2>1, QueueClaims
    <2>2. CASE worker.pc # "idle" /\ queue' = <<job>> \o queue
      <3>1. /\ queue'[1] = job
            /\ \A i \in DOMAIN queue' \ {1} : i - 1 \in DOMAIN queue /\ queue'[i] = queue[i - 1]
        BY <1>3, <2>2, JobReturned DEF BaseInv, Types
      <3> SUFFICES ASSUME NEW i \in DOMAIN queue', queue'[i].event = g, appts[queue'[i].appt].root = x
                   PROVE  Claim(g, x)
        BY <1>1 DEF JobRoot
      <3>2. CASE i = 1
        BY <1>3, <2>2, <3>1, <3>2 DEF Claim, JobRoot
      <3>3. CASE i # 1
        BY <3>1, <3>3 DEF Claim, JobRoot
      <3> QED BY <3>2, <3>3
    <2> QED BY <1>2, <2>1, <2>2
  <1>5. (\E a \in Booked : appts[a].event = g /\ appts[a].root = x)' => Claim(g, x)
    BY <1>1, RowClaims
  <1> QED BY <1>1, <1>4, <1>5 DEF Claim

\* The worker's later steps leave its job as it is.
LEMMA WorkerKeepsJob ==
  ASSUME BaseInv, CreateEvent \/ UpdateEvent \/ DeleteEvent \/ AckJob \/ JobFails \/ StoreEventId
  PROVE  /\ worker'.pc # "idle" => worker'.job = worker.job
         /\ worker.pc # "idle"
         /\ UNCHANGED <<queue, pc, loc, visit, overlapped>> /\ Active' = Active
         /\ CreateEvent => worker'.pc = "store" /\ worker'.event = made + 1 /\ worker.pc = "create"
         /\ ~CreateEvent => worker'.pc \in {"idle", "ack"} /\ made' = made
         /\ ~StoreEventId => appts' = appts
  <1>1. UNCHANGED <<queue, pc, loc, visit, overlapped>> /\ Active' = Active
    BY DEF CreateEvent, UpdateEvent, DeleteEvent, AckJob, JobFails, StoreEventId, requestSide, Active
  <1>2. worker.pc # "idle"
    BY DEF CreateEvent, UpdateEvent, DeleteEvent, AckJob, JobFails, StoreEventId
  <1>3. CASE AckJob
    <2>1. worker'.pc = "idle" /\ made' = made /\ appts' = appts
      BY <1>3 DEF AckJob, NoWork
    <2> QED BY <1>1, <1>2, <1>3, <2>1 DEF AckJob, CreateEvent
  <1>4. CASE CreateEvent
    <2>1. worker.pc = "create" /\ worker' = [worker EXCEPT !.pc = "store", !.event = made + 1] /\ appts' = appts
      BY <1>4 DEF CreateEvent, Work
    <2>2. worker'.pc = "store" /\ worker'.event = made + 1 /\ worker'.job = worker.job
      BY <2>1 DEF BaseInv, Types, Workers
    <2> QED BY <1>1, <1>4, <2>1, <2>2
  <1>5. CASE UpdateEvent \/ DeleteEvent \/ JobFails \/ StoreEventId
    <2>1. /\ worker' = [worker EXCEPT !.pc = "ack", !.event = 0] /\ made' = made
          /\ ~StoreEventId => appts' = appts
      BY <1>5 DEF UpdateEvent, DeleteEvent, JobFails, StoreEventId, Work
    <2>2. worker'.pc = "ack" /\ worker'.job = worker.job
      BY <2>1 DEF BaseInv, Types, Workers
    <2>3. ~CreateEvent
      BY <2>1, AppointmentAssumption DEF CreateEvent, BaseInv, Types
    <2> QED BY <1>1, <1>2, <2>1, <2>2, <2>3
  <1> QED BY <1>3, <1>4, <1>5

(* Every step keeps each event with one booking.                           *)
LEMMA ClaimsNext ==
  ASSUME BaseInv, ClaimsInv, Next
  PROVE  ClaimsInv'
  <1>1. ASSUME NoClaims, made' = made, worker' = worker PROVE ClaimsInv'
    BY <1>1, ClaimsKept
  <1>2. CASE TakeJob
    BY <1>2, TakeClaims, ClaimsKept
  <1>3. CASE Restart
    BY <1>3, RestartClaims, ClaimsKept
  <1>4. CASE CreateEvent
    <2>1. /\ worker'.pc = "store" /\ worker'.event = made + 1 /\ made' = made + 1 /\ made \in Nat
          /\ worker'.job = worker.job /\ worker.pc # "idle"
          /\ UNCHANGED <<appts, queue, loc>> /\ Active' = Active
      BY <1>4, WorkerKeepsJob, AppointmentAssumption DEF CreateEvent, BaseInv, Types
    <2>2. NoClaims
      BY <2>1, FewerClaims
    <2>3. \A g \in 1 .. MaxEvents, x \in Appts : Claim(g, x)' => g <= made /\ g \in Nat
      BY <2>2, AppointmentAssumption DEF ClaimsInv, NoClaims
    <2>4. \A g \in 1 .. MaxEvents, x \in Appts : Claim(g, x)' => g <= made' /\ g # worker'.event
      BY <2>1, <2>3
    <2> QED BY <2>1, <2>2, <2>4 DEF ClaimsInv, NoClaims
  <1>5. CASE UpdateEvent \/ DeleteEvent \/ AckJob \/ JobFails
    <2>1. appts' = appts /\ made' = made
      BY <1>5 DEF UpdateEvent, DeleteEvent, AckJob, JobFails
    <2>2. ~CreateEvent
      BY <2>1, AppointmentAssumption DEF CreateEvent, BaseInv, Types
    <2>3. /\ worker'.pc # "idle" => worker.pc # "idle" /\ worker'.job = worker.job
          /\ worker'.pc # "store" /\ UNCHANGED <<queue, loc>> /\ Active' = Active
      BY <1>5, <2>2, WorkerKeepsJob
    <2>4. NoClaims
      BY <2>1, <2>3, FewerClaims
    <2> QED BY <2>1, <2>3, <2>4, ClaimsKept
  <1>6. CASE StoreEventId
    <2>1. /\ worker.pc = "store" /\ worker.job.appt \in Booked /\ worker.event \in 0 .. MaxEvents
          /\ appts' = [appts EXCEPT ![worker.job.appt].event = worker.event]
          /\ worker'.pc # "store" /\ made' = made
          /\ worker'.job = worker.job \/ worker'.pc = "idle"
          /\ UNCHANGED <<queue, loc>> /\ Active' = Active
      <3>1. ~CreateEvent
        BY <1>6 DEF StoreEventId, CreateEvent
      <3> QED BY <1>6, <3>1, WorkerKeepsJob DEF StoreEventId, BaseInv, Types, WorkerOK, JobOK, Workers
    <2>2. /\ Booked' = Booked /\ Grows
          /\ \A b \in Booked : /\ appts'[b].root = appts[b].root
                               /\ appts'[b].event = IF b = worker.job.appt THEN worker.event
                                                                           ELSE appts[b].event
      BY <1>6, <2>1, EventStored, StoreBase DEF BaseInv, Booked
    <2> DEFINE root == appts[worker.job.appt].root
    <2>3. ASSUME NEW g \in 1 .. MaxEvents, NEW x \in Appts, Claim(g, x)'
          PROVE  Claim(g, x) \/ (g = worker.event /\ x = root)
      <3>1. (\E a \in Booked : appts[a].event = g /\ appts[a].root = x)'
              => Claim(g, x) \/ (g = worker.event /\ x = root)
        BY <2>2 DEF Claim
      <3>2. (\E s \in Active : loc[s].event = g /\ Root(s) = x)' => Claim(g, x)
        BY <2>1, <2>2, RequestClaims
      <3>3. (\E i \in DOMAIN queue : queue[i].event = g /\ JobRoot(queue[i]) = x)' => Claim(g, x)
        BY <2>1, <2>2, QueueClaims
      <3>4. (worker.pc # "idle" /\ worker.job.event = g /\ JobRoot(worker.job) = x)' => Claim(g, x)
        BY <2>1, <2>2, WorkerClaims
      <3> QED BY <2>3, <3>1, <3>2, <3>3, <3>4 DEF Claim
    <2> HIDE DEF root
    <2>4. \A g \in 1 .. MaxEvents, x \in Appts : Claim(g, x) => g # worker.event
      BY <2>1 DEF ClaimsInv
    <2>5. worker.event = made /\ made <= made
      BY <2>1, AppointmentAssumption DEF ClaimsInv, BaseInv, Types
    <2>6. \A g \in 1 .. MaxEvents, x, y \in Appts : Claim(g, x)' /\ Claim(g, y)' => x = y
      BY <2>3, <2>4 DEF ClaimsInv
    <2>7. \A g \in 1 .. MaxEvents, x \in Appts : Claim(g, x)' => g <= made'
      BY <2>1, <2>3, <2>5 DEF ClaimsInv
    <2> QED BY <2>1, <2>6, <2>7 DEF ClaimsInv
  <1> QED BY <1>1, <1>2, <1>3, <1>4, <1>5, <1>6, RequestStepClaims, BeginClaims, CreateClaims
          DEF Next, WorkerStep

----------------------------------------------------------------------------
\* The calendar of a booking.
\* The rows of a booking are what they were, but for their status.
SameRows(root) ==
  /\ \A a : (a \in Booked' /\ appts'[a].root = root) <=> (a \in Booked /\ appts[a].root = root)
  /\ \A a \in Booked : appts[a].root = root =>
       appts'[a].start = appts[a].start /\ appts'[a].event = appts[a].event

SameStatus(root) == \A a \in Booked : appts[a].root = root => appts'[a].status = appts[a].status

\* So are its requests,
SameRequests(root) ==
  /\ Working(root)' = Working(root)
  /\ \A s \in Working(root) : pc'[s] = pc[s] /\ loc'[s] = loc[s]

\* and its jobs, in the same order, and the worker's on its behalf.
SameJobs(root) ==
  /\ \E d \in Int : /\ \A i \in Queued(root) : i + d \in Queued(root)' /\ queue'[i + d] = queue[i]
                    /\ \A j \in Queued(root)' : j - d \in Queued(root)
  /\ AtWork(root)' <=> AtWork(root)
  /\ AtWork(root) => worker' = worker

SameEvent(root) ==
  /\ appts[root].event # 0 => event'[appts[root].event] = event[appts[root].event]
  /\ AtWork(root) /\ worker.pc = "store" => event'[worker.event] = event[worker.event]

(* A booking's jobs stay the same, and in their order, where only the      *)
(* others' change.                                                         *)
LEMMA JobsSteady ==
  ASSUME BaseInv, BaseInv', NEW root, SameJobs(root)
  PROVE  /\ Queued(root)' = {} <=> Queued(root) = {}
         /\ \A j \in Queued(root)' : \E i \in Queued(root) : queue'[j] = queue[i]
         /\ \A i \in Queued(root) : \E j \in Queued(root)' : queue'[j] = queue[i]
         /\ (\E i \in Queued(root) : queue[i].kind = "create" /\ \A j \in Queued(root) : j = i)
              => (\E i \in Queued(root) : queue[i].kind = "create" /\ \A j \in Queued(root) : j = i)'
         /\ \A a : (\E i \in Queued(root) : /\ queue[i].kind = "update" /\ queue[i].appt = a
                                            /\ \A j \in Queued(root) : j <= i)
              => (\E i \in Queued(root) : /\ queue[i].kind = "update" /\ queue[i].appt = a
                                          /\ \A j \in Queued(root) : j <= i)'
  <1>1. PICK d \in Int : /\ \A i \in Queued(root) : i + d \in Queued(root)' /\ queue'[i + d] = queue[i]
                         /\ \A j \in Queued(root)' : j - d \in Queued(root)
    BY DEF SameJobs
  <1>2. \A i \in Queued(root) : i \in Int
    BY DEF Queued, BaseInv, Types
  <1>3. \A j \in Queued(root)' : j \in Int /\ queue'[j] = queue[j - d] /\ j - d \in Queued(root)
    <2> SUFFICES ASSUME NEW j \in Queued(root)' PROVE j \in Int /\ queue'[j] = queue[j - d] /\ j - d \in Queued(root)
      OBVIOUS
    <2>1. j - d \in Queued(root) /\ j - d \in Int
      BY <1>1, <1>2
    <2>2. j \in DOMAIN queue'
      BY DEF Queued
    <2>3. j \in Int
      BY <2>2 DEF BaseInv, Types
    <2> QED BY <1>1, <2>1, <2>3
  <1> QED BY <1>1, <1>2, <1>3

(* A booking's last row stays the last one where its rows do not change.   *)
LEMMA LastSteady ==
  ASSUME NEW root, SameRows(root)
  PROVE  \A a \in Booked : appts[a].root = root => (IsLast(a)' <=> IsLast(a)) /\ a \in Booked' /\ appts'[a].root = root
  BY DEF SameRows, IsLast

\* What happens to other bookings leaves a booking's calendar alone.
LEMMA EventSteady ==
  ASSUME BaseInv, BaseInv', NEW root \in Booked, appts[root].root = root, EventOK(root),
         SameRows(root), SameStatus(root), SameRequests(root), SameJobs(root), SameEvent(root)
  PROVE  EventOK(root)'
  <1>1. /\ appts'[root].event = appts[root].event /\ appts'[root].start = appts[root].start
        /\ appts'[root].status = appts[root].status
        /\ \A a \in Booked' : appts'[a].root = root => a \in Booked /\ appts[a].root = root
        /\ \A a \in Booked : appts[a].root = root =>
             /\ appts'[a].event = appts[a].event /\ appts'[a].start = appts[a].start
             /\ appts'[a].status = appts[a].status
    BY DEF SameRows, SameStatus
  <1>2. /\ Queued(root)' = {} <=> Queued(root) = {}
        /\ \A j \in Queued(root)' : \E i \in Queued(root) : queue'[j] = queue[i]
        /\ \A i \in Queued(root) : \E j \in Queued(root)' : queue'[j] = queue[i]
        /\ (\E i \in Queued(root) : queue[i].kind = "create" /\ \A j \in Queued(root) : j = i)
             => (\E i \in Queued(root) : queue[i].kind = "create" /\ \A j \in Queued(root) : j = i)'
        /\ \A a : (\E i \in Queued(root) : /\ queue[i].kind = "update" /\ queue[i].appt = a
                                           /\ \A j \in Queued(root) : j <= i)
             => (\E i \in Queued(root) : /\ queue[i].kind = "update" /\ queue[i].appt = a
                                         /\ \A j \in Queued(root) : j <= i)'
    BY JobsSteady
  <1>3. /\ AtWork(root)' <=> AtWork(root)
        /\ AtWork(root) => worker' = worker
    BY DEF SameJobs
  <1>4. Working(root)' = Working(root) /\ \A s \in Working(root) : pc'[s] = pc[s] /\ loc'[s] = loc[s]
    BY DEF SameRequests
  <1>5. Creating(root)' = Creating(root)
    BY <1>4 DEF Creating
  <1>6. \A s \in Working(root) : loc[s].appt \in Booked /\ appts[loc[s].appt].root = root
    BY DEF Working, Root, BaseInv, RequestOK
  <1>7. CASE Unknown(root)
    <2>1. /\ (appts[root].event = 0)'
          /\ (\A a \in Booked : appts[a].root = root => a = root)'
          /\ (appts[root].status \notin {"cancelled", "rescheduled"})'
          /\ (\A r \in Working(root) : /\ loc[r].event = 0
                                       /\ pc[r] # "write" => loc[r].op \notin {"cancel", "reschedule"})'
      BY <1>1, <1>4, <1>7 DEF Unknown
    <2>2. CASE Creating(root) # {} /\ Queued(root) = {} /\ ~AtWork(root)
      BY <1>2, <1>3, <1>5, <2>1, <2>2 DEF Unknown, EventOK
    <2>3. CASE /\ Creating(root) = {} /\ ~AtWork(root)
               /\ \E i \in Queued(root) : queue[i].kind = "create" /\ \A j \in Queued(root) : j = i
      BY <1>2, <1>3, <1>5, <2>1, <2>3 DEF Unknown, EventOK
    <2>4. CASE /\ Creating(root) = {} /\ Queued(root) = {}
               /\ AtWork(root) /\ worker.pc \in {"create", "store"}
               /\ worker.pc = "store" => event[worker.event] = appts[root].start
      BY <1>1, <1>2, <1>3, <1>5, <2>1, <2>4 DEF Unknown, EventOK, SameEvent
    <2> QED BY <1>7, <2>2, <2>3, <2>4 DEF Unknown
  <1>8. CASE Known(root) /\ \A a \in Booked : appts[a].root = root /\ IsLast(a) => Followed(root, a)
    <2>1. Known(root)'
      <3>1. (\A r \in Working(root) :
               /\ loc[r].op # "create"
               /\ loc[r].event \in {0, appts[root].event}
               /\ pc[r] # "write" /\ loc[r].op = "cancel" =>
                    loc[r].event = appts[root].event /\ appts[loc[r].appt].status = "cancelled"
               /\ pc[r] # "write" /\ loc[r].op = "reschedule" => IsLive(loc[r].appt))'
        BY <1>1, <1>4, <1>6, <1>8 DEF Known, IsLive
      <3>2. (\A i \in Queued(root) : /\ queue[i].kind # "create"
                                     /\ queue[i].kind = "delete" => queue[i].event = appts[root].event)'
        BY <1>1, <1>2, <1>8 DEF Known
      <3>3. (AtWork(root) => /\ worker.pc \in {"update", "delete"}
                             /\ worker.pc = "delete" => worker.job.event = appts[root].event)'
        BY <1>1, <1>3, <1>8 DEF Known
      <3>4. /\ (appts[root].event # 0)'
            /\ (\A a \in Booked : appts[a].root = root => appts[a].event = appts[root].event)'
        BY <1>1, <1>8 DEF Known
      <3> QED BY <3>1, <3>2, <3>3, <3>4 DEF Known
    <2>2. event'[appts[root].event] = event[appts[root].event]
      BY <1>8 DEF Known, SameEvent
    <2>3. ASSUME NEW a \in Booked', appts'[a].root = root, IsLast(a)'
          PROVE  Followed(root, a)'
      <3>1. a \in Booked /\ appts[a].root = root /\ IsLast(a) /\ Followed(root, a)
        BY <1>1, <1>8, <2>3, LastSteady
      <3>2. Deleting(root) => Deleting(root)'
        BY <1>1, <1>2, <1>3, <1>4, <2>2 DEF Deleting
      <3>3. Moving(root, a) => Moving(root, a)'
        <4>1. CASE \E r \in Working(root) : pc[r] = "calendar" /\ loc[r].op = "reschedule" /\ loc[r].appt = a
          BY <1>4, <4>1 DEF Moving
        <4>2. CASE \E i \in Queued(root) : /\ queue[i].kind = "update" /\ queue[i].appt = a
                                           /\ \A j \in Queued(root) : j <= i
          BY <1>2, <4>2 DEF Moving
        <4>3. CASE /\ Queued(root) = {}
                   /\ AtWork(root) /\ worker.pc = "update" /\ worker.job.appt = a
          BY <1>2, <1>3, <4>3 DEF Moving
        <4>4. CASE /\ Queued(root) = {} /\ ~AtWork(root)
                   /\ event[appts[root].event] = appts[a].start
          BY <1>1, <1>2, <1>3, <2>2, <3>1, <4>4 DEF Moving
        <4> QED BY <4>1, <4>2, <4>3, <4>4 DEF Moving
      <3>4. (\A i \in Queued(root) : queue[i].kind # "delete") =>
              (\A i \in Queued(root) : queue[i].kind # "delete")'
        BY <1>2
      <3> QED BY <1>1, <1>3, <2>2, <3>1, <3>2, <3>3, <3>4 DEF Followed
    <2> QED BY <2>1, <2>3 DEF EventOK
  <1> QED BY <1>7, <1>8 DEF EventOK

(* A booking that is clean after a step had its event right before it.     *)
LEMMA WasOK ==
  ASSUME EventInv, Grows, overlapped \subseteq overlapped', excused \subseteq excused',
         NEW root \in Booked, appts'[root].root = root, Clean(root)'
  PROVE  appts[root].root = root /\ Clean(root) /\ EventOK(root)
  BY DEF EventInv, Grows, Clean

(* A step that keeps the queue keeps a booking's jobs in it.               *)
LEMMA QueueStays ==
  ASSUME BaseInv, Grows, queue' = queue, NEW root
  PROVE  Queued(root)' = Queued(root)
  BY DEF Queued, JobRoot, BaseInv, JobOK, Grows

(* A step that keeps the worker keeps whether it works for a booking.      *)
LEMMA WorkerStays ==
  ASSUME BaseInv, Grows, worker' = worker, NEW root
  PROVE  AtWork(root)' <=> AtWork(root)
  BY DEF AtWork, JobRoot, BaseInv, WorkerOK, JobOK, Grows

(* A step that keeps both keeps all of a booking's jobs.                   *)
LEMMA JobsStay ==
  ASSUME BaseInv, Grows, queue' = queue, worker' = worker, NEW root
  PROVE  SameJobs(root)
  <1>1. Queued(root)' = Queued(root) /\ (AtWork(root)' <=> AtWork(root))
    BY QueueStays, WorkerStays
  <1>2. \A i \in Queued(root) : i + 0 = i /\ i - 0 = i
    BY DEF Queued, BaseInv, Types
  <1>3. \E d \in Int : /\ \A i \in Queued(root) : i + d \in Queued(root)' /\ queue'[i + d] = queue[i]
                      /\ \A j \in Queued(root)' : j - d \in Queued(root)
    <2>1. 0 \in Int
      OBVIOUS
    <2> QED BY <1>1, <1>2, <2>1
  <1> QED BY <1>1, <1>3 DEF SameJobs

(* A step of another booking's request leaves a booking's requests as they *)
(* are.                                                                    *)
LEMMA OthersStay ==
  ASSUME BaseInv, Grows, NEW r \in Requests, NEW root,
         \A s \in Requests \ {r} : pc'[s] = pc[s] /\ loc'[s] = loc[s],
         r \in Active => Root(r) # root, r \in Active' => Root(r)' # root
  PROVE  SameRequests(root)
  <1>1. \A s \in Active \ {r} : Root(s)' = Root(s) /\ s \in Active'
    BY DEF Active, Root, BaseInv, RequestOK, Grows
  <1>2. \A s \in Active' \ {r} : s \in Active
    BY DEF Active
  <1>3. Active \subseteq Requests
    BY DEF Active
  <1> QED BY <1>1, <1>2, <1>3 DEF SameRequests, Working

\* A request begins on a booking.
LEMMA BeginEvent ==
  ASSUME BaseInv, BaseInv', EventInv, NEW r \in Requests, NEW op \in LifecycleOps, NEW a \in Appts,
         NEW t \in Starts \cup {0}, Begin(r, op, a, t),
         NEW root \in Booked', appts'[root].root = root, Clean(root)'
  PROVE  EventOK(root)'
  <1> DEFINE l == [op |-> op, appt |-> a, event |-> appts[a].event, start |-> t]
  <1>1. /\ Goto(r, "write", l) /\ a \in Booked /\ pc[r] = "idle"
        /\ UNCHANGED <<appts, event, worker, queue, excused>> /\ overlapped \subseteq overlapped'
        /\ Grows /\ Booked' = Booked
    BY NothingGrows DEF Begin, outbound
  <1>2. /\ pc'[r] = "write" /\ loc'[r].op = op /\ loc'[r].appt = a /\ loc'[r].event = appts[a].event
        /\ \A s \in Requests \ {r} : pc'[s] = pc[s] /\ loc'[s] = loc[s]
    BY <1>1 DEF Goto, BaseInv, Types
  <1> HIDE DEF l
  <1>3. appts[root].root = root /\ Clean(root) /\ EventOK(root)
    BY <1>1, WasOK
  <1>4. r \notin Active /\ r \in Active' /\ Root(r)' = appts[a].root
    BY <1>1, <1>2 DEF Active, Root
  <1>5. CASE appts[a].root # root
    <2>1. SameRequests(root)
      BY <1>1, <1>2, <1>4, <1>5, OthersStay
    <2>2. SameJobs(root)
      BY <1>1, JobsStay
    <2>3. SameRows(root) /\ SameStatus(root) /\ SameEvent(root)
      BY <1>1 DEF SameRows, SameStatus, SameEvent
    <2> QED BY <1>1, <1>3, <2>1, <2>2, <2>3, EventSteady
  <1>6. CASE appts[a].root = root
    <2>1. /\ Working(root)' = Working(root) \cup {r} /\ r \notin Working(root)
          /\ \A s \in Working(root) : pc'[s] = pc[s] /\ loc'[s] = loc[s]
      <3>1. \A s \in Active : s # r /\ s \in Requests /\ s \in Active' /\ Root(s)' = Root(s)
        BY <1>1, <1>2, <1>4 DEF Active, Root
      <3>2. \A s \in Active' \ {r} : s \in Active
        BY <1>2 DEF Active
      <3> QED BY <1>2, <1>4, <1>6, <3>1, <3>2 DEF Working
    <2>2. Creating(root)' = Creating(root)
      BY <1>2, <2>1 DEF Creating, LifecycleOps
    <2>3. Queued(root)' = Queued(root) /\ (AtWork(root)' <=> AtWork(root))
      BY <1>1, QueueStays, WorkerStays
    <2>4. \A b \in Booked : IsLast(b)' <=> IsLast(b)
      BY <1>1 DEF IsLast
    <2>5. CASE Unknown(root)
      <3>1. appts[a].event = 0
        BY <1>1, <1>6, <2>5 DEF Unknown
      <3>2. Unknown(root)'
        BY <1>1, <1>2, <2>1, <2>2, <2>3, <2>5, <3>1 DEF Unknown
      <3> QED BY <3>2 DEF EventOK
    <2>6. CASE Known(root) /\ \A b \in Booked : appts[b].root = root /\ IsLast(b) => Followed(root, b)
      <3>1. appts[a].event = appts[root].event
        BY <1>1, <1>6, <2>6 DEF Known
      <3>2. op # "create"
        BY DEF LifecycleOps
      <3>3. Known(root)'
        BY <1>1, <1>2, <2>1, <2>3, <2>6, <3>1, <3>2 DEF Known, IsLive
      <3>4. Deleting(root) => Deleting(root)'
        BY <1>1, <2>1, <2>3 DEF Deleting
      <3>5. \A b \in Booked : Moving(root, b) => Moving(root, b)'
        BY <1>1, <2>1, <2>3 DEF Moving
      <3>6. \A b \in Booked : Followed(root, b) => Followed(root, b)'
        BY <1>1, <2>3, <3>4, <3>5 DEF Followed
      <3> QED BY <1>1, <2>4, <2>6, <3>3, <3>6 DEF EventOK
    <2> QED BY <1>3, <2>5, <2>6 DEF EventOK
  <1> QED BY <1>5, <1>6

\* A booking is made: the creation of its event is with the request.
LEMMA CreateRowEvent ==
  ASSUME BaseInv, BaseInv', EventInv, NEW r \in Requests, NEW sr \in ServiceRequests, NEW t \in Starts,
         Create(r, sr, t), NEW root \in Booked', appts'[root].root = root, Clean(root)'
  PROVE  EventOK(root)'
  <1> DEFINE l == [NoLocals EXCEPT !.op = "create", !.appt = NewRow]
  <1>0. PICK n : n = NewRow
    OBVIOUS
  <1>1. /\ Goto(r, "request", l) /\ pc[r] = "idle"
        /\ UNCHANGED <<event, worker, queue, excused, overlapped>>
        /\ n \notin Booked /\ n \in Appts
        /\ Booked' = Booked \cup {n}
        /\ \A b \in Appts \ {n} : appts'[b] = appts[b]
        /\ appts'[n].event = 0 /\ appts'[n].root = n /\ appts'[n].status = "scheduled"
    BY <1>0, RowCreated DEF Create, BaseInv, outbound
  <1>2. Grows
    BY CreateBase
  <1>3. l.op = "create" /\ l.appt = n /\ l.event = 0
    <2>1. l.op = "create" /\ l.appt = n /\ l.event = NoLocals.event
      BY <1>0, NoLocalsTyped DEF Locals
    <2> QED BY <2>1 DEF NoLocals
  <1> HIDE DEF l
  <1>4. /\ pc'[r] = "request" /\ loc'[r] = l
        /\ \A s \in Requests \ {r} : pc'[s] = pc[s] /\ loc'[s] = loc[s]
    BY <1>1 DEF Goto, BaseInv, Types
  <1>5. \A b \in Booked : b # n /\ appts[b].root # n /\ appts'[b] = appts[b] /\ appts[b].root \in Booked
    BY <1>1 DEF BaseInv, RowOK, Booked
  <1>6. r \notin Active /\ r \in Active' /\ Root(r)' = n
    BY <1>1, <1>3, <1>4 DEF Active, Root
  <1>7. CASE root # n
    <2>1. root \in Booked /\ appts[root].root = root /\ EventOK(root)
      BY <1>1, <1>2, <1>7, WasOK
    <2>2. SameRequests(root)
      BY <1>2, <1>4, <1>6, <1>7, OthersStay
    <2>3. SameJobs(root)
      BY <1>1, <1>2, JobsStay
    <2>4. SameRows(root) /\ SameStatus(root)
      BY <1>1, <1>5, <1>7 DEF SameRows, SameStatus
    <2>5. SameEvent(root)
      BY <1>1 DEF SameEvent
    <2> QED BY <2>1, <2>2, <2>3, <2>4, <2>5, EventSteady
  <1>8. CASE root = n
    <2>1. Queued(root)' = {} /\ ~AtWork(root)'
      <3>1. \A i \in DOMAIN queue : appts'[queue[i].appt].root # n
        BY <1>5 DEF BaseInv, JobOK
      <3>2. worker.pc # "idle" => appts'[worker.job.appt].root # n
        BY <1>5 DEF BaseInv, WorkerOK, JobOK
      <3> QED BY <1>1, <1>8, <3>1, <3>2 DEF Queued, AtWork, JobRoot
    <2>2. Working(root)' = {r}
      <3>1. \A s \in Active' \ {r} : Root(s)' # n
        <4> SUFFICES ASSUME NEW s \in Active' \ {r} PROVE Root(s)' # n
          OBVIOUS
        <4>1. s \in Active /\ loc'[s] = loc[s]
          BY <1>4 DEF Active
        <4> QED BY <1>5, <4>1 DEF Root, BaseInv, RequestOK
      <3> QED BY <1>6, <1>8, <3>1 DEF Working
    <2>3. Creating(root)' # {}
      BY <1>3, <1>4, <2>2 DEF Creating
    <2>4. Unknown(root)'
      BY <1>1, <1>3, <1>4, <1>5, <1>8, <2>1, <2>2, <2>3 DEF Unknown
    <2> QED BY <2>4 DEF EventOK
  <1> QED BY <1>7, <1>8

\* A request writes its row.
LEMMA WriteEvent ==
  ASSUME BaseInv, BaseInv', LiveInv, EventInv, NEW r \in Requests, WriteRow(r),
         NEW root \in Booked', appts'[root].root = root, Clean(root)'
  PROVE  EventOK(root)'
  <1> DEFINE l == loc[r]
  <1>0. PICK a \in Booked : a = l.appt
    BY Wrote
  <1>n. PICK n : n = NewRow
    OBVIOUS
  <1>1. /\ r \in Active /\ pc[r] = "write" /\ l.op \in LifecycleOps
        /\ overlapped' = overlapped /\ event' = event /\ queue' = queue /\ worker' = worker
        /\ \A b \in Booked :
             /\ b \in Booked'
             /\ appts'[b].start = appts[b].start
             /\ appts'[b].root = appts[b].root /\ appts'[b].event = appts[b].event
             /\ appts'[b].status = IF b = a THEN Target(l.op) ELSE appts[b].status
        /\ l.op # "reschedule" => Booked' = Booked
        /\ l.op = "reschedule" =>
             /\ n \in Appts \ Booked /\ Booked' = Booked \cup {n}
             /\ appts'[n].status = "scheduled" /\ appts'[n].event = l.event
             /\ appts'[n].root = appts[a].root
        /\ \A s \in Requests \ {r} : pc'[s] = pc[s] /\ loc'[s] = loc[s]
        /\ pc'[r] = AfterWrite(l) /\ AfterWrite(l) \in {"request", "calendar", "idle"}
        /\ Active' = IF pc'[r] = "idle" THEN Active \ {r} ELSE Active
        /\ pc'[r] # "idle" => /\ loc'[r].op = l.op /\ loc'[r].event = l.event
                              /\ loc'[r].appt = IF l.op = "reschedule" THEN n ELSE a
    BY <1>0, <1>n, Wrote
  <1>2. /\ Root(r) = appts[a].root /\ excused \subseteq excused'
        /\ l.op \in {"cancel", "reschedule"} /\ l.event = 0 => Root(r) \in excused'
    BY <1>0 DEF WriteRow, Root
  <1>3. Grows
    BY WriteBase
  <1>4. l.op = "reschedule" => /\ \A b \in Booked : b < n /\ b \in Nat /\ n \in Nat
                               /\ appts'[n].root # n
    <2>1. PICK k \in 0 .. MaxAppts : Booked = 1 .. k
      BY DEF BaseInv, Numbered
    <2>2. n = k + 1
      BY <1>n, <2>1, BookedSize DEF BaseInv
    <2>3. appts[a].root \in Booked
      BY DEF BaseInv, RowOK
    <2> QED BY <1>1, <2>1, <2>2, <2>3, AppointmentAssumption
  <1>5. root \in Booked /\ appts[root].root = root /\ Clean(root) /\ EventOK(root)
    <2>1. root \in Booked
      BY <1>1, <1>4
    <2> QED BY <1>1, <1>2, <1>3, <2>1, WasOK
  <1>6. /\ AfterWrite(l) = "request" <=> l.op \in {"cancel", "no_show"}
        /\ AfterWrite(l) = "calendar" <=> l.op = "reschedule" /\ l.event # 0
        /\ Target(l.op) = "cancelled" <=> l.op = "cancel"
        /\ Target(l.op) = "rescheduled" <=> l.op = "reschedule"
        /\ l.op # "create"
    BY <1>1 DEF AfterWrite, Target, LifecycleOps
  <1> HIDE DEF l
  <1>7. Queued(root)' = Queued(root) /\ (AtWork(root)' <=> AtWork(root))
    BY <1>1, <1>3, QueueStays, WorkerStays
  <1>8. CASE appts[a].root # root
    <2>1. r \in Active' => Root(r)' # root
      <3>1. r \in Active' => pc'[r] # "idle"
        BY DEF Active
      <3>2. r \in Active' => appts'[loc'[r].appt].root = appts[a].root
        BY <1>1, <3>1
      <3> QED BY <1>8, <3>2 DEF Root
    <2>2. SameRequests(root)
      BY <1>1, <1>2, <1>3, <1>8, <2>1, OthersStay
    <2>3. SameJobs(root)
      BY <1>1, <1>3, JobsStay
    <2>4. SameRows(root) /\ SameStatus(root)
      BY <1>1, <1>8 DEF SameRows, SameStatus
    <2>5. SameEvent(root)
      BY <1>1 DEF SameEvent
    <2> QED BY <1>5, <2>2, <2>3, <2>4, <2>5, EventSteady
  <1>9. CASE appts[a].root = root
    <2>1. Working(root) = {r} /\ r \in Working(root)
      BY <1>1, <1>2, <1>5, <1>9 DEF Working, LiveInv, Clean
    <2>2. Working(root)' \subseteq {r}
      <3>1. \A s \in Active' \ {r} : s \in Active /\ s \in Requests /\ loc'[s] = loc[s]
        BY <1>1 DEF Active
      <3>2. \A s \in Active' \ {r} : Root(s)' = Root(s)
        BY <1>3, <3>1 DEF Root, Grows, BaseInv, RequestOK
      <3> QED BY <2>1, <3>1, <3>2 DEF Working
    <2>3. Creating(root) = {} /\ Creating(root)' = {}
      BY <1>1, <1>6, <2>1, <2>2 DEF Creating, Working, Active, l
    <2>4. IsLive(a) /\ appts[a].status \notin {"cancelled", "rescheduled"}
      <3>1. IsLive(a)
        BY <1>0, <1>1, <1>2, <1>5, <1>9 DEF LiveInv, Clean, l
      <3> QED BY <3>1 DEF IsLive, LiveStates
    <2>5. IsLast(a)
      BY <1>5, <1>9, <2>4, NotMovedIsLast DEF Clean
    <2>6. l.op \in {"cancel", "reschedule"} => l.event # 0
      BY <1>2, <1>9 DEF Clean
    <2>7. CASE Unknown(root)
      <3>1. l.event = 0
        BY <2>1, <2>7 DEF Unknown, l
      <3>2. l.op \notin {"cancel", "reschedule"}
        BY <2>6, <3>1
      <3>3. \A s \in Working(root)' : loc'[s].event = 0 /\ loc'[s].op \notin {"cancel", "reschedule"}
        BY <1>1, <2>2, <3>1, <3>2 DEF Working, Active
      <3>4. /\ appts'[root].event = 0 /\ appts'[root].start = appts[root].start
            /\ appts'[root].status \notin {"cancelled", "rescheduled"}
        BY <1>1, <1>5, <1>6, <2>7, <3>2 DEF Unknown
      <3>5. Unknown(root)'
        BY <1>1, <1>7, <2>3, <2>7, <3>2, <3>3, <3>4 DEF Unknown
      <3> QED BY <3>5 DEF EventOK
    <2>8. CASE Known(root) /\ \A b \in Booked : appts[b].root = root /\ IsLast(b) => Followed(root, b)
      <3>1. /\ appts[root].event # 0 /\ appts[a].event = appts[root].event
            /\ l.event \in {0, appts[root].event}
            /\ appts'[root].event = appts[root].event
        BY <1>1, <1>5, <1>9, <2>1, <2>8 DEF Known, l
      <3>2. /\ event[appts[root].event] # 0
            /\ Moving(root, a)
            /\ \A i \in Queued(root) : queue[i].kind # "delete"
            /\ ~(AtWork(root) /\ worker.pc = "delete")
        BY <1>9, <2>4, <2>5, <2>8 DEF Followed
      <3>3. \A b \in Booked' : appts'[b].root = root => appts'[b].event = appts'[root].event
        <4>1. l.op = "reschedule" => appts'[n].event = appts[root].event
          BY <1>1, <2>6, <3>1
        <4> QED BY <1>1, <2>8, <3>1, <4>1 DEF Known
      <3>4. ASSUME NEW s \in Working(root)'
            PROVE  /\ loc'[s].op # "create" /\ loc'[s].event \in {0, appts'[root].event}
                   /\ loc'[s].op = "cancel" =>
                        loc'[s].event = appts'[root].event /\ appts'[loc'[s].appt].status = "cancelled"
                   /\ loc'[s].op = "reschedule" => IsLive(loc[s].appt)'
        <4>1. s = r /\ pc'[r] # "idle"
          BY <2>2 DEF Working, Active
        <4>2. l.op = "reschedule" => IsLive(loc[s].appt)'
          BY <1>1, <4>1 DEF IsLive, LiveStates
        <4> QED BY <1>1, <1>6, <2>6, <3>1, <4>1, <4>2
      <3>5. Known(root)'
        <4>1. (\A i \in Queued(root) : /\ queue[i].kind # "create"
                                       /\ queue[i].kind = "delete" => queue[i].event = appts[root].event)'
          BY <1>1, <1>7, <2>8, <3>1 DEF Known
        <4>2. (AtWork(root) => /\ worker.pc \in {"update", "delete"}
                               /\ worker.pc = "delete" => worker.job.event = appts[root].event)'
          BY <1>1, <1>7, <2>8, <3>1 DEF Known
        <4> QED BY <3>1, <3>3, <3>4, <4>1, <4>2 DEF Known
      <3>6. ASSUME NEW b \in Booked', appts'[b].root = root, IsLast(b)'
            PROVE  Followed(root, b)'
        <4>1. CASE l.op = "reschedule"
          <5>1. b = n
            <6>1. n \in Booked' /\ appts'[n].root = root
              BY <1>1, <1>9, <4>1
            <6>2. n <= b
              BY <3>6, <6>1 DEF IsLast
            <6> QED BY <1>1, <1>4, <4>1, <6>2
          <5>2. r \in Working(root)' /\ pc'[r] = "calendar" /\ loc'[r].op = "reschedule" /\ loc'[r].appt = n
            <6>1. pc'[r] = "calendar"
              BY <1>1, <1>6, <2>6, <4>1
            <6> QED BY <1>1, <1>9, <4>1, <6>1 DEF Working, Active, Root
          <5>3. Moving(root, b)'
            BY <5>1, <5>2 DEF Moving
          <5> QED BY <1>1, <1>7, <3>1, <3>2, <4>1, <5>1, <5>3 DEF Followed
        <4>2. CASE l.op # "reschedule"
          <5>1. b \in Booked /\ appts[b].root = root /\ IsLast(b)
            BY <1>1, <3>6, <4>2 DEF IsLast
          <5>2. b = a
            BY <1>9, <2>5, <5>1, OneLast
          <5>3. CASE l.op = "cancel"
            <6>1. r \in Working(root)' /\ pc'[r] # "write" /\ loc'[r].op = "cancel"
              <7>1. pc'[r] = "request" /\ r \in Active'
                BY <1>1, <1>6, <5>3
              <7> QED BY <1>1, <1>9, <4>2, <5>3, <7>1 DEF Working, Root
            <6>2. Deleting(root)'
              BY <6>1 DEF Deleting
            <6>3. appts'[b].status = "cancelled"
              BY <1>1, <1>6, <5>2, <5>3
            <6> QED BY <6>2, <6>3 DEF Followed
          <5>4. CASE l.op # "cancel"
            <6>1. appts'[b].status # "cancelled"
              BY <1>1, <1>6, <5>2, <5>4
            <6>2. Moving(root, b)'
              <7>1. ~\E s \in Working(root) : pc[s] = "calendar" /\ loc[s].op = "reschedule" /\ loc[s].appt = a
                BY <1>1, <2>1
              <7> QED BY <1>1, <1>7, <3>1, <3>2, <5>2, <7>1 DEF Moving
            <6> QED BY <1>1, <1>7, <3>1, <3>2, <6>1, <6>2 DEF Followed
          <5> QED BY <5>3, <5>4
        <4> QED BY <4>1, <4>2
      <3> QED BY <3>5, <3>6 DEF EventOK
    <2> QED BY <1>5, <2>7, <2>8 DEF EventOK
  <1> QED BY <1>8, <1>9

\* A request updates the service request; a creation or a cancellation goes on to
\* the calendar.
LEMMA UpdateRequestEvent ==
  ASSUME BaseInv, BaseInv', EventInv, NEW r \in Requests, UpdateServiceRequest(r),
         NEW root \in Booked', appts'[root].root = root, Clean(root)'
  PROVE  EventOK(root)'
  <1> DEFINE l == loc[r]
  <1>1. /\ r \in Active /\ pc[r] = "request" /\ l \in Locals
        /\ l.op \in {"create", "cancel", "no_show"} /\ Goto(r, AfterRequest(l), l)
        /\ UNCHANGED <<appts, event, worker, queue, excused, overlapped>>
        /\ Grows /\ Booked' = Booked
    BY NothingGrows DEF UpdateServiceRequest, outbound, Active, BaseInv, RequestOK, Types
  <1>2. /\ AfterRequest(l) \in {"calendar", "idle"}
        /\ l.op = "create" \/ (l.op = "cancel" /\ l.event # 0) => AfterRequest(l) = "calendar"
    BY DEF AfterRequest
  <1>3. /\ pc'[r] = AfterRequest(l) /\ (AfterRequest(l) # "idle" => loc'[r] = l)
        /\ \A s \in Requests \ {r} : pc'[s] = pc[s] /\ loc'[s] = loc[s]
        /\ Active' = (IF AfterRequest(l) = "idle" THEN Active \ {r} ELSE Active \cup {r})
    BY <1>1, <1>2, Went DEF BaseInv, Labels
  <1>4. appts[root].root = root /\ Clean(root) /\ EventOK(root)
    BY <1>1, WasOK
  <1> HIDE DEF l
  <1>5. CASE Root(r) # root
    <2>1. r \in Active' => Root(r)' # root
      BY <1>1, <1>3, <1>5 DEF Root, l
    <2>2. SameRequests(root)
      BY <1>1, <1>3, <1>5, <2>1, OthersStay
    <2>3. SameJobs(root)
      BY <1>1, JobsStay
    <2>4. SameRows(root) /\ SameStatus(root) /\ SameEvent(root)
      BY <1>1 DEF SameRows, SameStatus, SameEvent
    <2> QED BY <1>1, <1>4, <2>2, <2>3, <2>4, EventSteady
  <1>6. CASE Root(r) = root
    <2>1. /\ r \in Working(root)
          /\ \A s \in Working(root) \ {r} : s \in Working(root)' /\ pc'[s] = pc[s] /\ loc'[s] = loc[s]
          /\ AfterRequest(l) # "idle" => r \in Working(root)'
          /\ \A s \in Working(root)' : s \in Working(root) /\ loc'[s] = loc[s]
          /\ \A s \in Working(root)' \ {r} : pc'[s] = pc[s]
      <3>1. \A s \in Active \ {r} : s \in Active' /\ s \in Requests /\ Root(s)' = Root(s)
        BY <1>1, <1>3 DEF Active, Root
      <3>2. \A s \in Active' \ {r} : s \in Active
        BY <1>3 DEF Active
      <3>3. AfterRequest(l) # "idle" => Root(r)' = Root(r)
        BY <1>1, <1>3 DEF Root, l
      <3> QED BY <1>1, <1>3, <1>6, <3>1, <3>2, <3>3 DEF Working, l
    <2>2. Queued(root)' = Queued(root) /\ (AtWork(root)' <=> AtWork(root))
      BY <1>1, QueueStays, WorkerStays
    <2>3. CASE Unknown(root)
      <3>1. Creating(root)' = Creating(root)
        BY <1>2, <2>1 DEF Creating, l
      <3>2. \A s \in Working(root)' : /\ loc'[s].event = 0
                                      /\ loc'[s].op \in {"cancel", "reschedule"} => pc'[s] = "write"
        BY <1>1, <2>1, <2>3 DEF Unknown, l
      <3>3. Unknown(root)'
        BY <1>1, <2>2, <2>3, <3>1, <3>2 DEF Unknown
      <3> QED BY <3>3 DEF EventOK
    <2>4. CASE Known(root) /\ \A b \in Booked : appts[b].root = root /\ IsLast(b) => Followed(root, b)
      <3>1. l.op \in {"cancel", "no_show"} /\ (l.op = "cancel" => AfterRequest(l) = "calendar")
        BY <1>1, <1>2, <2>1, <2>4 DEF Known, l
      <3>2. (\A s \in Working(root) :
               /\ loc[s].op # "create"
               /\ loc[s].event \in {0, appts[root].event}
               /\ pc[s] # "write" /\ loc[s].op = "cancel" =>
                    loc[s].event = appts[root].event /\ appts[loc[s].appt].status = "cancelled"
               /\ pc[s] # "write" /\ loc[s].op = "reschedule" => IsLive(loc[s].appt))'
        BY <1>1, <2>1, <2>4, <3>1 DEF Known, IsLive, l
      <3>3. Known(root)'
        BY <1>1, <2>2, <2>4, <3>2 DEF Known
      <3>4. Deleting(root) => Deleting(root)'
        <4>1. ASSUME NEW s \in Working(root), pc[s] # "write", loc[s].op = "cancel"
              PROVE  s \in Working(root)' /\ pc'[s] # "write" /\ loc'[s].op = "cancel"
          BY <1>3, <2>1, <3>1, <4>1 DEF l
        <4> QED BY <1>1, <2>2, <4>1 DEF Deleting
      <3>5. \A b \in Booked : Moving(root, b) => Moving(root, b)'
        BY <1>1, <2>1, <2>2 DEF Moving
      <3>6. \A b \in Booked : Followed(root, b) => Followed(root, b)'
        BY <1>1, <2>2, <3>4, <3>5 DEF Followed
      <3>7. \A b \in Booked : IsLast(b)' <=> IsLast(b)
        BY <1>1 DEF IsLast
      <3> QED BY <1>1, <2>4, <3>3, <3>6, <3>7 DEF EventOK
    <2> QED BY <1>4, <2>3, <2>4 DEF EventOK
  <1> QED BY <1>5, <1>6

\* A request queues its job, behind all others.
LEMMA QueueJobEvent ==
  ASSUME BaseInv, BaseInv', LiveInv, EventInv, NEW r \in Requests, QueueCalendarJob(r),
         NEW root \in Booked', appts'[root].root = root, Clean(root)'
  PROVE  EventOK(root)'
  <1> DEFINE l == loc[r]
  <1>0. PICK job : job = CalendarJob(l)
    OBVIOUS
  <1>k. PICK k : k = Len(queue) + 1
    OBVIOUS
  <1>1. /\ r \in Active /\ pc[r] = "calendar" /\ Goto(r, "idle", NoLocals)
        /\ UNCHANGED <<appts, event, worker, excused, overlapped>>
        /\ Grows /\ Booked' = Booked
        /\ queue' = Append(queue, job) /\ queue \in Seq(Jobs)
    BY <1>0, NothingGrows DEF QueueCalendarJob, outbound, Active, BaseInv, Types
  <1>2. /\ job \in Jobs /\ job.appt = l.appt /\ l.op \in {"create", "cancel", "reschedule"}
        /\ l.op = "create" => job.kind = "create"
        /\ l.op = "cancel" => job.kind = "delete" /\ job.event = l.event
        /\ l.op = "reschedule" => job.kind = "update"
        /\ l.appt \in Booked
    BY <1>0, <1>1, CalendarJobIs DEF BaseInv, RequestOK
  <1>3. /\ DOMAIN queue' = DOMAIN queue \cup {k} /\ k \in Nat
        /\ \A i \in DOMAIN queue : queue'[i] = queue[i] /\ i < k /\ i \in Nat
        /\ queue'[k] = job
    BY <1>1, <1>2, <1>k, JobAppended
  <1>4. Active' = Active \ {r} /\ \A s \in Requests \ {r} : pc'[s] = pc[s] /\ loc'[s] = loc[s]
    BY <1>1, NoLocalsTyped, Went DEF BaseInv, Labels
  <1>5. appts[root].root = root /\ Clean(root) /\ EventOK(root)
    BY <1>1, WasOK
  <1>6. AtWork(root)' <=> AtWork(root)
    BY <1>1, WorkerStays
  <1>7. Root(r) = appts[l.appt].root
    BY DEF Root
  <1> HIDE DEF l
  <1>8. CASE Root(r) # root
    <2>1. SameRequests(root)
      BY <1>1, <1>4, <1>8, OthersStay
    <2>2. Queued(root)' = Queued(root)
      BY <1>1, <1>2, <1>3, <1>7, <1>8 DEF Queued, JobRoot
    <2>3. SameJobs(root)
      <3>1. \A i \in Queued(root) : i + 0 = i /\ i - 0 = i /\ queue'[i] = queue[i]
        BY <1>3 DEF Queued
      <3>2. 0 \in Int
        OBVIOUS
      <3>3. \E d \in Int : /\ \A i \in Queued(root) : i + d \in Queued(root)' /\ queue'[i + d] = queue[i]
                           /\ \A j \in Queued(root)' : j - d \in Queued(root)
        BY <2>2, <3>1, <3>2
      <3> QED BY <1>1, <1>6, <3>3 DEF SameJobs
    <2>4. SameRows(root) /\ SameStatus(root) /\ SameEvent(root)
      BY <1>1 DEF SameRows, SameStatus, SameEvent
    <2> QED BY <1>1, <1>5, <2>1, <2>3, <2>4, EventSteady
  <1>9. CASE Root(r) = root
    <2>1. Working(root) = {r} /\ r \in Working(root)
      BY <1>1, <1>5, <1>9 DEF Working, LiveInv, Clean
    <2>2. Working(root)' = {}
      <3>1. \A s \in Active' : s \in Active /\ s # r /\ s \in Requests
        BY <1>4 DEF Active
      <3>2. \A s \in Active' : Root(s)' = Root(s)
        BY <1>1, <1>4, <3>1 DEF Root
      <3> QED BY <2>1, <3>1, <3>2 DEF Working
    <2>3. Creating(root)' = {}
      BY <2>2 DEF Creating
    <2>4. /\ Queued(root)' = Queued(root) \cup {k} /\ k \in Queued(root)'
          /\ \A i \in Queued(root) : queue'[i] = queue[i] /\ i <= k
      <3>1. \A i \in DOMAIN queue : queue'[i] = queue[i] /\ i <= k
        BY <1>3
      <3>2. appts'[queue'[k].appt].root = root /\ k \in DOMAIN queue'
        BY <1>1, <1>2, <1>3, <1>7, <1>9
      <3>3. \A i \in DOMAIN queue' : i = k \/ i \in DOMAIN queue
        BY <1>3
      <3>4. DOMAIN queue \subseteq DOMAIN queue'
        BY <1>3
      <3> QED BY <1>1, <3>1, <3>2, <3>3, <3>4 DEF Queued, JobRoot
    <2>5. CASE Unknown(root)
      <3>1. l.op = "create"
        BY <1>1, <1>2, <2>1, <2>5 DEF Unknown, l
      <3>2. Creating(root) # {}
        BY <2>1, <3>1 DEF Creating, l
      <3>3. Queued(root) = {} /\ ~AtWork(root)
        BY <2>5, <3>2 DEF Unknown
      <3>4. Queued(root)' = {k} /\ queue'[k].kind = "create"
        BY <1>2, <1>3, <2>4, <3>1, <3>3
      <3>5. Unknown(root)'
        BY <1>1, <1>6, <2>2, <2>3, <2>5, <3>3, <3>4 DEF Unknown
      <3> QED BY <3>5 DEF EventOK
    <2>6. CASE Known(root) /\ \A b \in Booked : appts[b].root = root /\ IsLast(b) => Followed(root, b)
      <3>1. /\ l.op # "create"
            /\ l.op = "cancel" => l.event = appts[root].event /\ appts[l.appt].status = "cancelled"
            /\ l.op = "reschedule" => IsLive(l.appt)
        BY <1>1, <2>1, <2>6 DEF Known, l
      <3>2. appts[l.appt].status # "rescheduled" /\ (l.op = "reschedule" => appts[l.appt].status # "cancelled")
        BY <1>2, <3>1 DEF IsLive, LiveStates
      <3>3. IsLast(l.appt)
        BY <1>2, <1>5, <1>7, <1>9, <3>2, NotMovedIsLast DEF Clean
      <3>4. Known(root)'
        <4>1. (\A i \in Queued(root) : /\ queue[i].kind # "create"
                                       /\ queue[i].kind = "delete" => queue[i].event = appts[root].event)'
          BY <1>1, <1>2, <1>3, <2>4, <2>6, <3>1 DEF Known
        <4> QED BY <1>1, <1>6, <2>2, <2>6, <4>1 DEF Known
      <3>5. ASSUME NEW b \in Booked', appts'[b].root = root, IsLast(b)'
            PROVE  Followed(root, b)'
        <4>1. b \in Booked /\ appts[b].root = root /\ IsLast(b) /\ Followed(root, b)
          BY <1>1, <2>6, <3>5 DEF IsLast
        <4>2. b = l.appt
          BY <1>2, <1>7, <1>9, <3>3, <4>1, OneLast
        <4>3. CASE l.op = "cancel"
          <5>1. Deleting(root)'
            BY <1>2, <1>3, <2>4, <4>3 DEF Deleting
          <5> QED BY <1>1, <3>1, <4>2, <4>3, <5>1 DEF Followed
        <4>4. CASE l.op = "reschedule"
          <5>1. Moving(root, b)'
            BY <1>2, <1>3, <2>4, <4>2, <4>4 DEF Moving
          <5>2. /\ event[appts[root].event] # 0
                /\ \A i \in Queued(root) : queue[i].kind # "delete"
                /\ ~(AtWork(root) /\ worker.pc = "delete")
            BY <3>2, <4>1, <4>2, <4>4 DEF Followed
          <5>3. (\A i \in Queued(root) : queue[i].kind # "delete")'
            BY <1>2, <1>3, <2>4, <4>4, <5>2
          <5> QED BY <1>1, <1>6, <3>2, <4>2, <4>4, <5>1, <5>2, <5>3 DEF Followed
        <4> QED BY <1>2, <3>1, <4>3, <4>4
      <3> QED BY <3>4, <3>5 DEF EventOK
    <2> QED BY <1>5, <2>5, <2>6 DEF EventOK
  <1> QED BY <1>8, <1>9

\* A request fails: its booking is excused, the others do not notice.
LEMMA FailEvent ==
  ASSUME BaseInv, BaseInv', EventInv, NEW r \in Requests, RequestFails(r),
         NEW root \in Booked', appts'[root].root = root, Clean(root)'
  PROVE  EventOK(root)'
  <1>1. /\ r \in Active /\ Goto(r, "idle", NoLocals)
        /\ UNCHANGED <<appts, event, worker, queue, overlapped>>
        /\ Root(r) \in excused' /\ excused \subseteq excused'
        /\ Grows /\ Booked' = Booked
    BY NothingGrows DEF RequestFails, outbound, Active
  <1>2. Active' = Active \ {r} /\ \A s \in Requests \ {r} : pc'[s] = pc[s] /\ loc'[s] = loc[s]
    BY <1>1, NoLocalsTyped, Went DEF BaseInv, Labels
  <1>3. appts[root].root = root /\ EventOK(root)
    BY <1>1, WasOK
  <1>4. Root(r) # root
    BY <1>1 DEF Clean
  <1>5. SameRequests(root)
    BY <1>1, <1>2, <1>4, OthersStay
  <1>6. SameJobs(root)
    BY <1>1, JobsStay
  <1>7. SameRows(root) /\ SameStatus(root) /\ SameEvent(root)
    BY <1>1 DEF SameRows, SameStatus, SameEvent
  <1> QED BY <1>1, <1>3, <1>5, <1>6, <1>7, EventSteady

\* The process restarts: what it drops, or hands out again, is excused.
LEMMA RestartEvent ==
  ASSUME BaseInv, BaseInv', EventInv, Restart,
         NEW root \in Booked', appts'[root].root = root, Clean(root)'
  PROVE  EventOK(root)'
  <1>1. /\ UNCHANGED <<appts, event, overlapped>> /\ excused \subseteq excused'
        /\ \A r \in Active : Root(r) \in excused'
        /\ worker.pc # "idle" => JobRoot(worker.job) \in excused'
        /\ Grows /\ Booked' = Booked
        /\ worker' = NoWork
    BY NothingGrows DEF Restart, Active, JobRoot
  <1>2. Active' = {}
    BY DEF Restart, Active
  <1>3. appts[root].root = root /\ EventOK(root)
    BY <1>1, WasOK
  <1>4. Working(root) = {} /\ Working(root)' = {} /\ SameRequests(root)
    BY <1>1, <1>2 DEF Working, Clean, SameRequests
  <1>5. ~AtWork(root) /\ ~AtWork(root)'
    BY <1>1 DEF AtWork, Clean, NoWork
  <1>6. \E d \in Int : /\ \A i \in Queued(root) : i + d \in Queued(root)' /\ queue'[i + d] = queue[i]
                       /\ \A j \in Queued(root)' : j - d \in Queued(root)
    <2>1. CASE worker.pc = "idle" \/ worker.job.stalled
      <3>1. queue' = queue
        BY <2>1 DEF Restart
      <3>2. Queued(root)' = Queued(root) /\ 0 \in Int
        BY <1>1, <3>1, QueueStays
      <3>3. \A i \in Queued(root) : i + 0 = i /\ i - 0 = i
        BY DEF Queued, BaseInv, Types
      <3> QED BY <3>1, <3>2, <3>3
    <2>2. CASE ~(worker.pc = "idle" \/ worker.job.stalled)
      <3>1. PICK job : job = [worker.job EXCEPT !.stalled = TRUE]
        OBVIOUS
      <3>2. job \in Jobs /\ job.appt = worker.job.appt
        BY <3>1 DEF BaseInv, Types, Workers, Jobs
      <3>3. queue' = <<job>> \o queue /\ queue \in Seq(Jobs)
        BY <2>2, <3>1 DEF Restart, BaseInv, Types
      <3>4. /\ queue'[1] = job
            /\ \A i \in DOMAIN queue' \ {1} : i - 1 \in DOMAIN queue /\ queue'[i] = queue[i - 1]
            /\ \A i \in DOMAIN queue : i + 1 \in DOMAIN queue' /\ queue'[i + 1] = queue[i]
        BY <3>2, <3>3, JobReturned
      <3>5. JobRoot(job) # root
        BY <1>1, <2>2, <3>2 DEF Clean, JobRoot
      <3>6. 1 \notin Queued(root)'
        BY <1>1, <3>4, <3>5 DEF Queued, JobRoot
      <3>7. \A i \in Queued(root) : i + 1 \in Queued(root)' /\ queue'[i + 1] = queue[i]
        BY <1>1, <3>4 DEF Queued, JobRoot
      <3>8. \A j \in Queued(root)' : j - 1 \in Queued(root)
        BY <1>1, <3>4, <3>6 DEF Queued, JobRoot
      <3>9. 1 \in Int
        OBVIOUS
      <3> QED BY <3>7, <3>8, <3>9
    <2> QED BY <2>1, <2>2
  <1>7. SameJobs(root)
    BY <1>5, <1>6 DEF SameJobs
  <1>8. SameRows(root) /\ SameStatus(root) /\ SameEvent(root)
    BY <1>1 DEF SameRows, SameStatus, SameEvent
  <1> QED BY <1>1, <1>3, <1>4, <1>7, <1>8, EventSteady

\* The worker takes the first job: for its booking it was the first one queued.
LEMMA TakeEvent ==
  ASSUME BaseInv, BaseInv', EventInv, TakeJob,
         NEW root \in Booked', appts'[root].root = root, Clean(root)'
  PROVE  EventOK(root)'
  <1>0. PICK job : job = Head(queue)
    OBVIOUS
  <1>1. /\ UNCHANGED <<appts, event, overlapped, excused, pc, loc>>
        /\ Grows /\ Booked' = Booked /\ Active' = Active
        /\ worker.pc = "idle" /\ queue # << >> /\ queue' = Tail(queue) /\ queue \in Seq(Jobs)
    BY NothingGrows DEF TakeJob, requestSide, Active, BaseInv, Types
  <1>2. /\ job = queue[1] /\ 1 \in DOMAIN queue
        /\ \A i \in DOMAIN queue' : i + 1 \in DOMAIN queue /\ queue'[i] = queue[i + 1] /\ i + 1 # 1 /\ i \in Nat
        /\ \A i \in DOMAIN queue \ {1} : i - 1 \in DOMAIN queue' /\ queue'[i - 1] = queue[i]
        /\ \A i \in DOMAIN queue : i >= 1 /\ i \in Nat
    BY <1>0, <1>1, JobTaken
  <1>3. job \in Jobs /\ JobOK(job) /\ job.kind \in {"create", "update", "delete"}
    <2>1. queue[1] \in Jobs
      BY <1>1, <1>2
    <2>2. JobOK(job)
      BY <1>2 DEF BaseInv
    <2> QED BY <1>2, <2>1, <2>2 DEF Jobs, JobOK
  <1>4. worker'.pc = job.kind /\ worker'.job = job
    BY <1>0, <1>3, NoLocalsTyped DEF TakeJob, Workers
  <1>5. appts[root].root = root /\ Clean(root) /\ EventOK(root)
    BY <1>1, WasOK
  <1>6. SameRequests(root) /\ Working(root)' = Working(root) /\ Creating(root)' = Creating(root)
    BY <1>1 DEF SameRequests, Working, Root, Creating
  <1>7. SameRows(root) /\ SameStatus(root) /\ SameEvent(root)
    BY <1>1 DEF SameRows, SameStatus, SameEvent, AtWork
  <1>8. /\ \A i \in Queued(root) \ {1} : i - 1 \in Queued(root)' /\ queue'[i - 1] = queue[i]
        /\ \A j \in Queued(root)' : j + 1 \in Queued(root) \ {1} /\ queue'[j] = queue[j + 1] /\ j \in Nat
    BY <1>1, <1>2 DEF Queued, JobRoot
  <1>9. /\ ~AtWork(root) /\ (AtWork(root)' <=> JobRoot(job) = root)
        /\ 1 \in Queued(root) <=> JobRoot(job) = root
    BY <1>1, <1>2, <1>3, <1>4 DEF AtWork, JobRoot, Queued
  <1>10. CASE JobRoot(job) # root
    <2>1. \A i \in Queued(root) : i + (-1) = i - 1
      BY <1>2 DEF Queued
    <2>2. \A j \in Queued(root)' : j - (-1) = j + 1
      BY <1>8
    <2>3. -1 \in Int
      OBVIOUS
    <2>4. \E d \in Int : /\ \A i \in Queued(root) : i + d \in Queued(root)' /\ queue'[i + d] = queue[i]
                         /\ \A j \in Queued(root)' : j - d \in Queued(root)
      BY <1>8, <1>9, <1>10, <2>1, <2>2, <2>3
    <2>5. SameJobs(root)
      BY <1>9, <1>10, <2>4 DEF SameJobs
    <2> QED BY <1>1, <1>5, <1>6, <1>7, <2>5, EventSteady
  <1>11. CASE JobRoot(job) = root
    <2>1. 1 \in Queued(root) /\ AtWork(root)' /\ \A i \in Queued(root) : i >= 1 /\ i \in Nat
      BY <1>2, <1>9, <1>11 DEF Queued
    <2>2. CASE Unknown(root)
      <3>1. /\ Creating(root) = {}
            /\ \E i \in Queued(root) : queue[i].kind = "create" /\ \A j \in Queued(root) : j = i
        BY <1>9, <2>1, <2>2 DEF Unknown
      <3>2. job.kind = "create" /\ \A j \in Queued(root) : j = 1
        BY <1>2, <2>1, <3>1
      <3>3. Queued(root)' = {}
        BY <1>8, <3>2
      <3>4. Unknown(root)'
        BY <1>1, <1>4, <1>6, <2>1, <2>2, <3>1, <3>2, <3>3 DEF Unknown
      <3> QED BY <3>4 DEF EventOK
    <2>3. CASE Known(root) /\ \A b \in Booked : appts[b].root = root /\ IsLast(b) => Followed(root, b)
      <3>1. /\ job.kind # "create"
            /\ job.kind = "delete" => job.event = appts[root].event
            /\ \A i \in Queued(root) : /\ queue[i].kind # "create"
                                       /\ queue[i].kind = "delete" => queue[i].event = appts[root].event
        BY <1>2, <2>1, <2>3 DEF Known
      <3>2. Known(root)'
        <4>1. (\A i \in Queued(root) : /\ queue[i].kind # "create"
                                       /\ queue[i].kind = "delete" => queue[i].event = appts[root].event)'
          BY <1>1, <1>8, <3>1
        <4>2. (AtWork(root) => /\ worker.pc \in {"update", "delete"}
                               /\ worker.pc = "delete" => worker.job.event = appts[root].event)'
          BY <1>1, <1>3, <1>4, <3>1
        <4>3. (\A r \in Working(root) :
                 /\ loc[r].op # "create"
                 /\ loc[r].event \in {0, appts[root].event}
                 /\ pc[r] # "write" /\ loc[r].op = "cancel" =>
                      loc[r].event = appts[root].event /\ appts[loc[r].appt].status = "cancelled"
                 /\ pc[r] # "write" /\ loc[r].op = "reschedule" => IsLive(loc[r].appt))'
          BY <1>1, <1>6, <2>3 DEF Known, IsLive
        <4> QED BY <1>1, <2>3, <4>1, <4>2, <4>3 DEF Known
      <3>3. ASSUME NEW b \in Booked', appts'[b].root = root, IsLast(b)'
            PROVE  Followed(root, b)'
        <4>1. b \in Booked /\ Followed(root, b)
          BY <1>1, <2>3, <3>3 DEF IsLast
        <4>2. Deleting(root) => Deleting(root)'
          <5>1. ASSUME NEW i \in Queued(root), queue[i].kind = "delete"
                PROVE  Deleting(root)'
            <6>1. CASE i = 1
              BY <1>2, <1>4, <2>1, <5>1, <6>1 DEF Deleting
            <6>2. CASE i # 1
              BY <1>8, <5>1, <6>2 DEF Deleting
            <6> QED BY <6>1, <6>2
          <5> QED BY <1>1, <1>6, <1>9, <5>1 DEF Deleting
        <4>3. Moving(root, b) => Moving(root, b)'
          <5>1. ASSUME NEW i \in Queued(root), queue[i].kind = "update", queue[i].appt = b,
                       \A j \in Queued(root) : j <= i
                PROVE  Moving(root, b)'
            <6>1. CASE i = 1
              <7>1. Queued(root)' = {}
                BY <1>8, <2>1, <5>1, <6>1
              <7> QED BY <1>2, <1>4, <2>1, <5>1, <6>1, <7>1 DEF Moving
            <6>2. CASE i # 1
              <7>1. i - 1 \in Queued(root)' /\ queue'[i - 1] = queue[i]
                BY <1>8, <6>2
              <7>2. \A j \in Queued(root)' : j <= i - 1
                <8> SUFFICES ASSUME NEW j \in Queued(root)' PROVE j <= i - 1
                  OBVIOUS
                <8>1. j + 1 \in Queued(root) /\ j \in Nat
                  BY <1>8
                <8>2. j + 1 <= i /\ i \in Nat
                  BY <2>1, <5>1, <8>1
                <8> QED BY <8>1, <8>2
              <7> QED BY <5>1, <7>1, <7>2 DEF Moving
            <6> QED BY <6>1, <6>2
          <5>2. ASSUME NEW s \in Working(root), pc[s] = "calendar", loc[s].op = "reschedule", loc[s].appt = b
                PROVE  Moving(root, b)'
            BY <1>1, <1>6, <5>2 DEF Moving
          <5> QED BY <2>1, <5>1, <5>2, <1>9 DEF Moving
        <4>4. (\A i \in Queued(root) : queue[i].kind # "delete") =>
                /\ \A i \in Queued(root)' : queue'[i].kind # "delete"
                /\ worker'.pc # "delete"
          BY <1>2, <1>4, <1>8, <2>1
        <4> QED BY <1>1, <4>1, <4>2, <4>3, <4>4 DEF Followed
      <3> QED BY <3>2, <3>3 DEF EventOK
    <2> QED BY <1>5, <2>2, <2>3 DEF EventOK
  <1> QED BY <1>10, <1>11

\* The worker's later steps leave the requests and the queue alone.
LEMMA WorkerOthers ==
  ASSUME BaseInv, BaseInv',
         CreateEvent \/ UpdateEvent \/ DeleteEvent \/ AckJob \/ JobFails \/ StoreEventId,
         NEW root
  PROVE  /\ Booked' = Booked /\ Grows /\ UNCHANGED <<queue, pc, loc, overlapped>>
         /\ worker.job.appt \in Booked
         /\ SameRequests(root) /\ Creating(root)' = Creating(root)
         /\ Queued(root)' = Queued(root)
         /\ JobRoot(worker.job) # root => ~AtWork(root) /\ SameJobs(root)
  <1>1. Grows
    BY WorkerBase DEF WorkerStep
  <1>2. Booked' = Booked
    <2>1. CASE StoreEventId
      BY <2>1, EventStored DEF StoreEventId, BaseInv, Types, WorkerOK, JobOK, Workers
    <2>2. CASE ~StoreEventId
      BY <2>2, WorkerKeepsJob, NothingGrows
    <2> QED BY <2>1, <2>2
  <1>3. /\ UNCHANGED <<queue, pc, loc, overlapped>> /\ Active' = Active
        /\ worker'.pc # "idle" => worker'.job = worker.job
        /\ worker.pc # "idle"
    BY WorkerKeepsJob
  <1>4. worker.job.appt \in Booked
    BY <1>3 DEF BaseInv, WorkerOK, JobOK
  <1>5. \A s \in Active : Root(s)' = Root(s)
    BY <1>1, <1>3 DEF Root, BaseInv, RequestOK, Grows
  <1>6. SameRequests(root) /\ Creating(root)' = Creating(root)
    BY <1>3, <1>5 DEF SameRequests, Working, Creating
  <1>7. Queued(root)' = Queued(root)
    BY <1>1, <1>3, QueueStays
  <1>8. ASSUME JobRoot(worker.job) # root
        PROVE  ~AtWork(root) /\ SameJobs(root)
    <2>1. ~AtWork(root) /\ ~AtWork(root)'
      BY <1>1, <1>3, <1>4, <1>8 DEF AtWork, JobRoot, Grows
    <2>2. \A i \in Queued(root) : i + 0 = i /\ i - 0 = i
      BY DEF Queued, BaseInv, Types
    <2>3. 0 \in Int
      OBVIOUS
    <2>4. \E d \in Int : /\ \A i \in Queued(root) : i + d \in Queued(root)' /\ queue'[i + d] = queue[i]
                         /\ \A j \in Queued(root)' : j - d \in Queued(root)
      BY <1>3, <1>7, <2>2, <2>3
    <2> QED BY <2>1, <2>4 DEF SameJobs
  <1> QED BY <1>1, <1>2, <1>3, <1>4, <1>6, <1>7, <1>8

\* The worker makes the event of a booking that has none.
LEMMA CreateEventEvent ==
  ASSUME BaseInv, BaseInv', EventInv, CreateEvent,
         NEW root \in Booked', appts'[root].root = root, Clean(root)'
  PROVE  EventOK(root)'
  <1>1. /\ worker.pc = "create" /\ UNCHANGED <<appts, queue, excused, overlapped, pc, loc>>
        /\ event' = [event EXCEPT ![made + 1] = appts[worker.job.appt].start]
        /\ made + 1 \in 1 .. MaxEvents /\ made \in Nat
    BY AppointmentAssumption DEF CreateEvent, requestSide, BaseInv, Types
  <1>2. worker'.pc = "store" /\ worker'.event = made + 1 /\ worker'.job = worker.job
    BY WorkerKeepsJob
  <1>3. /\ Booked' = Booked /\ Grows
        /\ worker.job.appt \in Booked
        /\ SameRequests(root) /\ Creating(root)' = Creating(root)
        /\ Queued(root)' = Queued(root)
        /\ JobRoot(worker.job) # root => ~AtWork(root) /\ SameJobs(root)
    BY WorkerOthers
  <1>4. appts[root].root = root /\ Clean(root) /\ EventOK(root)
    BY <1>1, <1>3, WasOK
  <1>5. /\ event'[made + 1] = appts[worker.job.appt].start
        /\ \A g \in 1 .. MaxEvents : g # made + 1 => event'[g] = event[g]
    BY <1>1 DEF BaseInv, Types
  <1>6. CASE JobRoot(worker.job) # root
    <2>1. appts[root].event # 0 => event'[appts[root].event] = event[appts[root].event]
      <3> SUFFICES ASSUME appts[root].event # 0 PROVE event'[appts[root].event] = event[appts[root].event]
        OBVIOUS
      <3>1. root \in Appts /\ root \in Booked
        BY <1>3 DEF Booked
      <3>2. appts[root].event \in 1 .. MaxEvents
        BY <3>1, AppointmentAssumption DEF BaseInv, Types, Rows
      <3>3. Claim(appts[root].event, root)
        BY <1>4, <3>1 DEF Claim
      <3>4. appts[root].event <= made
        BY <3>1, <3>2, <3>3 DEF EventInv, ClaimsInv
      <3> QED BY <1>1, <1>5, <3>2, <3>4
    <2>2. SameRows(root) /\ SameStatus(root) /\ SameEvent(root)
      BY <1>1, <1>3, <1>6, <2>1 DEF SameRows, SameStatus, SameEvent
    <2> QED BY <1>3, <1>4, <1>6, <2>2, EventSteady
  <1>7. CASE JobRoot(worker.job) = root
    <2>1. AtWork(root) /\ AtWork(root)'
      BY <1>1, <1>2, <1>7 DEF AtWork, JobRoot
    <2>2. Unknown(root)
      BY <1>1, <1>4, <2>1 DEF EventOK, Known
    <2>3. Creating(root) = {} /\ Queued(root) = {} /\ worker.job.appt = root
      BY <1>3, <1>7, <2>1, <2>2 DEF Unknown, JobRoot
    <2>4. Working(root)' = Working(root)
      BY <1>3 DEF SameRequests
    <2>5. Unknown(root)'
      BY <1>1, <1>2, <1>3, <1>5, <2>1, <2>2, <2>3, <2>4 DEF Unknown
    <2> QED BY <2>5 DEF EventOK
  <1> QED BY <1>6, <1>7

\* The worker stores the id of the event it made.
LEMMA StoreEvent ==
  ASSUME BaseInv, BaseInv', EventInv, StoreEventId,
         NEW root \in Booked', appts'[root].root = root, Clean(root)'
  PROVE  EventOK(root)'
  <1>1. /\ worker.pc = "store" /\ UNCHANGED <<event, queue, excused, overlapped, pc, loc>>
        /\ appts' = [appts EXCEPT ![worker.job.appt].event = worker.event]
        /\ worker.event \in 0 .. MaxEvents /\ worker.event # 0
    BY DEF StoreEventId, requestSide, BaseInv, Types, Workers, WorkerOK
  <1>2. worker'.pc = "ack"
    BY Worked, AppointmentAssumption DEF StoreEventId, BaseInv
  <1>3. /\ Booked' = Booked /\ Grows
        /\ worker.job.appt \in Booked
        /\ SameRequests(root) /\ Creating(root)' = Creating(root)
        /\ Queued(root)' = Queued(root)
        /\ JobRoot(worker.job) # root => ~AtWork(root) /\ SameJobs(root)
    BY WorkerOthers
  <1>4. appts[root].root = root /\ Clean(root) /\ EventOK(root)
    BY <1>1, <1>3, WasOK
  <1>5. \A b \in Booked : /\ appts'[b].start = appts[b].start /\ appts'[b].root = appts[b].root
                          /\ appts'[b].status = appts[b].status
                          /\ appts'[b].event = IF b = worker.job.appt THEN worker.event
                                                                      ELSE appts[b].event
    <2>1. \A b \in Appts : /\ appts'[b].start = appts[b].start /\ appts'[b].root = appts[b].root
                            /\ appts'[b].status = appts[b].status
                            /\ appts'[b].event = IF b = worker.job.appt THEN worker.event
                                                                        ELSE appts[b].event
      BY <1>1, <1>3, EventStored DEF BaseInv
    <2> QED BY <2>1 DEF Booked
  <1>6. CASE JobRoot(worker.job) # root
    <2>1. SameRows(root) /\ SameStatus(root)
      BY <1>3, <1>5, <1>6 DEF SameRows, SameStatus, JobRoot
    <2>2. SameEvent(root)
      BY <1>1 DEF SameEvent
    <2> QED BY <1>3, <1>4, <1>6, <2>1, <2>2, EventSteady
  <1>7. CASE JobRoot(worker.job) = root
    <2>1. AtWork(root) /\ ~AtWork(root)'
      BY <1>1, <1>2, <1>7 DEF AtWork
    <2>2. Unknown(root)
      BY <1>1, <1>4, <2>1 DEF EventOK, Known
    <2>3. /\ Creating(root) = {} /\ Queued(root) = {} /\ worker.job.appt = root
          /\ event[worker.event] = appts[root].start
          /\ \A a \in Booked : appts[a].root = root => a = root
          /\ appts[root].status \notin {"cancelled", "rescheduled"}
      BY <1>1, <1>3, <1>7, <2>1, <2>2 DEF Unknown, JobRoot
    <2>4. /\ Working(root)' = Working(root)
          /\ \A s \in Working(root) : /\ loc'[s].op # "create" /\ loc'[s].event = 0
                                      /\ loc'[s].op \in {"cancel", "reschedule"} => pc'[s] = "write"
      BY <1>1, <1>3, <2>2, <2>3 DEF SameRequests, Unknown, Creating
    <2>5. appts'[root].event = worker.event /\ appts'[root].start = appts[root].start
          /\ appts[root].start \in Starts /\ appts'[root].status # "cancelled"
      BY <1>3, <1>5, <2>3 DEF BaseInv, RowOK
    <2>6. Known(root)'
      BY <1>1, <1>3, <1>5, <2>1, <2>3, <2>4, <2>5 DEF Known
    <2>7. Followed(root, root)'
      BY <1>1, <1>3, <2>1, <2>3, <2>5, AppointmentAssumption DEF Followed, Moving
    <2> QED BY <1>3, <1>5, <2>3, <2>6, <2>7 DEF EventOK
  <1> QED BY <1>6, <1>7

\* The event of a booking is not that of another.
LEMMA EventsApart ==
  ASSUME BaseInv, EventInv, NEW root \in Booked, appts[root].root = root, appts[root].event # 0,
         NEW g \in 1 .. MaxEvents, NEW x \in Appts, x # root, Claim(g, x)
  PROVE  appts[root].event # g /\ appts[root].event \in 1 .. MaxEvents
  <1>1. root \in Appts
    BY DEF Booked
  <1>2. appts[root].event \in 1 .. MaxEvents
    BY <1>1, AppointmentAssumption DEF BaseInv, Types, Rows
  <1>3. Claim(appts[root].event, root)
    BY DEF Claim
  <1> QED BY <1>1, <1>2, <1>3 DEF EventInv, ClaimsInv

\* The worker moves the event of its row's booking.
LEMMA UpdateEventEvent ==
  ASSUME BaseInv, BaseInv', EventInv, UpdateEvent,
         NEW root \in Booked', appts'[root].root = root, Clean(root)'
  PROVE  EventOK(root)'
  <1>0. PICK g : g = appts[worker.job.appt].event
    OBVIOUS
  <1>1. /\ worker.pc = "update" /\ UNCHANGED <<appts, queue, excused, overlapped, pc, loc>>
        /\ event' = [event EXCEPT ![g] = IF @ = 0 THEN 0 ELSE appts[worker.job.appt].start]
    BY <1>0 DEF UpdateEvent, requestSide
  <1>2. worker'.pc = "ack"
    BY Worked, AppointmentAssumption DEF UpdateEvent, BaseInv
  <1>3. /\ Booked' = Booked /\ Grows
        /\ worker.job.appt \in Booked
        /\ SameRequests(root) /\ Creating(root)' = Creating(root)
        /\ Queued(root)' = Queued(root)
        /\ JobRoot(worker.job) # root => ~AtWork(root) /\ SameJobs(root)
    BY WorkerOthers
  <1>4. appts[root].root = root /\ Clean(root) /\ EventOK(root)
    BY <1>1, <1>3, WasOK
  <1>5. g \in 1 .. MaxEvents /\ Claim(g, JobRoot(worker.job)) /\ JobRoot(worker.job) \in Appts
    <2>1. g # 0
      BY <1>0, <1>1 DEF BaseInv, WorkerOK, JobOK, HasEvent
    <2>2. g \in 0 .. MaxEvents
      BY <1>0, <1>3 DEF BaseInv, Types, Rows, Booked
    <2>3. Claim(g, JobRoot(worker.job))
      BY <1>0, <1>3 DEF Claim, JobRoot
    <2>4. JobRoot(worker.job) \in Appts
      BY <1>1, RootTyped DEF JobRoot
    <2> QED BY <2>1, <2>2, <2>3, <2>4, AppointmentAssumption
  <1>6. /\ event'[g] = IF event[g] = 0 THEN 0 ELSE appts[worker.job.appt].start
        /\ \A h \in 1 .. MaxEvents : h # g => event'[h] = event[h]
    BY <1>1, <1>5 DEF BaseInv, Types
  <1>7. CASE JobRoot(worker.job) # root
    <2>1. appts[root].event # 0 => event'[appts[root].event] = event[appts[root].event]
      BY <1>3, <1>4, <1>5, <1>6, <1>7, EventsApart
    <2>2. SameRows(root) /\ SameStatus(root) /\ SameEvent(root)
      BY <1>1, <1>3, <1>7, <2>1 DEF SameRows, SameStatus, SameEvent
    <2> QED BY <1>3, <1>4, <1>7, <2>2, EventSteady
  <1>8. CASE JobRoot(worker.job) = root
    <2>1. AtWork(root) /\ ~AtWork(root)'
      BY <1>1, <1>2, <1>8 DEF AtWork
    <2>2. Known(root) /\ \A b \in Booked : appts[b].root = root /\ IsLast(b) => Followed(root, b)
      BY <1>1, <1>4, <2>1 DEF EventOK, Unknown
    <2>3. g = appts[root].event
      BY <1>0, <1>3, <1>8, <2>2 DEF Known, JobRoot
    <2>4. Working(root)' = Working(root)
      BY <1>3 DEF SameRequests
    <2>5. Known(root)'
      <3>1. (\A r \in Working(root) :
               /\ loc[r].op # "create"
               /\ loc[r].event \in {0, appts[root].event}
               /\ pc[r] # "write" /\ loc[r].op = "cancel" =>
                    loc[r].event = appts[root].event /\ appts[loc[r].appt].status = "cancelled"
               /\ pc[r] # "write" /\ loc[r].op = "reschedule" => IsLive(loc[r].appt))'
        BY <1>1, <2>2, <2>4 DEF Known, IsLive
      <3> QED BY <1>1, <1>3, <2>1, <2>2, <3>1 DEF Known
    <2>6. ASSUME NEW b \in Booked', appts'[b].root = root, IsLast(b)'
          PROVE  Followed(root, b)'
      <3>1. b \in Booked /\ Followed(root, b)
        BY <1>1, <1>3, <2>2, <2>6 DEF IsLast
      <3>2. Deleting(root) => Deleting(root)'
        BY <1>1, <1>3, <1>6, <2>3, <2>4 DEF Deleting
      <3>3. appts[b].status # "cancelled" =>
              /\ event'[appts[root].event] = appts[worker.job.appt].start
              /\ event'[appts[root].event] # 0
        <4>1. appts[worker.job.appt].start # 0
          BY <1>3, AppointmentAssumption DEF BaseInv, RowOK
        <4> QED BY <1>6, <2>3, <3>1, <4>1 DEF Followed
      <3>4. appts[b].status # "cancelled" /\ Moving(root, b) => Moving(root, b)'
        BY <1>1, <1>3, <2>1, <2>4, <3>3 DEF Moving
      <3> QED BY <1>1, <1>3, <2>1, <3>1, <3>2, <3>3, <3>4 DEF Followed
    <2> QED BY <2>5, <2>6 DEF EventOK
  <1> QED BY <1>7, <1>8

\* The worker deletes the event of its job's booking.
LEMMA DeleteEventEvent ==
  ASSUME BaseInv, BaseInv', EventInv, DeleteEvent,
         NEW root \in Booked', appts'[root].root = root, Clean(root)'
  PROVE  EventOK(root)'
  <1>0. PICK g : g = worker.job.event
    OBVIOUS
  <1>1. /\ worker.pc = "delete" /\ UNCHANGED <<appts, queue, excused, overlapped, pc, loc>>
        /\ event' = [event EXCEPT ![g] = 0]
    BY <1>0 DEF DeleteEvent, requestSide
  <1>2. worker'.pc = "ack"
    BY Worked, AppointmentAssumption DEF DeleteEvent, BaseInv
  <1>3. /\ Booked' = Booked /\ Grows
        /\ worker.job.appt \in Booked
        /\ SameRequests(root) /\ Creating(root)' = Creating(root)
        /\ Queued(root)' = Queued(root)
        /\ JobRoot(worker.job) # root => ~AtWork(root) /\ SameJobs(root)
    BY WorkerOthers
  <1>4. appts[root].root = root /\ Clean(root) /\ EventOK(root)
    BY <1>1, <1>3, WasOK
  <1>5. g \in 1 .. MaxEvents /\ Claim(g, JobRoot(worker.job)) /\ JobRoot(worker.job) \in Appts
    <2>1. g # 0
      BY <1>0, <1>1 DEF BaseInv, WorkerOK, JobOK, HasEvent
    <2>2. g \in 0 .. MaxEvents
      BY <1>0 DEF BaseInv, Types, Workers, Jobs
    <2>3. Claim(g, JobRoot(worker.job))
      BY <1>0, <1>1 DEF Claim
    <2>4. JobRoot(worker.job) \in Appts
      BY <1>1, RootTyped DEF JobRoot
    <2> QED BY <2>1, <2>2, <2>3, <2>4, AppointmentAssumption
  <1>6. event'[g] = 0 /\ \A h \in 1 .. MaxEvents : h # g => event'[h] = event[h]
    BY <1>1, <1>5 DEF BaseInv, Types
  <1>7. CASE JobRoot(worker.job) # root
    <2>1. appts[root].event # 0 => event'[appts[root].event] = event[appts[root].event]
      BY <1>3, <1>4, <1>5, <1>6, <1>7, EventsApart
    <2>2. SameRows(root) /\ SameStatus(root) /\ SameEvent(root)
      BY <1>1, <1>3, <1>7, <2>1 DEF SameRows, SameStatus, SameEvent
    <2> QED BY <1>3, <1>4, <1>7, <2>2, EventSteady
  <1>8. CASE JobRoot(worker.job) = root
    <2>1. AtWork(root) /\ ~AtWork(root)'
      BY <1>1, <1>2, <1>8 DEF AtWork
    <2>2. Known(root) /\ \A b \in Booked : appts[b].root = root /\ IsLast(b) => Followed(root, b)
      BY <1>1, <1>4, <2>1 DEF EventOK, Unknown
    <2>3. g = appts[root].event
      BY <1>0, <1>1, <2>1, <2>2 DEF Known
    <2>4. Working(root)' = Working(root)
      BY <1>3 DEF SameRequests
    <2>5. Known(root)'
      <3>1. (\A r \in Working(root) :
               /\ loc[r].op # "create"
               /\ loc[r].event \in {0, appts[root].event}
               /\ pc[r] # "write" /\ loc[r].op = "cancel" =>
                    loc[r].event = appts[root].event /\ appts[loc[r].appt].status = "cancelled"
               /\ pc[r] # "write" /\ loc[r].op = "reschedule" => IsLive(loc[r].appt))'
        BY <1>1, <2>2, <2>4 DEF Known, IsLive
      <3> QED BY <1>1, <1>3, <2>1, <2>2, <3>1 DEF Known
    <2>6. ASSUME NEW b \in Booked', appts'[b].root = root, IsLast(b)'
          PROVE  Followed(root, b)'
      <3>1. b \in Booked /\ Followed(root, b)
        BY <1>1, <1>3, <2>2, <2>6 DEF IsLast
      <3>2. appts'[b].status = "cancelled"
        BY <1>1, <2>1, <3>1 DEF Followed
      <3>3. Deleting(root)'
        BY <1>1, <1>6, <2>3 DEF Deleting
      <3> QED BY <3>2, <3>3 DEF Followed
    <2> QED BY <2>5, <2>6 DEF EventOK
  <1> QED BY <1>7, <1>8

\* A job is over, or fails: the booking of one that fails is excused.
LEMMA EndEvent ==
  ASSUME BaseInv, BaseInv', EventInv, AckJob \/ JobFails,
         NEW root \in Booked', appts'[root].root = root, Clean(root)'
  PROVE  EventOK(root)'
  <1>1. UNCHANGED <<appts, event, queue, overlapped, pc, loc>> /\ excused \subseteq excused'
    BY DEF AckJob, JobFails, requestSide
  <1>2. worker'.pc \in {"idle", "ack"}
    BY Worked, AppointmentAssumption DEF AckJob, JobFails, BaseInv, NoWork
  <1>3. /\ Booked' = Booked /\ Grows
        /\ SameRequests(root) /\ Queued(root)' = Queued(root)
        /\ JobRoot(worker.job) # root => SameJobs(root)
    BY WorkerOthers
  <1>4. appts[root].root = root /\ EventOK(root)
    BY <1>1, <1>3, WasOK
  <1>5. SameJobs(root)
    <2>1. CASE JobRoot(worker.job) # root
      BY <1>3, <2>1
    <2>2. CASE JobRoot(worker.job) = root
      <3>1. AckJob
        BY <1>1, <2>2 DEF JobFails, Clean, JobRoot
      <3>2. ~AtWork(root) /\ ~AtWork(root)'
        BY <1>2, <3>1 DEF AtWork, AckJob
      <3>3. \A i \in Queued(root) : i + 0 = i /\ i - 0 = i
        BY DEF Queued, BaseInv, Types
      <3>4. 0 \in Int
        OBVIOUS
      <3>5. \E d \in Int : /\ \A i \in Queued(root) : i + d \in Queued(root)' /\ queue'[i + d] = queue[i]
                           /\ \A j \in Queued(root)' : j - d \in Queued(root)
        BY <1>1, <1>3, <3>3, <3>4
      <3> QED BY <3>2, <3>5 DEF SameJobs
    <2> QED BY <2>1, <2>2
  <1>6. SameRows(root) /\ SameStatus(root) /\ SameEvent(root)
    BY <1>1, <1>3 DEF SameRows, SameStatus, SameEvent
  <1> QED BY <1>3, <1>4, <1>5, <1>6, EventSteady

----------------------------------------------------------------------------
(* Every step keeps each clean booking's event right, or a job or request  *)
(* about to put it right.                                                  *)
LEMMA EventNext ==
  ASSUME BaseInv, BaseInv', LiveInv, EventInv, Next
  PROVE  EventInv'
  <1>1. ClaimsInv'
    BY ClaimsNext DEF EventInv
  <1> SUFFICES ASSUME NEW root \in Booked', appts'[root].root = root, Clean(root)'
               PROVE  EventOK(root)'
    BY <1>1 DEF EventInv
  <1>2. ASSUME NEW r \in Requests, Proceed(r) PROVE EventOK(root)'
    BY <1>2, WriteEvent, UpdateRequestEvent, QueueJobEvent, FailEvent DEF Proceed
  <1>3. ASSUME NEW r \in Requests, NEW sr \in ServiceRequests, NEW t \in Starts, Create(r, sr, t)
        PROVE  EventOK(root)'
    BY <1>3, CreateRowEvent
  <1>4. ASSUME NEW r \in Requests, NEW op \in LifecycleOps, NEW a \in Appts, NEW t \in Starts \cup {0},
               Begin(r, op, a, t)
        PROVE  EventOK(root)'
    BY <1>4, BeginEvent
  <1>5. CASE WorkerStep
    BY <1>5, TakeEvent, CreateEventEvent, StoreEvent, UpdateEventEvent, DeleteEventEvent, EndEvent
       DEF WorkerStep
  <1>6. CASE Restart
    BY <1>6, RestartEvent
  <1> QED BY <1>2, <1>3, <1>4, <1>5, <1>6 DEF Next

(* So that holds always.                                                   *)
LEMMA EventAlways == Spec => []EventInv
  <1>1. Init => EventInv
    <2> SUFFICES ASSUME Init PROVE EventInv
      OBVIOUS
    <2>1. Booked = {} /\ Active = {} /\ queue = << >> /\ worker.pc = "idle"
      BY DEF Init, Booked, NoAppt, Active, NoWork
    <2>2. DOMAIN queue = {}
      BY <2>1
    <2>3. ClaimsInv
      BY <2>1, <2>2 DEF ClaimsInv, Claim
    <2> QED BY <2>1, <2>3 DEF EventInv
  <1>2. BaseInv /\ BaseInv' /\ LiveInv /\ EventInv /\ [Next]_vars => EventInv'
    <2> SUFFICES ASSUME BaseInv, BaseInv', LiveInv, EventInv, [Next]_vars PROVE EventInv'
      OBVIOUS
    <2>1. CASE Next
      BY <2>1, EventNext
    <2>2. CASE UNCHANGED vars
      <3>1. UNCHANGED <<appts, event, made, queue, worker, pc, loc, overlapped, excused>>
        BY <2>2 DEF vars
      <3>2. Booked' = Booked /\ Grows
        BY <3>1, NothingGrows
      <3>3. Active' = Active
        BY <3>1 DEF Active
      <3>4. NoClaims
        BY <3>1, <3>2, <3>3 DEF NoClaims, Claim, Root, JobRoot
      <3>5. ClaimsInv'
        BY <3>1, <3>4, ClaimsKept DEF EventInv
      <3>6. ASSUME NEW root \in Booked', appts'[root].root = root, Clean(root)'
            PROVE  EventOK(root)'
        <4>1. appts[root].root = root /\ EventOK(root) /\ root \in Booked
          BY <3>1, <3>2, <3>6, WasOK
        <4>2. SameRows(root) /\ SameStatus(root) /\ SameEvent(root)
          BY <3>1, <3>2 DEF SameRows, SameStatus, SameEvent
        <4>3. SameRequests(root)
          BY <3>1, <3>3 DEF SameRequests, Working, Root
        <4>4. SameJobs(root)
          BY <3>1, <3>2, JobsStay
        <4> QED BY <4>1, <4>2, <4>3, <4>4, EventSteady
      <3> QED BY <3>5, <3>6 DEF EventInv
    <2> QED BY <2>1, <2>2
  <1>3. Spec => [][Next]_vars /\ Init
    BY DEF Spec
  <1> QED BY <1>1, <1>2, <1>3, LiveAlways, PTL

\* When everything queued is done, the event of a booking no step of which failed
\* is where its last row says, and gone if it is cancelled.
THEOREM CalendarIsRight == Spec => []EventFollows
  <1>1. BaseInv /\ LiveInv /\ EventInv => EventFollows
    <2> SUFFICES ASSUME BaseInv, EventInv, NEW root \in Roots \ (overlapped \cup excused), Settled(root)
                 PROVE  LET last == appts[LastRow(root)] IN
                          /\ last.event # 0
                          /\ event[last.event] = IF last.status = "cancelled" THEN 0 ELSE last.start
      BY DEF EventFollows
    <2>1. PICK a : a = LastRow(root)
      OBVIOUS
    <2>2. a \in Booked /\ appts[a].root = root /\ IsLast(a)
      BY <2>1, HasLast
    <2>3. root \in Booked /\ appts[root].root = root
      BY <2>2 DEF BaseInv, RowOK
    <2>4. EventOK(root)
      BY <2>3 DEF EventInv, Clean
    <2>5. Working(root) = {} /\ Queued(root) = {} /\ ~AtWork(root)
      BY DEF Settled, Busy, Working, Active, Queued, AtWork, JobRoot
    <2>6. ~Unknown(root)
      BY <2>5 DEF Unknown, Creating
    <2>7. Known(root) /\ Followed(root, a)
      BY <2>2, <2>4, <2>6 DEF EventOK
    <2>8. appts[a].event = appts[root].event /\ appts[root].event # 0
      BY <2>2, <2>7 DEF Known
    <2>9. event[appts[a].event] = IF appts[a].status = "cancelled" THEN 0 ELSE appts[a].start
      BY <2>5, <2>7, <2>8 DEF Followed, Deleting, Moving
    <2> QED BY <2>1, <2>8, <2>9
  <1> QED BY <1>1, LiveAlways, EventAlways, PTL
=============================================================================
