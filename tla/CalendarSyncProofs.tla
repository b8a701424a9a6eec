-------------------------- MODULE CalendarSyncProofs --------------------------
(***************************************************************************)
(* Proofs about CalendarSync for every set of events, appointments and     *)
(* requests and every bound, however requests, the worker, the calendar's  *)
(* owner, failures and restarts interleave: the types, no block for an own *)
(* event, no block after a disconnection, and no change that the next      *)
(* listing would miss.                                                     *)
(***************************************************************************)
EXTENDS CalendarSync, SequenceTheorems, TLAPS

(* A job that creates an event names the appointment the event is for, and *)
(* the worker has the event whose id it is about to store.                 *)
GoodJobs == {job \in Jobs : job.kind = "create" => job.appt \in Appts}
JobsOK ==
  /\ queue \in Seq(GoodJobs)
  /\ worker.job \in GoodJobs
  /\ worker.pc \in {"create", "store", "ack"} => worker.job.kind = "create"
  /\ worker.pc = "store" => worker.event \in Events

Tokens == (0 .. MaxRev) \cup {Null}
Workers == [pc : {"idle", "list", "apply", "detect", "create", "store", "ack"},
            job : Jobs, conn : 0 .. MaxConnects, token : Tokens,
            todo : SUBSET Events, found : [Events -> Times \cup {Null}],
            event : Events \cup {Null}]
Conns == [state : {"none", "active", "inactive"}, id : 0 .. MaxConnects,
          status : {"active", "error", "disconnected"}, token : Tokens]

(* The counters start within their bounds.                                 *)
LEMMA Bounds == /\ 0 \in 0 .. MaxRev /\ 0 \in 0 .. MaxConnects /\ 0 \in 0 .. Attempts
                /\ 0 \in 0 .. MaxFaults /\ 0 \in 0 .. MaxNow
BY SyncAssumption

(* The jobs that are put into the queue are good ones.                     *)
LEMMA JobTypes ==
  /\ NoJob \in GoodJobs
  /\ \A c \in 0 .. MaxConnects, n \in 0 .. Attempts : SyncJob(c, n) \in GoodJobs
  /\ \A a \in Appts : CreateJob(a) \in GoodJobs
BY Bounds DEF NoJob, SyncJob, CreateJob, GoodJobs, Jobs

(* The idle worker is well typed.                                          *)
LEMMA IdleType == Idle \in Workers /\ Idle.pc = "idle" /\ Idle.job = NoJob
BY Bounds, JobTypes DEF Idle, Workers, GoodJobs, Tokens

(* The types hold at first.                                                *)
LEMMA TypeInit == Init => TypeOK /\ JobsOK
<1> SUFFICES ASSUME Init PROVE TypeOK /\ JobsOK
  OBVIOUS
<1>1. worker \in Workers /\ worker.job \in GoodJobs /\ worker.pc = "idle"
  BY IdleType, JobTypes DEF Init
<1>2. conn \in Conns
  BY Bounds DEF Init, NoConn, Conns, Tokens
<1>3. queue \in Seq(Jobs) /\ queue \in Seq(GoodJobs)
  BY DEF Init
<1>4. QED
  BY <1>1, <1>2, <1>3, Bounds DEF Init, TypeOK, JobsOK, Workers, Conns, Tokens

-----------------------------------------------------------------------------
(* Type correctness, action by action *)

(* The calendar.                                                           *)
LEMMA CalType ==
  ASSUME TypeOK, NEW e \in Events, NEW t \in Times \cup {Null}, CalendarChange(e, t)
  PROVE  /\ cal' \in [Events -> [time : Times \cup {Null}, rev : 0 .. MaxRev]]
         /\ rev' \in 0 .. MaxRev /\ granted' \in 0 .. MaxConnects /\ now' = now
         /\ rev' = rev + 1 /\ cal'[e] = [time |-> t, rev |-> rev + 1]
         /\ \A d \in Events \ {e} : cal'[d] = cal[d]
<1>1. rev \in Nat /\ rev + 1 \in 0 .. MaxRev
  BY SyncAssumption DEF CalendarChange, TypeOK
<1>2. QED
  BY <1>1 DEF CalendarChange, TypeOK

(* What the calendar's owner does keeps the types, and so does time.       *)
LEMMA OwnerType ==
  ASSUME TypeOK, JobsOK,
         (\E e \in Events, t \in Times \cup {Null} : OwnerChanges(e, t)) \/ OwnerRevokes \/ Tick
  PROVE  TypeOK' /\ JobsOK'
<1>1. ASSUME NEW e \in Events, NEW t \in Times \cup {Null}, OwnerChanges(e, t) PROVE TypeOK' /\ JobsOK'
  <2>1. CalendarChange(e, t) /\ UNCHANGED <<tables, queue, worker, pc, faults, history>>
    BY <1>1 DEF OwnerChanges
  <2>2. /\ cal' \in [Events -> [time : Times \cup {Null}, rev : 0 .. MaxRev]]
        /\ rev' \in 0 .. MaxRev /\ granted' \in 0 .. MaxConnects /\ now' = now
    BY <2>1, CalType
  <2>3. QED
    BY <2>1, <2>2 DEF TypeOK, JobsOK, tables, history
<1>2. CASE OwnerRevokes
  BY <1>2, Bounds DEF OwnerRevokes, TypeOK, JobsOK, tables, history
<1>3. CASE Tick
  <2>1. now' \in 0 .. MaxNow
    BY <1>3, SyncAssumption DEF Tick, TypeOK
  <2>2. UNCHANGED <<cal, rev, granted, tables, queue, worker, pc, faults, history>>
    BY <1>3 DEF Tick
  <2>3. QED
    BY <2>1, <2>2 DEF TypeOK, JobsOK, tables, history
<1>4. QED
  BY <1>1, <1>2, <1>3

(* What puts jobs into the queue, and the reading of a notification.       *)
LEMMA QueueType ==
  ASSUME TypeOK, JobsOK,
         \/ HandleWebhook \/ HandlePeriodicSync
         \/ \E a \in Appts, t \in Times : Book(a, t)
         \/ \E a \in Appts : ReadNotification(a)
  PROVE  TypeOK' /\ JobsOK'
<1>1. ASSUME NEW job \in GoodJobs, queue' = Append(queue, job)
      PROVE  queue' \in Seq(GoodJobs) /\ queue' \in Seq(Jobs)
  BY <1>1 DEF JobsOK, TypeOK, GoodJobs
<1>2. CASE HandleWebhook \/ HandlePeriodicSync
  <2>1. PICK n \in {0, Attempts - 1} : queue' = Append(queue, SyncJob(conn.id, n))
    BY <1>2 DEF HandleWebhook, HandlePeriodicSync
  <2>2. SyncJob(conn.id, n) \in GoodJobs
    <3>1. n \in 0 .. Attempts /\ conn.id \in 0 .. MaxConnects
      BY SyncAssumption DEF TypeOK
    <3>2. QED
      BY <3>1, JobTypes
  <2>3. queue' \in Seq(GoodJobs) /\ queue' \in Seq(Jobs)
    BY <1>1, <2>1, <2>2
  <2>4. UNCHANGED <<world, tables, worker, pc, faults, history>>
    BY <1>2 DEF HandleWebhook, HandlePeriodicSync
  <2>5. QED
    BY <2>3, <2>4 DEF TypeOK, JobsOK, world, tables, history
<1>3. ASSUME NEW a \in Appts, NEW t \in Times, Book(a, t) PROVE TypeOK' /\ JobsOK'
  <2>1. queue' \in Seq(GoodJobs) /\ queue' \in Seq(Jobs)
    BY <1>1, <1>3, JobTypes DEF Book
  <2>2. appts' \in [Appts -> [time : Times \cup {Null}, event : Events \cup {Null}]]
    <3>1. appts[a] \in [time : Times \cup {Null}, event : Events \cup {Null}]
      BY DEF TypeOK
    <3>2. PICK row \in [time : Times \cup {Null}, event : Events \cup {Null}] : row = [appts[a] EXCEPT !.time = t]
      BY <3>1
    <3>3. appts' = [appts EXCEPT ![a] = row]
      BY <1>3, <3>2 DEF Book
    <3>4. QED
      BY <3>3 DEF TypeOK
  <2>3. UNCHANGED <<world, conn, blocks, unread, worker, pc, faults, history>>
    BY <1>3 DEF Book
  <2>4. QED
    BY <2>1, <2>2, <2>3 DEF TypeOK, JobsOK, world, history
<1>4. ASSUME NEW a \in Appts, ReadNotification(a) PROVE TypeOK' /\ JobsOK'
  BY <1>4 DEF ReadNotification, TypeOK, JobsOK, world, history
<1>5. QED
  BY <1>2, <1>3, <1>4

(* The worker taking a job, and ending it in a failure.                    *)
LEMMA TakeType ==
  ASSUME TypeOK, JobsOK, TakeJob
  PROVE  TypeOK' /\ JobsOK'
<1>1. /\ Head(queue) \in GoodJobs /\ queue' \in Seq(GoodJobs) /\ queue' \in Seq(Jobs)
  BY DEF TakeJob, JobsOK, TypeOK
<1>2. ASSUME NEW next \in {"list", "create"}, NEW token \in Tokens, Work(next, conn.id, token),
             next = "create" => Head(queue).kind = "create"
      PROVE  worker' \in Workers /\ worker'.job \in GoodJobs
             /\ (worker'.pc \in {"create", "store", "ack"} => worker'.job.kind = "create")
             /\ worker'.pc # "store"
  <2>1. PICK job \in GoodJobs, c \in 0 .. MaxConnects : job = Head(queue) /\ c = conn.id
    BY <1>1 DEF TypeOK
  <2>2. worker' = [Idle EXCEPT !.pc = next, !.job = job, !.conn = c, !.token = token]
    BY <1>2, <2>1 DEF Work
  <2>3. job \in Jobs
    BY DEF GoodJobs
  <2>4. /\ worker' \in Workers /\ worker'.pc = next /\ worker'.job = job
    BY <2>2, <2>3, IdleType DEF Workers
  <2>5. QED
    BY <1>2, <2>1, <2>4
<1>3. worker' \in Workers /\ worker'.job \in GoodJobs
      /\ (worker'.pc \in {"create", "store", "ack"} => worker'.job.kind = "create")
      /\ (worker'.pc = "store" => worker'.event \in Events)
  <2>1. CASE UNCHANGED worker
    BY <2>1 DEF TypeOK, JobsOK, Workers, Tokens
  <2>2. CASE Head(queue).kind = "sync" /\ Work("list", conn.id, conn.token)
    <3>1. conn.token \in Tokens
      BY DEF TypeOK, Tokens
    <3>2. QED
      BY <1>2, <2>2, <3>1
  <2>3. CASE Head(queue).kind = "create" /\ Work("create", conn.id, Null)
    BY <1>2, <2>3 DEF Tokens
  <2>4. QED
    BY <2>1, <2>2, <2>3 DEF TakeJob
<1>4. UNCHANGED <<world, tables, pc, faults, history>>
  BY DEF TakeJob
<1>5. QED
  BY <1>1, <1>3, <1>4 DEF TypeOK, JobsOK, Workers, Tokens, world, tables, history

(* The number of faults stays within its bound.                            *)
LEMMA FaultType ==
  ASSUME TypeOK
  PROVE  /\ CallFails => faults' \in 0 .. MaxFaults
         /\ faults < MaxFaults /\ faults' = faults + 1 => faults' \in 0 .. MaxFaults
BY SyncAssumption DEF CallFails, TypeOK

(* Failed calls keep the types: the job is retried or given up.            *)
LEMMA FailTypes ==
  ASSUME TypeOK, JobsOK, RefreshFails \/ GoogleCallFails \/ ApplyFails
  PROVE  TypeOK' /\ JobsOK'
<1>1. worker' = Idle /\ worker' \in Workers /\ worker'.job \in GoodJobs /\ worker'.pc = "idle"
  BY IdleType, JobTypes DEF RefreshFails, GoogleCallFails, ApplyFails, EndJob
<1>2. faults' \in 0 .. MaxFaults
  <2>1. CallFails \/ (faults < MaxFaults /\ faults' = faults + 1) \/ UNCHANGED faults
    BY DEF RefreshFails, GoogleCallFails, ApplyFails
  <2>2. QED
    BY <2>1, FaultType DEF TypeOK
<1>3. UNCHANGED <<world, blocks, appts, unread, pc, history>>
  BY DEF RefreshFails, GoogleCallFails, ApplyFails, tables
<1>4. conn' \in Conns /\ queue' \in Seq(GoodJobs) /\ queue' \in Seq(Jobs)
  <2>1. CASE UNCHANGED <<conn, queue>>
    BY <2>1 DEF TypeOK, JobsOK, Conns, Tokens
  <2>2. CASE ~UNCHANGED <<conn, queue>>
    <3>1. PICK c : MarkDisconnected(c)
      BY <2>2 DEF RefreshFails, GoogleCallFails, ApplyFails, tables
    <3>2. CASE RowIs(c) /\ conn' = [conn EXCEPT !.status = "disconnected"] /\ UNCHANGED queue
      BY <3>2 DEF TypeOK, JobsOK, Conns, Tokens
    <3>3. CASE /\ queue' = IF worker.job.retries = 0 THEN queue
                           ELSE Append(queue, [worker.job EXCEPT !.retries = @ - 1])
               /\ UNCHANGED conn
      <4>1. CASE worker.job.retries = 0
        BY <2>2, <3>3, <4>1
      <4>2. CASE worker.job.retries # 0
        <5>1. worker.job \in GoodJobs /\ worker.job.retries - 1 \in 0 .. Attempts
          BY <4>2, SyncAssumption DEF JobsOK, GoodJobs, Jobs
        <5>2. [worker.job EXCEPT !.retries = @ - 1] \in GoodJobs
          BY <5>1 DEF GoodJobs, Jobs
        <5>3. PICK job \in GoodJobs : queue' = Append(queue, job)
          BY <3>3, <4>2, <5>2
        <5>4. queue' \in Seq(GoodJobs) /\ queue' \in Seq(Jobs)
          BY <5>3 DEF JobsOK, TypeOK, GoodJobs
        <5>5. QED
          BY <3>3, <5>4 DEF TypeOK, Conns, Tokens
      <4>3. QED
        BY <4>1, <4>2
    <3>4. QED
      BY <3>1, <3>2, <3>3 DEF MarkDisconnected
  <2>3. QED
    BY <2>1, <2>2
<1>5. QED
  BY <1>1, <1>2, <1>3, <1>4 DEF TypeOK, JobsOK, Workers, Conns, Tokens, world, history

(* Listing the events keeps the types.                                     *)
LEMMA ListType ==
  ASSUME TypeOK, JobsOK, NEW full \in BOOLEAN, NEW page \in SUBSET Events, NEW token \in Tokens,
         ListEvents(full, page, token)
  PROVE  TypeOK' /\ JobsOK'
<1>1. PICK found \in [Events -> Times \cup {Null}] :
         found = [e \in Events |-> IF e \in page THEN cal[e].time ELSE Null]
  BY DEF TypeOK
<1>2. PICK todo \in SUBSET Events : todo = page \ OwnIds
  OBVIOUS
<1>3. worker' = [worker EXCEPT !.pc = "apply", !.token = token, !.todo = todo, !.found = found]
  BY <1>1, <1>2 DEF ListEvents
<1>4. worker' \in Workers /\ worker'.pc = "apply" /\ worker'.job = worker.job
  BY <1>3 DEF TypeOK, Workers, Tokens
<1>5. faults' \in 0 .. MaxFaults
  BY FaultType DEF ListEvents, TypeOK
<1>6. unlisted' \subseteq Events
  BY DEF ListEvents, LeftOut, TypeOK
<1>7. UNCHANGED <<world, tables, queue, pc, ours, orphans, stale>>
  BY DEF ListEvents
<1>8. QED
  BY <1>4, <1>5, <1>6, <1>7 DEF TypeOK, JobsOK, Workers, Tokens, world, tables

(* The worker keeps only its job for a last step.                          *)
LEMMA Reset ==
  ASSUME TypeOK, NEW next \in {"detect", "ack"}, worker' = [Idle EXCEPT !.pc = next, !.job = worker.job]
  PROVE  worker' \in Workers /\ worker'.pc = next /\ worker'.job = worker.job /\ worker'.conn = 0
<1>1. PICK job \in Jobs : job = worker.job
  BY DEF TypeOK
<1>2. worker' = [Idle EXCEPT !.pc = next, !.job = job]
  BY <1>1
<1>3. QED
  BY <1>1, <1>2, IdleType DEF Workers, Idle

(* So does applying them, storing the sync token and ending the job.       *)
LEMMA ApplyType ==
  ASSUME TypeOK, JobsOK,
         (\E e \in Events : ApplyEvent(e)) \/ StoreToken \/ DetectConflicts \/ AckJob
  PROVE  TypeOK' /\ JobsOK'
<1>1. ASSUME NEW e \in Events, ApplyEvent(e) PROVE TypeOK' /\ JobsOK'
  <2>1. PICK todo \in SUBSET Events, t \in Times \cup {Null} : todo = worker.todo \ {e} /\ t = worker.found[e]
    BY DEF TypeOK
  <2>2. blocks' = [blocks EXCEPT ![e] = t] /\ worker' = [worker EXCEPT !.todo = todo]
    BY <1>1, <2>1 DEF ApplyEvent
  <2>3. worker' \in Workers /\ worker'.pc = "apply" /\ worker'.job = worker.job
    BY <1>1, <2>2 DEF ApplyEvent, TypeOK, Workers, Tokens
  <2>4. blocks' \in [Events -> Times \cup {Null}]
    BY <2>2 DEF TypeOK
  <2>5. UNCHANGED <<world, conn, appts, unread, queue, pc, faults, ours, orphans, stale>>
        /\ unlisted' \subseteq Events
    BY <1>1 DEF ApplyEvent, TypeOK
  <2>6. QED
    BY <2>3, <2>4, <2>5 DEF TypeOK, JobsOK, Workers, Tokens, world
<1>2. CASE StoreToken
  <2>1. conn' = [conn EXCEPT !.token = worker.token]
    BY <1>2 DEF StoreToken
  <2>2. conn' \in Conns
    BY <2>1 DEF TypeOK, Conns, Tokens
  <2>3. worker' \in Workers /\ worker'.pc = "detect" /\ worker'.job = worker.job
    BY <1>2, Reset DEF StoreToken
  <2>4. UNCHANGED <<world, blocks, appts, unread, queue, pc, faults, history>>
    BY <1>2 DEF StoreToken
  <2>5. QED
    BY <2>2, <2>3, <2>4 DEF TypeOK, JobsOK, Workers, Conns, Tokens, world, history
<1>3. CASE DetectConflicts \/ AckJob
  <2>1. worker' \in Workers /\ worker'.job \in GoodJobs /\ worker'.pc = "idle"
    BY <1>3, IdleType, JobTypes DEF DetectConflicts, AckJob, EndJob
  <2>2. unread' \subseteq Appts /\ faults' \in 0 .. MaxFaults
    BY <1>3, FaultType DEF DetectConflicts, AckJob, Conflicting, TypeOK, tables
  <2>3. UNCHANGED <<world, conn, blocks, appts, queue, pc, history>>
    BY <1>3 DEF DetectConflicts, AckJob, tables
  <2>4. QED
    BY <2>1, <2>2, <2>3 DEF TypeOK, JobsOK, Workers, Tokens, world, history
<1>4. QED
  BY <1>1, <1>2, <1>3

(* So does creating an event and storing its id.                           *)
LEMMA CreateType ==
  ASSUME TypeOK, JobsOK, (\E e \in Events : CreateEvent(e)) \/ StoreEventId
  PROVE  TypeOK' /\ JobsOK'
<1>1. ASSUME NEW e \in Events, CreateEvent(e) PROVE TypeOK' /\ JobsOK'
  <2>1. worker.job.kind = "create" /\ worker.job.appt \in Appts
    BY <1>1 DEF CreateEvent, JobsOK, GoodJobs
  <2>2. PICK t \in Times \cup {Null} : t = appts[worker.job.appt].time
    BY <2>1 DEF TypeOK
  <2>3. CalendarChange(e, t)
    BY <1>1, <2>2 DEF CreateEvent
  <2>4. worker' = [worker EXCEPT !.pc = "store", !.event = e]
    BY <1>1 DEF CreateEvent
  <2>5. worker' \in Workers /\ worker'.pc = "store" /\ worker'.job = worker.job /\ worker'.event = e
    BY <2>4 DEF TypeOK, Workers, Tokens
  <2>6. ours' \subseteq Events /\ UNCHANGED <<tables, queue, pc, faults, orphans, unlisted, stale>>
    BY <1>1 DEF CreateEvent, TypeOK
  <2>7. QED
    BY <2>1, <2>3, <2>5, <2>6, CalType DEF TypeOK, JobsOK, Workers, Tokens, tables
<1>2. CASE StoreEventId
  <2>1. worker.job.kind = "create" /\ worker.job.appt \in Appts
    BY <1>2 DEF StoreEventId, JobsOK, GoodJobs
  <2>2. PICK a \in Appts, d \in Events \cup {Null} : a = worker.job.appt /\ d = worker.event
    BY <2>1 DEF TypeOK
  <2>3. appts' \in [Appts -> [time : Times \cup {Null}, event : Events \cup {Null}]]
    <3>1. appts[a] \in [time : Times \cup {Null}, event : Events \cup {Null}]
      BY DEF TypeOK
    <3>2. PICK row \in [time : Times \cup {Null}, event : Events \cup {Null}] : row = [appts[a] EXCEPT !.event = d]
      BY <3>1
    <3>3. appts' = [appts EXCEPT ![a] = row] \/ UNCHANGED appts
      BY <1>2, <2>2, <3>2 DEF StoreEventId
    <3>4. QED
      BY <3>3 DEF TypeOK
  <2>5. worker' \in Workers /\ worker'.pc = "ack" /\ worker'.job = worker.job
    BY <1>2, Reset DEF StoreEventId
  <2>6. faults' \in 0 .. MaxFaults
    BY <1>2, FaultType DEF StoreEventId, TypeOK
  <2>7. UNCHANGED <<world, conn, blocks, unread, queue, pc, ours, unlisted, stale>>
    BY <1>2 DEF StoreEventId
  <2>8. orphans' \subseteq Events
    BY <1>2, <2>1 DEF StoreEventId, JobsOK, TypeOK
  <2>9. QED
    BY <2>1, <2>3, <2>5, <2>6, <2>7, <2>8 DEF TypeOK, JobsOK, Workers, Tokens, world
<1>3. QED
  BY <1>1, <1>2

(* Connecting and disconnecting.                                           *)
LEMMA RequestType ==
  ASSUME TypeOK, JobsOK, NEW r \in Requests,
         \/ Connect(r) \/ ConnectDelete(r) \/ ConnectInsert(r)
         \/ Disconnect(r) \/ Deactivate(r) \/ PurgeBlocks(r)
  PROVE  TypeOK' /\ JobsOK'
<1>1. pc' \in [Requests -> {"idle", "delete", "insert", "deactivate", "purge"}]
  <2>1. \E l \in {"idle", "delete", "insert", "deactivate", "purge"} : pc' = [pc EXCEPT ![r] = l]
    BY DEF Connect, ConnectDelete, ConnectInsert, Disconnect, Deactivate, PurgeBlocks
  <2>2. QED
    BY <2>1 DEF TypeOK
<1>2. conn' \in Conns /\ granted' \in 0 .. MaxConnects
  <2>1. CASE ConnectInsert(r)
    <3>1. CASE UNCHANGED <<conn, granted>>
      BY <3>1 DEF TypeOK, Conns, Tokens
    <3>2. CASE ~UNCHANGED <<conn, granted>>
      <4>1. conn.id + 1 \in 0 .. MaxConnects
        BY <2>1, <3>2, SyncAssumption DEF ConnectInsert, TypeOK
      <4>2. /\ conn' = [state |-> "active", id |-> conn.id + 1, status |-> "active", token |-> Null]
            /\ granted' = conn.id + 1
        BY <2>1, <3>2 DEF ConnectInsert
      <4>3. QED
        BY <4>1, <4>2 DEF Conns, Tokens
    <3>3. QED
      BY <3>1, <3>2
  <2>2. CASE ConnectDelete(r)
    <3>1. granted' = granted /\ (conn' = conn \/ conn' = [NoConn EXCEPT !.id = conn.id])
      BY <2>2 DEF ConnectDelete, world
    <3>2. QED
      BY <3>1 DEF TypeOK, NoConn, Conns, Tokens
  <2>3. CASE Deactivate(r)
    <3>1. granted' = granted /\ (conn' = conn \/ conn' = [conn EXCEPT !.state = "inactive", !.status = "disconnected"])
      BY <2>3 DEF Deactivate, world
    <3>2. QED
      BY <3>1 DEF TypeOK, Conns, Tokens
  <2>4. CASE Connect(r) \/ Disconnect(r) \/ PurgeBlocks(r)
    BY <2>4, Bounds DEF Connect, Disconnect, PurgeBlocks, TypeOK, Conns, Tokens, world, tables
  <2>5. QED
    BY <2>1, <2>2, <2>3, <2>4
<1>3. blocks' \in [Events -> Times \cup {Null}]
  BY DEF Connect, ConnectDelete, ConnectInsert, Disconnect, Deactivate, PurgeBlocks, TypeOK, tables
<1>4. faults' \in 0 .. MaxFaults
  BY FaultType DEF Connect, ConnectDelete, ConnectInsert, Disconnect, Deactivate, PurgeBlocks, TypeOK
<1>5. stale' \in BOOLEAN /\ unlisted' \subseteq Events
  BY DEF Connect, ConnectDelete, ConnectInsert, Disconnect, Deactivate, PurgeBlocks, TypeOK, history
<1>6. UNCHANGED <<cal, rev, now, appts, unread, queue, worker, ours, orphans>>
  BY DEF Connect, ConnectDelete, ConnectInsert, Disconnect, Deactivate, PurgeBlocks, world, tables, history
<1>7. QED
  BY <1>1, <1>2, <1>3, <1>4, <1>5, <1>6 DEF TypeOK, JobsOK, Conns, Tokens

(* So does a failure outside the queue that marks the connection.          *)
LEMMA StatusType ==
  ASSUME TypeOK, JobsOK, TokenRefreshFails \/ RenewWebhookFails \/ TestConnectionFails
  PROVE  TypeOK' /\ JobsOK'
<1>1. PICK status \in {"disconnected", "error"} : Fails(status)
  BY DEF TokenRefreshFails, RenewWebhookFails, TestConnectionFails
<1>2. conn' \in Conns
  BY <1>1 DEF Fails, TypeOK, Conns, Tokens
<1>3. faults' \in 0 .. MaxFaults
  BY <1>1, FaultType DEF Fails, TypeOK
<1>4. UNCHANGED <<world, blocks, appts, unread, queue, worker, pc, history>>
  BY <1>1 DEF Fails
<1>5. QED
  BY <1>2, <1>3, <1>4 DEF TypeOK, JobsOK, Conns, Tokens, world, history

(* So does a restart, which returns the worker's job to the queue.         *)
LEMMA RestartType ==
  ASSUME TypeOK, JobsOK, Restart
  PROVE  TypeOK' /\ JobsOK'
<1>1. worker' \in Workers /\ worker'.job \in GoodJobs /\ worker'.pc = "idle"
  BY IdleType, JobTypes DEF Restart
<1>2. queue' \in Seq(GoodJobs) /\ queue' \in Seq(Jobs)
  <2>1. PICK job : job = [worker.job EXCEPT !.stalled = TRUE]
    OBVIOUS
  <2>2. job \in GoodJobs /\ job \in Jobs
    BY <2>1 DEF JobsOK, GoodJobs, Jobs
  <2>3. ASSUME NEW S, queue \in Seq(S), job \in S PROVE queue' \in Seq(S)
    <3>1. CASE UNCHANGED queue
      BY <2>3, <3>1
    <3>2. ASSUME NEW i \in 0 .. Len(queue),
                 queue' = SubSeq(queue, 1, i) \o <<job>> \o SubSeq(queue, i + 1, Len(queue))
          PROVE  queue' \in Seq(S)
      <4>1. PICK front, back : front = SubSeq(queue, 1, i) /\ back = SubSeq(queue, i + 1, Len(queue))
        OBVIOUS
      <4>2. front \in Seq(S) /\ back \in Seq(S)
        BY <2>3, <4>1
      <4>3. <<job>> \in Seq(S)
        BY <2>3
      <4>4. front \o <<job>> \in Seq(S)
        BY <4>2, <4>3, ConcatProperties
      <4>5. QED
        BY <3>2, <4>1, <4>2, <4>4, ConcatProperties
    <3>3. QED
      BY <2>1, <3>1, <3>2 DEF Restart, Interrupted
  <2>4. QED
    BY <2>2, <2>3 DEF TypeOK, JobsOK
<1>3. faults' \in 0 .. MaxFaults
  BY FaultType DEF Restart
<1>4. /\ stale' \in BOOLEAN /\ pc' = [r \in Requests |-> "idle"]
      /\ orphans' \subseteq Events
  BY DEF Restart, TypeOK, JobsOK
<1>5. UNCHANGED <<world, tables, ours, unlisted>>
  BY DEF Restart
<1>6. QED
  BY <1>1, <1>2, <1>3, <1>4, <1>5 DEF TypeOK, JobsOK, Workers, Tokens, world, tables

(* Every step keeps the types.                                             *)
LEMMA TypeNext == TypeOK /\ JobsOK /\ [Next]_vars => TypeOK' /\ JobsOK'
<1> SUFFICES ASSUME TypeOK, JobsOK, [Next]_vars PROVE TypeOK' /\ JobsOK'
  OBVIOUS
<1>1. CASE WorkerStep
  BY <1>1, TakeType, FailTypes, ListType, ApplyType, CreateType DEF WorkerStep, Tokens
<1>2. CASE UNCHANGED vars
  BY <1>2 DEF vars, TypeOK, JobsOK
<1>3. QED
  BY <1>1, <1>2, OwnerType, QueueType, RequestType, StatusType, RestartType DEF Next

(* Every table, the queue, the worker and Google's calendar stay well      *)
(* typed, and the counters within their bounds.                            *)
THEOREM TypeCorrect == Spec => []TypeOK
BY TypeInit, TypeNext, PTL DEF Spec

-----------------------------------------------------------------------------
(* What the worker's steps do *)

(* What taking a job changes: the worker gets the connection and the token *)
(* of that moment, or drops the job.                                       *)
LEMMA Taken ==
  ASSUME TypeOK, JobsOK, TakeJob
  PROVE  \/ UNCHANGED worker
         \/ /\ Active /\ worker'.pc \in {"list", "create"} /\ worker'.conn = conn.id
            /\ worker'.pc = "list" => worker'.token = conn.token
<1>1. ASSUME NEW next, NEW token, Work(next, conn.id, token)
      PROVE  worker'.pc = next /\ worker'.conn = conn.id /\ worker'.token = token
  BY <1>1 DEF Work, Idle
<1>2. QED
  BY <1>1 DEF TakeJob

(* The steps that end the job in hand.                                     *)
Ends == RefreshFails \/ GoogleCallFails \/ ApplyFails \/ DetectConflicts \/ AckJob

(* What the end of a job changes.                                          *)
LEMMA Ended ==
  ASSUME TypeOK, Ends
  PROVE  /\ worker'.pc = "idle" /\ worker'.conn = 0
         /\ UNCHANGED <<world, blocks, appts, pc, history>>
         /\ conn'.state = conn.state /\ conn'.id = conn.id /\ conn'.token = conn.token
<1>1. worker' = Idle
  BY DEF Ends, RefreshFails, GoogleCallFails, ApplyFails, DetectConflicts, AckJob, EndJob
<1>2. UNCHANGED <<world, blocks, appts, pc, history>>
  BY DEF Ends, RefreshFails, GoogleCallFails, ApplyFails, DetectConflicts, AckJob, tables
<1>3. conn' = conn \/ conn' = [conn EXCEPT !.status = "disconnected"]
  BY DEF Ends, RefreshFails, GoogleCallFails, ApplyFails, DetectConflicts, AckJob, MarkDisconnected, tables
<1>4. QED
  BY <1>1, <1>2, <1>3 DEF Idle, TypeOK

(* What listing changes: the worker holds the page, without the events it  *)
(* knows to be its own.                                                    *)
LEMMA Listed ==
  ASSUME TypeOK, NEW full \in BOOLEAN, NEW page \in SUBSET Events, NEW token \in Tokens,
         ListEvents(full, page, token)
  PROVE  /\ worker.pc = "list" /\ worker'.pc = "apply" /\ worker'.conn = worker.conn
         /\ worker'.token = token /\ worker'.todo = page \ OwnIds
         /\ \A e \in Events : worker'.found[e] = IF e \in page THEN cal[e].time ELSE Null
         /\ unlisted' = IF full THEN unlisted \cup LeftOut ELSE unlisted
         /\ UNCHANGED <<world, tables, queue, pc, ours, orphans, stale>>
<1>1. PICK found : found = [e \in Events |-> IF e \in page THEN cal[e].time ELSE Null]
  OBVIOUS
<1>2. PICK todo : todo = page \ OwnIds
  OBVIOUS
<1>3. worker' = [worker EXCEPT !.pc = "apply", !.token = token, !.todo = todo, !.found = found]
  BY <1>1, <1>2 DEF ListEvents
<1>4. /\ worker'.pc = "apply" /\ worker'.conn = worker.conn
      /\ worker'.token = token /\ worker'.todo = todo /\ worker'.found = found
  BY <1>3 DEF TypeOK
<1>5. \A e \in Events : found[e] = IF e \in page THEN cal[e].time ELSE Null
  BY <1>1
<1>6. QED
  BY <1>2, <1>4, <1>5 DEF ListEvents

(* What applying one event changes.                                        *)
LEMMA Applied ==
  ASSUME TypeOK, NEW e \in Events, ApplyEvent(e)
  PROVE  /\ worker.pc = "apply" /\ worker'.pc = "apply" /\ worker'.conn = worker.conn
         /\ worker'.token = worker.token /\ worker'.found = worker.found
         /\ e \in worker.todo /\ worker'.todo = worker.todo \ {e}
         /\ blocks'[e] = worker.found[e]
         /\ \A d \in Events \ {e} : blocks'[d] = blocks[d]
         /\ worker.found[e] = Null \/ blocks[e] # Null \/ RowIs(worker.conn)
         /\ unlisted' = unlisted \ {e}
         /\ UNCHANGED <<world, conn, appts, unread, queue, pc, faults, ours, orphans, stale>>
BY DEF ApplyEvent, TypeOK

(* What creating an event changes.                                         *)
LEMMA Created ==
  ASSUME TypeOK, JobsOK, NEW e \in Events, CreateEvent(e)
  PROVE  /\ worker.pc = "create" /\ worker'.pc = "store" /\ worker'.event = e /\ worker'.conn = worker.conn
         /\ cal[e].rev = 0 /\ cal'[e].rev = rev + 1 /\ rev' = rev + 1
         /\ \A d \in Events \ {e} : cal'[d] = cal[d]
         /\ ours' = ours \cup {e}
         /\ UNCHANGED <<now, tables, queue, pc, faults, orphans, unlisted, stale>>
<1>1. worker.job.appt \in Appts
  BY DEF CreateEvent, JobsOK, GoodJobs
<1>2. PICK t \in Times \cup {Null} : CalendarChange(e, t)
  BY <1>1 DEF CreateEvent, TypeOK
<1>3. /\ cal'[e] = [time |-> t, rev |-> rev + 1] /\ rev' = rev + 1 /\ now' = now
      /\ \A d \in Events \ {e} : cal'[d] = cal[d]
  BY <1>2, CalType
<1>4. worker' = [worker EXCEPT !.pc = "store", !.event = e]
  BY DEF CreateEvent
<1>5. QED
  BY <1>3, <1>4 DEF CreateEvent, TypeOK

(* What storing the event's id changes: the id joins those known, and the  *)
(* one it replaces is lost, or it is lost itself.                          *)
LEMMA Stored ==
  ASSUME TypeOK, JobsOK, StoreEventId
  PROVE  /\ worker.pc = "store" /\ worker.event \in Events
         /\ worker'.pc = "ack" /\ worker'.conn = 0
         /\ OwnIds' \subseteq OwnIds \cup {worker.event}
         /\ orphans \subseteq orphans'
         /\ OwnIds \cup {worker.event} \subseteq OwnIds' \cup orphans'
         /\ UNCHANGED <<world, conn, blocks, unread, queue, pc, ours, unlisted, stale>>
<1>1. worker'.pc = "ack" /\ worker'.conn = 0
  BY Reset DEF StoreEventId
<1>2. /\ worker.pc = "store" /\ worker.event \in Events /\ worker.event # Null
      /\ worker.job.kind = "create" /\ worker.job.appt \in Appts
  BY SyncAssumption DEF StoreEventId, JobsOK, GoodJobs
<1>3. PICK b \in Appts, d \in Events : b = worker.job.appt /\ d = worker.event
  BY <1>2
<1>4. appts \in [Appts -> [time : Times \cup {Null}, event : Events \cup {Null}]]
  BY DEF TypeOK
<1>5. CASE appts' = [appts EXCEPT ![b].event = d] /\ orphans' = orphans \cup ({appts[b].event} \ {Null})
  <2>1. appts'[b].event = d /\ \A a \in Appts \ {b} : appts'[a] = appts[a]
    BY <1>4, <1>5
  <2>2. OwnIds' \subseteq OwnIds \cup {d}
    BY <2>1 DEF OwnIds
  <2>3. d \in OwnIds'
    BY <1>2, <1>3, <2>1 DEF OwnIds
  <2>4. OwnIds \subseteq OwnIds' \cup orphans'
    BY <1>5, <2>1 DEF OwnIds
  <2>5. QED
    BY <1>1, <1>2, <1>3, <1>5, <2>2, <2>3, <2>4 DEF StoreEventId
<1>6. CASE UNCHANGED appts /\ orphans' = orphans \cup {d}
  <2>1. OwnIds' = OwnIds
    BY <1>6 DEF OwnIds
  <2>2. QED
    BY <1>1, <1>2, <1>3, <1>6, <2>1 DEF StoreEventId
<1>7. QED
  BY <1>3, <1>5, <1>6 DEF StoreEventId

-----------------------------------------------------------------------------
(* An appointment's own event *)

(* No block is older than its event, so the event that Lead360 makes has   *)
(* none; its id is about to be stored, is known or was lost, and what the  *)
(* worker is about to apply leaves out the events whose id is known.       *)
OwnInv ==
  /\ OwnNotBlocked
  /\ \A e \in Events : cal[e].time # Null \/ blocks[e] # Null => cal[e].rev # 0
  /\ \A e \in ours : e \in OwnIds \cup orphans \/ (worker.pc = "store" /\ worker.event = e)
  /\ worker.pc = "apply" =>
       \A e \in worker.todo : (e \in ours => e \in orphans) /\ (worker.found[e] # Null => cal[e].rev # 0)

(* Steps that add no own event, and apply none, keep own events unblocked. *)
LEMMA OwnFrame ==
  ASSUME TypeOK, OwnInv,
         \A e \in Events : /\ cal[e].rev # 0 => cal'[e].rev # 0
                           /\ cal'[e].time # Null => cal'[e].rev # 0
                           /\ blocks'[e] = blocks[e] \/ blocks'[e] = Null,
         ours' = ours, orphans \subseteq orphans',
         OwnIds' = OwnIds,
         worker'.pc = "apply" =>
           worker.pc = "apply" /\ worker'.todo = worker.todo /\ worker'.found = worker.found,
         worker.pc = "store" =>
           (worker'.pc = "store" /\ worker'.event = worker.event) \/ worker.event \in orphans'
  PROVE  OwnInv'
<1>1. ours \subseteq Events
  BY DEF TypeOK
<1>2. OwnNotBlocked'
  BY <1>1 DEF OwnInv, OwnNotBlocked
<1>3. \A e \in Events : cal'[e].time # Null \/ blocks'[e] # Null => cal'[e].rev # 0
  BY DEF OwnInv
<1>4. worker'.pc = "apply" =>
        \A e \in worker'.todo : (e \in ours' => e \in orphans') /\ (worker'.found[e] # Null => cal'[e].rev # 0)
  BY DEF OwnInv, TypeOK
<1>5. \A e \in ours' : e \in OwnIds' \cup orphans' \/ (worker'.pc = "store" /\ worker'.event = e)
  BY DEF OwnInv
<1>6. QED
  BY <1>2, <1>3, <1>4, <1>5 DEF OwnInv

(* So do the worker's steps: what it applies leaves own events out.        *)
LEMMA OwnWorker ==
  ASSUME TypeOK, JobsOK, OwnInv, WorkerStep
  PROVE  OwnInv'
<1>o. ours \subseteq Events
  BY DEF TypeOK
<1>c. ASSUME UNCHANGED <<cal, appts>>
      PROVE  /\ OwnIds' = OwnIds
             /\ \A e \in Events : /\ cal[e].rev # 0 => cal'[e].rev # 0
                                  /\ cal'[e].time # Null => cal'[e].rev # 0
  BY <1>c DEF OwnIds, OwnInv
<1>1. CASE TakeJob
  <2>1. UNCHANGED <<cal, appts, blocks, ours, orphans>> /\ worker.pc = "idle"
    BY <1>1 DEF TakeJob, world, tables, history
  <2>2. UNCHANGED worker \/ worker'.pc \in {"list", "create"}
    BY <1>1, Taken
  <2>3. QED
    BY <1>c, <2>1, <2>2, OwnFrame
<1>2. CASE Ends
  <2>1. UNCHANGED <<cal, appts, blocks, ours, orphans>> /\ worker'.pc = "idle"
    BY <1>2, Ended DEF world, history
  <2>2. worker.pc # "store"
    BY <1>2 DEF Ends, RefreshFails, GoogleCallFails, ApplyFails, DetectConflicts, AckJob
  <2>3. QED
    BY <1>c, <2>1, <2>2, OwnFrame
<1>3. CASE StoreToken
  <2>1. /\ UNCHANGED <<cal, appts, blocks, ours, orphans>>
        /\ worker.pc = "apply" /\ worker'.pc = "detect"
    BY <1>3, Reset DEF StoreToken, world, history
  <2>2. QED
    BY <1>c, <2>1, OwnFrame
<1>4. ASSUME NEW full \in BOOLEAN, NEW page \in SUBSET Events, NEW token \in Tokens,
             ListEvents(full, page, token)
      PROVE  OwnInv'
  <2>1. /\ UNCHANGED <<cal, appts, blocks, ours, orphans>> /\ worker.pc = "list" /\ worker'.pc = "apply"
        /\ worker'.todo = page \ OwnIds
        /\ \A e \in Events : worker'.found[e] = IF e \in page THEN cal[e].time ELSE Null
    BY <1>4, Listed DEF world, tables
  <2>2. OwnIds' = OwnIds
    BY <2>1 DEF OwnIds
  <2>3. \A e \in ours : e \in OwnIds \cup orphans
    BY <2>1 DEF OwnInv
  <2>4. \A e \in worker'.todo : (e \in ours => e \in orphans) /\ (worker'.found[e] # Null => cal[e].rev # 0)
    BY <2>1, <2>3 DEF OwnInv
  <2>5. QED
    BY <2>1, <2>2, <2>3, <2>4 DEF OwnInv, OwnNotBlocked
<1>5. ASSUME NEW e \in Events, ApplyEvent(e) PROVE OwnInv'
  <2>1. /\ UNCHANGED <<cal, appts, ours, orphans>>
        /\ worker.pc = "apply" /\ worker'.pc = "apply" /\ e \in worker.todo
        /\ worker'.todo = worker.todo \ {e} /\ worker'.found = worker.found
        /\ blocks'[e] = worker.found[e]
        /\ \A d \in Events \ {e} : blocks'[d] = blocks[d]
    BY <1>5, Applied DEF world
  <2>2. OwnIds' = OwnIds
    BY <2>1 DEF OwnIds
  <2>3. (e \in ours => e \in orphans) /\ (worker.found[e] # Null => cal[e].rev # 0)
    BY <2>1 DEF OwnInv
  <2>4. OwnNotBlocked'
    BY <1>o, <2>1, <2>3 DEF OwnInv, OwnNotBlocked
  <2>5. QED
    BY <2>1, <2>2, <2>3, <2>4 DEF OwnInv
<1>6. ASSUME NEW e \in Events, CreateEvent(e) PROVE OwnInv'
  <2>1. /\ worker.pc = "create" /\ worker'.pc = "store" /\ worker'.event = e
        /\ cal[e].rev = 0 /\ cal'[e].rev = rev + 1
        /\ \A d \in Events \ {e} : cal'[d] = cal[d]
        /\ ours' = ours \cup {e}
        /\ UNCHANGED <<blocks, appts, orphans>>
    BY <1>6, Created DEF tables
  <2>2. cal'[e].rev # 0
    BY <2>1 DEF TypeOK
  <2>3. OwnIds' = OwnIds /\ blocks[e] = Null
    BY <2>1 DEF OwnIds, OwnInv
  <2>4. OwnNotBlocked'
    BY <2>1, <2>3 DEF OwnInv, OwnNotBlocked
  <2>5. \A d \in Events : cal'[d].time # Null \/ blocks'[d] # Null => cal'[d].rev # 0
    BY <2>1, <2>2 DEF OwnInv
  <2>6. \A d \in ours' : d \in OwnIds' \cup orphans' \/ (worker'.pc = "store" /\ worker'.event = d)
    BY <2>1, <2>3 DEF OwnInv
  <2>7. QED
    BY <2>1, <2>4, <2>5, <2>6 DEF OwnInv
<1>7. CASE StoreEventId
  <2>1. /\ worker.pc = "store" /\ worker'.pc = "ack" /\ orphans \subseteq orphans'
        /\ OwnIds \cup {worker.event} \subseteq OwnIds' \cup orphans'
        /\ UNCHANGED <<cal, blocks, ours>>
    BY <1>7, Stored DEF world
  <2>2. OwnNotBlocked'
    BY <2>1 DEF OwnInv, OwnNotBlocked
  <2>3. \A e \in ours' : e \in OwnIds' \cup orphans'
    BY <2>1 DEF OwnInv
  <2>4. QED
    BY <2>1, <2>2, <2>3 DEF OwnInv
<1>8. QED
  BY <1>1, <1>2, <1>3, <1>4, <1>5, <1>6, <1>7 DEF WorkerStep, Ends, Tokens

(* Every step does.                                                        *)
LEMMA OwnNext == TypeOK /\ JobsOK /\ OwnInv /\ [Next]_vars => OwnInv'
<1> SUFFICES ASSUME TypeOK, JobsOK, OwnInv, [Next]_vars PROVE OwnInv'
  OBVIOUS
<1>1. CASE WorkerStep
  BY <1>1, OwnWorker
<1>2. ASSUME NEW e \in Events, NEW t \in Times \cup {Null}, OwnerChanges(e, t) PROVE OwnInv'
  <2>0. CalendarChange(e, t)
    BY <1>2 DEF OwnerChanges
  <2>a. cal'[e] = [time |-> t, rev |-> rev + 1] /\ \A d \in Events \ {e} : cal'[d] = cal[d]
    BY <2>0, CalType
  <2>1. /\ cal'[e].rev = rev + 1
        /\ \A d \in Events \ {e} : cal'[d] = cal[d]
    BY <2>a
  <2>2. cal'[e].rev # 0
    BY <2>1 DEF TypeOK
  <2>3. UNCHANGED <<appts, blocks, worker, ours, orphans>> /\ OwnIds' = OwnIds
    BY <1>2 DEF OwnerChanges, tables, history, OwnIds
  <2>4. \A d \in Events : /\ cal[d].rev # 0 => cal'[d].rev # 0
                          /\ cal'[d].time # Null => cal'[d].rev # 0
    BY <2>1, <2>2 DEF OwnInv
  <2>5. QED
    BY <2>3, <2>4, OwnFrame
<1>3. ASSUME UNCHANGED <<cal, ours>>, OwnIds' = OwnIds, orphans \subseteq orphans',
             \A e \in Events : blocks'[e] = blocks[e] \/ blocks'[e] = Null,
             \/ UNCHANGED worker
             \/ worker'.pc = "idle" /\ (worker.pc = "store" => worker.event \in orphans')
      PROVE  OwnInv'
  <2>1. \A e \in Events : /\ cal[e].rev # 0 => cal'[e].rev # 0
                          /\ cal'[e].time # Null => cal'[e].rev # 0
    BY <1>3 DEF OwnInv
  <2>2. QED
    BY <1>3, <2>1, OwnFrame
<1>4. CASE OwnerRevokes \/ Tick \/ HandleWebhook \/ HandlePeriodicSync
             \/ (\E a \in Appts : ReadNotification(a))
             \/ TokenRefreshFails \/ RenewWebhookFails \/ TestConnectionFails \/ UNCHANGED vars
  <2>1. UNCHANGED <<cal, appts, blocks, worker, ours, orphans>>
    BY <1>4 DEF OwnerRevokes, Tick, HandleWebhook, HandlePeriodicSync, ReadNotification,
       TokenRefreshFails, RenewWebhookFails, TestConnectionFails, Fails, vars, world, tables, history
  <2>2. QED
    BY <1>3, <2>1 DEF OwnIds
<1>5. ASSUME NEW a \in Appts, NEW t \in Times, Book(a, t) PROVE OwnInv'
  <2>1. UNCHANGED <<cal, blocks, worker, ours, orphans>> /\ \A b \in Appts : appts'[b].event = appts[b].event
    BY <1>5 DEF Book, world, history, TypeOK
  <2>2. OwnIds' = OwnIds
    BY <2>1 DEF OwnIds
  <2>3. QED
    BY <1>3, <2>1, <2>2
<1>6. CASE \E r \in Requests : \/ Connect(r) \/ ConnectDelete(r) \/ ConnectInsert(r)
                               \/ Disconnect(r) \/ Deactivate(r) \/ PurgeBlocks(r)
  <2>1. /\ UNCHANGED <<cal, appts, worker, ours, orphans>>
        /\ blocks' = blocks \/ blocks' = [e \in Events |-> Null]
    BY <1>6 DEF Connect, ConnectDelete, ConnectInsert, Disconnect, Deactivate, PurgeBlocks, world, tables, history
  <2>2. QED
    BY <1>3, <2>1 DEF OwnIds
<1>7. CASE Restart
  <2>1. /\ UNCHANGED <<cal, appts, blocks, ours>> /\ worker'.pc = "idle" /\ orphans \subseteq orphans'
        /\ worker.pc = "store" => worker.event \in orphans'
    BY <1>7 DEF Restart, world, tables, Idle
  <2>2. QED
    BY <1>3, <2>1 DEF OwnIds
<1>8. QED
  BY <1>1, <1>2, <1>4, <1>5, <1>6, <1>7 DEF Next

(* An event that Lead360 made for an appointment becomes a busy block only *)
(* if its id was lost: because the write of the id failed, because of a    *)
(* restart before it, or because a second run of the job wrote the id of   *)
(* another event over it.                                                  *)
THEOREM OwnEventIsFree == Spec => []OwnNotBlocked
<1>1. Init => OwnInv
  <2> SUFFICES ASSUME Init PROVE OwnInv
    OBVIOUS
  <2>1. worker.pc = "idle"
    BY DEF Init, Idle
  <2>2. \A e \in Events : cal[e].time = Null /\ cal[e].rev = 0 /\ blocks[e] = Null
    BY DEF Init
  <2>3. ours = {}
    BY DEF Init
  <2>4. QED
    BY <2>1, <2>2, <2>3 DEF OwnInv, OwnNotBlocked
<1>2. OwnInv => OwnNotBlocked
  BY DEF OwnInv
<1>3. QED
  BY <1>1, <1>2, TypeInit, TypeNext, OwnNext, PTL DEF Spec

-----------------------------------------------------------------------------
(* No blocks after a disconnection *)

Listing == worker.pc \in {"list", "apply"}

(* Without an active connection, and with no purge under way or missed,    *)
(* there are no blocks and the worker can add none: it lists for no        *)
(* connection that still has its row.                                      *)
PurgeInv ==
  ~Active /\ ~stale /\ (\A r \in Requests : pc[r] # "purge") =>
    /\ \A e \in Events : blocks[e] = Null
    /\ Listing => ~RowIs(worker.conn)

(* A step that keeps the blocks, brings no purge to an end and has the     *)
(* worker list for no other connection than before.                        *)
LEMMA PurgeFrame ==
  ASSUME PurgeInv,
         ~Active' => ~Active /\ conn'.state = conn.state /\ conn'.id = conn.id,
         ~stale' => ~stale,
         \A r \in Requests : pc[r] = "purge" => pc'[r] = "purge",
         \A e \in Events : blocks[e] = Null => blocks'[e] = Null,
         Listing' => Listing /\ worker'.conn = worker.conn
  PROVE  PurgeInv'
<1> SUFFICES ASSUME ~Active', ~stale', \A r \in Requests : pc'[r] # "purge"
             PROVE  (\A e \in Events : blocks'[e] = Null) /\ (Listing' => ~RowIs(worker.conn)')
  BY DEF PurgeInv
<1>1. ~Active /\ ~stale /\ \A r \in Requests : pc[r] # "purge"
  OBVIOUS
<1>2. (\A e \in Events : blocks[e] = Null) /\ (Listing => ~RowIs(worker.conn))
  BY <1>1 DEF PurgeInv
<1>3. QED
  BY <1>2 DEF RowIs

(* The worker's steps leave no block behind a disconnection, but for one   *)
(* that overtook it.                                                       *)
LEMMA PurgeWorker ==
  ASSUME TypeOK, JobsOK, PurgeInv, WorkerStep
  PROVE  PurgeInv'
<1>1. CASE TakeJob
  <2>1. UNCHANGED <<conn, blocks, pc, stale>>
    BY <1>1 DEF TakeJob, tables, history
  <2>2. UNCHANGED worker \/ Active
    BY <1>1, Taken
  <2>3. CASE Active
    BY <2>1, <2>3 DEF PurgeInv, Active
  <2>4. CASE UNCHANGED worker
    BY <2>1, <2>4, PurgeFrame DEF Active, Listing
  <2>5. QED
    BY <2>2, <2>3, <2>4
<1>2. CASE Ends
  <2>1. /\ worker'.pc = "idle" /\ conn'.state = conn.state /\ conn'.id = conn.id
        /\ UNCHANGED <<blocks, pc, stale>>
    BY <1>2, Ended DEF history
  <2>2. QED
    BY <2>1, PurgeFrame DEF Active, Listing
<1>3. CASE StoreToken
  <2>1. /\ conn'.state = conn.state /\ conn'.id = conn.id /\ worker'.pc = "detect"
        /\ UNCHANGED <<blocks, pc, stale>>
    BY <1>3, Reset DEF StoreToken, TypeOK, history
  <2>2. QED
    BY <2>1, PurgeFrame DEF Active, Listing
<1>4. ASSUME NEW full \in BOOLEAN, NEW page \in SUBSET Events, NEW token \in Tokens,
             ListEvents(full, page, token)
      PROVE  PurgeInv'
  <2>1. /\ worker.pc = "list" /\ worker'.conn = worker.conn
        /\ UNCHANGED <<conn, blocks, pc, stale>>
    BY <1>4, Listed DEF tables
  <2>2. QED
    BY <2>1, PurgeFrame DEF Active, Listing
<1>5. ASSUME NEW e \in Events, ApplyEvent(e) PROVE PurgeInv'
  <2>1. /\ worker.pc = "apply" /\ worker'.pc = "apply" /\ worker'.conn = worker.conn
        /\ blocks'[e] = worker.found[e]
        /\ \A d \in Events \ {e} : blocks'[d] = blocks[d]
        /\ worker.found[e] = Null \/ blocks[e] # Null \/ RowIs(worker.conn)
        /\ UNCHANGED <<conn, pc, stale>>
    BY <1>5, Applied DEF history
  <2>2. CASE ~Active /\ ~stale /\ \A r \in Requests : pc[r] # "purge"
    <3>1. (\A d \in Events : blocks[d] = Null) /\ ~RowIs(worker.conn)
      BY <2>1, <2>2 DEF PurgeInv, Listing
    <3>2. \A d \in Events : blocks'[d] = Null
      BY <2>1, <3>1
    <3>3. QED
      BY <2>1, <3>1, <3>2 DEF PurgeInv, RowIs
  <2>3. CASE ~(~Active /\ ~stale /\ \A r \in Requests : pc[r] # "purge")
    BY <2>1, <2>3 DEF PurgeInv, Active
  <2>4. QED
    BY <2>2, <2>3
<1>6. CASE (\E e \in Events : CreateEvent(e)) \/ StoreEventId
  <2>1. /\ worker'.pc \in {"store", "ack"}
        /\ UNCHANGED <<conn, blocks, pc, stale>>
    BY <1>6, Created, Stored DEF tables, history
  <2>2. QED
    BY <2>1, PurgeFrame DEF Active, Listing
<1>7. QED
  BY <1>1, <1>2, <1>3, <1>4, <1>5, <1>6 DEF WorkerStep, Ends, Tokens

(* Neither do the requests.                                                *)
LEMMA PurgeRequests ==
  ASSUME TypeOK, PurgeInv, NEW r \in Requests,
         \/ Connect(r) \/ ConnectDelete(r) \/ ConnectInsert(r)
         \/ Disconnect(r) \/ Deactivate(r) \/ PurgeBlocks(r)
  PROVE  PurgeInv'
<1>p. \A q \in Requests \ {r} : pc'[q] = pc[q]
  BY DEF Connect, ConnectDelete, ConnectInsert, Disconnect, Deactivate, PurgeBlocks, TypeOK
<1>w. UNCHANGED worker
  BY DEF Connect, ConnectDelete, ConnectInsert, Disconnect, Deactivate, PurgeBlocks
<1>1. CASE Connect(r) \/ Disconnect(r)
  <2>1. pc[r] = "idle" /\ UNCHANGED <<conn, blocks, stale>>
    BY <1>1 DEF Connect, Disconnect, tables, history
  <2>2. \A q \in Requests : pc[q] = "purge" => pc'[q] = "purge"
    BY <1>p, <2>1
  <2>3. QED
    BY <1>w, <2>1, <2>2, PurgeFrame DEF Active, Listing
<1>2. CASE ConnectDelete(r) /\ conn.state = "none"
  <2>1. pc[r] = "delete" /\ UNCHANGED <<conn, blocks, stale>>
    BY <1>2 DEF ConnectDelete
  <2>2. \A q \in Requests : pc[q] = "purge" => pc'[q] = "purge"
    BY <1>p, <2>1
  <2>3. QED
    BY <1>w, <2>1, <2>2, PurgeFrame DEF Active, Listing
<1>3. CASE ConnectDelete(r) /\ conn.state # "none"
  <2>1. conn'.state = "none" /\ \A e \in Events : blocks'[e] = Null
    BY <1>3 DEF ConnectDelete, NoConn
  <2>2. QED
    BY <1>w, <2>1 DEF PurgeInv, RowIs
<1>4. CASE ConnectInsert(r)
  <2>1. pc[r] = "insert" /\ UNCHANGED <<blocks, stale>> /\ (conn' = conn \/ conn'.state = "active")
    BY <1>4 DEF ConnectInsert, history
  <2>2. \A q \in Requests : pc[q] = "purge" => pc'[q] = "purge"
    BY <1>p, <2>1
  <2>3. CASE conn'.state = "active"
    BY <2>3 DEF PurgeInv, Active
  <2>4. CASE conn' = conn
    BY <1>w, <2>1, <2>2, <2>4, PurgeFrame DEF Active, Listing
  <2>5. QED
    BY <2>1, <2>3, <2>4
<1>5. CASE Deactivate(r) /\ conn.state = "none"
  <2>1. pc[r] = "deactivate" /\ UNCHANGED <<conn, blocks, stale>>
    BY <1>5 DEF Deactivate, history
  <2>2. \A q \in Requests : pc[q] = "purge" => pc'[q] = "purge"
    BY <1>p, <2>1
  <2>3. QED
    BY <1>w, <2>1, <2>2, PurgeFrame DEF Active, Listing
<1>6. CASE Deactivate(r) /\ conn.state # "none"
  <2>1. pc'[r] = "purge"
    BY <1>6 DEF Deactivate, TypeOK
  <2>2. QED
    BY <2>1 DEF PurgeInv
<1>7. CASE PurgeBlocks(r)
  <2>1. \/ stale'
        \/ /\ \A e \in Events : blocks'[e] = Null
           /\ ~Listing
    BY <1>7 DEF PurgeBlocks, Listing
  <2>2. QED
    BY <1>w, <2>1 DEF PurgeInv, Listing
<1>8. QED
  BY <1>1, <1>2, <1>3, <1>4, <1>5, <1>6, <1>7

(* Nor does any step.                                                      *)
LEMMA PurgeNext == TypeOK /\ JobsOK /\ PurgeInv /\ [Next]_vars => PurgeInv'
<1> SUFFICES ASSUME TypeOK, JobsOK, PurgeInv, [Next]_vars PROVE PurgeInv'
  OBVIOUS
<1>1. CASE WorkerStep
  BY <1>1, PurgeWorker
<1>2. CASE \E r \in Requests : \/ Connect(r) \/ ConnectDelete(r) \/ ConnectInsert(r)
                               \/ Disconnect(r) \/ Deactivate(r) \/ PurgeBlocks(r)
  BY <1>2, PurgeRequests
<1>3. CASE \/ \E e \in Events, t \in Times \cup {Null} : OwnerChanges(e, t)
           \/ \E a \in Appts, t \in Times : Book(a, t)
           \/ \E a \in Appts : ReadNotification(a)
           \/ OwnerRevokes \/ Tick \/ HandleWebhook \/ HandlePeriodicSync \/ UNCHANGED vars
  <2>1. UNCHANGED <<conn, blocks, pc, stale, worker>>
    BY <1>3 DEF OwnerChanges, Book, ReadNotification, OwnerRevokes, Tick, HandleWebhook,
       HandlePeriodicSync, vars, tables, history
  <2>2. QED
    BY <2>1, PurgeFrame DEF Active, Listing
<1>4. CASE TokenRefreshFails \/ RenewWebhookFails \/ TestConnectionFails
  <2>1. UNCHANGED <<blocks, pc, stale, worker>> /\ conn'.state = conn.state /\ conn'.id = conn.id
    BY <1>4 DEF TokenRefreshFails, RenewWebhookFails, TestConnectionFails, Fails, history, TypeOK
  <2>2. QED
    BY <2>1, PurgeFrame DEF Active, Listing
<1>5. CASE Restart
  <2>1. UNCHANGED <<conn, blocks>> /\ worker'.pc = "idle"
    BY <1>5 DEF Restart, tables, Idle
  <2>2. ~stale' => ~stale /\ \A r \in Requests : pc[r] # "purge"
    BY <1>5 DEF Restart
  <2>3. QED
    BY <2>1, <2>2 DEF PurgeInv, Active, Listing
<1>6. QED
  BY <1>1, <1>2, <1>3, <1>4, <1>5 DEF Next

(* A calendar that was disconnected keeps no slot busy: its blocks are     *)
(* gone, unless their purge failed, was cut off by a restart, or a listing *)
(* was being applied.                                                      *)
THEOREM DisconnectedIsFree == Spec => []NoBlocksAfterDisconnect
<1>1. Init => PurgeInv
  BY DEF Init, Idle, PurgeInv, Listing
<1>2. PurgeInv => NoBlocksAfterDisconnect
  BY DEF PurgeInv, NoBlocksAfterDisconnect
<1>3. QED
  BY <1>1, <1>2, TypeInit, TypeNext, PurgeNext, PTL DEF Spec

-----------------------------------------------------------------------------
(* What the stored token promises *)

CoveredBy(e) == blocks[e] = cal[e].time \/ e \in unlisted

(* Covered for the stored token, and as much for the token in the hands of *)
(* the worker: what is left of the page it applies is what the calendar    *)
(* had at that token, the rest is covered.  The tokens are not ahead of    *)
(* the calendar, and a worker whose connection was replaced cannot store.  *)
CoverInv ==
  /\ Covered
  /\ OwnIds \subseteq ours
  /\ worker.pc = "store" => worker.event \in ours
  /\ worker.conn <= conn.id
  /\ conn.token # Null => conn.token <= rev
  /\ worker.pc = "apply" /\ worker.token # Null => worker.token <= rev
  /\ worker.pc = "list" /\ RowIs(worker.conn) => worker.token = conn.token
  /\ Listing /\ ~RowIs(worker.conn) => conn.token = Null
  /\ worker.pc = "apply" /\ conn.token # Null =>
       \A e \in worker.todo : cal[e].rev <= conn.token => worker.found[e] = cal[e].time
  /\ worker.pc = "apply" /\ worker.token # Null /\ Active /\ ~stale /\ RowIs(worker.conn) =>
       \A e \in Events \ ours : cal[e].rev <= worker.token =>
         IF e \in worker.todo THEN worker.found[e] = cal[e].time ELSE CoveredBy(e)

(* The revisions, connections and tokens are naturals.                     *)
LEMMA Numbers ==
  ASSUME TypeOK
  PROVE  /\ rev \in Nat /\ conn.id \in Nat /\ worker.conn \in Nat
         /\ conn.token \in Nat \cup {Null} /\ worker.token \in Nat \cup {Null}
         /\ \A e \in Events : cal[e].rev \in Nat
         /\ worker.todo \subseteq Events
         /\ Null \notin Nat
BY SyncAssumption DEF TypeOK

(* A step that moves no token: the calendar goes on, other tables change,  *)
(* the worker leaves its listing or is not concerned.                      *)
LEMMA CoverFrame ==
  ASSUME TypeOK, TypeOK', CoverInv,
         rev <= rev',
         \A e \in Events : cal'[e] = cal[e] \/ cal'[e].rev > rev,
         ours \subseteq ours', OwnIds' \subseteq ours',
         unlisted \subseteq unlisted', stale => stale',
         blocks' = blocks \/ stale' \/ (~Active /\ ~Listing),
         conn'.id = conn.id, conn'.token = conn.token,
         Active' => Active, conn'.state = "none" <=> conn.state = "none",
         worker'.pc \in {"list", "apply"} =>
           /\ worker'.pc = worker.pc /\ worker'.token = worker.token
           /\ worker'.todo = worker.todo /\ worker'.found = worker.found,
         worker'.pc = "store" => worker'.event \in ours',
         worker'.conn = worker.conn \/ (worker'.conn = 0 /\ worker'.pc \notin {"list", "apply"})
  PROVE  CoverInv'
<1>n. /\ rev \in Nat /\ conn.id \in Nat /\ worker.conn \in Nat
      /\ conn.token \in Nat \cup {Null} /\ worker.token \in Nat \cup {Null}
      /\ \A e \in Events : cal[e].rev \in Nat
      /\ worker.todo \subseteq Events /\ Null \notin Nat
  BY Numbers
<1>m. rev' \in Nat /\ \A e \in Events : cal'[e].rev \in Nat
  BY SyncAssumption DEF TypeOK
<1>t. (conn.token # Null => conn.token <= rev) /\ worker.conn <= conn.id
  BY DEF CoverInv
<1>r. RowIs(worker.conn)' <=> conn.state # "none" /\ conn.id = worker'.conn
  BY DEF RowIs
<1>1. Covered'
  <2> SUFFICES ASSUME Active', conn'.token # Null, ~stale', NEW e \in Events \ ours',
                      cal'[e].rev <= conn'.token
               PROVE  blocks'[e] = cal'[e].time \/ e \in unlisted'
    BY DEF Covered
  <2>1. cal'[e] = cal[e]
    BY <1>n, <1>m, <1>t
  <2>2. blocks[e] = cal[e].time \/ e \in unlisted
    BY <2>1 DEF CoverInv, Covered
  <2>3. QED
    BY <2>1, <2>2
<1>2. worker'.conn <= conn'.id
  BY <1>n, <1>t
<1>3. conn'.token # Null => conn'.token <= rev'
  BY <1>n, <1>m, <1>t
<1>4. worker'.pc = "apply" /\ worker'.token # Null => worker'.token <= rev'
  BY <1>n, <1>m DEF CoverInv
<1>5. Listing' => Listing /\ (RowIs(worker.conn)' <=> RowIs(worker.conn))
  BY <1>r DEF Listing, RowIs
<1>6. worker'.pc = "list" /\ RowIs(worker.conn)' => worker'.token = conn'.token
  BY <1>5 DEF CoverInv, Listing
<1>7. Listing' /\ ~RowIs(worker.conn)' => conn'.token = Null
  BY <1>5 DEF CoverInv
<1>8. ASSUME worker'.pc = "apply", conn'.token # Null, NEW e \in worker'.todo,
             cal'[e].rev <= conn'.token
      PROVE  worker'.found[e] = cal'[e].time
  <2>1. e \in Events /\ e \in worker.todo /\ worker.pc = "apply" /\ worker'.found = worker.found
    BY <1>8, <1>n
  <2>2. cal'[e] = cal[e]
    BY <1>8, <1>n, <1>m, <1>t, <2>1
  <2>3. QED
    BY <1>8, <2>1, <2>2 DEF CoverInv
<1>9. ASSUME worker'.pc = "apply", worker'.token # Null, Active', ~stale', RowIs(worker.conn)',
             NEW e \in Events \ ours', cal'[e].rev <= worker'.token
      PROVE  IF e \in worker'.todo THEN worker'.found[e] = cal'[e].time ELSE CoveredBy(e)'
  <2>1. /\ worker.pc = "apply" /\ worker.token = worker'.token /\ Active /\ ~stale
        /\ e \in Events \ ours /\ worker'.todo = worker.todo /\ worker'.found = worker.found
    BY <1>9
  <2>2. RowIs(worker.conn) /\ Listing
    BY <1>5, <1>9 DEF Listing
  <2>3. worker.token <= rev
    BY <1>9, <2>1 DEF CoverInv
  <2>4. cal'[e] = cal[e]
    BY <1>9, <1>n, <1>m, <2>1, <2>3
  <2>5. IF e \in worker.todo THEN worker.found[e] = cal[e].time ELSE CoveredBy(e)
    BY <1>9, <2>1, <2>2, <2>4 DEF CoverInv
  <2>6. blocks' = blocks
    BY <1>9, <2>1
  <2>7. QED
    BY <2>1, <2>4, <2>5, <2>6 DEF CoveredBy
<1>10. QED
  BY <1>1, <1>2, <1>3, <1>4, <1>6, <1>7, <1>8, <1>9 DEF CoverInv

(* Listing the calendar: what the page leaves out has not changed since    *)
(* the token that was given, or is not there.                              *)
LEMMA CoverList ==
  ASSUME TypeOK, CoverInv, NEW full \in BOOLEAN, NEW page \in SUBSET Events, NEW token \in Tokens,
         ListEvents(full, page, token)
  PROVE  CoverInv'
<1>n. /\ rev \in Nat /\ worker.token \in Nat \cup {Null} /\ Null \notin Nat
      /\ \A e \in Events : cal[e].rev \in Nat
  BY Numbers
<1>1. /\ worker.pc = "list" /\ worker'.pc = "apply" /\ worker'.conn = worker.conn
      /\ worker'.token = token /\ worker'.todo = page \ OwnIds
      /\ \A e \in Events : worker'.found[e] = IF e \in page THEN cal[e].time ELSE Null
      /\ unlisted' = IF full THEN unlisted \cup LeftOut ELSE unlisted
      /\ UNCHANGED <<cal, rev, conn, blocks, appts, ours, stale>>
  BY Listed DEF world, tables
<1>2. token # Null => token = rev /\ page = IF full THEN Ahead ELSE Changed(worker.token)
  BY DEF ListEvents, Page
<1>3. ~full => worker.token # Null
  BY DEF ListEvents
<1>4. OwnIds' = OwnIds /\ OwnIds \subseteq ours
  BY <1>1 DEF OwnIds, CoverInv
<1>u. unlisted \subseteq unlisted'
  BY <1>1
<1>5. Covered'
  BY <1>1, <1>u DEF CoverInv, Covered, Active
<1>6. ASSUME token # Null, Active, ~stale, RowIs(worker.conn), NEW e \in Events \ ours
      PROVE  IF e \in worker'.todo THEN worker'.found[e] = cal[e].time ELSE CoveredBy(e)'
  <2>1. CASE e \in page
    BY <1>1, <1>4, <2>1
  <2>2. CASE e \notin page /\ full
    <3>1. e \notin Ahead
      BY <1>2, <1>6, <2>2
    <3>2. blocks[e] # cal[e].time => e \in unlisted'
      BY <1>1, <2>2, <3>1 DEF LeftOut
    <3>3. QED
      BY <1>1, <2>2, <3>2 DEF CoveredBy
  <2>3. CASE e \notin page /\ ~full
    <3>1. worker.token = conn.token /\ conn.token # Null
      BY <1>1, <1>3, <1>6, <2>3 DEF CoverInv
    <3>2. cal[e].rev <= conn.token
      BY <1>n, <1>2, <1>6, <2>3, <3>1 DEF Changed
    <3>3. CoveredBy(e)
      BY <1>6, <3>1, <3>2 DEF CoverInv, Covered, CoveredBy
    <3>4. QED
      BY <1>1, <2>3, <3>3 DEF CoveredBy
  <2>4. QED
    BY <2>1, <2>2, <2>3
<1>7. RowIs(worker.conn)' <=> RowIs(worker.conn)
  BY <1>1 DEF RowIs
<1>8. Listing /\ (~RowIs(worker.conn) => conn.token = Null)
  BY <1>1 DEF CoverInv, Listing
<1>9. token # Null => token <= rev
  BY <1>n, <1>2
<1>10. \A e \in worker'.todo : worker'.found[e] = cal[e].time
  BY <1>1
<1>11. worker.conn <= conn.id /\ (conn.token # Null => conn.token <= rev)
  BY DEF CoverInv
<1>12. QED
  BY <1>1, <1>4, <1>5, <1>6, <1>7, <1>8, <1>9, <1>10, <1>11 DEF CoverInv, Active

(* Applying an event makes its block that of the list's moment.            *)
LEMMA CoverApply ==
  ASSUME TypeOK, CoverInv, NEW e \in Events, ApplyEvent(e)
  PROVE  CoverInv'
<1>1. /\ worker.pc = "apply" /\ worker'.pc = "apply" /\ worker'.conn = worker.conn
      /\ worker'.token = worker.token /\ worker'.found = worker.found
      /\ e \in worker.todo /\ worker'.todo = worker.todo \ {e}
      /\ blocks'[e] = worker.found[e]
      /\ \A d \in Events \ {e} : blocks'[d] = blocks[d]
      /\ unlisted' = unlisted \ {e}
      /\ UNCHANGED <<cal, rev, conn, appts, ours, stale>>
  BY Applied DEF world
<1>2. OwnIds' = OwnIds
  BY <1>1 DEF OwnIds
<1>3. RowIs(worker.conn)' <=> RowIs(worker.conn)
  BY <1>1 DEF RowIs
<1>4. ASSUME Active, conn.token # Null, ~stale, NEW d \in Events \ ours, cal[d].rev <= conn.token
      PROVE  blocks'[d] = cal[d].time \/ d \in unlisted'
  <2>1. CASE d = e
    BY <1>1, <1>4, <2>1 DEF CoverInv
  <2>2. CASE d # e
    BY <1>1, <1>4, <2>2 DEF CoverInv, Covered
  <2>3. QED
    BY <2>1, <2>2
<1>5. Covered'
  BY <1>1, <1>4 DEF Covered, Active
<1>6. ASSUME worker.token # Null, Active, ~stale, RowIs(worker.conn), NEW d \in Events \ ours,
             cal[d].rev <= worker.token
      PROVE  IF d \in worker'.todo THEN worker'.found[d] = cal[d].time ELSE CoveredBy(d)'
  <2>1. IF d \in worker.todo THEN worker.found[d] = cal[d].time ELSE CoveredBy(d)
    BY <1>1, <1>6 DEF CoverInv
  <2>2. CASE d = e
    BY <1>1, <2>1, <2>2 DEF CoveredBy
  <2>3. CASE d # e
    BY <1>1, <2>1, <2>3 DEF CoveredBy
  <2>4. QED
    BY <2>2, <2>3
<1>7. Listing
  BY <1>1 DEF Listing
<1>8. QED
  BY <1>1, <1>2, <1>3, <1>5, <1>6, <1>7 DEF CoverInv, Active

(* The token is stored after every event of the list was applied.          *)
LEMMA CoverStore ==
  ASSUME TypeOK, CoverInv, StoreToken
  PROVE  CoverInv'
<1>1. /\ worker.pc = "apply" /\ worker.todo = {} /\ RowIs(worker.conn)
      /\ UNCHANGED <<cal, rev, blocks, appts, ours, unlisted, stale>>
  BY DEF StoreToken, world, history
<1>2. conn'.token = worker.token /\ conn'.id = conn.id /\ conn'.state = conn.state
  BY DEF StoreToken, TypeOK
<1>3. worker'.pc = "detect" /\ worker'.conn = 0
  BY Reset DEF StoreToken
<1>4. OwnIds' = OwnIds
  BY <1>1 DEF OwnIds
<1>5. Covered'
  BY <1>1, <1>2 DEF CoverInv, Covered, CoveredBy, Active
<1>6. worker'.conn <= conn'.id
  BY <1>2, <1>3, Numbers
<1>7. QED
  BY <1>1, <1>2, <1>3, <1>4, <1>5, <1>6 DEF CoverInv, Listing

(* The worker's steps keep every change after the token to come.           *)
LEMMA CoverWorker ==
  ASSUME TypeOK, TypeOK', JobsOK, CoverInv, WorkerStep
  PROVE  CoverInv'
<1>n. rev \in Nat /\ conn.id \in Nat /\ Null \notin Nat
  BY Numbers
<1>o. OwnIds \subseteq ours /\ (worker.pc = "store" => worker.event \in ours)
  BY DEF CoverInv
<1>1. CASE TakeJob
  <2>1. UNCHANGED <<cal, rev, conn, blocks, appts, ours, unlisted, stale>>
    BY <1>1 DEF TakeJob, world, tables, history
  <2>2. OwnIds' = OwnIds
    BY <2>1 DEF OwnIds
  <2>3. CASE UNCHANGED worker
    BY <1>n, <1>o, <2>1, <2>2, <2>3, CoverFrame DEF Active
  <2>4. CASE /\ Active /\ worker'.pc \in {"list", "create"} /\ worker'.conn = conn.id
             /\ worker'.pc = "list" => worker'.token = conn.token
    <3>1. RowIs(worker.conn)'
      BY <2>1, <2>4 DEF RowIs, Active
    <3>2. Covered'
      BY <2>1 DEF CoverInv, Covered, Active
    <3>3. QED
      BY <1>n, <2>1, <2>2, <2>4, <3>1, <3>2 DEF CoverInv
  <2>5. QED
    BY <1>1, <2>3, <2>4, Taken
<1>2. CASE Ends
  <2>1. /\ worker'.pc = "idle" /\ worker'.conn = 0
        /\ conn'.state = conn.state /\ conn'.id = conn.id /\ conn'.token = conn.token
        /\ UNCHANGED <<cal, rev, blocks, appts, ours, unlisted, stale>>
    BY <1>2, Ended DEF world, history
  <2>2. OwnIds' = OwnIds
    BY <2>1 DEF OwnIds
  <2>3. QED
    BY <1>n, <1>o, <2>1, <2>2, CoverFrame DEF Active
<1>3. ASSUME NEW e \in Events, CreateEvent(e) PROVE CoverInv'
  <2>1. /\ worker'.pc = "store" /\ worker'.event = e /\ worker'.conn = worker.conn
        /\ cal'[e].rev = rev + 1 /\ rev' = rev + 1
        /\ \A d \in Events \ {e} : cal'[d] = cal[d]
        /\ ours' = ours \cup {e}
        /\ UNCHANGED <<conn, blocks, appts, unlisted, stale>>
    BY <1>3, Created DEF tables
  <2>2. OwnIds' = OwnIds
    BY <2>1 DEF OwnIds
  <2>3. rev <= rev' /\ cal'[e].rev > rev
    BY <1>n, <2>1
  <2>4. \A d \in Events : cal'[d] = cal[d] \/ cal'[d].rev > rev
    BY <2>1, <2>3
  <2>5. QED
    BY <1>o, <2>1, <2>2, <2>3, <2>4, CoverFrame DEF Active
<1>4. CASE StoreEventId
  <2>1. /\ worker.pc = "store" /\ worker'.pc = "ack" /\ worker'.conn = 0
        /\ OwnIds' \subseteq OwnIds \cup {worker.event}
        /\ UNCHANGED <<cal, rev, conn, blocks, ours, unlisted, stale>>
    BY <1>4, Stored DEF world
  <2>2. OwnIds' \subseteq ours'
    BY <1>o, <2>1
  <2>3. QED
    BY <1>n, <2>1, <2>2, CoverFrame DEF Active
<1>5. QED
  BY <1>1, <1>2, <1>3, <1>4, CoverList, CoverApply, CoverStore DEF WorkerStep, Ends, Tokens

(* So do the requests: a new connection starts without a token.            *)
LEMMA CoverRequests ==
  ASSUME TypeOK, TypeOK', CoverInv, NEW r \in Requests,
         \/ Connect(r) \/ ConnectDelete(r) \/ ConnectInsert(r)
         \/ Disconnect(r) \/ Deactivate(r) \/ PurgeBlocks(r)
  PROVE  CoverInv'
<1>n. rev \in Nat /\ conn.id \in Nat /\ worker.conn \in Nat /\ Null \notin Nat
  BY Numbers
<1>o. /\ OwnIds \subseteq ours /\ (worker.pc = "store" => worker.event \in ours)
      /\ worker.conn <= conn.id
  BY DEF CoverInv
<1>w. UNCHANGED <<cal, rev, appts, worker, ours>>
  BY DEF Connect, ConnectDelete, ConnectInsert, Disconnect, Deactivate, PurgeBlocks, world, tables, history
<1>i. OwnIds' = OwnIds
  BY <1>w DEF OwnIds
<1>1. CASE Connect(r) \/ Disconnect(r) \/ (ConnectDelete(r) /\ conn.state = "none")
  <2>1. UNCHANGED <<conn, blocks, unlisted, stale>>
    BY <1>1 DEF Connect, Disconnect, ConnectDelete, tables, history
  <2>2. QED
    BY <1>n, <1>o, <1>w, <1>i, <2>1, CoverFrame DEF Active
<1>2. CASE ConnectDelete(r) /\ conn.state # "none"
  <2>1. conn' = [NoConn EXCEPT !.id = conn.id]
    BY <1>2 DEF ConnectDelete
  <2>2. conn'.state = "none" /\ conn'.token = Null /\ conn'.id = conn.id
    BY <2>1 DEF NoConn
  <2>3. Covered' /\ ~Active' /\ ~RowIs(worker.conn)'
    BY <2>2 DEF Covered, Active, RowIs
  <2>4. QED
    BY <1>o, <1>w, <1>i, <2>2, <2>3 DEF CoverInv
<1>3. CASE ConnectInsert(r)
  <2>1. UNCHANGED <<blocks, unlisted, stale>>
    BY <1>3 DEF ConnectInsert, history
  <2>2. CASE conn' = conn
    BY <1>n, <1>o, <1>w, <1>i, <2>1, <2>2, CoverFrame DEF Active
  <2>3. CASE conn' # conn
    <3>1. conn'.id = conn.id + 1 /\ conn'.token = Null
      BY <1>3, <2>3 DEF ConnectInsert
    <3>2. Covered' /\ ~RowIs(worker.conn)' /\ worker'.conn <= conn'.id
      BY <1>n, <1>o, <1>w, <3>1 DEF Covered, RowIs
    <3>3. QED
      BY <1>o, <1>w, <1>i, <3>1, <3>2 DEF CoverInv
  <2>4. QED
    BY <2>2, <2>3
<1>4. CASE Deactivate(r)
  <2>1. UNCHANGED <<blocks, unlisted, stale>>
    BY <1>4 DEF Deactivate, history
  <2>2. /\ conn'.id = conn.id /\ conn'.token = conn.token
        /\ conn'.state = "none" <=> conn.state = "none"
        /\ conn' # conn => conn'.state # "active"
    BY <1>4 DEF Deactivate, TypeOK
  <2>3. Active' => Active
    BY <2>2 DEF Active
  <2>4. QED
    BY <1>n, <1>o, <1>w, <1>i, <2>1, <2>2, <2>3, CoverFrame
<1>5. CASE PurgeBlocks(r)
  <2>1. UNCHANGED <<conn, unlisted>> /\ (stale => stale')
    BY <1>5 DEF PurgeBlocks
  <2>2. stale' \/ (~Active /\ ~Listing)
    BY <1>5 DEF PurgeBlocks, Listing
  <2>3. QED
    BY <1>n, <1>o, <1>w, <1>i, <2>1, <2>2, CoverFrame DEF Active
<1>6. QED
  BY <1>1, <1>2, <1>3, <1>4, <1>5

(* So does every step.                                                     *)
LEMMA CoverNext == TypeOK /\ TypeOK' /\ JobsOK /\ CoverInv /\ [Next]_vars => CoverInv'
<1> SUFFICES ASSUME TypeOK, TypeOK', JobsOK, CoverInv, [Next]_vars PROVE CoverInv'
  OBVIOUS
<1>n. rev \in Nat
  BY Numbers
<1>o. OwnIds \subseteq ours /\ (worker.pc = "store" => worker.event \in ours)
  BY DEF CoverInv
<1>1. CASE WorkerStep
  BY <1>1, CoverWorker
<1>2. CASE \E r \in Requests : \/ Connect(r) \/ ConnectDelete(r) \/ ConnectInsert(r)
                               \/ Disconnect(r) \/ Deactivate(r) \/ PurgeBlocks(r)
  BY <1>2, CoverRequests
<1>3. ASSUME NEW e \in Events, NEW t \in Times \cup {Null}, OwnerChanges(e, t) PROVE CoverInv'
  <2>0. CalendarChange(e, t)
    BY <1>3 DEF OwnerChanges
  <2>1. /\ rev' = rev + 1 /\ cal'[e] = [time |-> t, rev |-> rev + 1]
        /\ \A d \in Events \ {e} : cal'[d] = cal[d]
    BY <2>0, CalType
  <2>2. rev <= rev' /\ cal'[e].rev > rev
    BY <1>n, <2>1
  <2>3. \A d \in Events : cal'[d] = cal[d] \/ cal'[d].rev > rev
    BY <2>1, <2>2
  <2>4. UNCHANGED <<conn, blocks, appts, worker, ours, unlisted, stale>>
    BY <1>3 DEF OwnerChanges, tables, history
  <2>5. OwnIds' = OwnIds
    BY <2>4 DEF OwnIds
  <2>6. QED
    BY <1>o, <2>2, <2>3, <2>4, <2>5, CoverFrame DEF Active
<1>4. ASSUME UNCHANGED <<cal, rev, blocks, ours, unlisted>>, OwnIds' \subseteq OwnIds, stale => stale',
             conn'.id = conn.id, conn'.token = conn.token, conn'.state = conn.state,
             UNCHANGED worker \/ (worker'.pc = "idle" /\ worker'.conn = 0)
      PROVE  CoverInv'
  BY <1>n, <1>o, <1>4, CoverFrame DEF Active
<1>5. CASE OwnerRevokes \/ Tick \/ HandleWebhook \/ HandlePeriodicSync
             \/ (\E a \in Appts : ReadNotification(a)) \/ UNCHANGED vars
  <2>1. UNCHANGED <<cal, rev, blocks, appts, conn, worker, ours, unlisted, stale>>
    BY <1>5 DEF OwnerRevokes, Tick, HandleWebhook, HandlePeriodicSync, ReadNotification,
       vars, world, tables, history
  <2>2. QED
    BY <1>4, <2>1 DEF OwnIds
<1>6. ASSUME NEW a \in Appts, NEW t \in Times, Book(a, t) PROVE CoverInv'
  <2>1. /\ UNCHANGED <<cal, rev, blocks, conn, worker, ours, unlisted, stale>>
        /\ \A b \in Appts : appts'[b].event = appts[b].event
    BY <1>6 DEF Book, world, history, TypeOK
  <2>2. OwnIds' \subseteq OwnIds
    BY <2>1 DEF OwnIds
  <2>3. QED
    BY <1>4, <2>1, <2>2
<1>7. CASE TokenRefreshFails \/ RenewWebhookFails \/ TestConnectionFails
  <2>1. UNCHANGED <<cal, rev, blocks, appts, worker, ours, unlisted, stale>>
    BY <1>7 DEF TokenRefreshFails, RenewWebhookFails, TestConnectionFails, Fails, world, history
  <2>2. conn'.id = conn.id /\ conn'.token = conn.token /\ conn'.state = conn.state
    BY <1>7 DEF TokenRefreshFails, RenewWebhookFails, TestConnectionFails, Fails, TypeOK
  <2>3. QED
    BY <1>4, <2>1, <2>2 DEF OwnIds
<1>8. CASE Restart
  <2>1. /\ UNCHANGED <<cal, rev, blocks, appts, conn, ours, unlisted>> /\ (stale => stale')
        /\ worker'.pc = "idle" /\ worker'.conn = 0
    BY <1>8 DEF Restart, world, tables, Idle
  <2>2. QED
    BY <1>4, <2>1 DEF OwnIds
<1>9. QED
  BY <1>1, <1>2, <1>3, <1>5, <1>6, <1>7, <1>8 DEF Next

(* Every event whose last change the stored token includes has the block   *)
(* it should have, unless a full listing passed it over and none has shown *)
(* it since: webhooks that were lost, came late or twice, failing jobs,    *)
(* restarts and new connections make the worker miss no change.            *)
THEOREM NoChangeIsMissed == Spec => []Covered
<1>1. Init => CoverInv
  <2> SUFFICES ASSUME Init PROVE CoverInv
    OBVIOUS
  <2>1. worker.pc = "idle" /\ worker.conn = 0
    BY DEF Init, Idle
  <2>2. conn.state = "none" /\ conn.id = 0 /\ conn.token = Null
    BY DEF Init, NoConn
  <2>3. OwnIds = {}
    BY DEF Init, OwnIds
  <2>4. QED
    BY <2>1, <2>2, <2>3 DEF CoverInv, Covered, Active, Listing
<1>2. CoverInv => Covered
  BY DEF CoverInv
<1>3. QED
  BY <1>1, <1>2, TypeInit, TypeNext, CoverNext, PTL DEF Spec
=============================================================================
