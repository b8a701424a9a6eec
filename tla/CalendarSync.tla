----------------------------- MODULE CalendarSync -----------------------------
(***************************************************************************)
(* The link between a tenant and its Google calendar: connecting and       *)
(* disconnecting, the queue calendar-sync with its one worker, the push    *)
(* notifications, the three schedulers, and the busy blocks the worker     *)
(* keeps for the calendar's events so that no visit is offered over them.  *)
(*                                                                         *)
(* Google is an outside party: a calendar whose every change gets the next *)
(* revision number, a sync token being the revision a listing went up to.  *)
(* A job reads the connection, calls Google and writes in later steps; a   *)
(* request or a restart can come in between.  Time only matters for the    *)
(* window of a full listing and for visits that are over.  Refused         *)
(* requests are no steps.  Logging is left out.                            *)
(***************************************************************************)
EXTENDS Integers, Sequences, FiniteSets

CONSTANTS
  Events,      \* identities Google gives to calendar events
  Times,       \* the times an event can have; two things at one time overlap
  Year,        \* how far ahead a full listing looks
  Appts,       \* appointments, each booked at a time
  Requests,    \* slots for connect and disconnect requests in flight
  Null,
  Attempts,    \* attempts of the job a webhook queues (3 in the code), others have one
  PageSize,    \* events on the first page of a listing, the only one read
  MaxNow,      \* bound: the time
  MaxRev,      \* bound: changes of the calendar
  MaxConnects, \* bound: connections made
  MaxQueue,    \* bound: jobs that can wait before webhooks and cron add no more
  MaxFaults    \* bound: failing calls, expired tokens and restarts

ASSUME SyncAssumption ==
  /\ Null \notin Events \cup Nat
  /\ Times \subseteq Nat
  /\ IsFiniteSet(Events)
  /\ {Attempts, PageSize} \subseteq Nat \ {0}
  /\ {Year, MaxNow, MaxRev, MaxConnects, MaxQueue, MaxFaults} \subseteq Nat

VARIABLES
  cal,      \* Google: time and last revision of each event
  rev,      \* Google: the calendar's revision
  granted,  \* Google: the connection whose access is not revoked, 0 if none
  now,      \* the time
  conn,     \* table calendar_provider_connection: the tenant's one row
  blocks,   \* table calendar_external_block: the time of each event's block
  appts,    \* table appointment: time and external_calendar_event_id
  unread,   \* appointments with an unread calendar_conflict notification
  queue,    \* the waiting jobs of calendar-sync
  worker,   \* the job being processed and its local variables
  pc,       \* where each connect or disconnect request is
  faults,
  ours,     \* history: the events Lead360 made at Google
  orphans,  \* history: those whose id was not stored, or was written over
  unlisted, \* history: events a full listing left out although their block was wrong
  stale     \* history: a purge was interrupted, or a sync was running during it

vars == <<cal, rev, granted, now, conn, blocks, appts, unread, queue, worker,
          pc, faults, ours, orphans, unlisted, stale>>

world   == <<cal, rev, granted, now>>
tables  == <<conn, blocks, appts, unread>>
history == <<ours, orphans, unlisted, stale>>

NoConn  == [state |-> "none", id |-> 0, status |-> "disconnected", token |-> Null]
NoJob   == [kind |-> "none", conn |-> 0, appt |-> Null, retries |-> 0, stalled |-> FALSE]
Idle    == [pc |-> "idle", job |-> NoJob, conn |-> 0, token |-> Null, todo |-> {},
            found |-> [e \in Events |-> Null], event |-> Null]
SyncJob(c, n) == [NoJob EXCEPT !.kind = "sync", !.conn = c, !.retries = n]
CreateJob(a)  == [NoJob EXCEPT !.kind = "create", !.appt = a]

Live    == {e \in Events : cal[e].time # Null}
Ahead   == {e \in Live : now <= cal[e].time /\ cal[e].time <= now + Year}
Changed(token) == {e \in Events : cal[e].rev > token}
Active  == conn.state = "active"
RowIs(c) == conn.state # "none" /\ conn.id = c     \* the row of connection c exists
OwnIds  == {appts[a].event : a \in Appts} \ {Null}

Init ==
  /\ cal = [e \in Events |-> [time |-> Null, rev |-> 0]]
  /\ rev = 0
  /\ granted = 0
  /\ now = 0
  /\ conn = NoConn
  /\ blocks = [e \in Events |-> Null]
  /\ appts = [a \in Appts |-> [time |-> Null, event |-> Null]]
  /\ unread = {}
  /\ queue = << >>
  /\ worker = Idle
  /\ pc = [r \in Requests |-> "idle"]
  /\ faults = 0
  /\ ours = {}
  /\ orphans = {}
  /\ unlisted = {}
  /\ stale = FALSE

(***************************************************************************)
(* The calendar.  Its owner adds, moves and deletes events, and can take   *)
(* back the access.                                                        *)
(***************************************************************************)
CalendarChange(e, t) ==
  /\ rev < MaxRev
  /\ rev' = rev + 1
  /\ cal' = [cal EXCEPT ![e] = [time |-> t, rev |-> rev + 1]]
  /\ UNCHANGED <<granted, now>>

\* The identity of the next new event.  Which one it is makes no difference; an
\* identity is never used again.
NextId == CHOOSE e \in Events : cal[e].rev = 0

OwnerChanges(e, t) ==
  /\ cal[e].time # t
  /\ cal[e].time # Null \/ (cal[e].rev = 0 /\ e = NextId)
  /\ CalendarChange(e, t)
  /\ UNCHANGED <<tables, queue, worker, pc, faults, history>>

OwnerRevokes ==
  /\ granted # 0
  /\ granted' = 0
  /\ UNCHANGED <<cal, rev, now, tables, queue, worker, pc, faults, history>>

Tick ==
  /\ now < MaxNow
  /\ now' = now + 1
  /\ UNCHANGED <<cal, rev, granted, tables, queue, worker, pc, faults, history>>

(***************************************************************************)
(* What puts jobs into the queue.                                          *)
(***************************************************************************)
\* The webhook for a change.  Only the channel of the active connection passes.
\* Google's notifications may come late, more than once, or never.
HandleWebhook ==
  /\ Active
  /\ Len(queue) < MaxQueue
  /\ queue' = Append(queue, SyncJob(conn.id, Attempts - 1))
  /\ UNCHANGED <<world, tables, worker, pc, faults, history>>

\* The cron of every six hours.
HandlePeriodicSync ==
  /\ Active
  /\ conn.status = "active"
  /\ Len(queue) < MaxQueue
  /\ queue' = Append(queue, SyncJob(conn.id, 0))
  /\ UNCHANGED <<world, tables, worker, pc, faults, history>>

\* A booking, which must not lie in the past, queues the creation of its event.
Book(a, t) ==
  /\ appts[a].time = Null
  /\ t >= now
  /\ Len(queue) < MaxQueue
  /\ appts' = [appts EXCEPT ![a].time = t]
  /\ queue' = Append(queue, CreateJob(a))
  /\ UNCHANGED <<world, conn, blocks, unread, worker, pc, faults, history>>

ReadNotification(a) ==
  /\ a \in unread
  /\ unread' = unread \ {a}
  /\ UNCHANGED <<world, conn, blocks, appts, queue, worker, pc, faults, history>>

(***************************************************************************)
(* The worker: one job at a time, in order.                                *)
(***************************************************************************)
Work(next, c, token) ==
  worker' = [Idle EXCEPT !.pc = next, !.job = Head(queue), !.conn = c, !.token = token]

\* Either kind of job first reads the tenant's active connection, whichever
\* connection the job was queued for; without one it ends.
TakeJob ==
  /\ worker.pc = "idle"
  /\ queue # << >>
  /\ queue' = Tail(queue)
  /\ \/ Active /\ Head(queue).kind = "sync" /\ Work("list", conn.id, conn.token)
     \/ Active /\ Head(queue).kind = "create" /\ Work("create", conn.id, Null)
     \/ ~Active /\ UNCHANGED worker
  /\ UNCHANGED <<world, tables, pc, faults, history>>

\* Google refuses a call when the access is revoked; a call may also just fail.
CallFails ==
  \/ granted # worker.conn /\ UNCHANGED faults
  \/ faults < MaxFaults /\ faults' = faults + 1

EndJob == worker' = Idle

MutMarkDisconnected(c) ==
  \/ RowIs(c) /\ conn' = [conn EXCEPT !.status = "disconnected"] /\ UNCHANGED queue
  \/ /\ ~RowIs(c)
     /\ queue' = Append(queue, [worker.job EXCEPT !.retries = @ - 1])
     /\ UNCHANGED conn

\* Any failure to refresh the access token is taken for a revocation; no other
\* failure changes the status.  A job whose connection is gone cannot record it
\* and throws, which the queue answers with the attempts the job has left.
MarkDisconnected(c) ==
  \/ RowIs(c) /\ conn' = [conn EXCEPT !.status = "disconnected"] /\ UNCHANGED queue
  \/ /\ ~RowIs(c)
     /\ queue' = IF worker.job.retries = 0 THEN queue
                 ELSE Append(queue, [worker.job EXCEPT !.retries = @ - 1])
     /\ UNCHANGED conn

RefreshFails ==
  /\ worker.pc \in {"list", "create"}
  /\ CallFails
  /\ MarkDisconnected(IF worker.pc = "list" THEN worker.job.conn ELSE worker.conn)
  /\ EndJob
  /\ UNCHANGED <<world, blocks, appts, unread, pc, history>>

GoogleCallFails ==
  /\ worker.pc \in {"list", "create"}
  /\ \/ CallFails
     \/ worker.pc = "create" /\ rev = MaxRev /\ UNCHANGED faults       \* bound
     \/ worker.pc = "create" /\ (\A e \in Events : cal[e].rev # 0) /\ UNCHANGED faults
  /\ EndJob
  /\ UNCHANGED <<world, tables, queue, pc, history>>

\* The first page of a listing: a longer one yields no token.
Page(items, page, token) ==
  \/ /\ Cardinality(items) <= PageSize
     /\ page = items
     /\ token = rev
  \/ /\ Cardinality(items) > PageSize
     /\ page \subseteq items
     /\ Cardinality(page) = PageSize
     /\ token = Null

\* The events that a full listing passes over although their block is wrong: a
\* deleted one that still has a block, one outside the window that has another.
LeftOut == {e \in Events \ Ahead : blocks[e] # cal[e].time}

MutListEvents(full, page, token) ==
  /\ worker.pc = "list"
  /\ granted = worker.conn
  /\ \/ ~full /\ worker.token # Null /\ Page(Changed(worker.token), page, token)
             /\ UNCHANGED faults
     \/ full /\ worker.token = Null /\ Page(Ahead, page, token) /\ UNCHANGED faults
     \/ full /\ worker.token # Null /\ faults < MaxFaults /\ faults' = faults + 1
             /\ Page(Ahead, page, token)
  /\ worker' = [worker EXCEPT !.pc = "apply", !.token = token, !.todo = page,
                              !.found = [e \in Events |-> IF e \in page THEN cal[e].time
                                                              ELSE Null]]
  /\ unlisted' = IF full THEN unlisted \cup LeftOut ELSE unlisted
  /\ UNCHANGED <<world, tables, queue, pc, ours, orphans, stale>>

\* listEventsIncremental and getLeadEventIds.  Without a token, and when Google
\* no longer accepts it, the listing is of the events of the next year that there
\* are; with one, of all that changed since, deleted ones included.
ListEvents(full, page, token) ==
  /\ worker.pc = "list"
  /\ granted = worker.conn
  /\ \/ ~full /\ worker.token # Null /\ Page(Changed(worker.token), page, token)
             /\ UNCHANGED faults
     \/ full /\ worker.token = Null /\ Page(Ahead, page, token) /\ UNCHANGED faults
     \/ full /\ worker.token # Null /\ faults < MaxFaults /\ faults' = faults + 1
             /\ Page(Ahead, page, token)
  /\ worker' = [worker EXCEPT !.pc = "apply", !.token = token, !.todo = page \ OwnIds,
                              !.found = [e \in Events |-> IF e \in page THEN cal[e].time
                                                              ELSE Null]]
  /\ unlisted' = IF full THEN unlisted \cup LeftOut ELSE unlisted
  /\ UNCHANGED <<world, tables, queue, pc, ours, orphans, stale>>

\* One event of the page: a cancelled one loses its block, another has it
\* created or updated.  A block needs the row of its connection.
ApplyEvent(e) ==
  /\ worker.pc = "apply"
  /\ e \in worker.todo
  /\ \/ worker.found[e] = Null
     \/ blocks[e] # Null
     \/ RowIs(worker.conn)
  /\ blocks' = [blocks EXCEPT ![e] = worker.found[e]]
  /\ worker' = [worker EXCEPT !.todo = worker.todo \ {e}]
  /\ unlisted' = unlisted \ {e}
  /\ UNCHANGED <<world, conn, appts, unread, queue, pc, faults, ours, orphans, stale>>

\* A failing write ends the job with part of the page applied and the token as
\* it was.  It fails for certain when the connection was replaced meanwhile.
ApplyFails ==
  /\ worker.pc = "apply"
  /\ \/ faults < MaxFaults /\ faults' = faults + 1
     \/ /\ ~RowIs(worker.conn)
        /\ worker.todo = {} \/ \E e \in worker.todo : worker.found[e] # Null /\ blocks[e] = Null
        /\ UNCHANGED faults
  /\ EndJob
  /\ UNCHANGED <<world, tables, queue, pc, history>>

MutStoreTokenByTenant ==
  /\ worker.pc = "apply"
  /\ worker.todo = {}
  /\ conn.state # "none"
  /\ conn' = [conn EXCEPT !.token = worker.token]
  /\ worker' = [Idle EXCEPT !.pc = "detect", !.job = worker.job]
  /\ UNCHANGED <<world, blocks, appts, unread, queue, pc, faults, history>>

MutStoreTokenEarly ==
  /\ worker.pc = "apply"
  /\ RowIs(worker.conn)
  /\ conn' = [conn EXCEPT !.token = worker.token]
  /\ worker' = [Idle EXCEPT !.pc = "detect", !.job = worker.job]
  /\ UNCHANGED <<world, blocks, appts, unread, queue, pc, faults, history>>

\* updateLastSync.  Local variables that the rest of a job does not read are reset.
StoreToken ==
  /\ worker.pc = "apply"
  /\ worker.todo = {}
  /\ RowIs(worker.conn)
  /\ conn' = [conn EXCEPT !.token = worker.token]
  /\ worker' = [Idle EXCEPT !.pc = "detect", !.job = worker.job]
  /\ UNCHANGED <<world, blocks, appts, unread, queue, pc, faults, history>>

Overlapped(a) ==
  /\ appts[a].time # Null
  /\ appts[a].time >= now
  /\ \E e \in Events : blocks[e] = appts[a].time

MutConflicting == {a \in Appts : appts[a].event # Null /\ Overlapped(a)}

\* detectConflicts: one unread notification for each appointment to come that a
\* block overlaps.  A failure here is swallowed, with some of them created.
Conflicting == {a \in Appts : Overlapped(a)}

DetectConflicts ==
  /\ worker.pc = "detect"
  /\ \/ unread' = unread \cup Conflicting /\ UNCHANGED faults
     \/ /\ faults < MaxFaults
        /\ faults' = faults + 1
        /\ \E some \in SUBSET Conflicting : unread' = unread \cup some
  /\ EndJob
  /\ UNCHANGED <<world, conn, blocks, appts, queue, pc, history>>

\* processCreateEvent: the event is made at Google, then its id is stored.
CreateEvent(e) ==
  /\ worker.pc = "create"
  /\ granted = worker.conn
  /\ cal[e].rev = 0 /\ e = NextId
  /\ CalendarChange(e, appts[worker.job.appt].time)
  /\ worker' = [worker EXCEPT !.pc = "store", !.event = e]
  /\ ours' = ours \cup {e}
  /\ UNCHANGED <<tables, queue, pc, faults, orphans, unlisted, stale>>

\* A job that runs again writes over the id it stored the first time.
StoreEventId ==
  /\ worker.pc = "store"
  /\ \/ /\ appts' = [appts EXCEPT ![worker.job.appt].event = worker.event]
        /\ orphans' = orphans \cup ({appts[worker.job.appt].event} \ {Null})
        /\ UNCHANGED faults
     \/ /\ faults < MaxFaults
        /\ faults' = faults + 1
        /\ orphans' = orphans \cup {worker.event}
        /\ UNCHANGED appts
  /\ worker' = [Idle EXCEPT !.pc = "ack", !.job = worker.job]
  /\ UNCHANGED <<world, conn, blocks, unread, queue, pc, ours, unlisted, stale>>

\* The queue learns that a create job is done.
AckJob ==
  /\ worker.pc = "ack"
  /\ EndJob
  /\ UNCHANGED <<world, tables, queue, pc, faults, history>>

\* The worker runs the steps of its job.
WorkerStep ==
  \/ TakeJob
  \/ RefreshFails
  \/ GoogleCallFails
  \/ \E full \in BOOLEAN, page \in SUBSET Events, token \in (0 .. MaxRev) \cup {Null} :
       ListEvents(full, page, token)
  \/ \E e \in Events : ApplyEvent(e)
  \/ ApplyFails
  \/ StoreToken
  \/ DetectConflicts
  \/ \E e \in Events : CreateEvent(e)
  \/ StoreEventId
  \/ AckJob

(***************************************************************************)
(* connectCalendar.  The check, the deletion of an inactive row (with its  *)
(* blocks, by the foreign key) and the insertion are separate steps; the   *)
(* deletion is by tenant, and so is the unique key of the insertion.       *)
(***************************************************************************)
Connect(r) ==
  /\ pc[r] = "idle"
  /\ ~Active
  /\ conn.id < MaxConnects
  /\ pc' = [pc EXCEPT ![r] = IF conn.state = "inactive" THEN "delete" ELSE "insert"]
  /\ UNCHANGED <<world, tables, queue, worker, faults, history>>

ConnectDelete(r) ==
  /\ pc[r] = "delete"
  /\ IF conn.state = "none"
       THEN pc' = [pc EXCEPT ![r] = "idle"] /\ UNCHANGED <<conn, blocks, unlisted, stale>>
       ELSE /\ conn' = [NoConn EXCEPT !.id = conn.id]
            /\ blocks' = [e \in Events |-> Null]
            /\ pc' = [pc EXCEPT ![r] = "insert"]
            /\ unlisted' = {}
            /\ stale' = FALSE
  /\ UNCHANGED <<world, appts, unread, queue, worker, faults, ours, orphans>>

\* The watch channel is made first, which may fail, then the row.
ConnectInsert(r) ==
  /\ pc[r] = "insert"
  /\ pc' = [pc EXCEPT ![r] = "idle"]
  /\ \/ /\ conn.state = "none"
        /\ conn.id < MaxConnects
        /\ conn' = [state |-> "active", id |-> conn.id + 1, status |-> "active", token |-> Null]
        /\ granted' = conn.id + 1
        /\ UNCHANGED faults
     \/ conn.state # "none" /\ UNCHANGED <<conn, granted, faults>>
     \/ /\ faults < MaxFaults
        /\ faults' = faults + 1
        /\ UNCHANGED <<conn, granted>>
  /\ UNCHANGED <<cal, rev, now, blocks, appts, unread, queue, worker, history>>

(***************************************************************************)
(* disconnectCalendar.  Channel and access go first: where Google refuses  *)
(* the calls, the request fails and nothing changes.  The row and the      *)
(* blocks are two writes, both by tenant.                                  *)
(***************************************************************************)
Disconnect(r) ==
  /\ pc[r] = "idle"
  /\ Active
  /\ granted = conn.id
  /\ granted' = 0
  /\ pc' = [pc EXCEPT ![r] = "deactivate"]
  /\ UNCHANGED <<cal, rev, now, tables, queue, worker, faults, history>>

MutDeactivate(r) ==
  /\ pc[r] = "deactivate"
  /\ IF conn.state = "none" THEN UNCHANGED conn
       ELSE conn' = [conn EXCEPT !.state = "inactive", !.status = "disconnected"]
  /\ pc' = [pc EXCEPT ![r] = "idle"]
  /\ UNCHANGED <<world, blocks, appts, unread, queue, worker, faults, history>>

Deactivate(r) ==
  /\ pc[r] = "deactivate"
  /\ IF conn.state = "none"
       THEN pc' = [pc EXCEPT ![r] = "idle"] /\ UNCHANGED conn
       ELSE /\ conn' = [conn EXCEPT !.state = "inactive", !.status = "disconnected"]
            /\ pc' = [pc EXCEPT ![r] = "purge"]
  /\ UNCHANGED <<world, blocks, appts, unread, queue, worker, faults, history>>

PurgeBlocks(r) ==
  /\ pc[r] = "purge"
  /\ \/ /\ blocks' = [e \in Events |-> Null]
        /\ stale' = (stale \/ Active \/ worker.pc \in {"list", "apply"})
        /\ UNCHANGED faults
     \/ /\ faults < MaxFaults
        /\ faults' = faults + 1
        /\ stale' = TRUE
        /\ UNCHANGED blocks
  /\ pc' = [pc EXCEPT ![r] = "idle"]
  /\ UNCHANGED <<world, conn, appts, unread, queue, worker, ours, orphans, unlisted>>

(***************************************************************************)
(* What else changes the status.  Nothing but a new connection makes it    *)
(* active again.                                                           *)
(***************************************************************************)
Fails(status) ==
  /\ Active
  /\ \/ granted # conn.id /\ UNCHANGED faults
     \/ faults < MaxFaults /\ faults' = faults + 1
  /\ conn' = [conn EXCEPT !.status = status]
  /\ UNCHANGED <<world, blocks, appts, unread, queue, worker, pc, history>>

\* A refresh that fails, for whatever reason, is taken for a revocation.
TokenRefreshFails == conn.status = "active" /\ Fails("disconnected")

RenewWebhookFails == conn.status = "active" /\ Fails("error")

\* testConnection, and Google's notice that the calendar no longer exists.
TestConnectionFails == conn.status # "error" /\ Fails("error")

\* A restart drops the requests; the queue hands an interrupted job out again,
\* once, after whichever waiting jobs were taken before its lock expired.
Interrupted == [worker.job EXCEPT !.stalled = TRUE]

Restart ==
  /\ faults < MaxFaults
  /\ faults' = faults + 1
  /\ worker' = Idle
  /\ IF worker.pc = "idle" \/ worker.job.stalled THEN UNCHANGED queue
       ELSE \E i \in 0 .. Len(queue) :
              queue' = SubSeq(queue, 1, i) \o <<Interrupted>> \o SubSeq(queue, i + 1, Len(queue))
  /\ pc' = [r \in Requests |-> "idle"]
  /\ orphans' = orphans \cup (IF worker.pc = "store" THEN {worker.event} ELSE {})
  /\ stale' = (stale \/ \E r \in Requests : pc[r] = "purge")
  /\ UNCHANGED <<world, tables, ours, unlisted>>

Next ==
  \/ \E e \in Events, t \in Times \cup {Null} : OwnerChanges(e, t)
  \/ OwnerRevokes
  \/ Tick
  \/ HandleWebhook
  \/ HandlePeriodicSync
  \/ \E a \in Appts, t \in Times : Book(a, t)
  \/ \E a \in Appts : ReadNotification(a)
  \/ WorkerStep
  \/ \E r \in Requests : \/ Connect(r) \/ ConnectDelete(r) \/ ConnectInsert(r)
                         \/ Disconnect(r) \/ Deactivate(r) \/ PurgeBlocks(r)
  \/ TokenRefreshFails
  \/ RenewWebhookFails
  \/ TestConnectionFails
  \/ Restart

Spec == Init /\ [][Next]_vars

\* The queue's worker runs as long as there is a job, and the cron fires for ever.
FairSpec == Spec /\ WF_vars(WorkerStep) /\ WF_vars(HandlePeriodicSync)

(***************************************************************************)
(* Properties                                                              *)
(***************************************************************************)
Jobs == [kind : {"none", "sync", "create"}, conn : 0 .. MaxConnects, appt : Appts \cup {Null},
         retries : 0 .. Attempts, stalled : BOOLEAN]

TypeOK ==
  /\ cal \in [Events -> [time : Times \cup {Null}, rev : 0 .. MaxRev]]
  /\ rev \in 0 .. MaxRev
  /\ granted \in 0 .. MaxConnects
  /\ now \in 0 .. MaxNow
  /\ stale \in BOOLEAN
  /\ conn \in [state : {"none", "active", "inactive"}, id : 0 .. MaxConnects,
               status : {"active", "error", "disconnected"}, token : (0 .. MaxRev) \cup {Null}]
  /\ blocks \in [Events -> Times \cup {Null}]
  /\ appts \in [Appts -> [time : Times \cup {Null}, event : Events \cup {Null}]]
  /\ unread \subseteq Appts
  /\ queue \in Seq(Jobs)
  /\ worker \in [pc : {"idle", "list", "apply", "detect", "create", "store", "ack"},
                 job : Jobs, conn : 0 .. MaxConnects, token : (0 .. MaxRev) \cup {Null},
                 todo : SUBSET Events, found : [Events -> Times \cup {Null}],
                 event : Events \cup {Null}]
  /\ pc \in [Requests -> {"idle", "delete", "insert", "deactivate", "purge"}]
  /\ faults \in 0 .. MaxFaults
  /\ {ours, orphans, unlisted} \subseteq SUBSET Events

\* What the stored token promises: every event whose last change is not later
\* than the token has the block it should have, whatever failed, was lost, came
\* twice or was interrupted on the way and however often the tenant connected
\* anew.  The exceptions are an event that a full listing passed over (deleted
\* while it had a block, or outside the year the listing asks for) and that no
\* listing has shown since, and a purge that struck a new connection.
Covered ==
  Active /\ conn.token # Null /\ ~stale =>
    \A e \in Events \ ours :
      cal[e].rev <= conn.token => blocks[e] = cal[e].time \/ e \in unlisted

\* An event that Lead360 made for an appointment is taken for somebody else's,
\* and blocks the visit's own slot, only when its id was lost: the write of the
\* id failed or a restart came before it, or the job ran again and wrote the id
\* of a second event over it.
OwnNotBlocked == \A e \in ours : blocks[e] # Null => e \in orphans

\* A disconnected calendar leaves no blocks behind, and so takes no slot from
\* the tenant, unless the purge failed or a sync was running.
NoBlocksAfterDisconnect ==
  ~Active /\ ~stale /\ (\A r \in Requests : pc[r] # "purge") =>
    \A e \in Events : blocks[e] = Null

\* With a healthy connection an event gets its block even if every push
\* notification is lost and jobs fail, as long as the calendar fits a page and
\* the event was not passed over by a full listing.
Healthy == /\ Active
           /\ conn.status = "active"
           /\ granted = conn.id
           /\ Cardinality(Live) <= PageSize

BlocksFollow ==
  \A e \in Events, t \in Times :
    <>[](Healthy /\ ~stale /\ e \notin ours \cup unlisted /\ cal[e].time = t) => <>[](blocks[e] = t)

\* A visit to come that the calendar's owner is busy for is reported, and reported
\* again when the notification was read and the conflict is still there.
ConflictReported ==
  \A a \in Appts, t \in Times :
    <>[](Healthy /\ appts[a].time = t /\ t >= now /\ \E e \in Events : blocks[e] = t)
      => []<>(a \in unread)
=============================================================================
