--------------------------------- MODULE Quote ---------------------------------
(***************************************************************************)
(* One quote: its approval workflows, its status, and the ways it reaches  *)
(* the customer (a public link, an e-mail and its queue).                  *)
(*                                                                         *)
(* Every request reads the quote (or the approval) and checks it, and      *)
(* writes by id in a later transaction.  Statuses between which nothing    *)
(* here distinguishes are one: "out" is sent, delivered, read, opened and  *)
(* downloaded, "working" started and concluded, "closed" denied and lost   *)
(* (so a downloaded quote may be mailed here, which the program refuses).  *)
(* Left out: the link's row, items and prices, versions, deletion, the     *)
(* platform administrator's bulk change to any status, audit.  Refused     *)
(* requests are no steps.                                                  *)
(***************************************************************************)
EXTENDS Integers, Sequences, FiniteSets

CONSTANTS
  Requests,   \* slots for requests in flight
  Levels,     \* the largest number of approval levels a quote's total asks for
  MaxFlows,   \* bound: workflows of the quote
  MaxFaults   \* bound: failing calls, restarts, and requests that overlap another

ASSUME QuoteAssumption == Levels \in Nat \ {0} /\ {MaxFlows, MaxFaults} \subseteq Nat

VARIABLES
  status,    \* quote.status
  flows,     \* table quote_approval: the decisions of each workflow, by level
  customer,  \* lead.status is customer
  mail,      \* communication_event of the last mail of the quote
  pc, loc,   \* where each request is, and its local variables
  worker,    \* where the e-mail job is
  faults,
  stale,     \* history: requests in flight since whose read the status was written
  detached,  \* history: since the last submission the status was made ready or
             \* pending by hand or written by a stale request, or that submission
             \* left an earlier workflow undecided
  redecided, \* history: workflows where a decision was written over another
  late,      \* history: the last update of the lead failed or was overtaken
  owed,      \* history: a mail for a ready quote is queued, or went out
  restarted  \* history

vars == <<status, flows, customer, mail, pc, loc, worker, faults,
          stale, detached, redecided, late, owed, restarted>>

Statuses == {"draft", "pending_approval", "ready", "out", "email_failed",
             "approved", "working", "closed"}
Cleared  == {"ready", "out", "email_failed", "approved", "working"}
Won      == {"approved", "working"}
Sendable == {"ready", "out", "email_failed"}

NoLocals == [op |-> "none", seen |-> "none", flow |-> 0, level |-> 0, to |-> "none"]

Rows        == {f \in DOMAIN flows : flows[f] # << >>}
Latest      == IF Rows = {} THEN 0 ELSE CHOOSE f \in Rows : \A g \in Rows : g <= f
Open(f)     == \E k \in DOMAIN flows[f] : flows[f][k] = "pending"
AllApproved(flow) == \A k \in DOMAIN flow : flow[k] = "approved"

\* The transitions of updateStatus.
ValidTransitions(s) ==
  CASE s = "draft"            -> {"pending_approval", "ready"}
    [] s = "pending_approval" -> {"ready", "draft"}
    [] s = "ready"            -> {"out", "draft"}
    [] s = "out"              -> {"out", "approved", "closed"}
    [] s = "email_failed"     -> {"out"}
    [] s \in Won              -> {"working"}
    [] s = "closed"           -> {"draft"}

Init ==
  /\ status = "draft"
  /\ flows = << >>
  /\ customer = FALSE
  /\ mail = "none"
  /\ pc = [r \in Requests |-> "idle"]
  /\ loc = [r \in Requests |-> NoLocals]
  /\ worker = "idle"
  /\ faults = 0
  /\ stale = {}
  /\ detached = FALSE
  /\ redecided = {}
  /\ late = FALSE
  /\ owed = "no"
  /\ restarted = FALSE

(***************************************************************************)
(* The checks a request makes on what it reads.                            *)
(***************************************************************************)
MutMayApprove(f, k) ==
  /\ f \in DOMAIN flows /\ k \in DOMAIN flows[f]
  /\ flows[f][k] = "pending"

\* approve: this level is pending and the one before it approved.
MayApprove(f, k) ==
  /\ f \in DOMAIN flows /\ k \in DOMAIN flows[f]
  /\ flows[f][k] = "pending"
  /\ k > 1 => flows[f][k - 1] = "approved"

MayReject(f, k) ==
  /\ f \in DOMAIN flows /\ k \in DOMAIN flows[f]
  /\ flows[f][k] = "pending"

\* Bound: the submissions in flight have room.
Room == Len(flows) + Cardinality({r \in Requests : loc[r].op = "submit"}) < MaxFlows

MaySubmit   == status \notin {"approved", "pending_approval"} /\ Room
MayBypass(f) == status = "pending_approval" /\ Latest # 0 /\ f = Latest
MayReset    == status \in {"pending_approval", "ready"}
MayRestore  == status # "approved"
MaySend     == status \in Sendable

Allowed(l) ==
  CASE l.op = "submit"  -> MaySubmit
    [] l.op = "approve" -> MayApprove(l.flow, l.level)
    [] l.op = "reject"  -> MayReject(l.flow, l.level)
    [] l.op = "bypass"  -> MayBypass(l.flow)
    [] l.op = "reset"   -> MayReset
    [] l.op = "restore" -> MayRestore
    [] l.op = "set"     -> l.to \in ValidTransitions(status)
    [] l.op = "email"   -> MaySend
    [] l.op = "link"    -> status = "ready"
    [] l.op = "view"    -> status = "out"
    [] l.op \in {"event", "bounce"} -> status = "out" /\ mail # "none"

\* What the requests are called with.
Call(op) == [NoLocals EXCEPT !.op = op]
Calls ==
  {Call(op) : op \in {"reset", "restore", "email", "link", "view", "event", "bounce"}}
  \cup {[Call("submit") EXCEPT !.level = n] : n \in 1 .. Levels}
  \cup [op : {"approve", "reject"}, seen : {"none"}, flow : 1 .. MaxFlows,
        level : 1 .. Levels, to : {"none"}]
  \cup {[Call("bypass") EXCEPT !.flow = f] : f \in 1 .. MaxFlows}
  \cup {[Call("set") EXCEPT !.to = s] : s \in Statuses}

Busy == \E r \in Requests : pc[r] # "idle"

Begin(r, l) ==
  /\ pc[r] = "idle"
  /\ Allowed(l)
  /\ \/ ~Busy /\ UNCHANGED faults
     \/ Busy /\ faults < MaxFaults /\ faults' = faults + 1
  /\ pc' = [pc EXCEPT ![r] = IF l.op = "email" THEN "queue" ELSE "write"]
  /\ loc' = [loc EXCEPT ![r] = [l EXCEPT !.seen = IF l.op = "email" THEN status ELSE @]]
  /\ stale' = stale \ {r}
  /\ UNCHANGED <<status, flows, customer, mail, worker,
                 detached, redecided, late, owed, restarted>>

(***************************************************************************)
(* The writes.                                                             *)
(***************************************************************************)
Writing(r, op) == pc[r] = "write" /\ loc[r].op = op

Goto(r, next) ==
  /\ pc' = [pc EXCEPT ![r] = next]
  /\ loc' = [loc EXCEPT ![r] = IF next = "idle" THEN NoLocals ELSE @]

WriteStatus(self, s) ==
  /\ status' = s
  /\ stale' = {q \in Requests \ self : pc[q] # "idle"}
  /\ owed' = IF s = "ready" THEN "no" ELSE owed

Detach(r) == detached' = (detached \/ r \in stale)

\* What a request that only writes the status leaves alone.
OnlyStatus(r, s) ==
  /\ WriteStatus({r}, s)
  /\ Detach(r)
  /\ Goto(r, "idle")
  /\ UNCHANGED <<flows, customer, mail, worker, faults, redecided, late, restarted>>

\* submitForApproval, for a total that reaches some threshold.
Submit(r) ==
  /\ Writing(r, "submit")
  /\ flows' = Append(flows, [k \in 1 .. loc[r].level |-> "pending"])
  /\ WriteStatus({r}, "pending_approval")
  /\ detached' = \E f \in Rows : Open(f)
  /\ Goto(r, "idle")
  /\ UNCHANGED <<customer, mail, worker, faults, redecided, late, restarted>>

\* The decision is written by the approval's id, whatever it is by now.
Decide(r, flow) ==
  LET f == loc[r].flow IN
    /\ flows' = [flows EXCEPT ![f] = flow]
    /\ redecided' = IF flows[f][loc[r].level] = "pending" THEN redecided
                                                              ELSE redecided \cup {f}
    /\ Goto(r, "idle")
    /\ UNCHANGED <<customer, mail, worker, faults, late, restarted>>

\* Deleted by a reset: the write fails.
Gone(r) == loc[r].level \notin DOMAIN flows[loc[r].flow]

MutApprove(r) ==
  /\ Writing(r, "approve")
  /\ ~Gone(r)
  /\ Decide(r, [flows[loc[r].flow] EXCEPT ![loc[r].level] = "approved"])
  /\ WriteStatus({r}, "ready")
  /\ Detach(r)

Approve(r) ==
  /\ Writing(r, "approve")
  /\ ~Gone(r)
  /\ LET flow == [flows[loc[r].flow] EXCEPT ![loc[r].level] = "approved"] IN
     /\ Decide(r, flow)
     /\ \/ AllApproved(flow) /\ WriteStatus({r}, "ready") /\ Detach(r)
        \/ ~AllApproved(flow) /\ UNCHANGED <<status, stale, detached, owed>>

\* The rest of the workflow is rejected with it.
Reject(r) ==
  /\ Writing(r, "reject")
  /\ ~Gone(r)
  /\ Decide(r, [k \in DOMAIN flows[loc[r].flow] |->
                  IF k = loc[r].level \/ flows[loc[r].flow][k] = "pending" THEN "rejected"
                  ELSE flows[loc[r].flow][k]])
  /\ WriteStatus({r}, "draft")
  /\ Detach(r)

DecideGone(r) ==
  /\ Writing(r, "approve") \/ Writing(r, "reject")
  /\ Gone(r)
  /\ Goto(r, "idle")
  /\ UNCHANGED <<status, flows, customer, mail, worker, faults,
                 stale, detached, redecided, late, owed, restarted>>

BypassApproval(r) ==
  /\ Writing(r, "bypass")
  /\ flows' = [flows EXCEPT ![loc[r].flow] =
                 [k \in DOMAIN @ |-> IF @[k] = "pending" THEN "approved" ELSE @[k]]]
  /\ WriteStatus({r}, "ready")
  /\ Detach(r)
  /\ Goto(r, "idle")
  /\ UNCHANGED <<customer, mail, worker, faults, redecided, late, restarted>>

\* All approvals of the quote are deleted.
ResetApprovals(r) ==
  /\ Writing(r, "reset")
  /\ flows' = [f \in DOMAIN flows |-> << >>]
  /\ WriteStatus({r}, "draft")
  /\ detached' = FALSE
  /\ Goto(r, "idle")
  /\ UNCHANGED <<customer, mail, worker, faults, redecided, late, restarted>>

\* restoreVersion: the approvals stay.
RestoreVersion(r) == Writing(r, "restore") /\ OnlyStatus(r, "draft")

MutUpdateStatus(r) ==
  /\ Writing(r, "set")
  /\ WriteStatus({r}, loc[r].to)
  /\ detached' = (detached \/ r \in stale \/ loc[r].to \in {"ready", "pending_approval"})
  /\ Goto(r, IF loc[r].to \in {"working", "out"} THEN "lead" ELSE "idle")
  /\ UNCHANGED <<flows, customer, mail, worker, faults, redecided, late, restarted>>

\* A status chosen by hand; the lead follows in a step of its own.
UpdateStatus(r) ==
  /\ Writing(r, "set")
  /\ WriteStatus({r}, loc[r].to)
  /\ detached' = (detached \/ r \in stale \/ loc[r].to \in {"ready", "pending_approval"})
  /\ Goto(r, IF loc[r].to \in Won \cup {"out"} THEN "lead" ELSE "idle")
  /\ UNCHANGED <<flows, customer, mail, worker, faults, redecided, late, restarted>>

\* A won quote makes its lead a customer, one that is out a prospect.
UpdateLead(r) ==
  /\ pc[r] = "lead"
  /\ customer' = (loc[r].to \in Won)
  /\ late' = (status \in Won /\ status # loc[r].to)
  /\ Goto(r, "idle")
  /\ UNCHANGED <<status, flows, mail, worker, faults,
                 stale, detached, redecided, owed, restarted>>

GeneratePublicUrl(r) == Writing(r, "link") /\ OnlyStatus(r, "out")

\* The first view and the first download: read, then downloaded.
LogView(r) == Writing(r, "view") /\ OnlyStatus(r, "out")

\* The provider's webhook: delivered or opened; bounced, blocked or failed.
EmailEvent(r) ==
  \/ Writing(r, "event") /\ OnlyStatus(r, "out")
  \/ Writing(r, "bounce") /\ OnlyStatus(r, "email_failed")

(***************************************************************************)
(* The e-mail.  The request makes a link, which checks the status again,   *)
(* queues the mail, and then writes the status if it had read ready.  Up   *)
(* to the queue it writes nothing that is read here: an event row whose    *)
(* job was not queued is read by nobody, and that failure is a             *)
(* RequestFails before this step.                                          *)
(***************************************************************************)
QueueEmail(r) ==
  /\ pc[r] = "queue"
  /\ status \in Sendable
  /\ worker = "idle" /\ mail # "pending"     \* bound: one mail at a time
  /\ mail' = "pending"
  /\ owed' = IF loc[r].seen = "ready" THEN "queued" ELSE owed
  /\ Goto(r, IF loc[r].seen = "ready" THEN "write" ELSE "idle")
  /\ UNCHANGED <<status, flows, customer, worker, faults,
                 stale, detached, redecided, late, restarted>>

EmailRefused(r) ==
  /\ pc[r] = "queue"
  /\ status \notin Sendable
  /\ Goto(r, "idle")
  /\ UNCHANGED <<status, flows, customer, mail, worker, faults,
                 stale, detached, redecided, late, owed, restarted>>

MarkSent(r) == Writing(r, "email") /\ OnlyStatus(r, "out")

\* A call fails: the request ends here, what it did so far stays.
RequestFails(r) ==
  /\ pc[r] # "idle"
  /\ faults < MaxFaults
  /\ faults' = faults + 1
  /\ late' = (late \/ pc[r] = "lead")
  /\ Goto(r, "idle")
  /\ UNCHANGED <<status, flows, customer, mail, worker,
                 stale, detached, redecided, owed, restarted>>

(***************************************************************************)
(* The e-mail job.  It works on a pending mail only, so that after a       *)
(* failure it recorded its further attempts do nothing.  Where that record *)
(* failed too the mail is still pending, and the next attempt sends it     *)
(* again; attempts are not counted.                                        *)
(***************************************************************************)
requestSide == <<flows, customer, pc, loc, redecided, late>>

SendMail ==
  /\ worker = "idle"
  /\ mail = "pending"
  /\ worker' = "mark"
  /\ owed' = IF owed = "queued" THEN "mailed" ELSE owed
  /\ UNCHANGED <<status, mail, faults, stale, detached, restarted, requestSide>>

MarkMail ==
  /\ worker = "mark"
  /\ mail' = "sent"
  /\ worker' = "quote"
  /\ UNCHANGED <<status, faults, stale, detached, owed, restarted, requestSide>>

MutReadQuote ==
  /\ worker = "quote"
  /\ worker' = "idle"
  /\ UNCHANGED <<status, mail, faults, stale, detached, owed, restarted, requestSide>>

\* The quote is read and, if still ready, written.
ReadQuote ==
  /\ worker = "quote"
  /\ worker' = IF status = "ready" THEN "write" ELSE "idle"
  /\ UNCHANGED <<status, mail, faults, stale, detached, owed, restarted, requestSide>>

MarkQuote ==
  /\ worker = "write"
  /\ WriteStatus({}, "out")
  /\ detached' = (detached \/ status # "ready")
  /\ worker' = "idle"
  /\ UNCHANGED <<mail, faults, restarted, requestSide>>

JobFails ==
  /\ worker # "idle" \/ mail = "pending"
  /\ faults < MaxFaults
  /\ faults' = faults + 1
  /\ mail' \in {"failed", mail}
  /\ worker' = "idle"
  /\ UNCHANGED <<status, stale, detached, owed, restarted, requestSide>>

WorkerStep == SendMail \/ MarkMail \/ ReadQuote \/ MarkQuote \/ JobFails

\* A restart drops the requests; the job is handed out again and goes on if the
\* mail is still pending.
Restart ==
  /\ faults < MaxFaults
  /\ faults' = faults + 1
  /\ restarted' = TRUE
  /\ late' = (late \/ \E r \in Requests : pc[r] = "lead")
  /\ pc' = [r \in Requests |-> "idle"]
  /\ loc' = [r \in Requests |-> NoLocals]
  /\ worker' = "idle"
  /\ stale' = {}
  /\ UNCHANGED <<status, flows, customer, mail, detached, redecided, owed>>

Proceed(r) ==
  \/ Submit(r) \/ Approve(r) \/ Reject(r) \/ DecideGone(r) \/ BypassApproval(r)
  \/ ResetApprovals(r) \/ RestoreVersion(r) \/ UpdateStatus(r) \/ UpdateLead(r)
  \/ GeneratePublicUrl(r) \/ LogView(r) \/ EmailEvent(r) \/ QueueEmail(r) \/ EmailRefused(r) \/ MarkSent(r) \/ RequestFails(r)

Next ==
  \/ \E r \in Requests, l \in Calls : Begin(r, l)
  \/ \E r \in Requests : Proceed(r)
  \/ WorkerStep
  \/ Restart

Spec == Init /\ [][Next]_vars

(***************************************************************************)
(* Properties                                                              *)
(***************************************************************************)
Decisions == {"pending", "approved", "rejected"}

\* A level is approved only after the one below it, in every workflow and with
\* every overlap of approvals, rejections, bypass and reset, except where the
\* approver's second decision overwrote the first.
LevelsInOrder ==
  \A f \in DOMAIN flows : f \notin redecided =>
    \A k \in DOMAIN flows[f] : k > 1 /\ flows[f][k] = "approved" => flows[f][k - 1] = "approved"

\* The status follows the last workflow the quote was submitted to.  The
\* customer sees nothing that was not approved: a quote that is ready or beyond
\* is approved at every level; and one that waits for approval has somebody to
\* decide it.  Provisos, each since that submission: no earlier workflow was left
\* open by it, nobody made the quote ready or pending by hand, and no request wrote
\* over a status that was written after its read.
StatusFollowsApproval ==
  ~detached =>
    /\ status \in Cleared => Latest # 0 /\ AllApproved(flows[Latest])
    /\ status = "pending_approval" => Latest # 0 /\ Open(Latest)

\* A quote whose mail went out is not left ready, though the request that queued
\* the mail or the job that sent it fails half way: each makes up for the other.
\* A restart that drops both may leave it ready, and so may two faults: two
\* failing calls, or one and a request that overlaps.
MailedNotReady ==
  /\ owed = "mailed" /\ status = "ready"
  /\ worker = "idle" /\ (\A r \in Requests : ~Writing(r, "email"))
  => restarted \/ faults > 1

\* The lead of a won quote is a customer once the request that won it is over,
\* unless its update failed or another status overtook it.
WonIsCustomer ==
  status \in Won /\ (\A r \in Requests : pc[r] # "lead") /\ ~late => customer
=============================================================================
