------------------------------ MODULE QuoteProofs ------------------------------
(***************************************************************************)
(* The approval workflow of a quote, for any number of requests, levels    *)
(* and workflows and any number of faults: approvals come level by level,  *)
(* the status follows the workflow, a mailed quote does not stay ready,    *)
(* and a won quote's lead is a customer.                                   *)
(***************************************************************************)
EXTENDS Quote, SequenceTheorems, WellFoundedInduction, TLAPS

Ops == {"none", "reset", "restore", "email", "link", "view", "event", "bounce", "submit",
        "approve", "reject", "bypass", "set"}
Labels == {"idle", "queue", "write", "lead"}
Locals == [op : Ops, seen : Statuses \cup {"none"}, flow : Nat, level : Nat,
           to : Statuses \cup {"none"}]

\* The types the approval workflow needs, without bounds on money or versions.
ControlTypeOK ==
  /\ status \in Statuses
  /\ flows \in Seq(Seq(Decisions))
  /\ pc \in [Requests -> Labels]
  /\ loc \in [Requests -> Locals]
  /\ \A r \in Requests : loc[r].op = "set" => loc[r].to # "none"

\* No approval above a level that is not approved, and nothing pending above a
\* rejection (else a bypass would approve it).
InOrder(flow) ==
  \A k \in DOMAIN flow : k > 1 =>
    /\ flow[k] = "approved" => flow[k - 1] = "approved"
    /\ flow[k] = "pending" => flow[k - 1] # "rejected"

\* An approval in flight is about a workflow there is, and what it read of the
\* level below still holds.
ApprovalOK(r) ==
  /\ loc[r].flow \in DOMAIN flows
  /\ loc[r].flow \notin redecided /\ ~Gone(r) /\ loc[r].level > 1
       => flows[loc[r].flow][loc[r].level - 1] = "approved"

LevelsInv ==
  /\ \A f \in DOMAIN flows : f \notin redecided => InOrder(flows[f])
  /\ \A r \in Requests : pc[r] = "queue" => loc[r].op = "email"
  /\ \A r \in Requests : Writing(r, "approve") => ApprovalOK(r)

(***************************************************************************)
(* Types.                                                                  *)
(***************************************************************************)
\* The arguments of a request are well typed.
LEMMA CallsTyped == Calls \subseteq Locals
  <1> USE DEF Locals
  <1>1. ASSUME NEW op \in Ops PROVE Call(op) \in Locals
    BY DEF Call, NoLocals, Ops
  <1>2. 1 .. Levels \subseteq Nat /\ 1 .. MaxFlows \subseteq Nat
    BY QuoteAssumption
  <1> DEFINE A == {Call(op) : op \in {"reset", "restore", "email", "link", "view", "event", "bounce"}}
             B == {[Call("submit") EXCEPT !.level = n] : n \in 1 .. Levels}
             C == [op : {"approve", "reject"}, seen : {"none"}, flow : 1 .. MaxFlows,
                   level : 1 .. Levels, to : {"none"}]
             D == {[Call("bypass") EXCEPT !.flow = f] : f \in 1 .. MaxFlows}
             E == {[Call("set") EXCEPT !.to = s] : s \in Statuses}
  <1>3. A \subseteq Locals
    BY <1>1 DEF Ops
  <1>4. B \subseteq Locals
    <2>1. Call("submit") \in Locals
      BY <1>1 DEF Ops
    <2> QED BY <2>1, <1>2
  <1>5. C \subseteq Locals
    BY <1>2 DEF Ops
  <1>6. D \subseteq Locals
    <2>1. Call("bypass") \in Locals
      BY <1>1 DEF Ops
    <2> QED BY <2>1, <1>2
  <1>7. E \subseteq Locals
    <2>1. Call("set") \in Locals
      BY <1>1 DEF Ops
    <2> QED BY <2>1
  <1>8. Calls = A \cup B \cup C \cup D \cup E
    BY DEF Calls
  <1> HIDE DEF A, B, C, D, E, Locals
  <1> QED BY <1>3, <1>4, <1>5, <1>6, <1>7, <1>8

\* What updateStatus may write is a status.
LEMMA TransitionsTyped ==
  ASSUME NEW s \in Statuses
  PROVE  ValidTransitions(s) \subseteq Statuses
  BY DEF ValidTransitions, Statuses, Won

\* The control state is well typed once a request has moved on.
LEMMA GotoTyped ==
  ASSUME ControlTypeOK, NEW r \in Requests, NEW next \in Labels, Goto(r, next)
  PROVE  /\ pc' \in [Requests -> Labels]
         /\ loc' \in [Requests -> Locals]
         /\ \A s \in Requests : loc'[s].op = "set" => loc'[s].to # "none"
  <1>1. NoLocals \in Locals /\ NoLocals.op = "none"
    BY DEF NoLocals, Locals, Ops
  <1>2. pc' \in [Requests -> Labels]
    BY DEF ControlTypeOK, Goto
  <1>3. loc' = [loc EXCEPT ![r] = IF next = "idle" THEN NoLocals ELSE loc[r]]
    BY DEF Goto, ControlTypeOK
  <1>4. loc' \in [Requests -> Locals]
    BY <1>1, <1>3 DEF ControlTypeOK
  <1>5. \A s \in Requests : loc'[s].op = "set" => loc'[s].to # "none"
    BY <1>1, <1>3 DEF ControlTypeOK
  <1> QED BY <1>2, <1>4, <1>5

\* Replacing one workflow by another keeps the type of the table.
LEMMA FlowsTyped ==
  ASSUME NEW S, NEW t \in Seq(S), NEW f, NEW flow, f \in DOMAIN t => flow \in S
  PROVE  [t EXCEPT ![f] = flow] \in Seq(S)
  <1>1. CASE f \in DOMAIN t
    <2>1. f \in 1 .. Len(t)
      BY <1>1
    <2> QED BY <1>1, <2>1, ExceptSeq
  <1>2. CASE f \notin DOMAIN t
    <2>1. [t EXCEPT ![f] = flow] = t
      BY <1>2
    <2> QED BY <2>1
  <1> QED BY <1>1, <1>2

(* A request that begins is well typed.                                    *)
LEMMA BeginTyped ==
  ASSUME ControlTypeOK, NEW r \in Requests, NEW l \in Calls, Begin(r, l)
  PROVE  ControlTypeOK'
  <1>1. l \in Locals
    BY CallsTyped
  <1> DEFINE seen == IF l.op = "email" THEN status ELSE l.seen
  <1>2. [l EXCEPT !.seen = seen] \in Locals
    <2>1. seen \in Statuses \cup {"none"}
      BY <1>1 DEF ControlTypeOK, Locals
    <2> QED BY <1>1, <2>1 DEF Locals
  <1>3. l.op = "set" => l.to \in Statuses
    BY TransitionsTyped DEF Begin, Allowed, ControlTypeOK
  <1>4. loc' = [loc EXCEPT ![r] = [l EXCEPT !.seen = seen]]
    BY DEF Begin
  <1> HIDE DEF seen
  <1>5. loc' \in [Requests -> Locals]
    BY <1>2, <1>4 DEF ControlTypeOK
  <1>6. \A s \in Requests : loc'[s].op = "set" => loc'[s].to # "none"
    <2>1. l.op = "set" => l.to # "none"
      BY <1>3 DEF Statuses
    <2>2. loc'[r].op = l.op /\ loc'[r].to = l.to
      BY <1>1, <1>4 DEF ControlTypeOK, Locals
    <2>3. \A s \in Requests \ {r} : loc'[s] = loc[s]
      BY <1>4 DEF ControlTypeOK
    <2> QED BY <2>1, <2>2, <2>3 DEF ControlTypeOK
  <1>7. pc' \in [Requests -> Labels]
    BY DEF Begin, ControlTypeOK, Labels
  <1> QED BY <1>5, <1>6, <1>7 DEF ControlTypeOK, Begin

(* A request that proceeds stays well typed.                               *)
LEMMA ProceedTyped ==
  ASSUME ControlTypeOK, NEW r \in Requests, Proceed(r)
  PROVE  ControlTypeOK'
  <1> USE DEF Labels
  <1>0. "idle" \in Labels /\ "lead" \in Labels /\ "write" \in Labels
    OBVIOUS
  <1>a. {"draft", "pending_approval", "ready", "out", "email_failed"} \subseteq Statuses
    BY DEF Statuses
  <1>1. ASSUME NEW s \in Statuses, OnlyStatus(r, s) PROVE ControlTypeOK'
    BY <1>1, GotoTyped DEF OnlyStatus, WriteStatus, ControlTypeOK
  <1>2. CASE Submit(r)
    <2>1. loc[r].level \in Nat
      BY DEF ControlTypeOK, Locals
    <2>2. [k \in 1 .. loc[r].level |-> "pending"] \in Seq(Decisions)
      BY <2>1 DEF Decisions
    <2>3. flows' \in Seq(Seq(Decisions))
      BY <1>2, <2>2 DEF Submit, ControlTypeOK
    <2> QED BY <1>a, <1>2, <2>3, GotoTyped DEF Submit, WriteStatus, ControlTypeOK
  <1>3. ASSUME NEW flow, Decide(r, flow),
               loc[r].flow \in DOMAIN flows => flow \in Seq(Decisions),
               status' \in Statuses
        PROVE  ControlTypeOK'
    <2>1. flows' \in Seq(Seq(Decisions))
      BY <1>3, FlowsTyped DEF Decide, ControlTypeOK
    <2> QED BY <1>3, <2>1, GotoTyped DEF Decide, ControlTypeOK
  <1>4. ASSUME loc[r].flow \in DOMAIN flows PROVE flows[loc[r].flow] \in Seq(Decisions)
    BY <1>4 DEF ControlTypeOK
  <1>5. CASE Approve(r)
    <2> DEFINE flow == [flows[loc[r].flow] EXCEPT ![loc[r].level] = "approved"]
    <2>1. "approved" \in Decisions
      BY DEF Decisions
    <2>2. loc[r].flow \in DOMAIN flows => flow \in Seq(Decisions)
      BY <1>4, <2>1, FlowsTyped
    <2>3. Decide(r, flow) /\ status' \in Statuses
      BY <1>5, <1>a DEF Approve, WriteStatus, ControlTypeOK
    <2> QED BY <1>3, <2>2, <2>3
  <1>6. CASE Reject(r)
    <2> DEFINE old  == flows[loc[r].flow]
               flow == [k \in DOMAIN old |->
                          IF k = loc[r].level \/ old[k] = "pending" THEN "rejected" ELSE old[k]]
    <2>1. ASSUME old \in Seq(Decisions) PROVE flow \in Seq(Decisions)
      BY <2>1 DEF Decisions
    <2>2. Decide(r, flow) /\ status' \in Statuses
      BY <1>6, <1>a DEF Reject, WriteStatus
    <2> QED BY <1>3, <1>4, <2>1, <2>2
  <1>7. CASE DecideGone(r)
    BY <1>7, GotoTyped DEF DecideGone, ControlTypeOK
  <1>8. CASE BypassApproval(r)
    <2> DEFINE old  == flows[loc[r].flow]
               flow == [k \in DOMAIN old |-> IF old[k] = "pending" THEN "approved" ELSE old[k]]
    <2>1. ASSUME old \in Seq(Decisions) PROVE flow \in Seq(Decisions)
      BY <2>1 DEF Decisions
    <2>2. flows' = [flows EXCEPT ![loc[r].flow] = flow]
      BY <1>8 DEF BypassApproval
    <2>3. flows' \in Seq(Seq(Decisions))
      BY <1>4, <2>1, <2>2, FlowsTyped DEF ControlTypeOK
    <2> QED BY <1>8, <1>a, <2>3, GotoTyped DEF BypassApproval, WriteStatus, ControlTypeOK
  <1>9. CASE ResetApprovals(r)
    <2>0. << >> \in Seq(Decisions) /\ DOMAIN flows = 1 .. Len(flows) /\ Len(flows) \in Nat
      BY DEF ControlTypeOK
    <2>1. flows' \in Seq(Seq(Decisions))
      BY <1>9, <2>0 DEF ResetApprovals
    <2> QED BY <1>9, <1>a, <2>1, GotoTyped DEF ResetApprovals, WriteStatus, ControlTypeOK
  <1>10. CASE UpdateStatus(r)
    <2>1. loc[r].to \in Statuses
      BY <1>10 DEF UpdateStatus, Writing, ControlTypeOK, Locals
    <2> QED BY <1>10, <2>1, GotoTyped DEF UpdateStatus, WriteStatus, ControlTypeOK
  <1>11. CASE UpdateLead(r)
    BY <1>11, GotoTyped DEF UpdateLead, ControlTypeOK
  <1>12. CASE RestoreVersion(r) \/ GeneratePublicUrl(r) \/ LogView(r) \/ EmailEvent(r) \/ MarkSent(r)
    BY <1>12, <1>1, <1>a DEF RestoreVersion, GeneratePublicUrl, LogView, EmailEvent, MarkSent
  <1>13. CASE QueueEmail(r)
    BY <1>13, GotoTyped DEF QueueEmail, ControlTypeOK
  <1>14. CASE EmailRefused(r)
    BY <1>14, GotoTyped DEF EmailRefused, ControlTypeOK
  <1>15. CASE RequestFails(r)
    BY <1>15, GotoTyped DEF RequestFails, ControlTypeOK
  <1> QED BY <1>2, <1>5, <1>6, <1>7, <1>8, <1>9, <1>10, <1>11, <1>12, <1>13, <1>14, <1>15
          DEF Proceed

(* Every step keeps the types.                                             *)
LEMMA TypeStep == ControlTypeOK /\ [Next]_vars => ControlTypeOK'
  <1> SUFFICES ASSUME ControlTypeOK, [Next]_vars PROVE ControlTypeOK'
    OBVIOUS
  <1>1. CASE \E r \in Requests, l \in Calls : Begin(r, l)
    BY <1>1, BeginTyped
  <1>2. CASE \E r \in Requests : Proceed(r)
    BY <1>2, ProceedTyped
  <1>3. CASE WorkerStep
    BY <1>3 DEF WorkerStep, SendMail, MarkMail, ReadQuote, MarkQuote, JobFails, WriteStatus,
                requestSide, ControlTypeOK, Statuses
  <1>4. CASE Restart
    <2>1. NoLocals \in Locals /\ NoLocals.op = "none"
      BY DEF NoLocals, Locals, Ops
    <2> QED BY <1>4, <2>1 DEF Restart, ControlTypeOK, Labels
  <1>5. CASE UNCHANGED vars
    BY <1>5 DEF vars, ControlTypeOK
  <1> QED BY <1>1, <1>2, <1>3, <1>4, <1>5 DEF Next

\* The tables and the requests in flight are well typed, whatever overlaps and
\* fails.
THEOREM TypeCorrect == Spec => []ControlTypeOK
  <1>1. Init => ControlTypeOK
    BY DEF Init, ControlTypeOK, NoLocals, Locals, Ops, Labels, Statuses, Decisions
  <1> QED BY <1>1, TypeStep, PTL DEF Spec

(***************************************************************************)
(* The order of approvals.                                                 *)
(***************************************************************************)
\* No request begins to decide: it stays where it is, ends, or goes on with its
\* e-mail.
Onward ==
  \A s \in Requests :
    \/ pc'[s] = pc[s] /\ loc'[s] = loc[s]
    \/ pc'[s] \in {"idle", "lead"}
    \/ pc[s] = "queue" /\ pc'[s] = "write" /\ loc'[s] = loc[s]

\* What may happen to a workflow: it is exempt, or it stays in order and what was
\* approved stays approved.
KeepsOrder(old, new) ==
  /\ InOrder(new)
  /\ DOMAIN new \subseteq DOMAIN old
  /\ \A k \in DOMAIN new : old[k] = "approved" => new[k] = "approved"

(* Workflows that keep their order, or were decided again, keep the levels *)
(* in order.                                                               *)
LEMMA OrderKept ==
  ASSUME ControlTypeOK, ControlTypeOK', LevelsInv, Onward,
         redecided \subseteq redecided',
         DOMAIN flows \subseteq DOMAIN flows',
         \A f \in DOMAIN flows : f \in redecided' \/ KeepsOrder(flows[f], flows'[f]),
         \A f \in DOMAIN flows' \ DOMAIN flows : InOrder(flows'[f])
  PROVE  LevelsInv'
  <1>1. ASSUME NEW f \in DOMAIN flows', f \notin redecided' PROVE InOrder(flows'[f])
    BY <1>1 DEF KeepsOrder
  <1>2. ASSUME NEW r \in Requests, pc'[r] = "queue" PROVE loc'[r].op = "email"
    BY <1>2 DEF Onward, LevelsInv
  <1>3. ASSUME NEW r \in Requests, Writing(r, "approve")' PROVE ApprovalOK(r)'
    <2>1. Writing(r, "approve") /\ loc'[r] = loc[r]
      BY <1>3 DEF Writing, Onward, LevelsInv
    <2>2. ApprovalOK(r)
      BY <2>1 DEF LevelsInv
    <2> DEFINE f == loc[r].flow
               k == loc[r].level
    <2>3. f \in DOMAIN flows /\ f \in DOMAIN flows'
      BY <2>2 DEF ApprovalOK
    <2>4. ASSUME f \notin redecided', k \in DOMAIN flows'[f], k > 1
          PROVE  flows'[f][k - 1] = "approved"
      <3>1. KeepsOrder(flows[f], flows'[f]) /\ f \notin redecided
        BY <2>3, <2>4
      <3>2. k \in DOMAIN flows[f]
        BY <2>4, <3>1 DEF KeepsOrder
      <3>3. flows[f][k - 1] = "approved"
        BY <2>2, <2>4, <3>1, <3>2 DEF ApprovalOK, Gone
      <3>4. flows'[f] \in Seq(Decisions) /\ k \in Nat
        BY <2>3 DEF ControlTypeOK, Locals
      <3>5. k - 1 \in DOMAIN flows'[f]
        BY <2>4, <3>4
      <3> QED BY <3>1, <3>3, <3>5 DEF KeepsOrder
    <2> QED BY <2>1, <2>3, <2>4 DEF ApprovalOK, Gone
  <1> QED BY <1>1, <1>2, <1>3 DEF LevelsInv

\* Steps that do not write the table.
LEMMA TableKept ==
  ASSUME ControlTypeOK, ControlTypeOK', LevelsInv, Onward, UNCHANGED <<flows, redecided>>
  PROVE  LevelsInv'
  <1>1. \A f \in DOMAIN flows : f \in redecided' \/ KeepsOrder(flows[f], flows'[f])
    BY DEF LevelsInv, KeepsOrder
  <1> QED BY <1>1, OrderKept

(* A request that does not begin an approval only moves on.                *)
LEMMA GotoOnward ==
  ASSUME ControlTypeOK, NEW r \in Requests, NEW next \in {"idle", "lead"}, Goto(r, next)
  PROVE  Onward
  BY DEF Goto, Onward, ControlTypeOK

\* An approval begins: its level is in the workflow and the one below approved.
LEMMA BeginOrder ==
  ASSUME ControlTypeOK, LevelsInv, NEW r \in Requests, NEW l \in Calls, Begin(r, l)
  PROVE  LevelsInv'
  <1>1. l \in Locals
    BY CallsTyped
  <1>2. UNCHANGED <<flows, redecided>>
    BY DEF Begin
  <1>3. \A s \in Requests \ {r} : pc'[s] = pc[s] /\ loc'[s] = loc[s]
    BY DEF Begin, ControlTypeOK
  <1>4. /\ loc'[r].op = l.op /\ loc'[r].flow = l.flow /\ loc'[r].level = l.level
        /\ pc'[r] = IF l.op = "email" THEN "queue" ELSE "write"
    BY <1>1 DEF Begin, ControlTypeOK, Locals
  <1>5. ASSUME Writing(r, "approve")' PROVE ApprovalOK(r)'
    <2>1. MayApprove(l.flow, l.level)
      BY <1>4, <1>5 DEF Writing, Begin, Allowed
    <2> QED BY <1>2, <1>4, <2>1 DEF MayApprove, ApprovalOK, Gone
  <1>6. ASSUME NEW s \in Requests \ {r}, Writing(s, "approve")' PROVE ApprovalOK(s)'
    BY <1>2, <1>3, <1>6 DEF Writing, LevelsInv, ApprovalOK, Gone
  <1>7. \A s \in Requests : pc'[s] = "queue" => loc'[s].op = "email"
    BY <1>3, <1>4 DEF LevelsInv
  <1> QED BY <1>2, <1>5, <1>6, <1>7 DEF LevelsInv

\* One workflow is written, another or none is exempt.
LEMMA DecideOrder ==
  ASSUME ControlTypeOK, ControlTypeOK', LevelsInv, NEW r \in Requests, NEW flow,
         Decide(r, flow),
         loc[r].flow \in DOMAIN flows /\ loc[r].flow \notin redecided
           /\ flows[loc[r].flow][loc[r].level] = "pending"
           => KeepsOrder(flows[loc[r].flow], flow)
  PROVE  LevelsInv'
  <1> DEFINE f == loc[r].flow
  <1>1. Onward
    BY GotoOnward DEF Decide
  <1>2. flows' = [flows EXCEPT ![f] = flow] /\ redecided \subseteq redecided'
    BY DEF Decide
  <1>3. DOMAIN flows' = DOMAIN flows
    BY <1>2
  <1>4. ASSUME NEW g \in DOMAIN flows, g \notin redecided'
        PROVE  KeepsOrder(flows[g], flows'[g])
    <2>1. CASE g = f
      <3>1. flows'[g] = flow
        BY <1>2, <2>1
      <3>2. flows[f][loc[r].level] = "pending"
        BY <1>4, <2>1 DEF Decide
      <3> QED BY <1>2, <1>4, <2>1, <3>1, <3>2
    <2>2. CASE g # f
      <3>1. flows'[g] = flows[g]
        BY <1>2, <2>2
      <3>2. InOrder(flows[g])
        BY <1>2, <1>4 DEF LevelsInv
      <3> QED BY <3>1, <3>2 DEF KeepsOrder
    <2> QED BY <2>1, <2>2
  <1> QED BY <1>1, <1>2, <1>3, <1>4, OrderKept

(* An approval keeps the order: its level was the first one pending.       *)
LEMMA ApproveOrder ==
  ASSUME ControlTypeOK, ControlTypeOK', LevelsInv, NEW r \in Requests, Approve(r)
  PROVE  LevelsInv'
  <1> DEFINE f    == loc[r].flow
             k    == loc[r].level
             old  == flows[f]
             flow == [old EXCEPT ![k] = "approved"]
  <1>1. Decide(r, flow) /\ Writing(r, "approve") /\ ~Gone(r)
    BY DEF Approve
  <1>2. ASSUME f \in DOMAIN flows, f \notin redecided, old[k] = "pending"
        PROVE  KeepsOrder(old, flow)
    <2>1. old \in Seq(Decisions) /\ k \in Nat /\ k \in DOMAIN old
      BY <1>1, <1>2 DEF ControlTypeOK, Locals, Gone
    <2>2. k > 1 => old[k - 1] = "approved"
      BY <1>1, <1>2 DEF LevelsInv, ApprovalOK
    <2>3. InOrder(old)
      BY <1>2 DEF LevelsInv
    <2>4. DOMAIN flow = DOMAIN old /\ flow[k] = "approved"
          /\ \A j \in DOMAIN old : j # k => flow[j] = old[j]
      BY <2>1
    <2> HIDE DEF flow, old, k
    <2>5. ASSUME NEW j \in DOMAIN flow, j > 1
          PROVE  /\ flow[j] = "approved" => flow[j - 1] = "approved"
                 /\ flow[j] = "pending" => flow[j - 1] # "rejected"
      <3>1. j \in DOMAIN old /\ j - 1 \in DOMAIN old /\ j \in Nat
        BY <2>1, <2>4, <2>5
      <3>2. /\ old[j] = "approved" => old[j - 1] = "approved"
            /\ old[j] = "pending" => old[j - 1] # "rejected"
        BY <2>3, <2>5, <3>1 DEF InOrder
      <3>3. CASE j = k
        BY <2>1, <2>2, <2>4, <2>5, <3>1, <3>3
      <3>4. CASE j - 1 = k
        BY <2>1, <2>4, <3>1, <3>4
      <3>5. CASE j # k /\ j - 1 # k
        BY <2>4, <3>1, <3>2, <3>5
      <3> QED BY <3>3, <3>4, <3>5
    <2> QED BY <2>4, <2>5 DEF KeepsOrder, InOrder
  <1> QED BY <1>1, <1>2, DecideOrder

\* A rejection leaves nothing pending in its workflow.
LEMMA RejectOrder ==
  ASSUME ControlTypeOK, ControlTypeOK', LevelsInv, NEW r \in Requests, Reject(r)
  PROVE  LevelsInv'
  <1> DEFINE f    == loc[r].flow
             k    == loc[r].level
             old  == flows[f]
             flow == [j \in DOMAIN old |->
                        IF j = k \/ old[j] = "pending" THEN "rejected" ELSE old[j]]
  <1>1. Decide(r, flow)
    BY DEF Reject
  <1>2. ASSUME f \in DOMAIN flows, f \notin redecided, old[k] = "pending"
        PROVE  KeepsOrder(old, flow)
    <2>1. old \in Seq(Decisions)
      BY <1>2 DEF ControlTypeOK
    <2>2. InOrder(old)
      BY <1>2 DEF LevelsInv
    <2>3. /\ DOMAIN flow = DOMAIN old
          /\ \A j \in DOMAIN old : flow[j] = IF old[j] = "pending" THEN "rejected" ELSE old[j]
      BY <1>2
    <2> HIDE DEF flow, old, k
    <2>4. ASSUME NEW j \in DOMAIN flow, j > 1
          PROVE  /\ flow[j] = "approved" => flow[j - 1] = "approved"
                 /\ flow[j] = "pending" => flow[j - 1] # "rejected"
      <3>1. j \in DOMAIN old /\ j - 1 \in DOMAIN old
        BY <2>1, <2>3, <2>4
      <3>2. old[j] = "approved" => old[j - 1] = "approved"
        BY <2>2, <2>4, <3>1 DEF InOrder
      <3> QED BY <2>3, <3>1, <3>2
    <2> QED BY <2>3, <2>4 DEF KeepsOrder, InOrder
  <1> QED BY <1>1, <1>2, DecideOrder

\* A bypass approves what is pending: below it there is no rejection.
LEMMA BypassOrder ==
  ASSUME ControlTypeOK, ControlTypeOK', LevelsInv, NEW r \in Requests, BypassApproval(r)
  PROVE  LevelsInv'
  <1> DEFINE f    == loc[r].flow
             old  == flows[f]
             flow == [j \in DOMAIN old |-> IF old[j] = "pending" THEN "approved" ELSE old[j]]
  <1>1. flows' = [flows EXCEPT ![f] = flow] /\ redecided' = redecided
    BY DEF BypassApproval
  <1>2. Onward
    BY GotoOnward DEF BypassApproval
  <1>3. ASSUME f \in DOMAIN flows, f \notin redecided
        PROVE  KeepsOrder(old, flow)
    <2>1. old \in Seq(Decisions)
      BY <1>3 DEF ControlTypeOK
    <2>2. InOrder(old)
      BY <1>3 DEF LevelsInv
    <2>3. /\ DOMAIN flow = DOMAIN old
          /\ \A j \in DOMAIN old : flow[j] = IF old[j] = "pending" THEN "approved" ELSE old[j]
      OBVIOUS
    <2> HIDE DEF flow, old
    <2>4. ASSUME NEW j \in DOMAIN flow, j > 1
          PROVE  /\ flow[j] = "approved" => flow[j - 1] = "approved"
                 /\ flow[j] = "pending" => flow[j - 1] # "rejected"
      <3>1. j \in DOMAIN old /\ j - 1 \in DOMAIN old
        BY <2>1, <2>3, <2>4
      <3>2. /\ old[j] = "approved" => old[j - 1] = "approved"
            /\ old[j] = "pending" => old[j - 1] # "rejected"
        BY <2>2, <2>4, <3>1 DEF InOrder
      <3>3. old[j - 1] \in Decisions
        BY <2>1, <3>1
      <3> QED BY <2>3, <3>1, <3>2, <3>3 DEF Decisions
    <2> QED BY <2>3, <2>4 DEF KeepsOrder, InOrder
  <1>4. ASSUME NEW g \in DOMAIN flows, g \notin redecided'
        PROVE  KeepsOrder(flows[g], flows'[g])
    <2>1. CASE g = f
      BY <1>1, <1>3, <1>4, <2>1
    <2>2. CASE g # f
      <3>1. flows'[g] = flows[g] /\ InOrder(flows[g])
        BY <1>1, <1>4, <2>2 DEF LevelsInv
      <3> QED BY <3>1 DEF KeepsOrder
    <2> QED BY <2>1, <2>2
  <1>5. DOMAIN flows' = DOMAIN flows
    BY <1>1
  <1> QED BY <1>1, <1>2, <1>4, <1>5, OrderKept

\* A new workflow is pending throughout.
LEMMA SubmitOrder ==
  ASSUME ControlTypeOK, ControlTypeOK', LevelsInv, NEW r \in Requests, Submit(r)
  PROVE  LevelsInv'
  <1> DEFINE flow == [k \in 1 .. loc[r].level |-> "pending"]
  <1>0. loc[r].level \in Nat
    BY DEF ControlTypeOK, Locals
  <1>1. flows' = Append(flows, flow) /\ redecided' = redecided
    BY DEF Submit
  <1>2. Onward
    BY GotoOnward DEF Submit
  <1>3. DOMAIN flows' = DOMAIN flows \cup {Len(flows) + 1} /\ DOMAIN flows \subseteq DOMAIN flows'
    BY <1>1 DEF ControlTypeOK
  <1>4. \A g \in DOMAIN flows : flows'[g] = flows[g]
    BY <1>1 DEF ControlTypeOK
  <1>5. flows'[Len(flows) + 1] = flow
    BY <1>1 DEF ControlTypeOK
  <1>6. InOrder(flow)
    BY <1>0 DEF InOrder
  <1>7. \A g \in DOMAIN flows : g \in redecided' \/ KeepsOrder(flows[g], flows'[g])
    BY <1>1, <1>4 DEF LevelsInv, KeepsOrder
  <1>8. \A g \in DOMAIN flows' \ DOMAIN flows : InOrder(flows'[g])
    BY <1>3, <1>5, <1>6
  <1> QED BY <1>1, <1>2, <1>3, <1>7, <1>8, OrderKept

\* A reset deletes every approval, under the decisions in flight.
LEMMA ResetOrder ==
  ASSUME ControlTypeOK, ControlTypeOK', LevelsInv, NEW r \in Requests, ResetApprovals(r)
  PROVE  LevelsInv'
  <1>1. flows' = [f \in DOMAIN flows |-> << >>] /\ redecided' = redecided
    BY DEF ResetApprovals
  <1>2. Onward
    BY GotoOnward DEF ResetApprovals
  <1>3. \A f \in DOMAIN flows : KeepsOrder(flows[f], flows'[f])
    BY <1>1 DEF KeepsOrder, InOrder
  <1>4. DOMAIN flows' = DOMAIN flows
    BY <1>1
  <1> QED BY <1>1, <1>2, <1>3, <1>4, OrderKept

(* So does every step of a request.                                        *)
LEMMA ProceedOrder ==
  ASSUME ControlTypeOK, ControlTypeOK', LevelsInv, NEW r \in Requests, Proceed(r)
  PROVE  LevelsInv'
  <1>1. ASSUME NEW s, OnlyStatus(r, s) PROVE LevelsInv'
    BY <1>1, GotoOnward, TableKept DEF OnlyStatus
  <1>2. CASE Submit(r) \/ Approve(r) \/ Reject(r) \/ BypassApproval(r) \/ ResetApprovals(r)
    BY <1>2, SubmitOrder, ApproveOrder, RejectOrder, BypassOrder, ResetOrder
  <1>3. CASE DecideGone(r) \/ UpdateLead(r) \/ EmailRefused(r) \/ RequestFails(r)
    BY <1>3, GotoOnward, TableKept DEF DecideGone, UpdateLead, EmailRefused, RequestFails
  <1>4. CASE UpdateStatus(r)
    BY <1>4, GotoOnward, TableKept DEF UpdateStatus
  <1>5. CASE RestoreVersion(r) \/ GeneratePublicUrl(r) \/ LogView(r) \/ EmailEvent(r) \/ MarkSent(r)
    BY <1>5, <1>1 DEF RestoreVersion, GeneratePublicUrl, LogView, EmailEvent, MarkSent
  <1>6. CASE QueueEmail(r)
    <2>1. Onward
      BY <1>6 DEF QueueEmail, Goto, Onward, ControlTypeOK
    <2> QED BY <1>6, <2>1, TableKept DEF QueueEmail
  <1> QED BY <1>2, <1>3, <1>4, <1>5, <1>6 DEF Proceed

(* So does every step.                                                     *)
LEMMA OrderStep == ControlTypeOK /\ ControlTypeOK' /\ LevelsInv /\ [Next]_vars => LevelsInv'
  <1> SUFFICES ASSUME ControlTypeOK, ControlTypeOK', LevelsInv, [Next]_vars PROVE LevelsInv'
    OBVIOUS
  <1>1. CASE \E r \in Requests, l \in Calls : Begin(r, l)
    BY <1>1, BeginOrder
  <1>2. CASE \E r \in Requests : Proceed(r)
    BY <1>2, ProceedOrder
  <1>3. CASE WorkerStep
    <2>1. UNCHANGED <<flows, redecided, pc, loc>>
      BY <1>3 DEF WorkerStep, SendMail, MarkMail, ReadQuote, MarkQuote, JobFails, requestSide
    <2>2. Onward
      BY <2>1 DEF Onward
    <2> QED BY <2>1, <2>2, TableKept
  <1>4. CASE Restart
    <2>1. Onward /\ UNCHANGED <<flows, redecided>>
      BY <1>4 DEF Restart, Onward
    <2> QED BY <2>1, TableKept
  <1>5. CASE UNCHANGED vars
    <2>1. Onward /\ UNCHANGED <<flows, redecided>>
      BY <1>5 DEF vars, Onward
    <2> QED BY <2>1, TableKept
  <1> QED BY <1>1, <1>2, <1>3, <1>4, <1>5 DEF Next

\* approve reads a level and the one below it and writes later; whatever other
\* approvals, rejections, bypasses, resets and submissions come in between, no
\* level is approved above one that is not, unless a decision was overwritten.
THEOREM LevelsHold == Spec => []LevelsInOrder
  <1>1. Init => LevelsInv
    BY DEF Init, LevelsInv, Writing
  <1>2. LevelsInv => LevelsInOrder
    BY DEF LevelsInv, LevelsInOrder, InOrder
  <1> QED BY <1>1, <1>2, TypeCorrect, OrderStep, PTL DEF Spec

(***************************************************************************)
(* The lead of a won quote.                                                *)
(***************************************************************************)
\* Only updateStatus makes a quote won, and it goes on to the lead.
LEMMA ProceedLead ==
  ASSUME ControlTypeOK, WonIsCustomer, NEW r \in Requests, Proceed(r)
  PROVE  WonIsCustomer'
  <1> USE DEF Won
  <1>1. ASSUME pc[r] # "lead", NEW next, Goto(r, next), next # "lead"
        PROVE  (\A s \in Requests : pc'[s] # "lead") => (\A s \in Requests : pc[s] # "lead")
    BY <1>1 DEF Goto, ControlTypeOK
  <1>2. ASSUME status' \notin Won PROVE WonIsCustomer'
    BY <1>2 DEF WonIsCustomer
  <1>3. CASE UpdateStatus(r)
    <2>1. pc' = [pc EXCEPT ![r] = IF loc[r].to \in Won \cup {"out"} THEN "lead" ELSE "idle"]
      BY <1>3 DEF UpdateStatus, Goto
    <2>2. loc[r].to \in Won => pc'[r] = "lead"
      BY <2>1 DEF ControlTypeOK
    <2>3. status' = loc[r].to
      BY <1>3 DEF UpdateStatus, WriteStatus
    <2> QED BY <2>2, <2>3 DEF WonIsCustomer
  <1>4. CASE UpdateLead(r)
    BY <1>4 DEF UpdateLead, WonIsCustomer
  <1>5. CASE RequestFails(r)
    <2>1. late' = (late \/ pc[r] = "lead") /\ UNCHANGED <<status, customer>> /\ Goto(r, "idle")
      BY <1>5 DEF RequestFails
    <2> QED BY <1>1, <2>1 DEF WonIsCustomer
  <1>6. ASSUME pc[r] # "lead", Goto(r, "idle") \/ Goto(r, "write"), UNCHANGED <<status, customer, late>>
        PROVE  WonIsCustomer'
    BY <1>1, <1>6 DEF WonIsCustomer
  <1>7. CASE DecideGone(r) \/ EmailRefused(r)
    BY <1>6, <1>7 DEF DecideGone, EmailRefused, Writing
  <1>8. CASE QueueEmail(r)
    BY <1>6, <1>8 DEF QueueEmail
  <1>9. CASE Approve(r)
    <2>1. status' = "ready" \/ status' = status
      BY <1>9 DEF Approve, WriteStatus
    <2>2. pc[r] # "lead" /\ Goto(r, "idle") /\ UNCHANGED <<customer, late>>
      BY <1>9 DEF Approve, Decide, Writing
    <2> QED BY <1>2, <1>6, <2>1, <2>2
  <1>10. CASE \/ Submit(r) \/ Reject(r) \/ BypassApproval(r) \/ ResetApprovals(r)
              \/ RestoreVersion(r) \/ GeneratePublicUrl(r) \/ LogView(r) \/ EmailEvent(r)
              \/ MarkSent(r)
    <2>1. status' \in {"pending_approval", "draft", "ready", "out", "email_failed"}
      BY <1>10 DEF Submit, Reject, BypassApproval, ResetApprovals, RestoreVersion,
                   GeneratePublicUrl, LogView, EmailEvent, MarkSent, OnlyStatus, WriteStatus
    <2> QED BY <1>2, <2>1
  <1> QED BY <1>3, <1>4, <1>5, <1>7, <1>8, <1>9, <1>10 DEF Proceed

\* The lead of a quote that is won is a customer once the request that won it is
\* over, whatever else writes the status and whichever calls fail, unless that
\* update failed or was overtaken.
THEOREM LeadFollows == Spec => []WonIsCustomer
  <1>1. Init => WonIsCustomer
    BY DEF Init, WonIsCustomer, Won
  <1>2. ControlTypeOK /\ WonIsCustomer /\ [Next]_vars => WonIsCustomer'
    <2> SUFFICES ASSUME ControlTypeOK, WonIsCustomer, [Next]_vars PROVE WonIsCustomer'
      OBVIOUS
    <2>1. ASSUME NEW r \in Requests, NEW l \in Calls, Begin(r, l) PROVE WonIsCustomer'
      <3>1. pc[r] = "idle" /\ \A s \in Requests \ {r} : pc'[s] = pc[s]
        BY <2>1 DEF Begin, ControlTypeOK
      <3> QED BY <2>1, <3>1 DEF Begin, WonIsCustomer
    <2>2. CASE \E r \in Requests : Proceed(r)
      BY <2>2, ProceedLead
    <2>3. CASE WorkerStep
      <3>1. UNCHANGED <<customer, late, pc>> /\ (status' = status \/ status' = "out")
        BY <2>3 DEF WorkerStep, SendMail, MarkMail, ReadQuote, MarkQuote, JobFails, WriteStatus,
                    requestSide
      <3> QED BY <3>1 DEF WonIsCustomer, Won
    <2>4. CASE Restart
      BY <2>4 DEF Restart, WonIsCustomer
    <2>5. CASE UNCHANGED vars
      BY <2>5 DEF vars, WonIsCustomer
    <2> QED BY <2>1, <2>2, <2>3, <2>4, <2>5 DEF Next
  <1> QED BY <1>1, <1>2, TypeCorrect, PTL DEF Spec

(***************************************************************************)
(* The mail.                                                               *)
(***************************************************************************)
MailOut == \E r \in Requests : Writing(r, "email")

\* While a ready quote has a mail queued or sent, the request that will write the
\* status is still there or has failed, and so has the job; where neither is
\* left there were two failures.
MailInv ==
  /\ faults \in Nat
  /\ owed \in {"no", "queued", "mailed"}
  /\ \A r \in Requests : pc[r] = "queue" => loc[r].op = "email"
  /\ status = "ready" /\ owed # "no" /\ ~restarted =>
       /\ ~MailOut => faults >= 1
       /\ owed = "mailed" /\ worker = "idle" => faults >= 1
       /\ owed = "mailed" /\ worker = "idle" /\ ~MailOut => faults >= 2

\* The mail stays accounted for by a step that leaves the statuses, the mail and
\* its request alone.
LEMMA MailKept ==
  ASSUME MailInv, faults' \in Nat, faults' >= faults, restarted' = restarted,
         \A s \in Requests : pc'[s] = "queue" => loc'[s].op = "email",
         MailOut => MailOut',
         owed' = owed, status' = status, worker' = worker
  PROVE  MailInv'
  BY DEF MailInv

(* A request keeps a mailed quote out of ready, or stands ready to move it *)
(* on.                                                                     *)
LEMMA ProceedMail ==
  ASSUME ControlTypeOK, MailInv, NEW r \in Requests, Proceed(r)
  PROVE  MailInv'
  <1>1. ASSUME NEW next, Goto(r, next), next # "queue"
        PROVE  /\ \A s \in Requests : pc'[s] = "queue" => loc'[s].op = "email"
               /\ MailOut => Writing(r, "email") \/ MailOut'
    <2>1. \A s \in Requests \ {r} : pc'[s] = pc[s] /\ loc'[s] = loc[s]
      BY <1>1 DEF Goto, ControlTypeOK
    <2>2. pc'[r] = next
      BY <1>1 DEF Goto, ControlTypeOK
    <2>3. \A s \in Requests : pc'[s] = "queue" => loc'[s].op = "email"
      BY <1>1, <2>1, <2>2 DEF MailInv
    <2>4. ASSUME NEW s \in Requests, Writing(s, "email"), ~Writing(r, "email") PROVE MailOut'
      BY <2>1, <2>4 DEF MailOut, Writing
    <2> QED BY <2>3, <2>4 DEF MailOut
  <1>2. ASSUME NEW next, Goto(r, next), next # "queue", ~Writing(r, "email"),
               UNCHANGED <<faults, restarted, owed, status, worker>>
        PROVE  MailInv'
    <2>1. faults \in Nat
      BY DEF MailInv
    <2> QED BY <1>1, <1>2, <2>1, MailKept
  \* A status is written: it is not ready, or no mail is owed for it.
  <1>3. ASSUME NEW s, NEW next, WriteStatus({r}, s), Goto(r, next), next # "queue",
               UNCHANGED <<faults, restarted, worker>>
        PROVE  MailInv'
    <2>1. status' = s /\ owed' = IF s = "ready" THEN "no" ELSE owed
      BY <1>3 DEF WriteStatus
    <2>2. ~(status' = "ready" /\ owed' # "no")
      BY <2>1
    <2>3. faults' \in Nat /\ owed' \in {"no", "queued", "mailed"}
      BY <1>3, <2>1 DEF MailInv
    <2> QED BY <1>1, <1>3, <2>2, <2>3 DEF MailInv
  <1>4. ASSUME NEW s, OnlyStatus(r, s) PROVE MailInv'
    BY <1>3, <1>4 DEF OnlyStatus
  <1>5. CASE Submit(r) \/ Reject(r) \/ BypassApproval(r) \/ ResetApprovals(r)
    BY <1>3, <1>5 DEF Submit, Reject, Decide, BypassApproval, ResetApprovals
  <1>6. CASE UpdateStatus(r)
    BY <1>3, <1>6 DEF UpdateStatus
  <1>7. CASE RestoreVersion(r) \/ GeneratePublicUrl(r) \/ LogView(r) \/ EmailEvent(r) \/ MarkSent(r)
    BY <1>4, <1>7 DEF RestoreVersion, GeneratePublicUrl, LogView, EmailEvent, MarkSent
  <1>8. CASE Approve(r)
    <2>1. ~Writing(r, "email") /\ Goto(r, "idle") /\ UNCHANGED <<faults, restarted, worker>>
      BY <1>8 DEF Approve, Decide, Writing
    <2>2. WriteStatus({r}, "ready") \/ UNCHANGED <<status, owed>>
      BY <1>8 DEF Approve
    <2> QED BY <1>2, <1>3, <2>1, <2>2
  <1>9. CASE DecideGone(r) \/ UpdateLead(r) \/ EmailRefused(r)
    <2>1. ~Writing(r, "email")
      BY <1>9 DEF DecideGone, UpdateLead, EmailRefused, Writing
    <2> QED BY <1>2, <1>9, <2>1 DEF DecideGone, UpdateLead, EmailRefused
  <1>10. CASE QueueEmail(r)
    <2>1. loc[r].op = "email" /\ pc[r] = "queue" /\ ~Writing(r, "email")
      BY <1>10 DEF QueueEmail, MailInv, Writing
    <2>2. CASE loc[r].seen = "ready"
      <3>1. Goto(r, "write") /\ owed' = "queued" /\ UNCHANGED <<faults, restarted>>
        BY <1>10, <2>2 DEF QueueEmail
      <3>2. Writing(r, "email")'
        BY <2>1, <3>1 DEF Goto, Writing, ControlTypeOK
      <3>3. MailOut'
        BY <3>2 DEF MailOut
      <3> QED BY <1>1, <3>1, <3>3 DEF MailInv
    <2>3. CASE loc[r].seen # "ready"
      <3>1. Goto(r, "idle") /\ UNCHANGED <<faults, restarted, owed, status, worker>>
        BY <1>10, <2>3 DEF QueueEmail
      <3> QED BY <1>2, <2>1, <3>1
    <2> QED BY <2>2, <2>3
  <1>11. CASE RequestFails(r)
    <2>1. Goto(r, "idle") /\ faults' = faults + 1 /\ UNCHANGED <<status, worker, owed, restarted>>
      BY <1>11 DEF RequestFails
    <2>2. faults \in Nat /\ owed' \in {"no", "queued", "mailed"}
      BY <2>1 DEF MailInv
    <2>3. \A s \in Requests : pc'[s] = "queue" => loc'[s].op = "email"
      BY <1>1, <2>1
    <2>4. ASSUME status = "ready", owed # "no", ~restarted
          PROVE  /\ faults' >= 1
                 /\ owed = "mailed" /\ worker = "idle" => faults' >= 2
      BY <2>1, <2>2, <2>4 DEF MailInv
    <2> QED BY <2>1, <2>2, <2>3, <2>4 DEF MailInv
  <1> QED BY <1>5, <1>6, <1>7, <1>8, <1>9, <1>10, <1>11 DEF Proceed

(* So does the mail worker.                                                *)
LEMMA WorkerMail ==
  ASSUME MailInv, WorkerStep
  PROVE  MailInv'
  <1>1. UNCHANGED <<pc, loc, restarted>> /\ (MailOut <=> MailOut')
    BY DEF WorkerStep, SendMail, MarkMail, ReadQuote, MarkQuote, JobFails, requestSide,
           MailOut, Writing
  <1>2. \A s \in Requests : pc'[s] = "queue" => loc'[s].op = "email"
    BY <1>1 DEF MailInv
  <1>3. faults \in Nat
    BY DEF MailInv
  <1>4. CASE SendMail
    <2>1. /\ worker' = "mark" /\ UNCHANGED <<status, faults>>
          /\ owed' = IF owed = "queued" THEN "mailed" ELSE owed
      BY <1>4 DEF SendMail
    <2> QED BY <1>1, <1>2, <2>1 DEF MailInv
  <1>5. CASE MarkMail
    <2>1. worker' = "quote" /\ UNCHANGED <<status, faults, owed>>
      BY <1>5 DEF MarkMail
    <2> QED BY <1>1, <1>2, <2>1 DEF MailInv
  <1>6. CASE ReadQuote
    <2>1. /\ worker' = IF status = "ready" THEN "write" ELSE "idle"
          /\ UNCHANGED <<status, faults, owed>>
      BY <1>6 DEF ReadQuote
    <2> QED BY <1>1, <1>2, <2>1 DEF MailInv
  <1>7. CASE MarkQuote
    <2>1. status' = "out" /\ owed' = owed /\ faults' = faults
      BY <1>7 DEF MarkQuote, WriteStatus
    <2> QED BY <1>1, <1>2, <2>1 DEF MailInv
  <1>8. CASE JobFails
    <2>1. /\ faults' = faults + 1 /\ UNCHANGED <<status, owed>>
      BY <1>8 DEF JobFails
    <2>2. ASSUME status = "ready", owed # "no", ~restarted
          PROVE  faults' >= 1 /\ (~MailOut => faults' >= 2)
      BY <1>3, <2>1, <2>2 DEF MailInv
    <2>3. faults' \in Nat /\ owed' \in {"no", "queued", "mailed"}
      BY <1>3, <2>1 DEF MailInv
    <2> QED BY <1>1, <1>2, <2>1, <2>2, <2>3 DEF MailInv
  <1> QED BY <1>4, <1>5, <1>6, <1>7, <1>8 DEF WorkerStep

\* The request that queues a mail and the job that sends it each write the status;
\* a quote whose mail went out is not left ready unless both failed or a restart
\* dropped them.
THEOREM MailedQuotesMoveOn == Spec => []MailedNotReady
  <1>1. Init => MailInv
    BY DEF Init, MailInv
  <1>2. ControlTypeOK /\ MailInv /\ [Next]_vars => MailInv'
    <2> SUFFICES ASSUME ControlTypeOK, MailInv, [Next]_vars PROVE MailInv'
      OBVIOUS
    <2>1. ASSUME NEW r \in Requests, NEW l \in Calls, Begin(r, l) PROVE MailInv'
      <3>1. l \in Locals
        BY CallsTyped
      <3>2. pc[r] = "idle" /\ \A s \in Requests \ {r} : pc'[s] = pc[s] /\ loc'[s] = loc[s]
        BY <2>1 DEF Begin, ControlTypeOK
      <3>3. loc'[r].op = l.op /\ pc'[r] = IF l.op = "email" THEN "queue" ELSE "write"
        BY <2>1, <3>1 DEF Begin, ControlTypeOK, Locals
      <3>4. \A s \in Requests : pc'[s] = "queue" => loc'[s].op = "email"
        BY <3>2, <3>3 DEF MailInv
      <3>5. MailOut => MailOut'
        BY <3>2 DEF MailOut, Writing
      <3>6. faults' \in Nat /\ faults' >= faults
        BY <2>1 DEF Begin, MailInv
      <3>7. UNCHANGED <<restarted, owed, status, worker>>
        BY <2>1 DEF Begin
      <3> QED BY <3>4, <3>5, <3>6, <3>7, MailKept
    <2>2. CASE \E r \in Requests : Proceed(r)
      BY <2>2, ProceedMail
    <2>3. CASE WorkerStep
      BY <2>3, WorkerMail
    <2>4. CASE Restart
      <3>1. restarted' /\ faults' = faults + 1 /\ owed' = owed /\ \A s \in Requests : pc'[s] = "idle"
        BY <2>4 DEF Restart
      <3> QED BY <3>1 DEF MailInv
    <2>5. CASE UNCHANGED vars
      <3>1. MailOut => MailOut'
        BY <2>5 DEF vars, MailOut, Writing
      <3> QED BY <2>5, <3>1, MailKept DEF vars, MailInv
    <2> QED BY <2>1, <2>2, <2>3, <2>4, <2>5 DEF Next
  <1>3. MailInv => MailedNotReady
    BY DEF MailInv, MailedNotReady, MailOut
  <1> QED BY <1>1, <1>2, <1>3, TypeCorrect, PTL DEF Spec

(***************************************************************************)
(* The status and the approvals.                                           *)
(***************************************************************************)
\* A rejection ends its workflow: nothing pending is left beside it.
OneVerdict(flow) ==
  \A j, k \in DOMAIN flow : ~(flow[j] = "pending" /\ flow[k] = "rejected")

\* What a request found when it read the quote still holds while no one has
\* written the status.
StillHolds(r) ==
  /\ loc[r].op = "approve" /\ ~detached => loc[r].flow = Latest
  /\ loc[r].op = "bypass" => status = "pending_approval" /\ loc[r].flow = Latest
  /\ loc[r].op = "set" => loc[r].to \in ValidTransitions(status)
  /\ loc[r].op = "email" => loc[r].seen = status
  /\ loc[r].op = "link" => status = "ready"
  /\ loc[r].op \in {"view", "event", "bounce"} => status = "out"

\* What holds of a request in flight whoever wrote since.
RequestOK(r) ==
  /\ pc[r] = "queue" => loc[r].op = "email"
  /\ Writing(r, "email") => loc[r].seen = "ready"
  /\ Writing(r, "submit") => loc[r].level > 0
  /\ Writing(r, "approve") \/ Writing(r, "reject") => loc[r].flow \in DOMAIN flows

RequestsInv ==
  \A r \in Requests :
    /\ RequestOK(r)
    /\ pc[r] \in {"queue", "write"} /\ r \notin stale => StillHolds(r)

FlowsInv ==
  /\ \A f \in DOMAIN flows : OneVerdict(flows[f])
  /\ ~detached => \A f \in Rows : Open(f) => f = Latest

ApprovalInv == RequestsInv /\ FlowsInv /\ StatusFollowsApproval

\* The largest of a set of naturals, where there is one, is the one chosen.
LEMMA LargestChosen ==
  ASSUME NEW S, S \subseteq Nat, NEW m \in S, \A g \in S : g <= m
  PROVE  (CHOOSE f \in S : \A g \in S : g <= f) = m
  <1>1. \A f \in S : (\A g \in S : g <= f) => f = m
    OBVIOUS
  <1> QED BY <1>1

\* The last workflow exists as soon as there is any.
LEMMA LatestIsRow ==
  ASSUME ControlTypeOK, Rows # {}
  PROVE  Latest \in Rows /\ Latest # 0
  <1> DEFINE S == Rows
             U == {n \in Nat : \A g \in S : g <= n}
  <1>1. S \subseteq 1 .. Len(flows) /\ Len(flows) \in Nat
    BY DEF Rows, ControlTypeOK
  <1>2. Len(flows) \in U
    BY <1>1
  <1>3. PICK m \in U : \A y \in U : ~(<<y, m>> \in OpToRel(<, Nat))
    <2>1. U \subseteq Nat /\ U # {}
      BY <1>2
    <2> HIDE DEF U
    <2> QED BY <2>1, NatLessThanWellFounded, WFMin
  <1>a. ASSUME NEW y \in U PROVE m <= y
    <2>1. m \in Nat /\ y \in Nat
      OBVIOUS
    <2>2. ~(y < m)
      BY <1>3, <2>1 DEF OpToRel
    <2> QED BY <2>1, <2>2
  <1>4. m \in S
    <2> SUFFICES ASSUME m \notin S PROVE FALSE
      OBVIOUS
    <2>1. PICK g \in S : TRUE
      OBVIOUS
    <2>2. m \in Nat /\ \A h \in S : h <= m /\ h # m /\ h \in Nat /\ h >= 1
      BY <1>1
    <2>3. m - 1 \in U
      BY <2>1, <2>2
    <2>4. m <= m - 1
      BY <1>a, <2>3
    <2> QED BY <2>2, <2>4
  <1>5. Latest = m
    <2>1. S \subseteq Nat /\ \A g \in S : g <= m
      BY <1>1
    <2>2. Latest = CHOOSE f \in S : \A g \in S : g <= f
      BY DEF Latest
    <2> HIDE DEF S
    <2> QED BY <1>4, <2>1, <2>2, LargestChosen
  <1> QED BY <1>1, <1>4, <1>5

\* The last workflow is the same while no workflow comes or goes.
LEMMA LatestKept ==
  ASSUME Rows' = Rows
  PROVE  Latest' = Latest
  BY DEF Latest

\* Another request that stands where it stood is as it was.
LEMMA RequestKept ==
  ASSUME NEW s \in Requests, RequestOK(s), pc'[s] = pc[s], loc'[s] = loc[s],
         DOMAIN flows \subseteq DOMAIN flows'
  PROVE  RequestOK(s)'
  BY DEF RequestOK, Writing

(* A step of one request leaves what the others know true.                 *)
LEMMA GotoKept ==
  ASSUME ControlTypeOK, RequestsInv, NEW r \in Requests, NEW next \in {"idle", "lead"},
         Goto(r, next), DOMAIN flows \subseteq DOMAIN flows'
  PROVE  /\ \A s \in Requests : RequestOK(s)'
         /\ \A s \in Requests \ {r} : pc'[s] = pc[s] /\ loc'[s] = loc[s]
         /\ pc'[r] = next
  <1>1. pc'[r] = next /\ \A s \in Requests \ {r} : pc'[s] = pc[s] /\ loc'[s] = loc[s]
    BY DEF Goto, ControlTypeOK
  <1>2. RequestOK(r)'
    BY <1>1 DEF RequestOK, Writing
  <1>3. \A s \in Requests \ {r} : RequestOK(s)'
    BY <1>1, RequestKept DEF RequestsInv
  <1> QED BY <1>1, <1>2, <1>3

\* Who writes the status makes everyone else in flight stale.
LEMMA WriterAlone ==
  ASSUME ControlTypeOK, RequestsInv, NEW r \in Requests, NEW next \in {"idle", "lead"}, NEW s,
         Goto(r, next), WriteStatus({r}, s), DOMAIN flows \subseteq DOMAIN flows'
  PROVE  RequestsInv'
  <1>1. /\ \A q \in Requests : RequestOK(q)'
        /\ \A q \in Requests \ {r} : pc'[q] = pc[q]
        /\ pc'[r] = next
    BY GotoKept
  <1>2. \A q \in Requests : pc'[q] \in {"queue", "write"} => q \in stale'
    BY <1>1 DEF WriteStatus
  <1> QED BY <1>1, <1>2 DEF RequestsInv

\* A step that writes neither the status nor the list of workflows leaves the
\* other requests what they read.
LEMMA OthersKept ==
  ASSUME NEW s \in Requests, StillHolds(s), loc'[s] = loc[s], UNCHANGED <<status, detached>>,
         Rows' = Rows
  PROVE  StillHolds(s)'
  <1>1. Latest' = Latest
    BY LatestKept
  <1> QED BY <1>1 DEF StillHolds

\* A request ends without writing anything but decisions.
LEMMA EndKeeps ==
  ASSUME ControlTypeOK, RequestsInv, NEW r \in Requests, Goto(r, "idle"),
         UNCHANGED <<status, stale, detached>>, Rows' = Rows,
         DOMAIN flows \subseteq DOMAIN flows'
  PROVE  RequestsInv'
  <1>1. /\ \A s \in Requests : RequestOK(s)'
        /\ \A s \in Requests \ {r} : pc'[s] = pc[s] /\ loc'[s] = loc[s]
        /\ pc'[r] = "idle"
    BY GotoKept
  <1>2. ASSUME NEW s \in Requests, pc'[s] \in {"queue", "write"}, s \notin stale'
        PROVE  StillHolds(s)'
    BY <1>1, <1>2, OthersKept DEF RequestsInv
  <1> QED BY <1>1, <1>2 DEF RequestsInv

\* The workflows are left alone; the status is written over one that allows it.
LEMMA StatusWritten ==
  ASSUME FlowsInv, StatusFollowsApproval, flows' = flows,
         ~detached' => /\ ~detached
                       /\ \/ status' \notin Cleared \cup {"pending_approval"}
                          \/ status' \in Cleared /\ status \in Cleared
                          \/ status' = status
  PROVE  FlowsInv' /\ StatusFollowsApproval'
  <1>1. Rows' = Rows
    BY DEF Rows
  <1>2. Latest' = Latest
    BY <1>1, LatestKept
  <1>3. FlowsInv'
    BY <1>1, <1>2 DEF FlowsInv, Open
  <1>4. StatusFollowsApproval'
    BY <1>2 DEF StatusFollowsApproval, Open, Cleared
  <1> QED BY <1>3, <1>4

\* The status and the workflows stay as they are.
LEMMA NothingWritten ==
  ASSUME FlowsInv, StatusFollowsApproval, UNCHANGED <<status, detached, flows>>
  PROVE  FlowsInv' /\ StatusFollowsApproval'
  BY StatusWritten

\* One workflow gets new decisions.
LEMMA Redecided ==
  ASSUME ControlTypeOK, ControlTypeOK', NEW f \in DOMAIN flows, NEW new,
         flows' = [flows EXCEPT ![f] = new], DOMAIN new = DOMAIN flows[f]
  PROVE  /\ Rows' = Rows
         /\ DOMAIN flows' = DOMAIN flows
         /\ flows'[f] = new
         /\ \A g \in DOMAIN flows : g # f => flows'[g] = flows[g]
  <1>1. DOMAIN flows' = DOMAIN flows /\ flows'[f] = new
        /\ \A g \in DOMAIN flows : g # f => flows'[g] = flows[g]
    OBVIOUS
  <1>2. new \in Seq(Decisions) /\ flows[f] \in Seq(Decisions)
    BY <1>1 DEF ControlTypeOK
  <1>3. new = << >> <=> flows[f] = << >>
    BY <1>2
  <1> QED BY <1>1, <1>3 DEF Rows

(* An approval keeps the status what the workflow says: the last level     *)
(* makes the quote ready.                                                  *)
LEMMA ApproveFollows ==
  ASSUME ControlTypeOK, ControlTypeOK', ApprovalInv, NEW r \in Requests, Approve(r)
  PROVE  ApprovalInv'
  <1> DEFINE f   == loc[r].flow
             k   == loc[r].level
             old == flows[f]
             new == [old EXCEPT ![k] = "approved"]
  <1>1. /\ Writing(r, "approve") /\ ~Gone(r) /\ Goto(r, "idle") /\ flows' = [flows EXCEPT ![f] = new]
        /\ \/ AllApproved(new) /\ WriteStatus({r}, "ready") /\ Detach(r)
           \/ ~AllApproved(new) /\ UNCHANGED <<status, stale, detached>>
    BY DEF Approve, Decide
  <1>2. f \in DOMAIN flows /\ k \in DOMAIN old
    BY <1>1 DEF Gone, ApprovalInv, RequestsInv, RequestOK
  <1>3. DOMAIN new = DOMAIN old /\ old \in Seq(Decisions) /\ f # 0
    BY <1>2 DEF ControlTypeOK
  <1>4. new[k] = "approved" /\ \A j \in DOMAIN old : j # k => new[j] = old[j]
    BY <1>2
  <1> HIDE DEF new
  <1>5. /\ Rows' = Rows /\ DOMAIN flows' = DOMAIN flows /\ flows'[f] = new
        /\ \A g \in DOMAIN flows : g # f => flows'[g] = flows[g]
    BY <1>1, <1>2, <1>3, Redecided
  <1>6. Latest' = Latest
    BY <1>5, LatestKept
  <1>7. \A g \in DOMAIN flows' : OneVerdict(flows'[g])
    <2>1. OneVerdict(old)
      BY <1>2 DEF ApprovalInv, FlowsInv
    <2>2. OneVerdict(new)
      BY <2>1, <1>3, <1>4 DEF OneVerdict
    <2> QED BY <2>2, <1>5 DEF ApprovalInv, FlowsInv
  <1>8. \A g \in DOMAIN flows : Open(g)' => Open(g)
    <2>1. ASSUME NEW g \in DOMAIN flows, NEW j \in DOMAIN flows'[g], flows'[g][j] = "pending"
          PROVE  j \in DOMAIN flows[g] /\ flows[g][j] = "pending"
      BY <1>3, <1>4, <1>5, <2>1
    <2> QED BY <2>1 DEF Open
  <1>9. FlowsInv'
    <2>1. ASSUME ~detached', NEW g \in Rows', Open(g)' PROVE g = Latest'
      <3>1. ~detached
        BY <1>1, <2>1 DEF Detach
      <3>2. g \in DOMAIN flows /\ Open(g) /\ g \in Rows
        BY <1>5, <1>8, <2>1 DEF Rows
      <3> QED BY <1>6, <3>1, <3>2 DEF ApprovalInv, FlowsInv
    <2> QED BY <1>7, <2>1 DEF FlowsInv
  <1>10. CASE AllApproved(new) /\ WriteStatus({r}, "ready") /\ Detach(r)
    <2>1. RequestsInv'
      BY <1>1, <1>5, <1>10, WriterAlone DEF ApprovalInv
    <2>2. ASSUME ~detached' PROVE Latest' # 0 /\ AllApproved(flows'[Latest'])
      <3>1. ~detached /\ r \notin stale
        BY <1>10, <2>2 DEF Detach
      <3>2. f = Latest
        BY <1>1, <3>1 DEF ApprovalInv, RequestsInv, StillHolds, Writing
      <3> QED BY <1>3, <1>5, <1>6, <1>10, <3>2
    <2>3. status' = "ready"
      BY <1>10 DEF WriteStatus
    <2> QED BY <1>9, <2>1, <2>2, <2>3 DEF ApprovalInv, StatusFollowsApproval
  <1>11. CASE ~AllApproved(new) /\ UNCHANGED <<status, stale, detached>>
    <2>1. RequestsInv'
      BY <1>1, <1>5, <1>11, EndKeeps DEF ApprovalInv
    <2>2. ASSUME ~detached', status' \in Cleared PROVE Latest' # 0 /\ AllApproved(flows'[Latest'])
      <3>1. Latest # 0 /\ AllApproved(flows[Latest])
        BY <1>11, <2>2 DEF ApprovalInv, StatusFollowsApproval
      <3>2. Latest \in DOMAIN flows
        <4>1. f \in Rows
          BY <1>2, <1>3 DEF Rows
        <4> QED BY <4>1, LatestIsRow DEF Rows
      <3>3. AllApproved(flows'[Latest])
        BY <1>3, <1>4, <1>5, <3>1, <3>2 DEF AllApproved
      <3> QED BY <1>6, <3>1, <3>3
    <2>3. ASSUME ~detached', status' = "pending_approval" PROVE Latest' # 0 /\ Open(Latest)'
      <3>1. Latest # 0 /\ Open(Latest)
        BY <1>11, <2>3 DEF ApprovalInv, StatusFollowsApproval
      <3>2. f \in Rows
        BY <1>2, <1>3 DEF Rows
      <3>3. Latest \in DOMAIN flows
        BY <3>2, LatestIsRow DEF Rows
      <3>4. CASE Latest = f
        <4>1. PICK j \in DOMAIN new : new[j] # "approved"
          BY <1>11 DEF AllApproved
        <4>2. j # k /\ j \in DOMAIN old /\ new[j] = old[j] /\ old[j] \in Decisions
          BY <1>3, <1>4, <4>1
        <4>3. old[j] # "rejected"
          BY <1>2, <3>1, <3>4, <4>2 DEF Open, ApprovalInv, FlowsInv, OneVerdict
        <4>4. new[j] = "pending"
          BY <4>1, <4>2, <4>3 DEF Decisions
        <4> QED BY <1>5, <1>6, <3>1, <3>4, <4>1, <4>4 DEF Open
      <3>5. CASE Latest # f
        <4>1. flows'[Latest] = flows[Latest]
          BY <1>5, <3>3, <3>5
        <4> QED BY <1>6, <3>1, <4>1 DEF Open
      <3> QED BY <3>4, <3>5
    <2> QED BY <1>9, <2>1, <2>2, <2>3 DEF ApprovalInv, StatusFollowsApproval
  <1> QED BY <1>1, <1>10, <1>11

(* A rejection does: the quote is a draft again.                           *)
LEMMA RejectFollows ==
  ASSUME ControlTypeOK, ControlTypeOK', ApprovalInv, NEW r \in Requests, Reject(r)
  PROVE  ApprovalInv'
  <1> DEFINE f   == loc[r].flow
             old == flows[f]
             new == [j \in DOMAIN old |->
                       IF j = loc[r].level \/ old[j] = "pending" THEN "rejected" ELSE old[j]]
  <1>1. /\ Writing(r, "reject") /\ Goto(r, "idle") /\ flows' = [flows EXCEPT ![f] = new]
        /\ WriteStatus({r}, "draft") /\ Detach(r)
    BY DEF Reject, Decide
  <1>2. f \in DOMAIN flows
    BY <1>1 DEF ApprovalInv, RequestsInv, RequestOK
  <1>3. DOMAIN new = DOMAIN old /\ \A j \in DOMAIN new : new[j] # "pending"
    OBVIOUS
  <1> HIDE DEF new
  <1>4. /\ Rows' = Rows /\ DOMAIN flows' = DOMAIN flows /\ flows'[f] = new
        /\ \A g \in DOMAIN flows : g # f => flows'[g] = flows[g]
    BY <1>1, <1>2, <1>3, Redecided
  <1>5. Latest' = Latest
    BY <1>4, LatestKept
  <1>6. \A g \in DOMAIN flows' : OneVerdict(flows'[g])
    <2>1. OneVerdict(new)
      BY <1>3 DEF OneVerdict
    <2> QED BY <2>1, <1>4 DEF ApprovalInv, FlowsInv
  <1>7. ASSUME ~detached', NEW g \in Rows', Open(g)' PROVE g = Latest'
    <2>1. ~detached
      BY <1>1, <1>7 DEF Detach
    <2>2. g \in DOMAIN flows /\ g \in Rows /\ g # f
      BY <1>3, <1>4, <1>7 DEF Rows, Open
    <2>3. Open(g)
      BY <1>4, <1>7, <2>2 DEF Open
    <2> QED BY <1>5, <2>1, <2>2, <2>3 DEF ApprovalInv, FlowsInv
  <1>8. RequestsInv'
    BY <1>1, <1>4, WriterAlone DEF ApprovalInv
  <1>9. status' = "draft"
    BY <1>1 DEF WriteStatus
  <1> QED BY <1>6, <1>7, <1>8, <1>9 DEF ApprovalInv, FlowsInv, StatusFollowsApproval, Cleared

(* A bypass does: it approves every pending level.                         *)
LEMMA BypassFollows ==
  ASSUME ControlTypeOK, ControlTypeOK', ApprovalInv, NEW r \in Requests, BypassApproval(r)
  PROVE  ApprovalInv'
  <1> DEFINE f   == loc[r].flow
             old == flows[f]
             new == [j \in DOMAIN old |-> IF old[j] = "pending" THEN "approved" ELSE old[j]]
  <1>1. /\ Writing(r, "bypass") /\ Goto(r, "idle") /\ flows' = [flows EXCEPT ![f] = new]
        /\ WriteStatus({r}, "ready") /\ Detach(r)
    BY DEF BypassApproval
  <1>2. DOMAIN new = DOMAIN old
        /\ \A j \in DOMAIN old : new[j] = IF old[j] = "pending" THEN "approved" ELSE old[j]
    OBVIOUS
  <1>3. DOMAIN flows' = DOMAIN flows
    BY <1>1
  <1>4. RequestsInv'
    BY <1>1, <1>3, WriterAlone DEF ApprovalInv
  <1> HIDE DEF new
  <1>5. \A g \in DOMAIN flows' : OneVerdict(flows'[g])
    <2>1. OneVerdict(new)
      BY <1>2 DEF OneVerdict
    <2>2. \A g \in DOMAIN flows : flows'[g] = new \/ flows'[g] = flows[g]
      BY <1>1
    <2> QED BY <1>3, <2>1, <2>2 DEF ApprovalInv, FlowsInv
  <1>6. status' = "ready"
    BY <1>1 DEF WriteStatus
  <1>7. ASSUME ~detached'
        PROVE  /\ Latest' # 0 /\ AllApproved(flows'[Latest'])
               /\ \A g \in Rows' : Open(g)' => g = Latest'
    <2>1. ~detached /\ r \notin stale
      BY <1>1, <1>7 DEF Detach
    <2>2. status = "pending_approval" /\ f = Latest
      BY <1>1, <2>1 DEF ApprovalInv, RequestsInv, StillHolds, Writing
    <2>3. Latest # 0 /\ Open(f)
      BY <2>1, <2>2 DEF ApprovalInv, StatusFollowsApproval
    <2>4. f \in DOMAIN flows
      <3>1. Rows # {}
        BY <2>3 DEF Latest
      <3> QED BY <2>2, <3>1, LatestIsRow DEF Rows
    <2>5. /\ Rows' = Rows /\ flows'[f] = new
          /\ \A g \in DOMAIN flows : g # f => flows'[g] = flows[g]
      BY <1>1, <1>2, <2>4, Redecided
    <2>6. Latest' = f
      BY <2>2, <2>5, LatestKept
    <2>7. AllApproved(new)
      <3>1. \A j \in DOMAIN old : old[j] \in Decisions /\ old[j] # "rejected"
        BY <2>3, <2>4 DEF ControlTypeOK, Open, ApprovalInv, FlowsInv, OneVerdict
      <3> QED BY <1>2, <3>1 DEF AllApproved, Decisions
    <2>8. ASSUME NEW g \in Rows', Open(g)' PROVE g = f
      <3> SUFFICES ASSUME g # f PROVE FALSE
        OBVIOUS
      <3>1. g \in Rows /\ g \in DOMAIN flows /\ Open(g)
        BY <2>5, <2>8 DEF Rows, Open
      <3> QED BY <2>1, <2>2, <3>1 DEF ApprovalInv, FlowsInv
    <2> QED BY <2>2, <2>3, <2>5, <2>6, <2>7, <2>8
  <1> QED BY <1>4, <1>5, <1>6, <1>7 DEF ApprovalInv, FlowsInv, StatusFollowsApproval

(* A submission does: it opens a workflow.                                 *)
LEMMA SubmitFollows ==
  ASSUME ControlTypeOK, ControlTypeOK', ApprovalInv, NEW r \in Requests, Submit(r)
  PROVE  ApprovalInv'
  <1> DEFINE n   == Len(flows) + 1
             new == [k \in 1 .. loc[r].level |-> "pending"]
  <1>1. /\ Writing(r, "submit") /\ Goto(r, "idle") /\ flows' = Append(flows, new)
        /\ WriteStatus({r}, "pending_approval") /\ detached' = \E f \in Rows : Open(f)
    BY DEF Submit
  <1>2. loc[r].level \in Nat /\ loc[r].level > 0 /\ Len(flows) \in Nat
    BY <1>1 DEF ControlTypeOK, Locals, ApprovalInv, RequestsInv, RequestOK
  <1>3. 1 \in DOMAIN new /\ \A k \in DOMAIN new : new[k] = "pending"
    BY <1>2
  <1> HIDE DEF new
  <1>4. /\ DOMAIN flows = 1 .. Len(flows) /\ DOMAIN flows' = DOMAIN flows \cup {n}
        /\ flows'[n] = new /\ \A g \in DOMAIN flows : flows'[g] = flows[g]
    BY <1>1 DEF ControlTypeOK
  <1>5. RequestsInv'
    BY <1>1, <1>4, WriterAlone DEF ApprovalInv
  <1>6. \A g \in DOMAIN flows' : OneVerdict(flows'[g])
    <2>1. OneVerdict(new)
      BY <1>3 DEF OneVerdict
    <2> QED BY <1>4, <2>1 DEF ApprovalInv, FlowsInv
  <1>7. Rows' = Rows \cup {n}
    <2>1. new # << >>
      BY <1>3
    <2>2. n \notin DOMAIN flows
      BY <1>2, <1>4
    <2> QED BY <1>4, <2>1, <2>2 DEF Rows
  <1>8. Latest' = n
    <2>1. Rows \subseteq 1 .. Len(flows)
      BY <1>4 DEF Rows
    <2>2. n \in Nat /\ \A g \in Rows : g \in Nat /\ g <= n
      BY <1>2, <2>1
    <2> DEFINE S == Rows'
    <2>3. Latest' = CHOOSE f \in S : \A g \in S : g <= f
      BY <1>7 DEF Latest
    <2>4. S = Rows \cup {n}
      BY <1>7
    <2> HIDE DEF S, n
    <2>5. S \subseteq Nat /\ n \in S /\ \A g \in S : g <= n
      BY <2>2, <2>4
    <2> QED BY <2>3, <2>5, LargestChosen
  <1>9. Open(Latest)' /\ n # 0
    BY <1>2, <1>3, <1>4, <1>8 DEF Open
  <1>10. ASSUME ~detached', NEW g \in Rows', Open(g)' PROVE g = n
    <2>1. ASSUME g \in Rows PROVE Open(g)
      BY <1>4, <1>10, <2>1 DEF Open, Rows
    <2> QED BY <1>1, <1>7, <1>10, <2>1
  <1>11. status' = "pending_approval"
    BY <1>1 DEF WriteStatus
  <1> QED BY <1>5, <1>6, <1>8, <1>9, <1>10, <1>11
          DEF ApprovalInv, FlowsInv, StatusFollowsApproval, Cleared

(* A reset does: no workflow is left.                                      *)
LEMMA ResetFollows ==
  ASSUME ControlTypeOK, ControlTypeOK', ApprovalInv, NEW r \in Requests, ResetApprovals(r)
  PROVE  ApprovalInv'
  <1>1. /\ Goto(r, "idle") /\ WriteStatus({r}, "draft")
        /\ flows' = [f \in DOMAIN flows |-> << >>]
    BY DEF ResetApprovals
  <1>2. DOMAIN flows' = DOMAIN flows /\ \A f \in DOMAIN flows' : flows'[f] = << >>
    BY <1>1
  <1>3. RequestsInv'
    BY <1>1, <1>2, WriterAlone DEF ApprovalInv
  <1>4. FlowsInv'
    BY <1>2 DEF FlowsInv, OneVerdict, Rows
  <1>5. status' = "draft"
    BY <1>1 DEF WriteStatus
  <1> QED BY <1>3, <1>4, <1>5 DEF ApprovalInv, StatusFollowsApproval, Cleared

\* A submission asks for at least one level.
LEMMA SubmitHasLevel == \A x \in Calls : x.op = "submit" => x.level > 0
  <1> DEFINE P(x) == x.op = "submit" => x.level > 0
             A == {Call(op) : op \in {"reset", "restore", "email", "link", "view", "event", "bounce"}}
             B == {[Call("submit") EXCEPT !.level = n] : n \in 1 .. Levels}
             C == [op : {"approve", "reject"}, seen : {"none"}, flow : 1 .. MaxFlows,
                   level : 1 .. Levels, to : {"none"}]
             D == {[Call("bypass") EXCEPT !.flow = f] : f \in 1 .. MaxFlows}
             E == {[Call("set") EXCEPT !.to = s] : s \in Statuses}
  <1>1. \A op : Call(op).op = op
    BY DEF Call, NoLocals
  <1>2. Call("submit") \in Locals /\ Call("bypass") \in Locals /\ Call("set") \in Locals
    BY DEF Call, NoLocals, Locals, Ops
  <1>3. \A x \in A : P(x)
    BY <1>1
  <1>4. \A x \in B : P(x)
    <2>1. ASSUME NEW n \in 1 .. Levels PROVE [Call("submit") EXCEPT !.level = n].level > 0
      BY <1>2, QuoteAssumption DEF Locals
    <2> QED BY <2>1
  <1>5. \A x \in C : P(x)
    OBVIOUS
  <1>6. \A x \in D : P(x)
    <2>1. ASSUME NEW f PROVE [Call("bypass") EXCEPT !.flow = f].op = "bypass"
      BY <1>1, <1>2 DEF Locals
    <2> QED BY <2>1
  <1>7. \A x \in E : P(x)
    <2>1. ASSUME NEW s PROVE [Call("set") EXCEPT !.to = s].op = "set"
      BY <1>1, <1>2 DEF Locals
    <2> QED BY <2>1
  <1>8. Calls = A \cup B \cup C \cup D \cup E
    BY DEF Calls
  <1>9. \A x \in Calls : P(x)
    <2> HIDE DEF A, B, C, D, E, P
    <2> QED BY <1>3, <1>4, <1>5, <1>6, <1>7, <1>8
  <1> QED BY <1>9

\* A request begins: its checks are what StillHolds says.
LEMMA BeginFollows ==
  ASSUME ControlTypeOK, ApprovalInv, NEW r \in Requests, NEW l \in Calls, Begin(r, l)
  PROVE  ApprovalInv'
  <1> DEFINE seen == IF l.op = "email" THEN status ELSE l.seen
  <1>1. l \in Locals /\ Allowed(l) /\ stale' = stale \ {r}
    BY CallsTyped DEF Begin
  <1>2. UNCHANGED <<status, flows, detached>>
    BY DEF Begin
  <1>3. /\ pc'[r] = IF l.op = "email" THEN "queue" ELSE "write"
        /\ loc'[r] = [l EXCEPT !.seen = seen]
        /\ \A s \in Requests \ {r} : pc'[s] = pc[s] /\ loc'[s] = loc[s]
    BY DEF Begin, ControlTypeOK
  <1>4. /\ loc'[r].op = l.op /\ loc'[r].flow = l.flow /\ loc'[r].level = l.level
        /\ loc'[r].to = l.to /\ loc'[r].seen = seen
    BY <1>1, <1>3 DEF Locals
  <1>5. Rows' = Rows
    BY <1>2 DEF Rows
  <1>6. Latest' = Latest
    BY <1>5, LatestKept
  <1>7. FlowsInv' /\ StatusFollowsApproval'
    BY <1>2, NothingWritten DEF ApprovalInv
  <1>8. l.op = "submit" => l.level > 0
    BY SubmitHasLevel
  <1>9. l.op \in {"approve", "reject"} =>
          /\ l.flow \in DOMAIN flows /\ l.level \in DOMAIN flows[l.flow]
          /\ flows[l.flow][l.level] = "pending"
    <2>1. CASE l.op = "approve"
      BY <1>1, <2>1 DEF Allowed, MayApprove
    <2>2. CASE l.op = "reject"
      BY <1>1, <2>2 DEF Allowed, MayReject
    <2> QED BY <2>1, <2>2
  <1>10. RequestOK(r)'
    BY <1>2, <1>3, <1>4, <1>8, <1>9 DEF RequestOK, Writing
  <1>11. ASSUME l.op = "approve", ~detached PROVE l.flow = Latest
    <2>1. l.flow \in Rows /\ Open(l.flow)
      BY <1>9, <1>11 DEF Rows, Open
    <2> QED BY <1>11, <2>1 DEF ApprovalInv, FlowsInv
  <1>12. l.op = "bypass" => status = "pending_approval" /\ l.flow = Latest
    BY <1>1 DEF Allowed, MayBypass
  <1>13. l.op = "set" => l.to \in ValidTransitions(status)
    BY <1>1 DEF Allowed
  <1>14. l.op = "link" => status = "ready"
    BY <1>1 DEF Allowed
  <1>15. l.op \in {"view", "event", "bounce"} => status = "out"
    <2>1. CASE l.op = "view"
      BY <1>1, <2>1 DEF Allowed
    <2>2. CASE l.op \in {"event", "bounce"}
      BY <1>1, <2>2 DEF Allowed
    <2> QED BY <2>1, <2>2
  <1>16. StillHolds(r)'
    BY <1>2, <1>4, <1>6, <1>11, <1>12, <1>13, <1>14, <1>15 DEF StillHolds
  <1>17. ASSUME NEW s \in Requests \ {r} PROVE RequestOK(s)'
    BY <1>2, <1>3, RequestKept DEF ApprovalInv, RequestsInv
  <1>18. ASSUME NEW s \in Requests \ {r}, pc'[s] \in {"queue", "write"}, s \notin stale'
         PROVE  StillHolds(s)'
    BY <1>1, <1>2, <1>3, <1>5, <1>18, OthersKept DEF ApprovalInv, RequestsInv
  <1>19. RequestsInv'
    BY <1>10, <1>16, <1>17, <1>18 DEF RequestsInv
  <1> QED BY <1>7, <1>19 DEF ApprovalInv

(* Every step of a request does.                                           *)
LEMMA ProceedFollows ==
  ASSUME ControlTypeOK, ControlTypeOK', ApprovalInv, NEW r \in Requests, Proceed(r)
  PROVE  ApprovalInv'
  <1>0. RequestsInv /\ FlowsInv /\ StatusFollowsApproval
    BY DEF ApprovalInv
  <1>1. CASE Submit(r) \/ Approve(r) \/ Reject(r) \/ BypassApproval(r) \/ ResetApprovals(r)
    BY <1>1, SubmitFollows, ApproveFollows, RejectFollows, BypassFollows, ResetFollows
  \* A status written by a request that is not stale may follow the one it read.
  <1>2. ASSUME NEW next \in {"idle", "lead"}, NEW s, Goto(r, next), WriteStatus({r}, s), flows' = flows,
               ~detached' => ~detached /\ r \notin stale,
               r \notin stale /\ ~detached' =>
                 s \notin Cleared \cup {"pending_approval"} \/ (s \in Cleared /\ status \in Cleared)
        PROVE  ApprovalInv'
    <2>1. RequestsInv'
      BY <1>0, <1>2, WriterAlone
    <2>2. status' = s
      BY <1>2 DEF WriteStatus
    <2>3. FlowsInv' /\ StatusFollowsApproval'
      BY <1>0, <1>2, <2>2, StatusWritten
    <2> QED BY <2>1, <2>3 DEF ApprovalInv
  <1>3. ASSUME NEW s, OnlyStatus(r, s),
               r \notin stale => s \notin Cleared \cup {"pending_approval"}
                                 \/ (s \in Cleared /\ status \in Cleared)
        PROVE  ApprovalInv'
    <2>1. Goto(r, "idle") /\ WriteStatus({r}, s) /\ flows' = flows /\ Detach(r)
      BY <1>3 DEF OnlyStatus
    <2>2. ~detached' => ~detached /\ r \notin stale
      BY <2>1 DEF Detach
    <2> QED BY <1>2, <1>3, <2>1, <2>2
  <1>4. CASE RestoreVersion(r)
    BY <1>3, <1>4 DEF RestoreVersion, Cleared
  <1>5. CASE GeneratePublicUrl(r) \/ LogView(r) \/ EmailEvent(r) \/ MarkSent(r)
    <2>1. pc[r] = "write" /\ loc[r].op \in {"link", "view", "event", "bounce", "email"}
      BY <1>5 DEF GeneratePublicUrl, LogView, EmailEvent, MarkSent, Writing
    <2>2. r \notin stale => status \in Cleared
      BY <1>0, <2>1 DEF RequestsInv, RequestOK, StillHolds, Writing, Cleared
    <2>3. OnlyStatus(r, "out") \/ OnlyStatus(r, "email_failed")
      BY <1>5 DEF GeneratePublicUrl, LogView, EmailEvent, MarkSent
    <2>4. "out" \in Cleared /\ "email_failed" \in Cleared
      BY DEF Cleared
    <2> QED BY <1>3, <2>2, <2>3, <2>4
  <1>6. CASE UpdateStatus(r)
    <2> DEFINE next == IF loc[r].to \in Won \cup {"out"} THEN "lead" ELSE "idle"
    <2>1. /\ Writing(r, "set") /\ WriteStatus({r}, loc[r].to) /\ Goto(r, next) /\ flows' = flows
          /\ detached' = (detached \/ r \in stale \/ loc[r].to \in {"ready", "pending_approval"})
      BY <1>6 DEF UpdateStatus
    <2>2. next \in {"idle", "lead"}
      OBVIOUS
    <2>3. ASSUME r \notin stale, loc[r].to \notin {"ready", "pending_approval"}
          PROVE  \/ loc[r].to \notin Cleared \cup {"pending_approval"}
                 \/ loc[r].to \in Cleared /\ status \in Cleared
      <3>1. loc[r].to \in ValidTransitions(status) /\ status \in Statuses
        BY <1>0, <2>1, <2>3 DEF RequestsInv, StillHolds, Writing, ControlTypeOK
      <3>2. CASE status \in {"draft", "pending_approval", "closed"}
        <4>1. ValidTransitions(status) \subseteq {"pending_approval", "ready", "draft"}
          BY <3>2 DEF ValidTransitions, Won
        <4> QED BY <2>3, <3>1, <4>1 DEF Cleared
      <3>3. CASE status \notin {"draft", "pending_approval", "closed"}
        <4>1. status \in Cleared
          BY <3>1, <3>3 DEF Statuses, Cleared
        <4> QED BY <4>1, <2>3
      <3> QED BY <3>2, <3>3
    <2> HIDE DEF next
    <2> QED BY <1>2, <2>1, <2>2, <2>3
  <1>7. ASSUME Goto(r, "idle"), UNCHANGED <<status, flows, stale, detached>> PROVE ApprovalInv'
    <2>1. Rows' = Rows
      BY <1>7 DEF Rows
    <2>2. RequestsInv'
      BY <1>0, <1>7, <2>1, EndKeeps
    <2> QED BY <1>0, <1>7, <2>2, NothingWritten DEF ApprovalInv
  <1>8. CASE DecideGone(r) \/ UpdateLead(r) \/ EmailRefused(r) \/ RequestFails(r)
    BY <1>7, <1>8 DEF DecideGone, UpdateLead, EmailRefused, RequestFails
  <1>9. CASE QueueEmail(r)
    <2>1. UNCHANGED <<status, flows, stale, detached>> /\ pc[r] = "queue" /\ loc[r].op = "email"
      BY <1>0, <1>9 DEF QueueEmail, RequestsInv, RequestOK
    <2>2. CASE loc[r].seen # "ready"
      BY <1>7, <1>9, <2>1, <2>2 DEF QueueEmail
    <2>3. CASE loc[r].seen = "ready"
      <3>1. pc'[r] = "write" /\ loc'[r] = loc[r]
            /\ \A s \in Requests \ {r} : pc'[s] = pc[s] /\ loc'[s] = loc[s]
        BY <1>9, <2>3 DEF QueueEmail, Goto, ControlTypeOK
      <3>2. Rows' = Rows
        BY <2>1 DEF Rows
      <3>3. RequestOK(r)'
        BY <2>1, <2>3, <3>1 DEF RequestOK, Writing
      <3>4. \A s \in Requests \ {r} : RequestOK(s)'
        BY <1>0, <2>1, <3>1, RequestKept DEF RequestsInv
      <3>5. ASSUME NEW s \in Requests, pc'[s] \in {"queue", "write"}, s \notin stale'
            PROVE  StillHolds(s)'
        BY <1>0, <2>1, <3>1, <3>2, <3>5, OthersKept DEF RequestsInv
      <3> QED BY <1>0, <2>1, <3>3, <3>4, <3>5, NothingWritten DEF ApprovalInv, RequestsInv
    <2> QED BY <2>2, <2>3
  <1> QED BY <1>1, <1>4, <1>5, <1>6, <1>8, <1>9 DEF Proceed

\* A quote is ready or beyond only when the last workflow it was submitted to is
\* approved at every level, and waits for approval only while one is pending,
\* however requests, the e-mail job and failures interleave, with the provisos
\* of the property.
THEOREM StatusFollows == Spec => []StatusFollowsApproval
  <1>1. Init => ApprovalInv
    BY DEF Init, ApprovalInv, RequestsInv, RequestOK, Writing, FlowsInv, Rows, Cleared,
           StatusFollowsApproval
  <1>2. ControlTypeOK /\ ControlTypeOK' /\ ApprovalInv /\ [Next]_vars => ApprovalInv'
    <2> SUFFICES ASSUME ControlTypeOK, ControlTypeOK', ApprovalInv, [Next]_vars
                 PROVE  ApprovalInv'
      OBVIOUS
    <2>0. RequestsInv /\ FlowsInv /\ StatusFollowsApproval
      BY DEF ApprovalInv
    <2>1. CASE \E r \in Requests, l \in Calls : Begin(r, l)
      BY <2>1, BeginFollows
    <2>2. CASE \E r \in Requests : Proceed(r)
      BY <2>2, ProceedFollows
    <2>3. ASSUME UNCHANGED <<status, flows, stale, detached, pc, loc>> PROVE ApprovalInv'
      <3>1. Rows' = Rows
        BY <2>3 DEF Rows
      <3>2. \A s \in Requests : RequestOK(s)'
        BY <2>0, <2>3, RequestKept DEF RequestsInv
      <3>3. ASSUME NEW s \in Requests, pc'[s] \in {"queue", "write"}, s \notin stale'
            PROVE  StillHolds(s)'
        BY <2>0, <2>3, <3>1, <3>3, OthersKept DEF RequestsInv
      <3> QED BY <2>0, <2>3, <3>2, <3>3, NothingWritten DEF ApprovalInv, RequestsInv
    <2>4. CASE SendMail \/ MarkMail \/ ReadQuote \/ JobFails
      BY <2>3, <2>4 DEF SendMail, MarkMail, ReadQuote, JobFails, requestSide
    <2>5. CASE MarkQuote
      <3>1. /\ UNCHANGED <<flows, pc, loc>> /\ WriteStatus({}, "out")
            /\ detached' = (detached \/ status # "ready")
        BY <2>5 DEF MarkQuote, requestSide
      <3>2. \A s \in Requests : RequestOK(s)'
        BY <2>0, <3>1, RequestKept DEF RequestsInv
      <3>3. \A s \in Requests : pc'[s] \in {"queue", "write"} => s \in stale'
        BY <3>1 DEF WriteStatus
      <3>4. status' = "out" /\ "out" \in Cleared /\ "ready" \in Cleared
        BY <3>1 DEF WriteStatus, Cleared
      <3>5. FlowsInv' /\ StatusFollowsApproval'
        BY <2>0, <3>1, <3>4, StatusWritten
      <3> QED BY <3>2, <3>3, <3>5 DEF ApprovalInv, RequestsInv
    <2>6. CASE Restart
      <3>1. UNCHANGED <<status, flows, detached>> /\ \A s \in Requests : pc'[s] = "idle"
        BY <2>6 DEF Restart
      <3>2. RequestsInv'
        BY <3>1 DEF RequestsInv, RequestOK, Writing
      <3> QED BY <2>0, <3>1, <3>2, NothingWritten DEF ApprovalInv
    <2>7. CASE UNCHANGED vars
      BY <2>3, <2>7 DEF vars
    <2> QED BY <2>1, <2>2, <2>4, <2>5, <2>6, <2>7 DEF Next, WorkerStep
  <1>3. ApprovalInv => StatusFollowsApproval
    BY DEF ApprovalInv
  <1> QED BY <1>1, <1>2, <1>3, TypeCorrect, PTL DEF Spec
=============================================================================
