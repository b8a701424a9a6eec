---------------------------- MODULE ProjectInvoice ----------------------------
(***************************************************************************)
(* The invoices of one tenant's projects: invoice rows with their money    *)
(* columns, payments, the draw milestones invoices are generated from, and *)
(* the tenant's invoice number counter.                                    *)
(*                                                                         *)
(* Every handler reads the row it is about first, decides on what it read, *)
(* and writes in a later step: a single update, or a $transaction whose    *)
(* writes commit together.  A transaction that also reads takes its        *)
(* snapshot in a step before its commit (MySQL, REPEATABLE READ).  Money   *)
(* is counted in cents.  Requests that are refused are no steps.           *)
(***************************************************************************)
EXTENDS Integers, FiniteSets, Functions, TLC

CONSTANTS
  Invoices,     \* identities of project_invoice rows
  Payments,     \* identities of project_invoice_payment rows
  Milestones,   \* identities of project_draw_milestone rows
  Requests,     \* slots for HTTP requests in flight
  Null,         \* the database NULL
  Ops,          \* the operations a run may start
  Faults,       \* subset of {"error", "crash"}
  Serial,       \* TRUE: a handler starts only when no other is in flight
  Amounts,      \* amounts of invoices, milestones and payments
  Taxes         \* tax amounts; a missing one counts as 0

ASSUME RowsAssumption ==
  /\ Null \notin Invoices \cup Payments \cup Milestones \cup Nat
  /\ \A T \in {Invoices, Payments, Milestones, Requests} : IsFiniteSet(T)
ASSUME MoneyAssumption ==
  /\ Amounts \subseteq Nat \ {0}
  /\ Taxes \subseteq Nat
  /\ Serial \in BOOLEAN

VARIABLES
  invoices,    \* table project_invoice ("none": no such row yet, "deleted": gone)
  money,       \* its columns amount, tax_amount, amount_paid and amount_due
  payments,    \* table project_invoice_payment
  milestones,  \* table project_draw_milestone
  nextNumber,  \* tenant.next_invoice_number
  pc,          \* where each slot is
  loc,         \* the local variables of each slot
  cash         \* the amounts each slot was given, has read or has summed

vars == <<invoices, money, payments, milestones, nextNumber, pc, loc, cash>>

NoInvoice   == [status |-> "none", number |-> 0, milestone |-> Null, sent |-> FALSE]
NoMoney     == [amount |-> 0, tax |-> 0, paid |-> 0, due |-> 0]
NoPayment   == [status |-> "none", invoice |-> Null, amount |-> 0]
NoMilestone == [status |-> "none", amount |-> 0, invoice |-> Null]
NoLocals    == [iid |-> Null, mid |-> Null, pid |-> Null, row |-> NoInvoice, number |-> 0]
NoCash      == [amount |-> Null, tax |-> Null, was |-> NoMoney, sum |-> 0]

Init ==
  /\ invoices = [i \in Invoices |-> NoInvoice]
  /\ money = [i \in Invoices |-> NoMoney]
  /\ payments = [p \in Payments |-> NoPayment]
  /\ milestones = [m \in Milestones |-> NoMilestone]
  /\ nextNumber = 1
  /\ pc = [w \in Requests |-> "idle"]
  /\ loc = [w \in Requests |-> NoLocals]
  /\ cash = [w \in Requests |-> NoCash]

-----------------------------------------------------------------------------
(* Rows and slots *)

Gone == {"none", "deleted"}
InvoiceExists(i) == i \in Invoices /\ invoices[i].status \notin Gone
MilestoneExists(m) == m \in Milestones /\ milestones[m].status \notin Gone
PaymentsOf(i) == {p \in Payments : payments[p].status = "live" /\ payments[p].invoice = i}
PaymentSum(S) == SumFunctionOnSet([p \in Payments |-> payments[p].amount], S)
Total(m) == m.amount + m.tax

Begin(w, op) ==
  /\ op \in Ops
  /\ pc[w] = "idle"
  /\ Serial => \A v \in Requests : pc[v] = "idle"

Goto(w, label, locals, amounts) ==
  /\ pc' = [pc EXCEPT ![w] = label]
  /\ loc' = [loc EXCEPT ![w] = locals]
  /\ cash' = [cash EXCEPT ![w] = amounts]

Finish(w) == Goto(w, "idle", NoLocals, NoCash)

Database == <<invoices, money, payments, milestones, nextNumber>>

(* The handler reads invoice i and goes on with what it read.              *)
ReadInvoice(w, i, label, pid, amounts) ==
  /\ InvoiceExists(i)
  /\ Goto(w, label, [NoLocals EXCEPT !.iid = i, !.pid = pid, !.row = invoices[i]],
          [amounts EXCEPT !.was = money[i]])
  /\ UNCHANGED Database

(* A transaction that throws changes nothing, and the handler ends.        *)
Rollback(w) == Finish(w) /\ UNCHANGED Database

(* The milestone a transaction updates, if any, still exists; if it was    *)
(* deleted, the update by id throws and the transaction rolls back.        *)
LinkAlive(m) == m = Null \/ MilestoneExists(m)

Relink(m, status, invoice) ==
  milestones' = IF m = Null THEN milestones
                ELSE [milestones EXCEPT ![m] = [@ EXCEPT !.status = status, !.invoice = invoice]]
Restate(m, status) ==
  milestones' = IF m = Null THEN milestones ELSE [milestones EXCEPT ![m].status = status]

-----------------------------------------------------------------------------
(* Numbers and new invoices *)

(* The plain read of the counter at the start of the transaction.          *)
CreateRead(w, amount, tax) ==
  /\ Begin(w, "create")
  /\ Goto(w, "create_commit", [NoLocals EXCEPT !.number = nextNumber],
          [NoCash EXCEPT !.amount = amount, !.tax = tax])
  /\ UNCHANGED Database

(* Numbers are compared without the tenant's prefix, which stays the same. *)
NumberTaken(n) == \E i \in Invoices : InvoiceExists(i) /\ invoices[i].number = n

Draft(l) == [NoInvoice EXCEPT !.status = "draft", !.number = l.number, !.milestone = l.mid]
Unpaid(c) == [amount |-> c.amount, tax |-> c.tax, paid |-> 0, due |-> c.amount + c.tax]

MutInsertInvoice(w, i) ==
  /\ invoices[i].status = "none"
  /\ invoices' = [invoices EXCEPT ![i] = Draft(loc[w])]
  /\ money' = [money EXCEPT ![i] = Unpaid(cash[w])]
  /\ nextNumber' = loc[w].number + 1

(* The counter and the row, under the unique key on the invoice number.    *)
InsertInvoice(w, i) ==
  /\ invoices[i].status = "none"
  /\ ~NumberTaken(loc[w].number)
  /\ invoices' = [invoices EXCEPT ![i] = Draft(loc[w])]
  /\ money' = [money EXCEPT ![i] = Unpaid(cash[w])]
  /\ nextNumber' = loc[w].number + 1

CreateCommit(w) ==
  /\ pc[w] = "create_commit"
  /\ \/ /\ \E i \in Invoices : InsertInvoice(w, i)
        /\ Finish(w)
        /\ UNCHANGED <<payments, milestones>>
     \/ NumberTaken(loc[w].number) /\ Rollback(w)

(* generateInvoice looks at the milestone before its transaction.          *)
GenerateRead(w, m, tax) ==
  /\ Begin(w, "generate")
  /\ milestones[m].status = "pending"
  /\ Goto(w, "gen_number", [NoLocals EXCEPT !.mid = m],
          [NoCash EXCEPT !.amount = milestones[m].amount, !.tax = tax])
  /\ UNCHANGED Database

GenerateNumber(w) ==
  /\ pc[w] = "gen_number"
  /\ Goto(w, "gen_commit", [loc[w] EXCEPT !.number = nextNumber], cash[w])
  /\ UNCHANGED Database

GenerateCommit(w) ==
  /\ pc[w] = "gen_commit"
  /\ \/ /\ MilestoneExists(loc[w].mid)
        /\ \E i \in Invoices : InsertInvoice(w, i) /\ Relink(loc[w].mid, "invoiced", i)
        /\ Finish(w)
        /\ UNCHANGED payments
     \/ /\ NumberTaken(loc[w].number) \/ ~MilestoneExists(loc[w].mid)
        /\ Rollback(w)

(* Bound: an invoice is begun only while an unused row is left for it.     *)
InvoiceRowLeft ==
  Cardinality({i \in Invoices : invoices[i].status = "none"})
    > Cardinality({w \in Requests : pc[w] \in {"create_commit", "gen_number", "gen_commit"}})

-----------------------------------------------------------------------------
(* Editing, sending and voiding *)

UpdateRead(w, i, amount, tax) ==
  /\ Begin(w, "update")
  /\ invoices[i].status = "draft"
  /\ amount # Null \/ tax # Null
  /\ ReadInvoice(w, i, "update_write", Null, [NoCash EXCEPT !.amount = amount, !.tax = tax])

Given(value, old) == IF value # Null THEN value ELSE old

(* The fields of the request, and amount_due from the row as it was read.  *)
UpdateWrite(w) ==
  /\ pc[w] = "update_write"
  /\ LET i == loc[w].iid
         c == cash[w]
     IN \/ /\ InvoiceExists(i)
           /\ money' = [money EXCEPT ![i] =
                [amount |-> Given(c.amount, @.amount), tax |-> Given(c.tax, @.tax), paid |-> @.paid,
                 due |-> Given(c.amount, c.was.amount) + Given(c.tax, c.was.tax) - c.was.paid]]
           /\ Finish(w)
           /\ UNCHANGED <<invoices, payments, milestones, nextNumber>>
        \/ ~InvoiceExists(i) /\ Rollback(w)

SendRead(w, i) ==
  /\ Begin(w, "send")
  /\ invoices[i].status = "draft"
  /\ ReadInvoice(w, i, "send_write", Null, NoCash)

SendWrite(w) ==
  /\ pc[w] = "send_write"
  /\ LET i == loc[w].iid IN
       \/ /\ InvoiceExists(i)
          /\ invoices' = [invoices EXCEPT ![i] = [@ EXCEPT !.status = "sent", !.sent = TRUE]]
          /\ Finish(w)
          /\ UNCHANGED <<money, payments, milestones, nextNumber>>
       \/ ~InvoiceExists(i) /\ Rollback(w)

VoidRead(w, i) ==
  /\ Begin(w, "void")
  /\ invoices[i].status # "voided"
  /\ ReadInvoice(w, i, "void_commit", Null, NoCash)

MutVoidCommit(w) ==
  /\ pc[w] = "void_commit"
  /\ \/ /\ InvoiceExists(loc[w].iid)
        /\ invoices' = [invoices EXCEPT ![loc[w].iid].status = "voided"]
        /\ Finish(w)
        /\ UNCHANGED <<money, payments, milestones, nextNumber>>
     \/ ~InvoiceExists(loc[w].iid) /\ Rollback(w)

VoidCommit(w) ==
  /\ pc[w] = "void_commit"
  /\ LET i == loc[w].iid
         m == loc[w].row.milestone
     IN \/ /\ InvoiceExists(i) /\ LinkAlive(m)
           /\ invoices' = [invoices EXCEPT ![i].status = "voided"]
           /\ Relink(m, "pending", Null)
           /\ Finish(w)
           /\ UNCHANGED <<money, payments, nextNumber>>
        \/ ~(InvoiceExists(i) /\ LinkAlive(m)) /\ Rollback(w)

-----------------------------------------------------------------------------
(* Payments *)

MutPayRead(w, i, amount) ==
  /\ Begin(w, "pay")
  /\ invoices[i].status # "voided"
  /\ ReadInvoice(w, i, "pay_commit", Null, [NoCash EXCEPT !.amount = amount])

PayRead(w, i, amount) ==
  /\ Begin(w, "pay")
  /\ invoices[i].status # "voided"
  /\ amount <= money[i].due
  /\ ReadInvoice(w, i, "pay_commit", Null, [NoCash EXCEPT !.amount = amount])

MutPaidStatus(row, paid, due) ==
  CASE due < 0  -> "paid"
    [] due >= 0 /\ paid > 0 -> "partial"
    [] OTHER    -> row.status

PaidStatus(row, paid, due) ==
  CASE due <= 0 -> "paid"
    [] due > 0 /\ paid > 0 -> "partial"
    [] OTHER    -> row.status

MutSettle(i, paid, due, status) ==
  /\ money' = [money EXCEPT ![i] = [@ EXCEPT !.paid = paid]]
  /\ invoices' = [invoices EXCEPT ![i].status = status]

(* The money columns and the status of the invoice, written together.      *)
Settle(i, paid, due, status) ==
  /\ money' = [money EXCEPT ![i] = [@ EXCEPT !.paid = paid, !.due = due]]
  /\ invoices' = [invoices EXCEPT ![i].status = status]

PayCommit(w) ==
  /\ pc[w] = "pay_commit"
  /\ LET l == loc[w]
         paid == cash[w].was.paid + cash[w].amount
         due == Total(cash[w].was) - paid
         status == PaidStatus(l.row, paid, due)
         m == IF status = "paid" THEN l.row.milestone ELSE Null
     IN \/ /\ InvoiceExists(l.iid) /\ LinkAlive(m)
           /\ \E p \in Payments :
                /\ payments[p].status = "none"
                /\ payments' = [payments EXCEPT ![p] =
                     [status |-> "live", invoice |-> l.iid, amount |-> cash[w].amount]]
           /\ Settle(l.iid, paid, due, status)
           /\ Restate(m, "paid")
           /\ Finish(w)
           /\ UNCHANGED nextNumber
        \/ ~(InvoiceExists(l.iid) /\ LinkAlive(m)) /\ Rollback(w)

(* Bound: a payment is begun only while an unused row is left for it.      *)
PaymentRowLeft ==
  Cardinality({p \in Payments : payments[p].status = "none"})
    > Cardinality({w \in Requests : pc[w] = "pay_commit"})

DeletePaymentRead(w, i, p) ==
  /\ Begin(w, "delete_payment")
  /\ p \in PaymentsOf(i)
  /\ ReadInvoice(w, i, "dp_sum", p, NoCash)

MutDeletePaymentSum(w) ==
  /\ pc[w] = "dp_sum"
  /\ Goto(w, "dp_commit", loc[w], [cash[w] EXCEPT !.sum = PaymentSum(PaymentsOf(loc[w].iid))])
  /\ UNCHANGED Database

(* The remaining payments as the transaction's snapshot shows them.        *)
DeletePaymentSum(w) ==
  /\ pc[w] = "dp_sum"
  /\ Goto(w, "dp_commit", loc[w],
          [cash[w] EXCEPT !.sum = PaymentSum(PaymentsOf(loc[w].iid) \ {loc[w].pid})])
  /\ UNCHANGED Database

DeletePaymentCommit(w) ==
  /\ pc[w] = "dp_commit"
  /\ LET l == loc[w]
         sum == cash[w].sum
         due == Total(cash[w].was) - sum
         status == CASE sum <= 0 -> IF l.row.sent THEN "sent" ELSE "draft"
                     [] sum > 0 /\ due <= 0 -> "paid"
                     [] OTHER -> "partial"
         m == IF l.row.status = "paid" /\ status # "paid" THEN l.row.milestone ELSE Null
     IN \/ /\ payments[l.pid].status = "live" /\ InvoiceExists(l.iid) /\ LinkAlive(m)
           /\ payments' = [payments EXCEPT ![l.pid].status = "deleted"]
           /\ Settle(l.iid, sum, due, status)
           /\ Restate(m, "invoiced")
           /\ Finish(w)
           /\ UNCHANGED nextNumber
        \/ /\ ~(payments[l.pid].status = "live" /\ InvoiceExists(l.iid) /\ LinkAlive(m))
           /\ Rollback(w)

-----------------------------------------------------------------------------
(* Deleting an invoice *)

DeleteInvoiceRead(w, i) ==
  /\ Begin(w, "delete_invoice")
  /\ ReadInvoice(w, i, "di_commit", Null, NoCash)

(* Its milestone and every milestone that points to it are reset; payments *)
(* go with the row (ON DELETE CASCADE).                                    *)
DeleteInvoiceCommit(w) ==
  /\ pc[w] = "di_commit"
  /\ LET i == loc[w].iid
         m == loc[w].row.milestone
     IN \/ /\ InvoiceExists(i) /\ LinkAlive(m)
           /\ milestones' = [k \in Milestones |->
                IF k = m \/ milestones[k].invoice = i
                THEN [milestones[k] EXCEPT !.status = "pending", !.invoice = Null]
                ELSE milestones[k]]
           /\ payments' = [p \in Payments |->
                IF p \in PaymentsOf(i) THEN [payments[p] EXCEPT !.status = "deleted"] ELSE payments[p]]
           /\ invoices' = [invoices EXCEPT ![i].status = "deleted"]
           /\ Finish(w)
           /\ UNCHANGED <<money, nextNumber>>
        \/ ~(InvoiceExists(i) /\ LinkAlive(m)) /\ Rollback(w)

-----------------------------------------------------------------------------
(* Milestones *)

(* create, or seedFromQuote for the rows of a draw schedule.               *)
CreateMilestones(new) ==
  /\ "create_milestone" \in Ops
  /\ Serial => \A v \in Requests : pc[v] = "idle"
  /\ \A m \in DOMAIN new : milestones[m].status = "none"
  /\ milestones' = [m \in Milestones |-> IF m \in DOMAIN new
       THEN [status |-> "pending", amount |-> new[m], invoice |-> Null] ELSE milestones[m]]
  /\ UNCHANGED <<invoices, money, payments, nextNumber, pc, loc, cash>>

UpdateMilestoneRead(w, m, amount) ==
  /\ Begin(w, "update_milestone")
  /\ milestones[m].status = "pending"
  /\ Goto(w, "um_write", [NoLocals EXCEPT !.mid = m], [NoCash EXCEPT !.amount = amount])
  /\ UNCHANGED Database

UpdateMilestoneWrite(w) ==
  /\ pc[w] = "um_write"
  /\ \/ /\ MilestoneExists(loc[w].mid)
        /\ milestones' = [milestones EXCEPT ![loc[w].mid].amount = cash[w].amount]
        /\ Finish(w)
        /\ UNCHANGED <<invoices, money, payments, nextNumber>>
     \/ ~MilestoneExists(loc[w].mid) /\ Rollback(w)

DeleteMilestoneRead(w, m) ==
  /\ Begin(w, "delete_milestone")
  /\ milestones[m].status = "pending"
  /\ Goto(w, "dm_write", [NoLocals EXCEPT !.mid = m], NoCash)
  /\ UNCHANGED Database

(* The invoices' reference to the milestone is set to NULL (foreign key).  *)
DeleteMilestoneWrite(w) ==
  /\ pc[w] = "dm_write"
  /\ LET m == loc[w].mid IN
       \/ /\ MilestoneExists(m)
          /\ milestones' = [milestones EXCEPT ![m].status = "deleted"]
          /\ invoices' = [i \in Invoices |-> IF invoices[i].milestone = m
               THEN [invoices[i] EXCEPT !.milestone = Null] ELSE invoices[i]]
          /\ Finish(w)
          /\ UNCHANGED <<money, payments, nextNumber>>
       \/ ~MilestoneExists(m) /\ Rollback(w)

-----------------------------------------------------------------------------
(* The system *)

(* A database call fails, or InnoDB aborts the transaction: no handler     *)
(* catches it, and none of its writes is left.                             *)
DbError(w) ==
  /\ "error" \in Faults
  /\ pc[w] # "idle"
  /\ Rollback(w)

(* The process is restarted: every handler in flight is gone.              *)
Crash ==
  /\ "crash" \in Faults
  /\ \E w \in Requests : pc[w] # "idle"
  /\ pc' = [w \in Requests |-> "idle"]
  /\ loc' = [w \in Requests |-> NoLocals]
  /\ cash' = [w \in Requests |-> NoCash]
  /\ UNCHANGED Database

Wait ==
  /\ \A w \in Requests : pc[w] = "idle"
  /\ UNCHANGED vars

HandlerStep(w) ==
  \/ CreateCommit(w)
  \/ GenerateNumber(w) \/ GenerateCommit(w)
  \/ UpdateWrite(w) \/ SendWrite(w) \/ VoidCommit(w)
  \/ PayCommit(w)
  \/ DeletePaymentSum(w) \/ DeletePaymentCommit(w)
  \/ DeleteInvoiceCommit(w)
  \/ UpdateMilestoneWrite(w) \/ DeleteMilestoneWrite(w)

Arrive(w) ==
  \/ InvoiceRowLeft /\ \E amount \in Amounts, tax \in Taxes : CreateRead(w, amount, tax)
  \/ InvoiceRowLeft /\ \E m \in Milestones, tax \in Taxes : GenerateRead(w, m, tax)
  \/ \E i \in Invoices :
       \/ \E amount \in Amounts \cup {Null}, tax \in Taxes \cup {Null} : UpdateRead(w, i, amount, tax)
       \/ SendRead(w, i)
       \/ VoidRead(w, i)
       \/ PaymentRowLeft /\ \E amount \in Amounts : PayRead(w, i, amount)
       \/ \E p \in Payments : DeletePaymentRead(w, i, p)
       \/ DeleteInvoiceRead(w, i)
  \/ \E m \in Milestones :
       \/ \E amount \in Amounts : UpdateMilestoneRead(w, m, amount)
       \/ DeleteMilestoneRead(w, m)

NewMilestones == UNION {[ids -> Amounts] : ids \in SUBSET Milestones \ {{}}}

Next ==
  \/ \E w \in Requests : Arrive(w) \/ HandlerStep(w) \/ DbError(w)
  \/ \E new \in NewMilestones : CreateMilestones(new)
  \/ Crash
  \/ Wait

Spec == Init /\ [][Next]_vars

-----------------------------------------------------------------------------
(* Type correctness *)

InvoiceStatuses == {"draft", "sent", "partial", "paid", "voided"}
InvoiceRows == [status : InvoiceStatuses \cup Gone, number : Nat, milestone : Milestones \cup {Null},
                sent : BOOLEAN]
Locals == [iid : Invoices \cup {Null}, mid : Milestones \cup {Null}, pid : Payments \cup {Null},
           row : InvoiceRows, number : Nat]

HasAmounts == {"create_commit", "gen_number", "gen_commit"}
HasInvoice == {"update_write", "send_write", "void_commit", "pay_commit", "dp_sum", "dp_commit", "di_commit"}
HasMilestone == {"gen_number", "gen_commit", "um_write", "dm_write"}
Labels == {"idle"} \cup HasAmounts \cup HasInvoice \cup HasMilestone

(* The slot holds the rows that its next step reads.                       *)
LocalsSet(w) ==
  /\ pc[w] \in HasInvoice => loc[w].iid # Null /\ loc[w].row.status \notin Gone
  /\ pc[w] \in HasMilestone => loc[w].mid # Null
  /\ pc[w] \in {"dp_sum", "dp_commit"} => loc[w].pid # Null

ControlTypeOK ==
  /\ invoices \in [Invoices -> InvoiceRows]
  /\ nextNumber \in Nat \ {0}
  /\ pc \in [Requests -> Labels]
  /\ loc \in [Requests -> Locals]
  /\ \A w \in Requests : LocalsSet(w)

-----------------------------------------------------------------------------
(* What holds however handlers interleave *)

(* InvoiceNumberGeneratorService: a new invoice takes the counter's value  *)
(* and the counter moves on by one, although the counter is read without a *)
(* lock: the unique key refuses every stale number.                        *)
SequentialNumbers ==
  [][\A i \in Invoices : (~InvoiceExists(i) /\ InvoiceExists(i)')
        => invoices'[i].number = nextNumber /\ nextNumber' = nextNumber + 1]_vars

(* amount_due is what is left of the total after amount_paid, whichever of *)
(* two overlapping payments writes the money columns last.                 *)
BalanceKept ==
  \A i \in Invoices : InvoiceExists(i) => money[i].due = Total(money[i]) - money[i].paid

(* No invoice shows more money paid than it asks for (recordPayment's      *)
(* guard is on the row as read; so is what it writes).  Deleting a payment *)
(* sums up the others, and so brings to light payments that overlapped.    *)
PaidWithinTotal ==
  \A i \in Invoices :
    InvoiceExists(i) /\ (\A p \in Payments : payments[p].invoice = i => payments[p].status # "deleted") =>
      money[i].paid \in 0..Total(money[i])

-----------------------------------------------------------------------------
(* What holds when handlers do not overlap *)

(* amount_paid is the sum of the invoice's payments (recordPayment,        *)
(* deletePayment, and the cascade of deleteInvoice).                       *)
PaidIsSumOfPayments ==
  \A i \in Invoices : InvoiceExists(i) => money[i].paid = PaymentSum(PaymentsOf(i))

(* The status tells how much is paid: an invoice that is not voided is     *)
(* draft or sent before the first payment, partial while an amount is due, *)
(* paid when nothing is; sent_at decides what deletePayment falls back to. *)
StatusFollowsMoney ==
  \A i \in Invoices : InvoiceExists(i) /\ invoices[i].status # "voided" =>
    invoices[i].status = CASE money[i].paid = 0 -> IF invoices[i].sent THEN "sent" ELSE "draft"
                           [] money[i].paid # 0 /\ money[i].due <= 0 -> "paid"
                           [] OTHER -> "partial"

LiveInvoices(m) ==
  {i \in Invoices : InvoiceExists(i) /\ invoices[i].milestone = m /\ invoices[i].status # "voided"}

(* Deletions leave a milestone and its invoices apart: deletePayment makes *)
(* a voided invoice count again, deleteInvoice frees a milestone that went *)
(* on to another invoice.                                                  *)
NothingDeleted ==
  /\ \A i \in Invoices : invoices[i].status # "deleted"
  /\ \A p \in Payments : payments[p].status # "deleted"

(* Sprint F-08, rule 3: until an invoice or a payment is deleted, a        *)
(* milestone has at most one invoice that counts, and follows it: pending  *)
(* without one, invoiced with one that is not paid in full, paid with one  *)
(* that is.                                                                *)
MilestoneFollowsInvoice ==
  NothingDeleted => \A m \in Milestones :
    /\ Cardinality(LiveInvoices(m)) <= 1
    /\ CASE milestones[m].status = "pending"  -> LiveInvoices(m) = {}
         [] milestones[m].status = "invoiced" ->
              \E i \in LiveInvoices(m) : milestones[m].invoice = i /\ invoices[i].status # "paid"
         [] milestones[m].status = "paid"     ->
              \E i \in LiveInvoices(m) : milestones[m].invoice = i /\ invoices[i].status = "paid"
         [] OTHER -> TRUE
=============================================================================
